------------------------------ MODULE Realtime ------------------------------
(***************************************************************************)
(* The realtime market provider (data/realtime.py): requests for a market  *)
(* snapshot that overlap, each gathering indexes, breadth and sectors at   *)
(* once.  Breadth, sectors and the local fallback run in one-worker slots  *)
(* that a request only tries to take, waits for at most a budget, and      *)
(* leaves behind; indexes and breadth share one CLS home request (single   *)
(* flight, short cache); a snapshot that is live throughout is retained    *)
(* for later requests.                                                     *)
(*                                                                         *)
(* A request is used once.  Of its parts only whether all were obtained    *)
(* live is kept; a CLS payload is named after the call that fetched it.    *)
(***************************************************************************)
EXTENDS Naturals, FiniteSets, FiniteSetsExt

CONSTANTS
  Requests,
  Parts,         \* what is gathered at once: indexes, breadth, sectors
  Slots,         \* those with a time budget, the local fallback among them
  None           \* nobody, nothing

Calls == Requests \X {"indexes", "breadth"}  \* of _fetch_cls_home_payload

ASSUME RequestAssumption == IsFiniteSet(Requests) /\ None \notin Requests \cup Calls
ASSUME PartAssumption    == /\ {"indexes", "breadth"} \subseteq Parts
                            /\ Parts \subseteq {"indexes", "breadth", "sectors"}
ASSUME SlotAssumption    == /\ Parts \ {"indexes"} \subseteq Slots
                            /\ Slots \subseteq {"breadth", "sectors", "local"}

VARIABLES
  generation,    \* _request_generation
  kept,          \* _last_snapshot_generation, of the retained snapshot (0: none)
  slot,          \* slot[s]: the request whose job holds the in-flight lock of s
  part,          \* part[r][s]: the wrapper of r around the slot s, and its job
  home,          \* _cls_home_cache and _cls_home_in_flight
  call,          \* call[c]: a caller of the CLS home request
  req            \* req[r]: the request r

gathering == <<slot, part>>
cls       == <<home, call>>
vars      == <<generation, kept, slot, part, home, call, req>>

Fresh == [wrap |-> "todo", job |-> "none"]
Quiet == [at |-> "none", from |-> None]
Blank(stage, gen) ==
  [at |-> stage, gen |-> gen,
   open |-> {},                  \* parts still gathered
   live |-> TRUE,                \* all parts so far were obtained
   old |-> {}]                   \* history: the payloads whose flight was over when it began

Init == /\ generation = 0
        /\ kept = 0
        /\ slot = [s \in Slots |-> None]
        /\ part = [r \in Requests |-> [s \in Slots |-> Fresh]]
        /\ home = [cache |-> None, flight |-> None]
        /\ call = [c \in Calls |-> Quiet]
        /\ req = [r \in Requests |-> Blank("idle", 0)]

-----------------------------------------------------------------------------
(* The beginning of a request.                                             *)

Begin(r) ==
  /\ req[r].at = "idle"
  /\ generation' = generation + 1
  /\ req' = [req EXCEPT ![r].at = "clear", ![r].gen = generation + 1]
  /\ UNCHANGED <<kept, gathering, cls>>

Ended(f)    == call[f].at = "done"       \* of a flight: its event is set
Answered(f) == call[f].from = f          \* its payload is set

Gather(r) ==
  /\ req' = [req EXCEPT ![r].at = "gather", ![r].open = Parts, 
                      ![r].old = {f \in Calls : Ended(f) /\ Answered(f)}]
  /\ call' = [call EXCEPT ![<<r, "indexes">>].at = "ask"]

ClearNothing(r) ==               \* mutant: what an earlier request fetched is taken
  /\ req[r].at = "clear" /\ Gather(r)
  /\ UNCHANGED <<generation, kept, gathering, home>>

Clear(r) ==
  /\ req[r].at = "clear" /\ Gather(r)
  /\ home' = [home EXCEPT !.cache = None]
  /\ UNCHANGED <<generation, kept, gathering>>

-----------------------------------------------------------------------------
(* The CLS home request: one flight at a time, whoever asks meanwhile       *)
(* waits for it.                                                           *)

CallEnds(c, payload) == call' = [call EXCEPT ![c] = [at |-> "done", from |-> payload]]
only_call == <<generation, kept, gathering, req>>

Cached(c) ==
  /\ call[c].at = "ask" /\ home.cache # None
  /\ CallEnds(c, home.cache)
  /\ UNCHANGED <<only_call, home>>

Join(c) ==
  /\ call[c].at = "ask" /\ home.cache = None /\ home.flight # None
  /\ call' = [call EXCEPT ![c] = [at |-> "wait", from |-> home.flight]]
  /\ UNCHANGED <<only_call, home>>

Lead(c) ==
  /\ call[c].at = "ask" /\ home.cache = None /\ home.flight = None
  /\ call' = [call EXCEPT ![c].at = "request"]
  /\ home' = [home EXCEPT !.flight = c]
  /\ UNCHANGED <<only_call>>

AskTooLate(c) ==                 \* the budget of the breadth job is used up
  /\ call[c].at = "ask" /\ c[2] = "breadth"
  /\ CallEnds(c, None)
  /\ UNCHANGED <<only_call, home>>

Answer(c) ==
  /\ call[c].at = "request"
  /\ home' = [home EXCEPT !.cache = c]
  /\ call' = [call EXCEPT ![c] = [at |-> "settle", from |-> c]]
  /\ UNCHANGED <<only_call>>

AnswerFails(c) ==                \* no answer, or one that does not validate
  /\ call[c].at = "request"
  /\ call' = [call EXCEPT ![c].at = "settle"]
  /\ UNCHANGED <<only_call, home>>

Settle(c) ==                     \* the finally block
  /\ call[c].at = "settle"
  /\ home' = [home EXCEPT !.flight = IF @ = c THEN None ELSE @]
  /\ CallEnds(c, call[c].from)
  /\ UNCHANGED <<only_call>>

Wake(c) ==
  /\ call[c].at = "wait" /\ Ended(call[c].from)
  /\ CallEnds(c, IF Answered(call[c].from) THEN call[c].from ELSE None)
  /\ UNCHANGED <<only_call, home>>

WaitInVain(c) == FALSE           \* mutant: waits without a time-out
WaitTimesOut(c) ==
  /\ call[c].at = "wait"
  /\ CallEnds(c, None)
  /\ UNCHANGED <<only_call, home>>

ExpireHome ==                    \* cls_home_cache_ttl
  /\ home.cache # None
  /\ home' = [home EXCEPT !.cache = None]
  /\ UNCHANGED <<only_call, call>>

CallStep(c) == \/ Cached(c) \/ Join(c) \/ Lead(c) \/ AskTooLate(c) \/ Answer(c) \/ AnswerFails(c) \/ Settle(c)
               \/ Wake(c) \/ WaitTimesOut(c)

\* The part s of the request is through, with or without a result.
Close(r, s, got) == req' = [req EXCEPT ![r].open = @ \ {s}, ![r].live = @ /\ got]

\* Indexes that CLS does not give are asked of Sina.
EndIndexes(r) ==
  /\ "indexes" \in req[r].open /\ call[<<r, "indexes">>].at = "done"
  /\ \E got \in BOOLEAN : Close(r, "indexes", got)
  /\ UNCHANGED <<generation, kept, gathering, cls>>

-----------------------------------------------------------------------------
(* The slots: _fetch_live_breadth_with_budget and its two siblings.         *)

Wants(r, s) == /\ part[r][s].wrap = "todo"
               /\ IF s = "local" THEN req[r].at = "local" ELSE s \in req[r].open

Take(r, s) ==
  /\ Wants(r, s) /\ slot[s] = None
  /\ slot' = [slot EXCEPT ![s] = r]
  /\ part' = [part EXCEPT ![r][s] = [wrap |-> "waiting", job |-> "queued"]]
  /\ UNCHANGED <<generation, kept, cls, req>>

SkipBusy(r, s) ==                \* the slot is taken: no waiting, no second thread
  /\ Wants(r, s) /\ slot[s] # None
  /\ part' = [part EXCEPT ![r][s].wrap = "over"]
  /\ Close(r, s, FALSE)
  /\ UNCHANGED <<generation, kept, slot, cls>>

StartJob(r, s) ==
  /\ part[r][s].job = "queued"
  /\ part' = [part EXCEPT ![r][s].job = "running"]
  /\ call' = IF s = "breadth" THEN [call EXCEPT ![<<r, s>>].at = "ask"] ELSE call
  /\ UNCHANGED <<generation, kept, slot, home, req>>

\* The job ends, however many other sources it tried; its callback frees the slot.
EndJob(r, s) ==
  /\ part[r][s].job = "running"
  /\ s = "breadth" => call[<<r, s>>].at = "done"
  /\ part' = [part EXCEPT ![r][s].job = "ended"]
  /\ slot' = [slot EXCEPT ![s] = None]
  /\ UNCHANGED <<generation, kept, cls, req>>

Collect(r, s) ==
  /\ part[r][s] = [wrap |-> "waiting", job |-> "ended"]
  /\ part' = [part EXCEPT ![r][s].wrap = "over"]
  /\ \E got \in BOOLEAN : Close(r, s, got)
  /\ UNCHANGED <<generation, kept, slot, cls>>

TimeOutFrees(r, s) ==            \* mutant: the request gives back what its job still uses
  /\ part[r][s].wrap = "waiting"
  /\ part' = [part EXCEPT ![r][s].wrap = "over"]
  /\ slot' = [slot EXCEPT ![s] = None]
  /\ Close(r, s, FALSE)
  /\ UNCHANGED <<generation, kept, cls>>

\* The budget is over: a job that has not started is cancelled (its callback frees
\* the slot), one that runs keeps the slot, and a late result is thrown away.
TimeOut(r, s) ==
  /\ part[r][s].wrap = "waiting"
  /\ IF part[r][s].job = "queued"
       THEN /\ part' = [part EXCEPT ![r][s] = [wrap |-> "over", job |-> "ended"]]
            /\ slot' = [slot EXCEPT ![s] = None]
       ELSE /\ part' = [part EXCEPT ![r][s].wrap = "over"]
            /\ UNCHANGED slot
  /\ Close(r, s, FALSE)
  /\ UNCHANGED <<generation, kept, cls>>

-----------------------------------------------------------------------------
(* The rest of a request.                                                  *)

\* When the three parts are in, what is missing wants a local snapshot.
Gathered(r) ==
  /\ req[r].at = "gather" /\ req[r].open = {}
  /\ req' = [req EXCEPT ![r].at = IF req[r].live THEN "publish" ELSE "local"]
  /\ UNCHANGED <<generation, kept, gathering, cls>>

LocalOver(r) ==
  /\ req[r].at = "local" /\ ("local" \in Slots => part[r]["local"].wrap = "over")
  /\ req' = [req EXCEPT ![r].at = "publish"]
  /\ UNCHANGED <<generation, kept, gathering, cls>>

NewerAlways(r) == TRUE           \* mutant: the last to end is kept
Newer(r) == req[r].gen > kept

\* Stale: a part is missing, or all were obtained live but yesterday's sectors had
\* to be taken from the retained snapshot.
PublishStale(r) ==
  /\ req[r].at = "publish" /\ (req[r].live => kept # 0)
  /\ req' = [req EXCEPT ![r] = Blank("unkept", @.gen)]
  /\ UNCHANGED <<generation, kept, gathering, cls>>

\* The client of the stream is gone when an event is sent.  The three parts are
\* waited for all the same.
Abandon(r) ==
  /\ req[r].at \in {"gather", "publish"} /\ req[r].open = {}
  /\ req' = [req EXCEPT ![r] = Blank("unkept", @.gen)]
  /\ UNCHANGED <<generation, kept, gathering, cls>>

PublishLive(r) ==
  /\ req[r].at = "publish" /\ req[r].live
  /\ req' = [req EXCEPT ![r] = Blank("live", @.gen)]
  /\ kept' = IF Newer(r) THEN req[r].gen ELSE kept
  /\ UNCHANGED <<generation, gathering, cls>>

-----------------------------------------------------------------------------
\* The request's own threads; its jobs in the slots are not among them.
Step(r) == \/ Clear(r)
           \/ CallStep(<<r, "indexes">>) \/ EndIndexes(r)
           \/ \E s \in Slots : Take(r, s) \/ SkipBusy(r, s) \/ Collect(r, s) \/ TimeOut(r, s)
           \/ Gathered(r) \/ LocalOver(r) \/ PublishStale(r) \/ PublishLive(r) \/ Abandon(r)

Job(r) == \/ \E s \in Slots : StartJob(r, s) \/ EndJob(r, s)
          \/ CallStep(<<r, "breadth">>)

Over == /\ \A r \in Requests : req[r].at \in {"live", "unkept"}
        /\ UNCHANGED vars

Next == \/ \E r \in Requests : Begin(r) \/ Step(r) \/ Job(r)
        \/ ExpireHome \/ Over

Spec     == Init /\ [][Next]_vars
\* The threads of a request run and its own HTTP calls time out; a job in a slot may
\* hang for ever.
FairSpec == Spec /\ \A r \in Requests : WF_vars(Step(r))

-----------------------------------------------------------------------------
(* Properties                                                              *)

Generations == 0 .. Cardinality(Requests)
Payload     == Calls \cup {None}
Task        == [wrap : {"todo", "waiting", "over"},
                job : {"none", "queued", "running", "ended"}]
Caller      == [at : {"none", "ask", "request", "settle", "wait", "done"}, from : Payload]
Request     == [at : {"idle", "clear", "gather", "local", "publish", "live", "unkept"},
                gen : Generations, open : SUBSET Parts, live : BOOLEAN, old : SUBSET Calls]

TypeOK ==
  /\ generation \in Generations /\ kept \in Generations
  /\ slot \in [Slots -> Requests \cup {None}]
  /\ part \in [Requests -> [Slots -> Task]]
  /\ home \in [cache : Payload, flight : Payload]
  /\ call \in [Calls -> Caller]
  /\ req \in [Requests -> Request]

\* However overlapping requests end, the retained snapshot is the one of the newest
\* request that ended live (realtime.py:328-330).
RetainedIsNewest ==
  kept = Max({0} \cup {req[r].gen : r \in {q \in Requests : req[q].at = "live"}})

\* A slot is held by exactly one job that is queued or running, whoever stopped
\* waiting for it: a busy slot is never two threads, and never busy for nothing
\* (realtime.py:230-234).
BusyMeansWorking ==
  \A s \in Slots, r \in Requests : slot[s] = r <=> part[r][s].job \in {"queued", "running"}

\* Who waits for the CLS home request waits for the flight that is under way or has
\* just ended, and a flight under way has its owner.
FlightIsServed ==
  /\ home.flight # None => call[home.flight].at \in {"request", "settle"}
  /\ \A c \in Calls : call[c].at = "wait" => Ended(call[c].from) \/ call[c].from = home.flight

\* A request works with quotes that were still being fetched when it began, never
\* with those of a flight that had ended (realtime.py:331, _clear_cls_home_completed_cache).
QuotesAreOfTheRequest ==
  \A c \in Calls : call[c].at = "done" => call[c].from \notin req[c[1]].old

\* Every request ends, also when jobs in the slots hang for ever: in the end none
\* is under way (realtime.py:236-238).
RequestsEnd == <>[](\A r \in Requests : req[r].at \in {"idle", "live", "unkept"})

=============================================================================
