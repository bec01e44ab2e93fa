--------------------------- MODULE RealtimeProofs ---------------------------
(* The realtime provider, for any number of overlapping requests and any   *)
(* parts and slots: types, slots, the retained snapshot, and the shared    *)
(* CLS home request.                                                       *)
EXTENDS Realtime, FiniteSetTheorems, TLAPS

-----------------------------------------------------------------------------
\* What the actions give a request, a task in a slot and a caller has their types.
LEMMA RequestStage ==
  ASSUME NEW t \in [Requests -> Request], NEW r \in Requests,
         NEW st \in {"idle", "clear", "gather", "local", "publish", "live", "unkept"}
  PROVE  [t EXCEPT ![r].at = st] \in [Requests -> Request]
  BY DEF Request

LEMMA RequestBegins ==
  ASSUME NEW t \in [Requests -> Request], NEW r \in Requests, NEW g \in Generations,
         NEW st \in {"idle", "clear", "gather", "local", "publish", "live", "unkept"}
  PROVE  [t EXCEPT ![r].at = st, ![r].gen = g] \in [Requests -> Request]
  BY DEF Request

LEMMA RequestGathers ==
  ASSUME NEW t \in [Requests -> Request], NEW r \in Requests, NEW f \in SUBSET Calls
  PROVE  [t EXCEPT ![r].at = "gather", ![r].open = Parts, ![r].old = f] \in [Requests -> Request]
<1>1. [t[r] EXCEPT !.at = "gather", !.open = Parts, !.old = f] \in Request
  BY DEF Request
<1> QED BY <1>1

LEMMA RequestBlank ==
  ASSUME NEW t \in [Requests -> Request], NEW r \in Requests,
         NEW st \in {"idle", "clear", "gather", "local", "publish", "live", "unkept"}
  PROVE  [t EXCEPT ![r] = Blank(st, @.gen)] \in [Requests -> Request]
<1>1. Blank(st, t[r].gen) \in Request
  BY DEF Request, Blank
<1> QED BY <1>1

LEMMA RequestCloses ==
  ASSUME NEW t \in [Requests -> Request], NEW r \in Requests, NEW s,
         NEW got \in BOOLEAN
  PROVE  [t EXCEPT ![r].open = @ \ {s}, ![r].live = @ /\ got] \in [Requests -> Request]
<1>1. t[r].open \ {s} \in SUBSET Parts
  BY DEF Request
<1>2. (t[r].live /\ got) \in BOOLEAN
  OBVIOUS
<1>3. [t[r] EXCEPT !.open = @ \ {s}, !.live = @ /\ got] \in Request
  BY <1>1, <1>2 DEF Request
<1> QED BY <1>3

LEMMA TaskStage ==
  ASSUME NEW t \in [Requests -> [Slots -> Task]], NEW r \in Requests, NEW s \in Slots,
         NEW wr \in {"todo", "waiting", "over"}, NEW jb \in {"none", "queued", "running", "ended"}
  PROVE  /\ [t EXCEPT ![r][s] = [wrap |-> wr, job |-> jb]] \in [Requests -> [Slots -> Task]]
         /\ [t EXCEPT ![r][s].wrap = wr] \in [Requests -> [Slots -> Task]]
         /\ [t EXCEPT ![r][s].job = jb] \in [Requests -> [Slots -> Task]]
  BY DEF Task

LEMMA CallerStage ==
  ASSUME NEW t \in [Calls -> Caller], NEW c \in Calls,
         NEW st \in {"none", "ask", "request", "settle", "wait", "done"}
  PROVE  [t EXCEPT ![c].at = st] \in [Calls -> Caller]
  BY DEF Caller

LEMMA CallerRecord ==
  ASSUME NEW t \in [Calls -> Caller], NEW c \in Calls, NEW f \in Payload,
         NEW st \in {"none", "ask", "request", "settle", "wait", "done"}
  PROVE  [t EXCEPT ![c] = [at |-> st, from |-> f]] \in [Calls -> Caller]
  BY DEF Caller

-----------------------------------------------------------------------------
\* Every step, with the callers of the CLS home request taken together.
LEMMA Steps ==
  ASSUME Next
  PROVE  \/ \E r \in Requests :
              \/ Begin(r) \/ Clear(r) \/ EndIndexes(r) \/ Gathered(r) \/ LocalOver(r)
              \/ PublishStale(r) \/ PublishLive(r) \/ Abandon(r)
              \/ \E s \in Slots : \/ Take(r, s) \/ SkipBusy(r, s) \/ Collect(r, s)
                                 \/ TimeOut(r, s) \/ StartJob(r, s) \/ EndJob(r, s)
         \/ \E c \in Calls : CallStep(c)
         \/ ExpireHome
         \/ Over
<1>1. \A r \in Requests : <<r, "indexes">> \in Calls /\ <<r, "breadth">> \in Calls
  BY DEF Calls
<1> QED BY <1>1 DEF Next, Step, Job

\* The requests that have begun, which the generation counts.
Begun == {r \in Requests : req[r].at # "idle"}

TypeInv == TypeOK /\ generation = Cardinality(Begun)

LEMMA NotIdle ==
  ASSUME NEW st \in {"clear", "gather", "local", "publish", "live", "unkept"}
  PROVE  st # "idle"
  OBVIOUS

\* A request that goes from one stage to another keeps the generation.
LEMMA SameBegun ==
  ASSUME req \in [Requests -> Request], NEW r \in Requests, req[r].at # "idle",
         \A q \in Requests : req'[q].at = req[q].at \/ (q = r /\ req'[q].at # "idle")
  PROVE  Begun' = Begun
  BY DEF Begun

LEMMA GenerationCounts ==
  ASSUME TypeInv, NEW r \in Requests, Begin(r)
  PROVE  generation' = Cardinality(Begun') /\ generation' \in Generations
<1>1. IsFiniteSet(Requests) /\ Begun \in SUBSET Requests /\ Begun' \in SUBSET Requests
  BY RequestAssumption DEF Begun
<1>2. IsFiniteSet(Begun) /\ Cardinality(Begun') <= Cardinality(Requests)
  BY <1>1, FS_Subset
<1>3. Begun' = Begun \cup {r} /\ r \notin Begun
  BY DEF Begin, Begun, TypeInv, TypeOK, Request
<1>4. Cardinality(Begun') = Cardinality(Begun) + 1
  BY <1>2, <1>3, FS_AddElement
<1>5. Cardinality(Begun) \in Nat
  BY <1>2, FS_CardinalityType
<1>6. Cardinality(Requests) \in Nat
  BY <1>1, FS_CardinalityType
<1> QED BY <1>2, <1>4, <1>5, <1>6 DEF Begin, TypeInv, Generations

-----------------------------------------------------------------------------
\* Type correctness (realtime.py:224-252): in particular the generation counts the
\* requests that have begun, so the generation kept is that of one of them.
THEOREM RealtimeTypeCorrect == Spec => []TypeOK
<1>1. Init => TypeInv
  <2> SUFFICES ASSUME Init PROVE TypeInv
    OBVIOUS
  <2>1. IsFiniteSet(Requests) /\ Cardinality(Requests) \in Nat
    BY RequestAssumption, FS_CardinalityType
  <2>2. 0 \in Generations
    BY <2>1 DEF Generations
  <2>3. Cardinality(Begun) = 0
    <3>1. Begun = {}
      BY DEF Begun, Init, Blank
    <3> QED BY <3>1, FS_EmptySet
  <2>4. part \in [Requests -> [Slots -> Task]]
    BY DEF Init, Fresh, Task
  <2>5. call \in [Calls -> Caller]
    BY DEF Init, Quiet, Caller, Payload
  <2>6. req \in [Requests -> Request]
    BY <2>2 DEF Init, Blank, Request
  <2>7. home \in [cache : Payload, flight : Payload]
    BY DEF Init, Payload
  <2>8. slot \in [Slots -> Requests \cup {None}]
    BY DEF Init
  <2>9. generation = 0 /\ kept = 0
    BY DEF Init
  <2> QED BY <2>2, <2>3, <2>4, <2>5, <2>6, <2>7, <2>8, <2>9 DEF TypeInv, TypeOK
<1>2. TypeInv /\ [Next]_vars => TypeInv'
  <2> SUFFICES ASSUME TypeInv, [Next]_vars PROVE TypeInv'
    OBVIOUS
  <2>0. /\ generation \in Generations /\ kept \in Generations
        /\ slot \in [Slots -> Requests \cup {None}]
        /\ part \in [Requests -> [Slots -> Task]]
        /\ home \in [cache : Payload, flight : Payload]
        /\ call \in [Calls -> Caller]
        /\ req \in [Requests -> Request]
        /\ generation = Cardinality(Begun)
    BY DEF TypeInv, TypeOK
  <2>1. ASSUME NEW r \in Requests, Begin(r) PROVE TypeInv'
    <3>1. generation' = Cardinality(Begun') /\ generation' \in Generations
      BY <2>1, GenerationCounts
    <3>2. req' \in [Requests -> Request]
      BY <2>0, <2>1, <3>1, RequestBegins DEF Begin
    <3> QED BY <2>0, <2>1, <3>1, <3>2 DEF Begin, TypeInv, TypeOK, gathering, cls
  <2>2. ASSUME NEW r \in Requests, Clear(r) PROVE TypeInv'
    <3>1. PICK f \in SUBSET Calls :
           req' = [req EXCEPT ![r].at = "gather", ![r].open = Parts, ![r].old = f]
      BY <2>2 DEF Clear, Gather
    <3>2. req' \in [Requests -> Request]
      BY <2>0, <3>1, RequestGathers
    <3>3. Begun' = Begun
      BY <2>0, <2>2, <3>1, SameBegun DEF Clear
    <3>4. <<r, "indexes">> \in Calls
      BY DEF Calls
    <3>5. call' \in [Calls -> Caller]
      BY <2>0, <2>2, <3>4, CallerStage DEF Clear, Gather, Payload
    <3>6. home' \in [cache : Payload, flight : Payload]
      BY <2>0, <2>2 DEF Clear, Payload
    <3> QED BY <2>0, <2>2, <3>1, <3>2, <3>3, <3>4, <3>5, <3>6 DEF Clear, TypeInv, TypeOK, gathering, cls
  <2>3. ASSUME NEW r \in Requests, EndIndexes(r) PROVE TypeInv'
    <3>1. PICK got \in BOOLEAN : Close(r, "indexes", got)
      BY <2>3 DEF EndIndexes
    <3>2. req' \in [Requests -> Request]
      BY <2>0, <3>1, RequestCloses DEF Close
    <3>3. Begun' = Begun
      BY <2>0, <3>1 DEF Close, Begun, Request
    <3> QED BY <2>0, <2>3, <3>1, <3>2, <3>3 DEF EndIndexes, TypeInv, TypeOK, gathering, cls
  <2>4. ASSUME NEW r \in Requests, Gathered(r) PROVE TypeInv'
    <3>1. PICK st \in {"local", "publish"} : req' = [req EXCEPT ![r].at = st]
      BY <2>4 DEF Gathered
    <3>2. req' \in [Requests -> Request]
      BY <2>0, <3>1, RequestStage
    <3>3. Begun' = Begun
      BY <2>0, <2>4, <3>1, SameBegun DEF Gathered
    <3> QED BY <2>0, <2>4, <3>1, <3>2, <3>3 DEF Gathered, TypeInv, TypeOK, gathering, cls
  <2>5. ASSUME NEW r \in Requests, LocalOver(r) PROVE TypeInv'
    <3>1. PICK st \in {"local", "publish"} : req' = [req EXCEPT ![r].at = st]
      BY <2>5 DEF LocalOver
    <3>2. req' \in [Requests -> Request]
      BY <2>0, <3>1, RequestStage
    <3>3. Begun' = Begun
      BY <2>0, <2>5, <3>1, SameBegun DEF LocalOver
    <3> QED BY <2>0, <2>5, <3>1, <3>2, <3>3 DEF LocalOver, TypeInv, TypeOK, gathering, cls
  <2>6. ASSUME NEW r \in Requests, PublishStale(r) PROVE TypeInv'
    <3>1. req' = [req EXCEPT ![r] = Blank("unkept", @.gen)]
      BY <2>6 DEF PublishStale
    <3>2. req' \in [Requests -> Request]
      BY <2>0, <3>1, RequestBlank
    <3>3. Begun' = Begun
      BY <2>0, <2>6, <3>1, SameBegun DEF PublishStale, Blank
    <3> QED BY <2>0, <2>6, <3>1, <3>2, <3>3 DEF PublishStale, TypeInv, TypeOK, gathering, cls
  <2>7. ASSUME NEW r \in Requests, PublishLive(r) PROVE TypeInv'
    <3>1. req' = [req EXCEPT ![r] = Blank("live", @.gen)]
      BY <2>7 DEF PublishLive
    <3>2. req' \in [Requests -> Request]
      BY <2>0, <3>1, RequestBlank
    <3>3. Begun' = Begun
      BY <2>0, <2>7, <3>1, SameBegun DEF PublishLive, Blank
    <3>4. kept' \in Generations
      BY <2>0, <2>7 DEF PublishLive, Request
    <3> QED BY <2>0, <2>7, <3>1, <3>2, <3>3, <3>4 DEF PublishLive, TypeInv, TypeOK, gathering, cls
  <2>8. ASSUME NEW r \in Requests, Abandon(r) PROVE TypeInv'
    <3>1. req' = [req EXCEPT ![r] = Blank("unkept", @.gen)]
      BY <2>8 DEF Abandon
    <3>2. req' \in [Requests -> Request]
      BY <2>0, <3>1, RequestBlank
    <3>3. Begun' = Begun
      BY <2>0, <2>8, <3>1, SameBegun DEF Abandon, Blank
    <3> QED BY <2>0, <2>8, <3>1, <3>2, <3>3 DEF Abandon, TypeInv, TypeOK, gathering, cls
  <2>9. ASSUME NEW r \in Requests, NEW s \in Slots, Take(r, s) PROVE TypeInv'
    <3>1. part' \in [Requests -> [Slots -> Task]]
      BY <2>0, <2>9, TaskStage DEF Take
    <3>2. Begun' = Begun
      BY <2>9 DEF Take, Begun
    <3>3. slot' \in [Slots -> Requests \cup {None}]
      BY <2>0, <2>9 DEF Take
    <3> QED BY <2>0, <2>9, <3>1, <3>2, <3>3 DEF Take, TypeInv, TypeOK, gathering, cls
  <2>10. ASSUME NEW r \in Requests, NEW s \in Slots, SkipBusy(r, s) PROVE TypeInv'
    <3>1. part' \in [Requests -> [Slots -> Task]]
      BY <2>0, <2>10, TaskStage DEF SkipBusy
    <3>2. PICK got \in BOOLEAN : Close(r, s, got)
      BY <2>10 DEF SkipBusy
    <3>3. req' \in [Requests -> Request]
      BY <2>0, <3>2, RequestCloses DEF Close
    <3>4. Begun' = Begun
      BY <2>0, <3>2 DEF Close, Begun, Request
    <3> QED BY <2>0, <2>10, <3>1, <3>2, <3>3, <3>4 DEF SkipBusy, TypeInv, TypeOK, gathering, cls
  <2>11. ASSUME NEW r \in Requests, NEW s \in Slots, Collect(r, s) PROVE TypeInv'
    <3>1. part' \in [Requests -> [Slots -> Task]]
      BY <2>0, <2>11, TaskStage DEF Collect
    <3>2. PICK got \in BOOLEAN : Close(r, s, got)
      BY <2>11 DEF Collect
    <3>3. req' \in [Requests -> Request]
      BY <2>0, <3>2, RequestCloses DEF Close
    <3>4. Begun' = Begun
      BY <2>0, <3>2 DEF Close, Begun, Request
    <3> QED BY <2>0, <2>11, <3>1, <3>2, <3>3, <3>4 DEF Collect, TypeInv, TypeOK, gathering, cls
  <2>12. ASSUME NEW r \in Requests, NEW s \in Slots, TimeOut(r, s) PROVE TypeInv'
    <3>1. part' \in [Requests -> [Slots -> Task]]
      <4>1. \/ part' = [part EXCEPT ![r][s] = [wrap |-> "over", job |-> "ended"]]
            \/ part' = [part EXCEPT ![r][s].wrap = "over"]
        BY <2>12 DEF TimeOut
      <4>2. CASE part' = [part EXCEPT ![r][s] = [wrap |-> "over", job |-> "ended"]]
        BY <2>0, <4>2, TaskStage
      <4>3. CASE part' = [part EXCEPT ![r][s].wrap = "over"]
        BY <2>0, <4>3, TaskStage
      <4> QED BY <4>1, <4>2, <4>3
    <3>2. PICK got \in BOOLEAN : Close(r, s, got)
      BY <2>12 DEF TimeOut
    <3>3. req' \in [Requests -> Request]
      BY <2>0, <3>2, RequestCloses DEF Close
    <3>4. Begun' = Begun
      BY <2>0, <3>2 DEF Close, Begun, Request
    <3>5. slot' \in [Slots -> Requests \cup {None}]
      BY <2>0, <2>12 DEF TimeOut
    <3> QED BY <2>0, <2>12, <3>1, <3>2, <3>3, <3>4, <3>5 DEF TimeOut, TypeInv, TypeOK, gathering, cls
  <2>13. ASSUME NEW r \in Requests, NEW s \in Slots, StartJob(r, s) PROVE TypeInv'
    <3>1. part' \in [Requests -> [Slots -> Task]]
      BY <2>0, <2>13, TaskStage DEF StartJob
    <3>2. Begun' = Begun
      BY <2>13 DEF StartJob, Begun
    <3>3. <<r, "breadth">> \in Calls
      BY DEF Calls
    <3>4. call' \in [Calls -> Caller]
      BY <2>0, <2>13, <3>3, CallerStage DEF StartJob, Payload
    <3> QED BY <2>0, <2>13, <3>1, <3>2, <3>3, <3>4 DEF StartJob, TypeInv, TypeOK, gathering, cls
  <2>14. ASSUME NEW r \in Requests, NEW s \in Slots, EndJob(r, s) PROVE TypeInv'
    <3>1. part' \in [Requests -> [Slots -> Task]]
      BY <2>0, <2>14, TaskStage DEF EndJob
    <3>2. Begun' = Begun
      BY <2>14 DEF EndJob, Begun
    <3>3. slot' \in [Slots -> Requests \cup {None}]
      BY <2>0, <2>14 DEF EndJob
    <3> QED BY <2>0, <2>14, <3>1, <3>2, <3>3 DEF EndJob, TypeInv, TypeOK, gathering, cls
  <2>15. ASSUME NEW c \in Calls, CallStep(c) PROVE TypeInv'
    <3>1. call[c].from \in Payload /\ home.cache \in Payload /\ home.flight \in Payload
          /\ c \in Payload /\ None \in Payload
      BY <2>0 DEF Caller, Payload
    <3>2. call' \in [Calls -> Caller]
      <4>1. \/ \E f \in Payload, st \in {"settle", "wait", "done"} :
                 call' = [call EXCEPT ![c] = [at |-> st, from |-> f]]
            \/ \E st \in {"request", "settle"} : call' = [call EXCEPT ![c].at = st]
        <5>1. CASE Wake(c)
          BY <3>1, <5>1 DEF Wake, CallEnds
        <5>2. CASE ~Wake(c)
          BY <2>15, <3>1, <5>2
             DEF CallStep, Cached, Join, Lead, AskTooLate, Answer, AnswerFails, Settle,
                 WaitTimesOut, CallEnds
        <5> QED BY <5>1, <5>2
      <4>2. CASE \E f \in Payload, st \in {"settle", "wait", "done"} :
                   call' = [call EXCEPT ![c] = [at |-> st, from |-> f]]
        <5>1. PICK f \in Payload, st \in {"settle", "wait", "done"} :
                call' = [call EXCEPT ![c] = [at |-> st, from |-> f]]
          BY <4>2
        <5> QED BY <2>0, <5>1, CallerRecord
      <4>3. CASE \E st \in {"request", "settle"} : call' = [call EXCEPT ![c].at = st]
        <5>1. PICK st \in {"request", "settle"} : call' = [call EXCEPT ![c].at = st]
          BY <4>3
        <5> QED BY <2>0, <5>1, CallerStage
      <4> QED BY <4>1, <4>2, <4>3
    <3>3. home' \in [cache : Payload, flight : Payload]
      <4>1. PICK f \in Payload : \/ home' = home
                                \/ home' = [home EXCEPT !.flight = f]
                                \/ home' = [home EXCEPT !.cache = f]
        BY <2>0, <2>15, <3>1
           DEF CallStep, Cached, Join, Lead, AskTooLate, Answer, AnswerFails, Settle, Wake, WaitTimesOut
      <4> QED BY <2>0, <4>1
    <3>4. UNCHANGED only_call
      BY <2>15 DEF CallStep, Cached, Join, Lead, AskTooLate, Answer, AnswerFails, Settle, Wake, WaitTimesOut
    <3>5. Begun' = Begun
      BY <3>4 DEF only_call, Begun
    <3> QED BY <2>0, <3>2, <3>3, <3>4, <3>5 DEF only_call, TypeInv, TypeOK, gathering
  <2>16. ASSUME ExpireHome PROVE TypeInv'
    <3>1. Begun' = Begun
      BY <2>16 DEF ExpireHome, only_call, Begun
    <3>2. home' \in [cache : Payload, flight : Payload]
      BY <2>0, <2>16 DEF ExpireHome, Payload
    <3> QED BY <2>0, <2>16, <3>1, <3>2 DEF ExpireHome, only_call, TypeInv, TypeOK, gathering
  <2>17. ASSUME UNCHANGED vars PROVE TypeInv'
    <3>1. Begun' = Begun
      BY <2>17 DEF vars, Begun
    <3> QED BY <2>0, <2>17, <3>1 DEF vars, gathering, cls, TypeInv, TypeOK
  <2> HIDE DEF TypeInv
  <2> QED
    BY <2>1, <2>2, <2>3, <2>4, <2>5, <2>6, <2>7, <2>8, <2>9, <2>10, <2>11, <2>12, <2>13, <2>14, <2>15, <2>16, <2>17, Steps DEF Over
<1>3. TypeInv => TypeOK
  BY DEF TypeInv
<1> QED BY <1>1, <1>2, <1>3, PTL DEF Spec

-----------------------------------------------------------------------------
\* The slots (realtime.py:230-234, :598-622): a slot is held by the job that is queued or
\* running in it and by no other, whichever request has stopped waiting, so no slot
\* is lost and no second thread enters a busy one.
LEMMA BusyStep ==
  ASSUME TypeOK, BusyMeansWorking, [Next]_vars
  PROVE  BusyMeansWorking'
<1>0. slot \in [Slots -> Requests \cup {None}] /\ part \in [Requests -> [Slots -> Task]]
  BY DEF TypeOK
<1>1. ASSUME UNCHANGED gathering PROVE BusyMeansWorking'
  BY <1>1 DEF gathering, BusyMeansWorking
<1>2. ASSUME NEW r \in Requests, NEW s \in Slots, Take(r, s) PROVE BusyMeansWorking'
  <2>1. \A q \in Requests : part[q][s].job \notin {"queued", "running"}
    BY <1>2, RequestAssumption DEF Take, BusyMeansWorking
  <2> QED BY <1>0, <1>2, <2>1, RequestAssumption DEF Take, BusyMeansWorking
<1>3. ASSUME NEW r \in Requests, NEW s \in Slots, SkipBusy(r, s) PROVE BusyMeansWorking'
  BY <1>0, <1>3 DEF SkipBusy, BusyMeansWorking, Task
<1>4. ASSUME NEW r \in Requests, NEW s \in Slots, Collect(r, s) PROVE BusyMeansWorking'
  BY <1>0, <1>4 DEF Collect, BusyMeansWorking, Task
<1>5. ASSUME NEW r \in Requests, NEW s \in Slots, TimeOut(r, s) PROVE BusyMeansWorking'
  <2>1. CASE part[r][s].job = "queued"
    <3>1. slot[s] = r /\ r # None
      BY <2>1, RequestAssumption DEF BusyMeansWorking
    <3>2. \A q \in Requests : part[q][s].job \in {"queued", "running"} => q = r
      BY <3>1 DEF BusyMeansWorking
    <3> QED BY <1>0, <1>5, <2>1, <3>1, <3>2, RequestAssumption DEF TimeOut, BusyMeansWorking
  <2>2. CASE part[r][s].job # "queued"
    <3>1. slot' = slot /\ part' = [part EXCEPT ![r][s].wrap = "over"]
      BY <1>5, <2>2 DEF TimeOut
    <3> QED BY <1>0, <3>1 DEF BusyMeansWorking, Task
  <2> QED BY <2>1, <2>2
<1>6. ASSUME NEW r \in Requests, NEW s \in Slots, StartJob(r, s) PROVE BusyMeansWorking'
  BY <1>0, <1>6 DEF StartJob, BusyMeansWorking, Task
<1>7. ASSUME NEW r \in Requests, NEW s \in Slots, EndJob(r, s) PROVE BusyMeansWorking'
  <2>1. slot[s] = r /\ r # None
    BY <1>7, RequestAssumption DEF EndJob, BusyMeansWorking
  <2>2. \A q \in Requests : part[q][s].job \in {"queued", "running"} => q = r
    BY <2>1 DEF BusyMeansWorking
  <2> QED BY <1>0, <1>7, <2>1, <2>2, RequestAssumption DEF EndJob, BusyMeansWorking
<1>8. ASSUME NEW r \in Requests,
             \/ Begin(r) \/ Clear(r) \/ EndIndexes(r) \/ Gathered(r) \/ LocalOver(r)
             \/ PublishStale(r) \/ PublishLive(r) \/ Abandon(r)
      PROVE  BusyMeansWorking'
  BY <1>1, <1>8 DEF Begin, Clear, EndIndexes, Gathered, LocalOver, PublishStale, PublishLive, Abandon
<1>9. ASSUME NEW c \in Calls, CallStep(c) PROVE BusyMeansWorking'
  BY <1>1, <1>9 DEF CallStep, Cached, Join, Lead, AskTooLate, Answer, AnswerFails, Settle, Wake,
              WaitTimesOut, only_call
<1>10. ASSUME ExpireHome \/ Over \/ UNCHANGED vars PROVE BusyMeansWorking'
  BY <1>1, <1>10 DEF gathering, ExpireHome, Over, only_call, vars
<1> QED BY <1>2, <1>3, <1>4, <1>5, <1>6, <1>7, <1>8, <1>9, <1>10, Steps

THEOREM SlotsCorrect == Spec => []BusyMeansWorking
<1>1. Init => BusyMeansWorking
  BY RequestAssumption DEF Init, BusyMeansWorking, Fresh
<1>2. TypeOK /\ BusyMeansWorking /\ [Next]_vars => BusyMeansWorking'
  BY BusyStep
<1> QED BY <1>1, <1>2, RealtimeTypeCorrect, PTL DEF Spec

-----------------------------------------------------------------------------
\* The retained snapshot (realtime.py:274-316): whatever the order in which overlapping
\* requests end, it is that of the newest one that ended live.
LiveGenerations == {0} \cup {req[r].gen : r \in {q \in Requests : req[q].at = "live"}}

KeptIsTop == kept \in LiveGenerations /\ \A g \in LiveGenerations : kept >= g

LEMMA TopIsMax ==
  ASSUME TypeOK, KeptIsTop
  PROVE  RetainedIsNewest
<1>1. LiveGenerations \subseteq Int
  <2>1. Cardinality(Requests) \in Nat
    BY RequestAssumption, FS_CardinalityType
  <2> QED BY <2>1 DEF LiveGenerations, TypeOK, Request, Generations
<1>2. \A g \in LiveGenerations : (\A h \in LiveGenerations : g >= h) => g = kept
  BY <1>1 DEF KeptIsTop
<1>3. kept = Max(LiveGenerations)
  BY <1>2 DEF KeptIsTop, Max
<1> QED BY <1>3 DEF RetainedIsNewest, LiveGenerations

\* A step by which nobody ends live leaves the generations that did.
LEMMA SameLive ==
  ASSUME TypeOK, KeptIsTop, kept' = kept,
         \A r \in Requests : /\ req'[r].at = "live" <=> req[r].at = "live"
                             /\ req[r].at = "live" => req'[r].gen = req[r].gen
  PROVE  KeptIsTop'
<1>1. LiveGenerations' = LiveGenerations
  BY DEF LiveGenerations
<1> QED BY <1>1 DEF KeptIsTop

LEMMA KeptStep ==
  ASSUME TypeOK, KeptIsTop, [Next]_vars
  PROVE  KeptIsTop'
<1>0. req \in [Requests -> Request]
  BY DEF TypeOK
<1>1. ASSUME kept' = kept, req' = req PROVE KeptIsTop'
  BY <1>1, SameLive
<1>2. ASSUME NEW r \in Requests, Begin(r) PROVE KeptIsTop'
  BY <1>0, <1>2, SameLive DEF Begin, Request
<1>3. ASSUME NEW r \in Requests, Clear(r) PROVE KeptIsTop'
  BY <1>0, <1>3, SameLive DEF Clear, Gather, Request
<1>4. ASSUME NEW r \in Requests, NEW s, NEW got \in BOOLEAN, Close(r, s, got), kept' = kept
      PROVE  KeptIsTop'
  BY <1>0, <1>4, SameLive DEF Close, Request
<1>5. ASSUME NEW r \in Requests, Gathered(r) \/ LocalOver(r) PROVE KeptIsTop'
  <2>1. PICK st \in {"local", "publish"} :
          req' = [req EXCEPT ![r].at = st] /\ req[r].at # "live" /\ kept' = kept
    BY <1>5 DEF Gathered, LocalOver
  <2> QED BY <1>0, <2>1, SameLive DEF Request
<1>6. ASSUME NEW r \in Requests, PublishStale(r) \/ Abandon(r) PROVE KeptIsTop'
  <2>1. /\ req' = [req EXCEPT ![r] = Blank("unkept", @.gen)]
        /\ req[r].at # "live" /\ kept' = kept
    BY <1>6 DEF PublishStale, Abandon
  <2> QED BY <1>0, <2>1, SameLive DEF Blank, Request
<1>7. ASSUME NEW r \in Requests, PublishLive(r) PROVE KeptIsTop'
  <2>1. LiveGenerations' = LiveGenerations \cup {req[r].gen}
    <3>1. /\ req'[r].at = "live" /\ req'[r].gen = req[r].gen
          /\ \A q \in Requests : q # r => req'[q] = req[q]
      BY <1>0, <1>7 DEF PublishLive, Blank
    <3> QED BY <1>0, <1>7, <3>1 DEF LiveGenerations, PublishLive
  <2>2. LiveGenerations \subseteq Int /\ kept \in Int /\ req[r].gen \in Int
    <3>1. Cardinality(Requests) \in Nat
      BY RequestAssumption, FS_CardinalityType
    <3> QED BY <3>1 DEF LiveGenerations, TypeOK, Request, Generations
  <2>3. kept' = IF req[r].gen > kept THEN req[r].gen ELSE kept
    BY <1>7 DEF PublishLive, Newer
  <2> QED BY <2>1, <2>2, <2>3 DEF KeptIsTop
<1>8. ASSUME NEW c \in Calls, CallStep(c) PROVE KeptIsTop'
  BY <1>1, <1>8 DEF CallStep, Cached, Join, Lead, AskTooLate, Answer, AnswerFails, Settle, Wake,
              WaitTimesOut, only_call
<1>9. ASSUME ExpireHome \/ Over \/ UNCHANGED vars PROVE KeptIsTop'
  BY <1>1, <1>9 DEF ExpireHome, Over, only_call, vars
<1>10. ASSUME NEW r \in Requests, EndIndexes(r) PROVE KeptIsTop'
  BY <1>4, <1>10 DEF EndIndexes
<1>11. ASSUME NEW r \in Requests, NEW s \in Slots, SkipBusy(r, s) \/ Collect(r, s) \/ TimeOut(r, s)
       PROVE  KeptIsTop'
  <2>1. \E got \in BOOLEAN : Close(r, s, got)
    BY <1>11 DEF SkipBusy, Collect, TimeOut
  <2>2. kept' = kept
    BY <1>11 DEF SkipBusy, Collect, TimeOut
  <2> QED BY <1>4, <2>1, <2>2
<1>12. ASSUME NEW r \in Requests, NEW s \in Slots, Take(r, s) \/ StartJob(r, s) \/ EndJob(r, s)
       PROVE  KeptIsTop'
  BY <1>1, <1>12 DEF Take, StartJob, EndJob
<1> QED BY <1>2, <1>3, <1>5, <1>6, <1>7, <1>8, <1>9, <1>10, <1>11, <1>12, Steps

THEOREM RetainedCorrect == Spec => []RetainedIsNewest
<1>1. Init => KeptIsTop
  BY DEF Init, KeptIsTop, LiveGenerations, Blank
<1>2. TypeOK /\ KeptIsTop /\ [Next]_vars => KeptIsTop'
  BY KeptStep
<1>3. TypeOK /\ KeptIsTop => RetainedIsNewest
  BY TopIsMax
<1> QED BY <1>1, <1>2, <1>3, RealtimeTypeCorrect, PTL DEF Spec

-----------------------------------------------------------------------------
\* What has not been used yet is as new: a request that has not gathered has no parts and
\* no callers, a job that has not started has not asked for the CLS home page.
NotGathered(r) == req[r].at \in {"idle", "clear"} =>
                    /\ req[r].open = {}
                    /\ call[<<r, "indexes">>].at = "none"
                    /\ \A s \in Slots : part[r][s].wrap = "todo"

NotStarted(r) == /\ \A s \in Slots : part[r][s].wrap = "todo" => part[r][s].job = "none"
                 /\ part[r]["breadth"].job \in {"none", "queued"} =>
                      call[<<r, "breadth">>].at = "none"

FreshInv == \A r \in Requests : NotGathered(r) /\ NotStarted(r)

\* What a step of a caller does to the callers.
LEMMA CallChanges ==
  ASSUME TypeOK, NEW c \in Calls, CallStep(c)
  PROVE  /\ call[c].at # "none" /\ call[c].at # "done"
         /\ call'[c].at # "none"
         /\ \A d \in Calls : d # c => call'[d] = call[d]
         /\ UNCHANGED <<generation, kept, slot, part, req>>
<1>0. call \in [Calls -> Caller]
  BY DEF TypeOK
<1>1. CASE Cached(c) \/ Join(c) \/ Lead(c) \/ AskTooLate(c)
  BY <1>0, <1>1 DEF Cached, Join, Lead, AskTooLate, CallEnds, Caller, only_call, gathering
<1>2. CASE Answer(c) \/ AnswerFails(c) \/ Settle(c)
  BY <1>0, <1>2 DEF Answer, AnswerFails, Settle, CallEnds, Caller, only_call, gathering
<1>3. CASE Wake(c) \/ WaitTimesOut(c)
  BY <1>0, <1>3 DEF Wake, WaitTimesOut, CallEnds, Caller, only_call, gathering
<1> QED BY <1>1, <1>2, <1>3 DEF CallStep

\* A wrapper that gives up or is through leaves its job alone.
LEMMA WrapOver ==
  ASSUME part \in [Requests -> [Slots -> Task]], NEW r \in Requests, NEW s \in Slots,
         part' = [part EXCEPT ![r][s].wrap = "over"]
  PROVE  \A u \in Slots : /\ part'[r][u].job = part[r][u].job
                          /\ part'[r][u].wrap = "todo" => part[r][u].wrap = "todo"
<1>1. part'[r][s] = [part[r][s] EXCEPT !.wrap = "over"]
  OBVIOUS
<1>2. part[r][s] \in Task
  OBVIOUS
<1>3. part'[r][s].job = part[r][s].job /\ part'[r][s].wrap = "over"
  BY <1>1, <1>2 DEF Task
<1>4. \A u \in Slots : u # s => part'[r][u] = part[r][u]
  OBVIOUS
<1> QED BY <1>3, <1>4

LEMMA FreshStep ==
  ASSUME TypeOK, FreshInv, [Next]_vars
  PROVE  FreshInv'
<1>0. /\ slot \in [Slots -> Requests \cup {None}]
      /\ part \in [Requests -> [Slots -> Task]]
      /\ call \in [Calls -> Caller]
      /\ req \in [Requests -> Request]
      /\ "breadth" \in Slots
      /\ \A r \in Requests : <<r, "indexes">> \in Calls /\ <<r, "breadth">> \in Calls
  BY PartAssumption, SlotAssumption DEF TypeOK, Calls
<1>1. ASSUME UNCHANGED <<part, call>>, NEW r \in Requests,
             \A q \in Requests : q # r => req'[q] = req[q],
             req'[r].at \in {"idle", "clear"} => NotGathered(r)'
      PROVE  FreshInv'
  BY <1>1 DEF FreshInv, NotGathered, NotStarted
<1>2. ASSUME NEW r \in Requests, Begin(r) PROVE FreshInv'
  <2>1. NotGathered(r) /\ req[r].at = "idle" /\ UNCHANGED <<part, call>>
    BY <1>2 DEF FreshInv, Begin, gathering, cls
  <2>2. req'[r].open = req[r].open /\ \A q \in Requests : q # r => req'[q] = req[q]
    BY <1>0, <1>2 DEF Begin, Request
  <2> QED BY <1>1, <2>1, <2>2 DEF NotGathered
<1>3. ASSUME NEW r \in Requests, Clear(r) PROVE FreshInv'
  <2>1. part' = part /\ req'[r].at = "gather"
        /\ \A q \in Requests : q # r => req'[q] = req[q]
    BY <1>0, <1>3 DEF Clear, Gather, gathering, Request
  <2>2. \A c \in Calls : c # <<r, "indexes">> => call'[c] = call[c]
    BY <1>0, <1>3 DEF Clear, Gather
  <2>3. \A q \in Requests : <<q, "breadth">> # <<r, "indexes">>
    OBVIOUS
  <2>4. \A q \in Requests : q # r => <<q, "indexes">> # <<r, "indexes">>
    OBVIOUS
  <2>5. \A q \in Requests : NotStarted(q)'
    BY <1>0, <2>1, <2>2, <2>3 DEF FreshInv, NotStarted
  <2>6. \A q \in Requests : q # r => NotGathered(q)'
    BY <1>0, <2>1, <2>2, <2>4 DEF FreshInv, NotGathered
  <2>7. NotGathered(r)'
    BY <2>1 DEF NotGathered
  <2> QED BY <2>5, <2>6, <2>7 DEF FreshInv
<1>4. ASSUME NEW r \in Requests, EndIndexes(r) PROVE FreshInv'
  <2>1. PICK got \in BOOLEAN : Close(r, "indexes", got)
    BY <1>4 DEF EndIndexes
  <2>2. req[r].at \notin {"idle", "clear"} /\ UNCHANGED <<part, call>>
    BY <1>4 DEF EndIndexes, FreshInv, NotGathered, gathering, cls
  <2>3. req'[r].at = req[r].at /\ \A q \in Requests : q # r => req'[q] = req[q]
    BY <1>0, <2>1 DEF Close, Request
  <2> QED BY <1>1, <2>2, <2>3
<1>5. ASSUME NEW r \in Requests, Gathered(r) \/ LocalOver(r) PROVE FreshInv'
  <2>1. PICK st \in {"local", "publish"} : req' = [req EXCEPT ![r].at = st]
    BY <1>5 DEF Gathered, LocalOver
  <2>2. UNCHANGED <<part, call>>
    BY <1>5 DEF Gathered, LocalOver, gathering, cls
  <2>3. req'[r].at \notin {"idle", "clear"} /\ \A q \in Requests : q # r => req'[q] = req[q]
    BY <1>0, <2>1 DEF Request
  <2> QED BY <1>1, <2>2, <2>3
<1>6. ASSUME NEW r \in Requests, PublishStale(r) \/ PublishLive(r) \/ Abandon(r) PROVE FreshInv'
  <2>1. PICK st \in {"live", "unkept"} : req' = [req EXCEPT ![r] = Blank(st, @.gen)]
    BY <1>6 DEF PublishStale, PublishLive, Abandon
  <2>2. UNCHANGED <<part, call>>
    BY <1>6 DEF PublishStale, PublishLive, Abandon, gathering, cls
  <2>3. req'[r].at \notin {"idle", "clear"} /\ \A q \in Requests : q # r => req'[q] = req[q]
    BY <1>0, <2>1 DEF Blank
  <2> QED BY <1>1, <2>2, <2>3
<1>7. ASSUME NEW c \in Calls, CallStep(c) PROVE FreshInv'
  <2>1. \A d \in Calls : call[d].at = "none" => call'[d].at = "none"
    BY <1>7, CallChanges
  <2>2. part' = part /\ req' = req
    BY <1>7, CallChanges
  <2> QED BY <1>0, <2>1, <2>2 DEF FreshInv, NotGathered, NotStarted
<1>8. ASSUME ExpireHome \/ Over \/ UNCHANGED vars PROVE FreshInv'
  <2>1. UNCHANGED <<part, call, req>>
    BY <1>8 DEF ExpireHome, Over, only_call, vars, gathering, cls
  <2> QED BY <2>1 DEF FreshInv, NotGathered, NotStarted
<1>9. ASSUME NEW r \in Requests, NEW s \in Slots,
             \/ Take(r, s) \/ SkipBusy(r, s) \/ Collect(r, s) \/ TimeOut(r, s)
             \/ StartJob(r, s) \/ EndJob(r, s)
      PROVE  FreshInv'
  <2>1. req[r].at \notin {"idle", "clear"}
    <3>1. CASE Wants(r, s)
      BY <3>1 DEF Wants, FreshInv, NotGathered
    <3>2. CASE part[r][s].wrap # "todo" \/ part[r][s].job # "none"
      BY <3>2 DEF FreshInv, NotGathered, NotStarted
    <3>3. \/ Wants(r, s) \/ part[r][s].wrap # "todo" \/ part[r][s].job # "none"
      <4>1. CASE Take(r, s) \/ SkipBusy(r, s)
        BY <4>1 DEF Take, SkipBusy
      <4>2. CASE Collect(r, s) \/ TimeOut(r, s)
        <5>1. CASE Collect(r, s)
          <6>1. part[r][s] = [wrap |-> "waiting", job |-> "ended"]
            BY <5>1 DEF Collect
          <6> QED BY <6>1
        <5>2. CASE TimeOut(r, s)
          <6>1. part[r][s].wrap = "waiting"
            BY <5>2 DEF TimeOut
          <6> QED BY <6>1
        <5> QED BY <4>2, <5>1, <5>2
      <4>3. CASE StartJob(r, s) \/ EndJob(r, s)
        BY <4>3 DEF StartJob, EndJob
      <4> QED BY <1>9, <4>1, <4>2, <4>3
    <3> QED BY <3>1, <3>2, <3>3
  <2>2. /\ req'[r].at = req[r].at
        /\ \A q \in Requests : q # r => req'[q] = req[q]
    <3>1. CASE req' = req
      BY <3>1
    <3>2. CASE \E got \in BOOLEAN : Close(r, s, got)
      BY <1>0, <3>2 DEF Close, Request
    <3> QED BY <1>9, <3>1, <3>2 DEF Take, SkipBusy, Collect, TimeOut, StartJob, EndJob
  <2>3. \A q \in Requests : q # r => part'[q] = part[q]
    BY <1>0, <1>9 DEF Take, SkipBusy, Collect, TimeOut, StartJob, EndJob
  <2>4. \A c \in Calls : c # <<r, "breadth">> => call'[c] = call[c]
    BY <1>0, <1>9 DEF Take, SkipBusy, Collect, TimeOut, StartJob, EndJob, cls
  <2>5. \A q \in Requests : q # r => <<q, "breadth">> # <<r, "breadth">>
    OBVIOUS
  <2>6. \A q \in Requests : <<q, "indexes">> # <<r, "breadth">>
    OBVIOUS
  <2>7. \A q \in Requests : NotGathered(q)'
    <3>1. NotGathered(r)'
      BY <2>1, <2>2 DEF NotGathered
    <3>2. ASSUME NEW q \in Requests, q # r PROVE NotGathered(q)'
      <4>1. NotGathered(q)
        BY DEF FreshInv
      <4>2. req'[q] = req[q] /\ part'[q] = part[q]
        BY <2>2, <2>3, <3>2
      <4>3. call'[<<q, "indexes">>] = call[<<q, "indexes">>]
        BY <1>0, <2>4, <2>6
      <4> QED BY <4>1, <4>2, <4>3 DEF NotGathered
    <3> QED BY <3>1, <3>2
  <2>8. \A q \in Requests : q # r => NotStarted(q)'
    <3>1. ASSUME NEW q \in Requests, q # r PROVE NotStarted(q)'
      <4>1. NotStarted(q)
        BY DEF FreshInv
      <4>2. part'[q] = part[q]
        BY <2>3, <3>1
      <4>3. call'[<<q, "breadth">>] = call[<<q, "breadth">>]
        BY <1>0, <2>4, <2>5, <3>1
      <4> QED BY <4>1, <4>2, <4>3 DEF NotStarted
    <3> QED BY <3>1
  <2>9. NotStarted(r)'
    <3>1. CASE Take(r, s)
      BY <1>0, <3>1 DEF Take, Wants, cls, FreshInv, NotStarted, Task
    <3>2. CASE SkipBusy(r, s) \/ Collect(r, s)
      <4>1. part' = [part EXCEPT ![r][s].wrap = "over"] /\ call' = call
        BY <3>2 DEF SkipBusy, Collect, cls
      <4> QED BY <1>0, <4>1, WrapOver DEF FreshInv, NotStarted
    <3>3. CASE TimeOut(r, s)
      <4>1. CASE part[r][s].job = "queued"
        <5>1. /\ part' = [part EXCEPT ![r][s] = [wrap |-> "over", job |-> "ended"]]
              /\ call' = call
          BY <3>3, <4>1 DEF TimeOut, cls
        <5>2. \A u \in Slots : IF u = s THEN part'[r][u] = [wrap |-> "over", job |-> "ended"]
                                      ELSE part'[r][u] = part[r][u]
          BY <1>0, <5>1
        <5> QED BY <1>0, <5>1, <5>2 DEF FreshInv, NotStarted
      <4>2. CASE part[r][s].job # "queued"
        <5>1. part' = [part EXCEPT ![r][s].wrap = "over"] /\ call' = call
          BY <3>3, <4>2 DEF TimeOut, cls
        <5> QED BY <1>0, <5>1, WrapOver DEF FreshInv, NotStarted
      <4> QED BY <4>1, <4>2
    <3>4. CASE StartJob(r, s)
      <4>1. CASE s = "breadth"
        BY <1>0, <3>4, <4>1 DEF StartJob, FreshInv, NotStarted, Task
      <4>2. CASE s # "breadth"
        BY <1>0, <3>4, <4>2 DEF StartJob, FreshInv, NotStarted, Task
      <4> QED BY <4>1, <4>2
    <3>5. CASE EndJob(r, s)
      BY <1>0, <3>5 DEF EndJob, cls, FreshInv, NotStarted, Task
    <3> QED BY <1>9, <3>1, <3>2, <3>3, <3>4, <3>5
  <2> QED BY <2>7, <2>8, <2>9 DEF FreshInv
<1> QED BY <1>2, <1>3, <1>4, <1>5, <1>6, <1>7, <1>8, <1>9, Steps

-----------------------------------------------------------------------------
\* The shared CLS request (realtime.py:828-894).  A caller knows a payload only once it
\* has one; what a request must not use has ended, so neither the cache, which the
\* request has cleared, nor a flight that can still be joined has it.
OwnFrom(c) == /\ call[c].at \in {"none", "ask", "request"} => call[c].from = None
              /\ call[c].at = "settle" => call[c].from \in {c, None}
              /\ call[c].at = "wait" => call[c].from \in Calls

OldIsOver(r) == /\ \A f \in req[r].old : call[f].at = "done"
                /\ home.cache \notin req[r].old

NotOld(c) == call[c].at \in {"wait", "done"} => call[c].from \notin req[c[1]].old

SharedInv == /\ \A c \in Calls : OwnFrom(c) /\ NotOld(c)
             /\ \A r \in Requests : OldIsOver(r)
             /\ FlightIsServed

LEMMA SharedInit == ASSUME Init PROVE SharedInv
<1>1. \A c \in Calls : call[c] = Quiet
  BY DEF Init
<1>2. \A r \in Requests : req[r].old = {}
  BY DEF Init, Blank
<1>3. home.flight = None
  BY DEF Init
<1>4. \A c \in Calls : OwnFrom(c) /\ NotOld(c)
  BY <1>1 DEF OwnFrom, NotOld, Quiet
<1>5. \A r \in Requests : OldIsOver(r)
  BY <1>2 DEF OldIsOver
<1>6. FlightIsServed
  BY <1>1, <1>3 DEF FlightIsServed, Quiet
<1> QED BY <1>4, <1>5, <1>6 DEF SharedInv

\* Steps of requests and jobs that leave callers and cache alone can only forget what a
\* request must not use.
LEMMA SharedKept ==
  ASSUME SharedInv, TypeOK, UNCHANGED cls,
         \A r \in Requests : req'[r].old \in {req[r].old, {}}
  PROVE  SharedInv'
<1>1. call' = call /\ home' = home
  BY DEF cls
<1>2. \A c \in Calls : c[1] \in Requests
  BY DEF Calls
<1>3. \A c \in Calls : OwnFrom(c)' /\ NotOld(c)'
  BY <1>1, <1>2 DEF SharedInv, OwnFrom, NotOld
<1>4. \A r \in Requests : OldIsOver(r)'
  BY <1>1 DEF SharedInv, OldIsOver
<1>5. FlightIsServed'
  BY <1>1 DEF SharedInv, FlightIsServed, Ended
<1> QED BY <1>3, <1>4, <1>5 DEF SharedInv

\* A caller that is asked for the first time.
LEMMA SharedAsks ==
  ASSUME SharedInv, TypeOK, NEW c \in Calls, call[c].at = "none",
         call' = [call EXCEPT ![c].at = "ask"],
         home'.flight = home.flight,
         home'.cache \in {home.cache, None},
         \A r \in Requests : \/ req'[r].old = req[r].old
                             \/ /\ req'[r].old \subseteq {f \in Calls : call[f].at = "done"}
                                /\ home'.cache = None
                                /\ \A d \in Calls : d[1] = r => call[d].at \notin {"wait", "done"}
  PROVE  SharedInv'
<1>0. /\ call \in [Calls -> Caller] /\ None \notin Calls
      /\ req \in [Requests -> Request] /\ \A d \in Calls : d[1] \in Requests
      /\ home \in [cache : Payload, flight : Payload]
  BY RequestAssumption DEF TypeOK, Calls
<1>1. call'[c].at = "ask" /\ call'[c].from = call[c].from
      /\ \A d \in Calls : d # c => call'[d] = call[d]
  BY <1>0 DEF Caller
<1>2. \A d \in Calls : OwnFrom(d)'
  BY <1>1 DEF SharedInv, OwnFrom
<1>3. ASSUME NEW d \in Calls PROVE NotOld(d)'
  <2>1. CASE d = c
    BY <1>1, <2>1 DEF NotOld
  <2>2. CASE d # c
    BY <1>0, <1>1, <2>2 DEF SharedInv, NotOld
  <2> QED BY <2>1, <2>2
<1>4. ASSUME NEW r \in Requests PROVE OldIsOver(r)'
  <2>1. OldIsOver(r)
    BY DEF SharedInv
  <2>2. req[r].old \subseteq Calls
    BY <1>0 DEF Request
  <2>3. CASE req'[r].old = req[r].old
    BY <1>0, <1>1, <2>1, <2>2, <2>3 DEF OldIsOver
  <2>4. CASE req'[r].old \subseteq {f \in Calls : call[f].at = "done"} /\ home'.cache = None
    BY <1>0, <1>1, <2>4 DEF OldIsOver
  <2> QED BY <2>3, <2>4
<1>5. FlightIsServed'
  <2>1. home.flight # None => home.flight \in Calls
    BY <1>0 DEF Payload
  <2>2. home'.flight # None => call'[home'.flight].at \in {"request", "settle"}
    BY <1>1, <2>1 DEF SharedInv, FlightIsServed
  <2>3. ASSUME NEW d \in Calls, call'[d].at = "wait"
        PROVE  call'[call'[d].from].at = "done" \/ call'[d].from = home'.flight
    <3>1. d # c /\ call'[d] = call[d]
      BY <1>1, <2>3
    <3>2. call[d].from = home.flight \/ call[call[d].from].at = "done"
      BY <2>3, <3>1 DEF SharedInv, FlightIsServed, Ended
    <3>3. call[d].from \in Calls
      BY <2>3, <3>1 DEF SharedInv, OwnFrom
    <3>4. CASE call[d].from = home.flight
      BY <3>1, <3>4
    <3>5. CASE call[call[d].from].at = "done"
      BY <1>1, <3>1, <3>3, <3>5
    <3> QED BY <3>2, <3>4, <3>5
  <2> QED BY <2>2, <2>3 DEF FlightIsServed, Ended
<1> QED BY <1>2, <1>3, <1>4, <1>5 DEF SharedInv

\* What each step of a caller gives it, and what it leaves in the cache and in flight.
LEMMA CallEffects ==
  ASSUME TypeOK, SharedInv, NEW c \in Calls, CallStep(c)
  PROVE  \/ /\ Cached(c) /\ home' = home
            /\ call'[c].at = "done" /\ call'[c].from = home.cache
         \/ /\ Join(c) /\ home' = home /\ home.flight \in Calls
            /\ call'[c].at = "wait" /\ call'[c].from = home.flight
         \/ /\ Lead(c) /\ home.flight = None /\ home'.flight = c /\ home'.cache = home.cache
            /\ call'[c].at = "request" /\ call'[c].from = None
         \/ /\ Answer(c) /\ home'.flight = home.flight /\ home'.cache = c
            /\ call'[c].at = "settle" /\ call'[c].from = c
         \/ /\ AnswerFails(c) /\ home' = home
            /\ call'[c].at = "settle" /\ call'[c].from = None
         \/ /\ Settle(c) /\ home'.cache = home.cache
            /\ home'.flight = IF home.flight = c THEN None ELSE home.flight
            /\ call'[c].at = "done" /\ call'[c].from \in {c, None}
         \/ /\ home' = home /\ call[c].at \in {"ask", "wait"}
            /\ call'[c].at = "done" /\ call'[c].from = None
         \/ /\ Wake(c) /\ home' = home
            /\ call'[c].at = "done" /\ call'[c].from = call[c].from
<1>0. /\ call \in [Calls -> Caller] /\ home \in [cache : Payload, flight : Payload]
      /\ OwnFrom(c)
  BY DEF TypeOK, SharedInv
<1>1. CASE Cached(c)
  BY <1>0, <1>1 DEF Cached, CallEnds
<1>2. CASE Join(c)
  BY <1>0, <1>2 DEF Join, Payload
<1>3. CASE Lead(c)
  BY <1>0, <1>3 DEF Lead, OwnFrom, Caller
<1>4. CASE AskTooLate(c) \/ WaitTimesOut(c)
  BY <1>0, <1>4 DEF AskTooLate, WaitTimesOut, CallEnds
<1>5. CASE Answer(c)
  BY <1>0, <1>5 DEF Answer
<1>6. CASE AnswerFails(c)
  BY <1>0, <1>6 DEF AnswerFails, OwnFrom, Caller
<1>7. CASE Settle(c)
  <2>1. call'[c] = [at |-> "done", from |-> call[c].from] /\ call[c].from \in {c, None}
    BY <1>0, <1>7 DEF Settle, CallEnds, OwnFrom
  <2>2. home'.cache = home.cache /\ home'.flight = IF home.flight = c THEN None ELSE home.flight
    BY <1>0, <1>7 DEF Settle
  <2> QED BY <1>7, <2>1, <2>2
<1>8. CASE Wake(c)
  <2>1. home' = home /\ call[c].at = "wait"
    BY <1>8 DEF Wake
  <2>2. \/ call'[c] = [at |-> "done", from |-> call[c].from]
        \/ call'[c] = [at |-> "done", from |-> None]
    BY <1>0, <1>8 DEF Wake, CallEnds
  <2> QED BY <1>8, <2>1, <2>2
<1> QED BY <1>1, <1>2, <1>3, <1>4, <1>5, <1>6, <1>7, <1>8 DEF CallStep

LEMMA SharedCall ==
  ASSUME TypeOK, SharedInv, NEW c \in Calls, CallStep(c)
  PROVE  SharedInv'
<1>0. /\ call \in [Calls -> Caller] /\ None \notin Calls
      /\ req \in [Requests -> Request] /\ \A d \in Calls : d[1] \in Requests
      /\ home \in [cache : Payload, flight : Payload]
  BY RequestAssumption DEF TypeOK, Calls
<1>1. /\ call[c].at # "none" /\ call[c].at # "done"
      /\ \A d \in Calls : d # c => call'[d] = call[d]
      /\ req' = req
  BY CallChanges
<1>2. OwnFrom(c) /\ NotOld(c) /\ FlightIsServed
      /\ \A r \in Requests : OldIsOver(r) /\ req[r].old \subseteq Calls
  BY <1>0 DEF SharedInv, Request
<1>3. \A r \in Requests : c \notin req[r].old /\ None \notin req[r].old
  BY <1>0, <1>1, <1>2 DEF OldIsOver
<1>4. home.flight # None => home.flight \in Calls /\ call[home.flight].at \in {"request", "settle"}
  BY <1>0, <1>2 DEF FlightIsServed, Payload
<1>5. \A r \in Requests : home.flight \notin req[r].old
  BY <1>2, <1>3, <1>4 DEF OldIsOver
<1>6. OwnFrom(c)'
  BY CallEffects DEF OwnFrom
<1>7. c[1] \in Requests
  BY <1>0
<1>8. call'[c].at \in {"wait", "done"} => call'[c].from \notin req[c[1]].old
  <2>1. home.cache \notin req[c[1]].old /\ home.flight \notin req[c[1]].old
    BY <1>2, <1>5, <1>7 DEF OldIsOver
  <2>2. Wake(c) => call[c].from \notin req[c[1]].old
    BY <1>2 DEF Wake, NotOld
  <2> QED BY <1>3, <1>7, <2>1, <2>2, CallEffects
<1>9. \A d \in Calls : OwnFrom(d)'
  <2>1. ASSUME NEW d \in Calls, d # c PROVE OwnFrom(d)'
    BY <1>1, <2>1 DEF SharedInv, OwnFrom
  <2> QED BY <1>6, <2>1
<1>10. \A d \in Calls : NotOld(d)'
  <2>1. ASSUME NEW d \in Calls, d # c PROVE NotOld(d)'
    BY <1>1, <2>1 DEF SharedInv, NotOld
  <2>2. NotOld(c)'
    BY <1>1, <1>8 DEF NotOld
  <2> QED BY <2>1, <2>2
<1>11. ASSUME NEW r \in Requests PROVE OldIsOver(r)'
  <2>1. \A f \in req[r].old : call'[f].at = "done"
    BY <1>1, <1>2, <1>3 DEF OldIsOver
  <2>2. home'.cache \in {home.cache, c}
    BY CallEffects
  <2> QED BY <1>1, <1>2, <1>3, <2>1, <2>2 DEF OldIsOver
<1>12. home'.flight # None => call'[home'.flight].at \in {"request", "settle"}
  <2>1. CASE home.flight = c
    <3>1. call[c].at \in {"request", "settle"}
      BY <1>4, <2>1, <1>0
    <3>2. ~Cached(c) /\ ~Join(c) /\ ~Lead(c) /\ ~Wake(c)
      BY <3>1 DEF Cached, Join, Lead, Wake
    <3> QED BY <1>0, <2>1, <3>1, <3>2, CallEffects
  <2>2. CASE home.flight # c
    <3>1. home.flight # None => call'[home.flight] = call[home.flight]
      BY <1>1, <1>4, <2>2
    <3>2. home'.flight = home.flight \/ (home'.flight = c /\ call'[c].at = "request")
      BY <2>2, CallEffects
    <3> QED BY <1>4, <3>1, <3>2
  <2> QED BY <2>1, <2>2
<1>13. ASSUME NEW d \in Calls, call'[d].at = "wait"
       PROVE  call'[call'[d].from].at = "done" \/ call'[d].from = home'.flight
  <2>1. CASE d = c
    BY <1>13, <2>1, CallEffects
  <2>2. CASE d # c
    <3>1. call'[d] = call[d] /\ call[d].from \in Calls
      BY <1>1, <1>13, <2>2 DEF SharedInv, OwnFrom
    <3>2. call[call[d].from].at = "done" \/ call[d].from = home.flight
      BY <1>2, <1>13, <3>1 DEF FlightIsServed, Ended
    <3>3. CASE call[call[d].from].at = "done"
      BY <1>1, <3>1, <3>3
    <3>4. CASE call[d].from = home.flight
      <4>1. home.flight # None
        BY <1>0, <3>1, <3>4
      <4>2. home'.flight = home.flight \/ (home.flight = c /\ call'[c].at = "done")
        BY <4>1, CallEffects
      <4> QED BY <3>1, <3>4, <4>2
    <3> QED BY <3>2, <3>3, <3>4
  <2> QED BY <2>1, <2>2
<1>14. FlightIsServed'
  BY <1>12, <1>13 DEF FlightIsServed, Ended
<1> QED BY <1>9, <1>10, <1>11, <1>14 DEF SharedInv

LEMMA SharedStep ==
  ASSUME TypeOK, FreshInv, SharedInv, [Next]_vars
  PROVE  SharedInv'
<1>0. /\ call \in [Calls -> Caller] /\ home \in [cache : Payload, flight : Payload]
      /\ req \in [Requests -> Request] /\ part \in [Requests -> [Slots -> Task]]
      /\ "breadth" \in Slots
      /\ \A r \in Requests : <<r, "indexes">> \in Calls /\ <<r, "breadth">> \in Calls
  BY PartAssumption, SlotAssumption DEF TypeOK, Calls
<1>1. ASSUME NEW r \in Requests, Begin(r) PROVE SharedInv'
  <2>1. \A q \in Requests : req'[q].old = req[q].old
    BY <1>0, <1>1 DEF Begin, Request
  <2> QED BY <1>1, <2>1, SharedKept DEF Begin
<1>2. ASSUME NEW r \in Requests, Clear(r) PROVE SharedInv'
  <2>1. /\ call' = [call EXCEPT ![<<r, "indexes">>].at = "ask"]
        /\ home' = [home EXCEPT !.cache = None]
    BY <1>2 DEF Clear, Gather
  <2>2. /\ req'[r].old = {f \in Calls : Ended(f) /\ Answered(f)}
        /\ \A q \in Requests : q # r => req'[q] = req[q]
    BY <1>0, <1>2 DEF Clear, Gather, Request
  <2>3. call[<<r, "indexes">>].at = "none" /\ call[<<r, "breadth">>].at = "none"
    BY <1>0, <1>2 DEF FreshInv, NotGathered, NotStarted, Clear
  <2>4. ASSUME NEW d \in Calls, d[1] = r PROVE call[d].at = "none"
    <3>1. d = <<r, "indexes">> \/ d = <<r, "breadth">>
      BY <2>4 DEF Calls
    <3> QED BY <2>3, <3>1
  <2>5. home'.flight = home.flight /\ home'.cache = None
    BY <1>0, <2>1
  <2>6. req'[r].old \subseteq {f \in Calls : call[f].at = "done"}
    BY <2>2 DEF Ended
  <2>7. \A d \in Calls : d[1] = r => call[d].at \notin {"wait", "done"}
    BY <2>4
  <2> QED BY <1>0, <2>1, <2>2, <2>3, <2>5, <2>6, <2>7, SharedAsks
<1>3. ASSUME NEW r \in Requests, EndIndexes(r) PROVE SharedInv'
  <2>1. PICK got \in BOOLEAN : Close(r, "indexes", got)
    BY <1>3 DEF EndIndexes
  <2>2. \A q \in Requests : req'[q].old = req[q].old
    BY <1>0, <2>1 DEF Close, Request
  <2> QED BY <1>3, <2>2, SharedKept DEF EndIndexes
<1>4. ASSUME NEW r \in Requests, Gathered(r) \/ LocalOver(r) PROVE SharedInv'
  <2>1. PICK st \in {"local", "publish"} : req' = [req EXCEPT ![r].at = st]
    BY <1>4 DEF Gathered, LocalOver
  <2>2. \A q \in Requests : req'[q].old = req[q].old
    BY <1>0, <2>1 DEF Request
  <2> QED BY <1>4, <2>2, SharedKept DEF Gathered, LocalOver
<1>5. ASSUME NEW r \in Requests, PublishStale(r) \/ PublishLive(r) \/ Abandon(r) PROVE SharedInv'
  <2>1. PICK st \in {"live", "unkept"} : req' = [req EXCEPT ![r] = Blank(st, @.gen)]
    BY <1>5 DEF PublishStale, PublishLive, Abandon
  <2>2. \A q \in Requests : req'[q].old \in {req[q].old, {}}
    BY <1>0, <2>1 DEF Blank
  <2> QED BY <1>5, <2>2, SharedKept DEF PublishStale, PublishLive, Abandon
<1>6. ASSUME NEW r \in Requests, NEW s \in Slots, Take(r, s) \/ EndJob(r, s) PROVE SharedInv'
  BY <1>6, SharedKept DEF Take, EndJob
<1>7. ASSUME NEW r \in Requests, NEW s \in Slots,
             SkipBusy(r, s) \/ Collect(r, s) \/ TimeOut(r, s)
      PROVE  SharedInv'
  <2>1. \E got \in BOOLEAN : Close(r, s, got)
    BY <1>7 DEF SkipBusy, Collect, TimeOut
  <2>2. \A q \in Requests : req'[q].old = req[q].old
    BY <1>0, <2>1 DEF Close, Request
  <2> QED BY <1>7, <2>2, SharedKept DEF SkipBusy, Collect, TimeOut
<1>8. ASSUME NEW r \in Requests, NEW s \in Slots, StartJob(r, s) PROVE SharedInv'
  <2>1. CASE s = "breadth"
    <3>1. call[<<r, "breadth">>].at = "none"
      BY <1>0, <1>8, <2>1 DEF StartJob, FreshInv, NotStarted
    <3>2. call' = [call EXCEPT ![<<r, "breadth">>].at = "ask"] /\ home' = home /\ req' = req
      BY <1>8, <2>1 DEF StartJob
    <3> QED BY <1>0, <3>1, <3>2, SharedAsks
  <2>2. CASE s # "breadth"
    BY <1>8, <2>2, SharedKept DEF StartJob, cls
  <2> QED BY <2>1, <2>2
<1>9. ASSUME NEW c \in Calls, CallStep(c) PROVE SharedInv'
  BY <1>9, SharedCall
<1>10. ASSUME ExpireHome PROVE SharedInv'
  <2>1. call' = call /\ req' = req /\ home'.cache = None /\ home'.flight = home.flight
    BY <1>0, <1>10 DEF ExpireHome, only_call
  <2>2. \A r \in Requests : None \notin req[r].old
    BY <1>0, RequestAssumption DEF Request
  <2>3. \A r \in Requests : OldIsOver(r)'
    BY <2>1, <2>2 DEF SharedInv, OldIsOver
  <2>4. \A c \in Calls : OwnFrom(c)' /\ NotOld(c)'
    BY <2>1 DEF SharedInv, OwnFrom, NotOld
  <2>5. FlightIsServed'
    BY <2>1 DEF SharedInv, FlightIsServed, Ended
  <2> QED BY <2>3, <2>4, <2>5 DEF SharedInv
<1>11. ASSUME Over \/ UNCHANGED vars PROVE SharedInv'
  <2>1. UNCHANGED cls /\ \A r \in Requests : req'[r].old = req[r].old
    BY <1>11 DEF Over, vars, cls
  <2> QED BY <2>1, SharedKept
<1> QED BY <1>1, <1>2, <1>3, <1>4, <1>5, <1>6, <1>7, <1>8, <1>9, <1>10, <1>11, Steps

LEMMA FreshInit == ASSUME Init PROVE FreshInv
<1>1. "breadth" \in Slots /\ \A r \in Requests : <<r, "indexes">> \in Calls /\ <<r, "breadth">> \in Calls
  BY PartAssumption, SlotAssumption DEF Calls
<1> QED BY <1>1 DEF Init, FreshInv, NotGathered, NotStarted, Fresh, Quiet, Blank

LEMMA SharedAlways == Spec => [](TypeOK /\ FreshInv /\ SharedInv)
<1>1. Init => FreshInv /\ SharedInv
  BY FreshInit, SharedInit
<1>2. TypeOK /\ FreshInv /\ SharedInv /\ [Next]_vars => FreshInv' /\ SharedInv'
  BY FreshStep, SharedStep
<1> QED BY <1>1, <1>2, RealtimeTypeCorrect, PTL DEF Spec

\* Who joins a CLS request joins one that its owner still works on, so the event waited
\* for is set (realtime.py:843-889).
THEOREM FlightCorrect == Spec => []FlightIsServed
<1>1. SharedInv => FlightIsServed
  BY DEF SharedInv
<1> QED BY <1>1, SharedAlways, PTL

\* No request is given quotes of a CLS request that had ended before it began to gather
\* (realtime.py:331, :891-894).
THEOREM QuotesCorrect == Spec => []QuotesAreOfTheRequest
<1>1. SharedInv => QuotesAreOfTheRequest
  BY DEF SharedInv, NotOld, QuotesAreOfTheRequest
<1> QED BY <1>1, SharedAlways, PTL

=============================================================================
