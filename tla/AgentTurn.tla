----------------------------- MODULE AgentTurn -----------------------------
(***************************************************************************)
(* One session's turns in ai/agent.py (AgentRunner.run): the question is   *)
(* appended to the repaired history, the history is cut to its window, and *)
(* the model is asked, its tool calls executed and their results appended, *)
(* until it answers, the steps are used up, the user stops it, or          *)
(* something raises.  ai/facade.py saves the session afterwards in every   *)
(* case but the end of the process, which goes back to the file.           *)
(*                                                                         *)
(* A message is its role, the ids of the calls it makes and the id it      *)
(* answers.  Ids are call_0, call_1, ... of every message, as llm_client   *)
(* makes them up, so they come again in later messages.                    *)
(***************************************************************************)
EXTENDS Integers, Sequences, FiniteSets

CONSTANTS
    MaxCalls,          \* bound: calls of one message
    MaxSteps,          \* config.max_steps
    Window,            \* SHORT_TERM_WINDOW
    MaxPersisted,      \* MAX_PERSISTED_MESSAGES
    MaxParallel,       \* MAX_PARALLEL_TOOLS
    Histories,         \* the histories an older version may have left in the file
    MaxTurns           \* bound: turns

CallIds == 1..MaxCalls

Message ==
    [role : {"user"}, calls : {{}}, id : {0}] \cup [role : {"assistant"}, calls : SUBSET CallIds, id : {0}]
    \cup [role : {"tool"}, calls : {{}}, id : CallIds]
Question == [role |-> "user", calls |-> {}, id |-> 0]
Says(calls) == [role |-> "assistant", calls |-> calls, id |-> 0]
Result(id) == [role |-> "tool", calls |-> {}, id |-> id]

ASSUME AgentAssumption ==
    /\ MaxCalls \in Nat \ {0} /\ MaxSteps \in Nat \ {0} /\ Window \in Nat \ {0}
    /\ MaxPersisted \in Nat \ {0} /\ MaxParallel \in Nat \ {0} /\ MaxTurns \in Nat
    /\ \A ms \in Histories : ms \in Seq(Message)

VARIABLES
    file,         \* the messages in the session file
    messages,     \* session["messages"]
    at,           \* where the turn is
    step,         \* the step of the loop
    writes,       \* calls of the batch that must not run beside others
    tools,        \* call of the batch -> its state
    cancelled,    \* the cancel token
    begun

batch == <<writes, tools>>
agentVars == <<file, messages, at, step, writes, tools, cancelled, begun>>

NoTools == [i \in {} |-> "waiting"]
ToolStates == {"waiting", "queued", "running", "done", "skipped"}
Places == {"idle", "archive", "think", "asked", "tools", "record", "closing", "save"}

AgentTypeOK ==
    /\ file \in Seq(Message) /\ messages \in Seq(Message)
    /\ at \in Places
    /\ step \in 0..MaxSteps + 1
    /\ DOMAIN tools \subseteq CallIds /\ writes \subseteq CallIds
    /\ \A i \in DOMAIN tools : tools[i] \in ToolStates
    /\ cancelled \in BOOLEAN /\ begun \in 0..MaxTurns

-----------------------------------------------------------------------------
(* _repair_interrupted_turn: one pass over the history.  `pending` are the  *)
(* calls of the last message that have no result yet.                       *)

Answers(ids) ==
    LET upTo[n \in 0..MaxCalls] ==
            IF n = 0 THEN <<>>
            ELSE IF n \in ids THEN Append(upTo[n - 1], Result(n)) ELSE upTo[n - 1]
    IN  upTo[MaxCalls]

\* Mutant: a result counts if any message before it made a call of its id.
HealAnyEarlier(healed, message) ==
    IF message.role = "tool"
    THEN IF \E k \in 1..Len(healed.out) : message.id \in healed.out[k].calls
         THEN [out |-> Append(healed.out, message), pending |-> healed.pending \ {message.id}]
         ELSE healed
    ELSE [out |-> Append(healed.out \o Answers(healed.pending), message), pending |-> message.calls]

Heal(healed, message) ==
    IF message.role = "tool"
    THEN IF message.id \in healed.pending
         THEN [out |-> Append(healed.out, message), pending |-> healed.pending \ {message.id}]
         ELSE healed
    ELSE [out |-> Append(healed.out \o Answers(healed.pending), message), pending |-> message.calls]

Repaired(ms) ==
    LET healed[k \in 0..Len(ms)] ==
            IF k = 0 THEN [out |-> <<>>, pending |-> {}] ELSE Heal(healed[k - 1], ms[k])
        all == healed[Len(ms)]
    IN  all.out \o Answers(all.pending)

\* _archive_overflow: more may have to go than the window holds, because of the
\* characters; the cut is at the next question, or there is none.
Cut(ms, overflow) ==
    LET questions == {k \in overflow + 1..Len(ms) : ms[k].role = "user"}
    IN  IF overflow = 0 \/ questions = {} THEN ms
        ELSE SubSeq(ms, CHOOSE k \in questions : \A j \in questions : k <= j, Len(ms))

Overflows(ms) == (IF Len(ms) > Window THEN Len(ms) - Window ELSE 0)..Len(ms)

\* SessionStore.save keeps the newest messages.
Kept(ms) == IF Len(ms) > MaxPersisted THEN SubSeq(ms, Len(ms) - MaxPersisted + 1, Len(ms)) ELSE ms

-----------------------------------------------------------------------------
AgentInit ==
    /\ file \in Histories /\ messages = file
    /\ at = "idle" /\ step = 0
    /\ writes = {} /\ tools = NoTools
    /\ cancelled = FALSE /\ begun = 0

Begin ==
    /\ at = "idle" /\ begun < MaxTurns
    /\ begun' = begun + 1
    /\ messages' = Append(Repaired(file), Question)
    /\ at' = "archive"
    /\ cancelled' = FALSE
    /\ UNCHANGED <<file, step, batch>>

\* The overflow is archived; the summary that is made of it leaves the window alone.
Archive ==
    /\ at = "archive"
    /\ \E overflow \in Overflows(messages) : messages' = Cut(messages, overflow)
    /\ at' = "think" /\ step' = 1
    /\ UNCHANGED <<file, batch, cancelled, begun>>

\* A stop leaves at the next boundary; what the model had said stays.
Stopped == at' = "save" /\ UNCHANGED <<file, step, batch, cancelled, begun>>

StopThinking ==
    /\ at = "think" /\ cancelled
    /\ Stopped /\ UNCHANGED messages

Ask ==
    /\ at = "think" /\ ~cancelled
    /\ at' = IF step > MaxSteps THEN "closing" ELSE "asked"
    /\ UNCHANGED <<file, messages, step, batch, cancelled, begun>>

StopStream ==
    /\ at = "asked" /\ cancelled
    /\ messages' = Append(messages, Says({}))
    /\ Stopped

\* An answer without calls ends the turn, stopped or not.
AnswerPlainly ==
    /\ at = "asked"
    /\ messages' = Append(messages, Says({}))
    /\ at' = "save"
    /\ UNCHANGED <<file, step, batch, cancelled, begun>>

\* Every call is answered at once when the turn is stopped before the batch.
AbandonCalls ==
    /\ at = "asked" /\ cancelled
    /\ \E n \in CallIds : messages' = Append(messages, Says(1..n)) \o Answers(1..n)
    /\ Stopped

MakeCalls ==
    /\ at = "asked" /\ ~cancelled
    /\ \E n \in CallIds :
        /\ messages' = Append(messages, Says(1..n))
        /\ tools' = [i \in 1..n |-> "waiting"]
        /\ writes' \in SUBSET (1..n)
    /\ at' = "tools"
    /\ UNCHANGED <<file, step, cancelled, begun>>

-----------------------------------------------------------------------------
(* _invoke: a batch of readers is handed to a pool, any other goes one by   *)
(* one; both look at the token before a call.                               *)

In(state) == {i \in DOMAIN tools : tools[i] = state}
Set(i, state) ==
    /\ tools' = [tools EXCEPT ![i] = state]
    /\ UNCHANGED <<file, messages, at, step, writes, cancelled, begun>>

ParallelAlways == Cardinality(DOMAIN tools) > 1      \* mutant: writers too
Parallel == Cardinality(DOMAIN tools) > 1 /\ writes = {}

IsNext(i) == at = "tools" /\ i \in In("waiting") /\ \A j \in In("waiting") : i <= j

SkipCall(i) ==
    /\ IsNext(i) /\ cancelled
    /\ ~Parallel => In("running") = {}
    /\ Set(i, "skipped")

Submit(i) == IsNext(i) /\ ~cancelled /\ Parallel /\ Set(i, "queued")

PoolStarts(i) ==
    /\ at = "tools" /\ i \in In("queued") /\ Cardinality(In("running")) < MaxParallel
    /\ \A j \in In("queued") : i <= j
    /\ Set(i, "running")

\* Mutant: the token is not looked at before a call of its own.
RunUnasked(i) == IsNext(i) /\ ~Parallel /\ In("running") = {} /\ Set(i, "running")

RunAlone(i) == IsNext(i) /\ ~cancelled /\ ~Parallel /\ In("running") = {} /\ Set(i, "running")

EndCall(i) == at = "tools" /\ i \in In("running") /\ Set(i, "done")

\* Mutant: the skipped calls are waited for too.
AllDone ==
    /\ at = "tools" /\ \A i \in DOMAIN tools : tools[i] = "done"
    /\ at' = "record"
    /\ UNCHANGED <<file, messages, step, batch, cancelled, begun>>

\* The results are recorded when the whole batch is over.
AllOver ==
    /\ at = "tools" /\ \A i \in DOMAIN tools : tools[i] \in {"done", "skipped"}
    /\ at' = "record"
    /\ UNCHANGED <<file, messages, step, batch, cancelled, begun>>

Record ==
    /\ at = "record" /\ tools # NoTools
    /\ \E i \in DOMAIN tools :
        /\ \A j \in DOMAIN tools : i <= j
        /\ messages' = Append(messages, Result(i))
        /\ tools' = [j \in DOMAIN tools \ {i} |-> tools[j]]
    /\ UNCHANGED <<file, at, step, writes, cancelled, begun>>

NextStep ==
    /\ at = "record" /\ tools = NoTools
    /\ at' = "think" /\ step' = step + 1
    /\ writes' = {}
    /\ UNCHANGED <<file, messages, tools, cancelled, begun>>

\* The closing answer, or the note that it failed.
Close ==
    /\ at = "closing"
    /\ messages' = Append(messages, Says({}))
    /\ at' = "save"
    /\ UNCHANGED <<file, step, batch, cancelled, begun>>

\* The model, a tool or the bookkeeping raises: the turn ends where it is.
Raise ==
    /\ at \in {"archive", "asked", "tools", "record"}
    /\ at' = "save"
    /\ UNCHANGED <<file, messages, step, batch, cancelled, begun>>

\* The worker's finally: saved, and the turn is over.
SaveSession ==
    /\ at = "save"
    /\ file' = Kept(messages) /\ messages' = Kept(messages)
    /\ at' = "idle" /\ step' = 0
    /\ writes' = {} /\ tools' = NoTools
    /\ UNCHANGED <<cancelled, begun>>

Cancel ==
    /\ at # "idle" /\ ~cancelled
    /\ cancelled' = TRUE
    /\ UNCHANGED <<file, messages, at, step, batch, begun>>

Crash ==
    /\ at # "idle"
    /\ messages' = file
    /\ at' = "idle" /\ step' = 0
    /\ writes' = {} /\ tools' = NoTools
    /\ UNCHANGED <<file, cancelled, begun>>

-----------------------------------------------------------------------------
Tool(i) == SkipCall(i) \/ Submit(i) \/ PoolStarts(i) \/ RunAlone(i) \/ EndCall(i)

Work ==
    \/ Archive \/ StopThinking \/ Ask \/ StopStream \/ AnswerPlainly \/ AbandonCalls
    \/ MakeCalls \/ AllOver \/ Record \/ NextStep \/ Close \/ SaveSession
    \/ \E i \in DOMAIN tools : Tool(i)

AgentNext == Begin \/ Work \/ Raise \/ Cancel \/ Crash

\* The model and the tools answer or raise in the end.
AgentSpec == AgentInit /\ [][AgentNext]_agentVars /\ WF_agentVars(Work)

-----------------------------------------------------------------------------
\* The calls of a message are answered by the messages right after it, each once,
\* and a result is nowhere else: what the providers' protocol asks for.
Paired(ms) ==
    \A k \in 1..Len(ms) :
        /\ LET n == Cardinality(ms[k].calls)
           IN  /\ k + n <= Len(ms)
               /\ {ms[k + j].id : j \in 1..n} = ms[k].calls
        /\ ms[k].role = "tool" =>
              \E j \in 1..k - 1 : ms[k].id \in ms[j].calls /\ k - j <= Cardinality(ms[j].calls)

\* The model is never asked with a history its provider would refuse, whatever
\* ended the turns before, and the question of the turn is always in the window.
RequestsAreLegal ==
    at \in {"asked", "closing"} =>
        /\ Paired(messages)
        /\ \E k \in 1..Len(messages) : messages[k].role = "user"

\* A call that writes, or reads the whole warehouse, never runs beside another of
\* its turn.
WritesRunAlone ==
    \A i, j \in In("running") : i # j => {i, j} \cap writes = {}

\* No write starts after the stop: only a batch of readers waits in the pool, so a
\* write is always looked at against the token right before it runs.
StopSparesWrites ==
    [][\A i \in writes : cancelled /\ i \in DOMAIN tools /\ i \in DOMAIN tools' =>
            ~(tools[i] # "running" /\ tools'[i] = "running")]_agentVars

\* A write of the model runs alone and never after a stop.
WritesAreSafe == []WritesRunAlone /\ StopSparesWrites

\* Every turn ends, stopped or not.
TurnsEnd == at # "idle" ~> at = "idle"

\* agent.py:346, "after a stop no new tool is started".  Violated: calls that wait in
\* the pool for a thread are started whenever one is free.
StopStartsNothing ==
    [][\A i \in DOMAIN tools : cancelled /\ i \in DOMAIN tools' =>
            ~(tools[i] # "running" /\ tools'[i] = "running")]_agentVars
=============================================================================
