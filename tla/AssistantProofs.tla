-------------------------- MODULE AssistantProofs --------------------------
(***************************************************************************)
(* The turns of the assistant.  Of one session's (ai/agent.py), for any    *)
(* number of calls, steps, threads, turns and any history in the file: a   *)
(* tool call that writes runs alone and never starts after a stop          *)
(* (_invoke), and the model is only asked with a history its provider      *)
(* accepts (run, _repair_interrupted_turn, _archive_overflow,              *)
(* _execute_tool_calls).  Of all sessions together (ai/facade.py), for any *)
(* number of requests, sessions and lock entries: the locks, the turn      *)
(* registry and the clean-up.                                              *)
(***************************************************************************)
EXTENDS AgentTurn, ChatSessions, FiniteSetTheorems, NaturalsInduction, WellFoundedInduction, TLAPS

-----------------------------------------------------------------------------
(* The batch of calls of a turn.                                            *)

\* While a batch has a call that writes, none of its calls waits in the pool and
\* at most one runs.
OneByOne ==
  writes # {} => /\ In("queued") = {}
                 /\ \A i, j \in In("running") : i = j

\* A batch whose calls move from no state into "queued" or "running" stays as it was.
LEMMA FewerCalls ==
  ASSUME OneByOne, writes' = writes, In("queued")' \subseteq In("queued"),
         In("running")' \subseteq In("running")
  PROVE  OneByOne'
BY DEF OneByOne

LEMMA FreshBatch ==
  ASSUME \A i \in DOMAIN tools' : tools'[i] \notin {"queued", "running"}
  PROVE  OneByOne'
BY DEF OneByOne, In

\* One call moves: only Submit queues it, and only PoolStarts and RunAlone run it.
LEMMA ToolKeeps ==
  ASSUME OneByOne, NEW i \in DOMAIN tools, Tool(i)
  PROVE  OneByOne'
<1>1. ASSUME NEW state, state \notin {"queued", "running"}, Set(i, state) PROVE OneByOne'
  BY <1>1, FewerCalls DEF Set, In
<1>2. CASE Submit(i)
  BY <1>2 DEF Submit, Parallel, Set, OneByOne
<1>3. CASE PoolStarts(i)
  <2>1. writes = {} /\ writes' = writes
    BY <1>3 DEF PoolStarts, Set, OneByOne
  <2> QED BY <2>1 DEF OneByOne
<1>4. CASE RunAlone(i)
  <2>1. /\ In("running") = {} /\ tools' = [tools EXCEPT ![i] = "running"] /\ writes' = writes
    BY <1>4 DEF RunAlone, Set
  <2>2. In("queued")' \subseteq In("queued") /\ In("running")' \subseteq {i}
    BY <2>1 DEF In
  <2> QED BY <2>1, <2>2 DEF OneByOne
<1>5. CASE SkipCall(i)
  BY <1>1, <1>5 DEF SkipCall
<1>6. CASE EndCall(i)
  BY <1>1, <1>6 DEF EndCall
<1> QED BY <1>2, <1>3, <1>4, <1>5, <1>6 DEF Tool

LEMMA StepKeeps ==
  ASSUME OneByOne, [AgentNext]_agentVars
  PROVE  OneByOne'
<1>1. ASSUME UNCHANGED <<writes, tools>> PROVE OneByOne'
  BY <1>1 DEF OneByOne, In
<1>2. ASSUME writes' = {} PROVE OneByOne'
  BY <1>2 DEF OneByOne
<1>3. CASE \E i \in DOMAIN tools : Tool(i)
  BY <1>3, ToolKeeps
<1>4. CASE MakeCalls
  <2>1. PICK n \in CallIds : tools' = [i \in 1..n |-> "waiting"]
    BY <1>4 DEF MakeCalls
  <2> QED BY <2>1, FreshBatch
<1>5. CASE Record
  <2>1. PICK i \in DOMAIN tools : tools' = [j \in DOMAIN tools \ {i} |-> tools[j]]
    BY <1>5 DEF Record
  <2>2. In("queued")' \subseteq In("queued") /\ In("running")' \subseteq In("running")
    BY <2>1 DEF In
  <2> QED BY <1>5, <2>2, FewerCalls DEF Record
<1>6. CASE NextStep \/ SaveSession \/ Crash
  BY <1>2, <1>6 DEF NextStep, SaveSession, Crash
<1>7. CASE \/ Begin \/ Archive \/ StopThinking \/ Ask \/ StopStream \/ AnswerPlainly
           \/ AbandonCalls \/ AllOver \/ Close \/ Raise \/ Cancel \/ UNCHANGED agentVars
  BY <1>1, <1>7 DEF Begin, Archive, StopThinking, Ask, StopStream, AnswerPlainly, AbandonCalls,
                    AllOver, Close, Raise, Cancel, Stopped, batch, agentVars
<1> QED BY <1>3, <1>4, <1>5, <1>6, <1>7 DEF AgentNext, Work

\* What the stop promises of one step.
Spared ==
  \A i \in writes : cancelled /\ i \in DOMAIN tools /\ i \in DOMAIN tools' =>
      ~(tools[i] # "running" /\ tools'[i] = "running")

LEMMA ToolsSpare ==
  ASSUME OneByOne, [AgentNext]_agentVars
  PROVE  [Spared]_agentVars
<1> SUFFICES ASSUME NEW i \in writes, cancelled, i \in DOMAIN tools, i \in DOMAIN tools',
                    tools[i] # "running", tools'[i] = "running"
             PROVE  FALSE
  BY DEF Spared
<1>1. ASSUME UNCHANGED tools PROVE FALSE
  BY <1>1
<1>2. ASSUME NEW k \in DOMAIN tools, Tool(k) PROVE FALSE
  <2>1. ASSUME NEW state, state # "running", Set(k, state) PROVE FALSE
    BY <2>1 DEF Set
  <2>2. CASE PoolStarts(k)
    BY <2>2 DEF PoolStarts, OneByOne
  <2>3. CASE SkipCall(k) \/ Submit(k) \/ EndCall(k)
    BY <2>1, <2>3 DEF SkipCall, Submit, EndCall
  <2>4. CASE RunAlone(k)
    BY <2>4 DEF RunAlone
  <2> QED BY <1>2, <2>2, <2>3, <2>4 DEF Tool
<1>3. CASE MakeCalls
  BY <1>3 DEF MakeCalls
<1>4. CASE Record
  BY <1>4 DEF Record
<1>5. CASE SaveSession \/ Crash
  BY <1>5 DEF SaveSession, Crash, NoTools
<1>6. CASE \/ Begin \/ Archive \/ StopThinking \/ Ask \/ StopStream \/ AnswerPlainly
           \/ AbandonCalls \/ AllOver \/ NextStep \/ Close \/ Raise \/ Cancel \/ UNCHANGED agentVars
  BY <1>1, <1>6 DEF Begin, Archive, StopThinking, Ask, StopStream, AnswerPlainly, AbandonCalls,
                    AllOver, NextStep, Close, Raise, Cancel, Stopped, batch, agentVars
<1> QED BY <1>2, <1>3, <1>4, <1>5, <1>6 DEF AgentNext, Work

\* In every turn, a call that writes never runs beside another call of its batch and
\* is never started once the turn is stopped (AgentRunner._invoke of agent.py),
\* although calls that only read go on being started by the pool.
THEOREM WritesCorrect == AgentSpec => WritesAreSafe
<1>1. AgentInit => OneByOne
  BY DEF AgentInit, OneByOne
<1>2. OneByOne /\ [AgentNext]_agentVars => OneByOne'
  BY StepKeeps
<1>3. OneByOne => WritesRunAlone
  BY DEF OneByOne, WritesRunAlone
<1>4. OneByOne /\ [AgentNext]_agentVars => [Spared]_agentVars
  BY ToolsSpare
<1>5. AgentSpec => []WritesRunAlone
  BY <1>1, <1>2, <1>3, PTL DEF AgentSpec
<1>6. AgentSpec => [][Spared]_agentVars
  BY <1>1, <1>2, <1>4, PTL DEF AgentSpec
<1>7. AgentSpec => StopSparesWrites
  BY <1>6 DEF StopSparesWrites, Spared
<1> QED BY <1>5, <1>7 DEF WritesAreSafe
-----------------------------------------------------------------------------
(* The calls a history still owes a result.                                 *)

LEMMA Least ==
  ASSUME NEW T, T \subseteq Nat, T # {}
  PROVE  \E x \in T : \A y \in T : x <= y
<1>1. PICK x \in T : \A y \in T : ~(<<y, x>> \in OpToRel(<, Nat))
  BY NatLessThanWellFounded, WFMin
<1>2. \A y \in T : ~(y < x)
  BY <1>1 DEF OpToRel
<1> QED
  BY <1>2

\* owed[k] are the calls without a result after k messages: a result answers one of
\* them, and any other message finds none left.
Debts(ms, owed) ==
  /\ owed \in [0..Len(ms) -> SUBSET CallIds] /\ owed[0] = {}
  /\ \A k \in 1..Len(ms) :
        IF ms[k].role = "tool"
        THEN ms[k].id \in owed[k - 1] /\ owed[k] = owed[k - 1] \ {ms[k].id}
        ELSE owed[k - 1] = {} /\ owed[k] = ms[k].calls

Owes(ms, ids) == \E owed : Debts(ms, owed) /\ owed[Len(ms)] = ids

LEMMA EmptyOwesNothing == Owes(<<>>, {})
<1> DEFINE owed == [k \in 0..0 |-> {}]
<1>1. Debts(<<>>, owed) /\ owed[0] = {}
  BY DEF Debts
<1> QED BY <1>1 DEF Owes

\* A result pays a call that is owed.
LEMMA ResultPays ==
  ASSUME NEW ms \in Seq(Message), NEW ids, Owes(ms, ids), NEW m \in Message,
         m.role = "tool", m.id \in ids
  PROVE  Append(ms, m) \in Seq(Message) /\ Owes(Append(ms, m), ids \ {m.id})
<1>1. PICK owed : Debts(ms, owed) /\ owed[Len(ms)] = ids
  BY DEF Owes
<1> DEFINE l == Len(ms)
           more == Append(ms, m)
           paid == [k \in 0..l + 1 |-> IF k <= l THEN owed[k] ELSE ids \ {m.id}]
<1>2. /\ l \in Nat /\ Len(more) = l + 1 /\ more \in Seq(Message)
      /\ \A k \in 1..l : more[k] = ms[k]
      /\ more[l + 1] = m
  OBVIOUS
<1>3. Debts(more, paid)
  <2>1. owed \in [0..l -> SUBSET CallIds] /\ ids \subseteq CallIds
    BY <1>1, <1>2 DEF Debts
  <2>2. paid \in [0..Len(more) -> SUBSET CallIds] /\ paid[0] = {}
    BY <1>1, <1>2, <2>1 DEF Debts
  <2>3. ASSUME NEW k \in 1..l + 1
        PROVE  IF more[k].role = "tool"
               THEN more[k].id \in paid[k - 1] /\ paid[k] = paid[k - 1] \ {more[k].id}
               ELSE paid[k - 1] = {} /\ paid[k] = more[k].calls
    <3>1. CASE k = l + 1
      BY <1>1, <1>2, <3>1
    <3>2. CASE k # l + 1
      BY <1>1, <1>2, <3>2 DEF Debts
    <3> QED BY <3>1, <3>2
  <2> QED BY <1>2, <2>2, <2>3 DEF Debts
<1>4. paid[Len(more)] = ids \ {m.id}
  BY <1>2
<1> QED BY <1>2, <1>3, <1>4 DEF Owes

\* Any other message may come when nothing is owed; its calls are owed next.
LEMMA CallsAreOwed ==
  ASSUME NEW ms \in Seq(Message), Owes(ms, {}), NEW m \in Message, m.role # "tool"
  PROVE  Append(ms, m) \in Seq(Message) /\ Owes(Append(ms, m), m.calls)
<1>1. PICK owed : Debts(ms, owed) /\ owed[Len(ms)] = {}
  BY DEF Owes
<1> DEFINE l == Len(ms)
           more == Append(ms, m)
           next == [k \in 0..l + 1 |-> IF k <= l THEN owed[k] ELSE m.calls]
<1>2. /\ l \in Nat /\ Len(more) = l + 1 /\ more \in Seq(Message)
      /\ \A k \in 1..l : more[k] = ms[k]
      /\ more[l + 1] = m
  OBVIOUS
<1>3. Debts(more, next)
  <2>1. owed \in [0..l -> SUBSET CallIds] /\ m.calls \subseteq CallIds
    BY <1>1, <1>2 DEF Debts, Message
  <2>2. next \in [0..Len(more) -> SUBSET CallIds] /\ next[0] = {}
    BY <1>1, <1>2, <2>1 DEF Debts
  <2>3. ASSUME NEW k \in 1..l + 1
        PROVE  IF more[k].role = "tool"
               THEN more[k].id \in next[k - 1] /\ next[k] = next[k - 1] \ {more[k].id}
               ELSE next[k - 1] = {} /\ next[k] = more[k].calls
    <3>1. CASE k = l + 1
      BY <1>1, <1>2, <3>1
    <3>2. CASE k # l + 1
      BY <1>1, <1>2, <3>2 DEF Debts
    <3> QED BY <3>1, <3>2
  <2> QED BY <1>2, <2>2, <2>3 DEF Debts
<1>4. next[Len(more)] = m.calls
  BY <1>2
<1> QED BY <1>2, <1>3, <1>4 DEF Owes

\* A history cut before a message that answers nothing owes what it owed.
LEMMA CutOwesTheSame ==
  ASSUME NEW ms \in Seq(Message), NEW ids, Owes(ms, ids),
         NEW q \in 1..Len(ms), ms[q].role # "tool"
  PROVE  SubSeq(ms, q, Len(ms)) \in Seq(Message) /\ Owes(SubSeq(ms, q, Len(ms)), ids)
<1>1. PICK owed : Debts(ms, owed) /\ owed[Len(ms)] = ids
  BY DEF Owes
<1> DEFINE l == Len(ms)
           cut == SubSeq(ms, q, l)
           rest == [k \in 0..l - q + 1 |-> owed[q - 1 + k]]
<1>2. /\ l \in Nat /\ q \in Nat /\ Len(cut) = l - q + 1 /\ cut \in Seq(Message)
      /\ \A k \in 1..l - q + 1 : cut[k] = ms[q - 1 + k]
  OBVIOUS
<1>3. Debts(cut, rest)
  <2>1. owed \in [0..l -> SUBSET CallIds] /\ owed[q - 1] = {}
    BY <1>1, <1>2 DEF Debts
  <2>2. rest \in [0..Len(cut) -> SUBSET CallIds] /\ rest[0] = {}
    BY <1>2, <2>1
  <2>3. ASSUME NEW k \in 1..l - q + 1
        PROVE  IF cut[k].role = "tool"
               THEN cut[k].id \in rest[k - 1] /\ rest[k] = rest[k - 1] \ {cut[k].id}
               ELSE rest[k - 1] = {} /\ rest[k] = cut[k].calls
    <3> DEFINE j == q - 1 + k
    <3>1. j \in 1..l /\ cut[k] = ms[j] /\ rest[k] = owed[j] /\ rest[k - 1] = owed[j - 1]
      BY <1>2, SMTT(30)
    <3> HIDE DEF j, cut, rest
    <3> QED BY <1>1, <3>1 DEF Debts
  <2> QED BY <1>2, <2>2, <2>3 DEF Debts
<1>4. rest[Len(cut)] = ids
  <2>1. q - 1 + (l - q + 1) = l /\ l - q + 1 \in 0..l - q + 1
    BY <1>2
  <2> QED BY <1>1, <1>2, <2>1
<1> QED BY <1>2, <1>3, <1>4 DEF Owes
-----------------------------------------------------------------------------
(* The answers to the calls of a broken batch, and the repair of a history. *)

\* f gives the answers to the first n ids, for n up to m.
AnswersUpTo(ids, m, f) ==
  f = [n \in 0..m |-> IF n = 0 THEN <<>>
                      ELSE IF n \in ids THEN Append(f[n - 1], Result(n)) ELSE f[n - 1]]

LEMMA AnswersExist ==
  ASSUME NEW ids, NEW m \in Nat
  PROVE  \E f : AnswersUpTo(ids, m, f)
<1> DEFINE T == {k \in Nat : ~ \E f : AnswersUpTo(ids, k, f)}
<1> SUFFICES ASSUME T # {} PROVE FALSE
  OBVIOUS
<1>1. PICK k \in T : \A y \in T : k <= y
  <2>1. T \subseteq Nat
    OBVIOUS
  <2> HIDE DEF T
  <2> QED BY <2>1, Least
<1>2. k # 0
  <2> DEFINE z == [n \in 0..0 |-> <<>>]
  <2>1. AnswersUpTo(ids, 0, z)
    BY DEF AnswersUpTo
  <2> HIDE DEF z
  <2>2. 0 \notin T
    BY <2>1
  <2> QED BY <2>2
<1>3. k \in Nat /\ k - 1 \in Nat /\ k - 1 \notin T
  <2>1. k \in Nat
    OBVIOUS
  <2> HIDE DEF T
  <2> QED BY <1>1, <1>2, <2>1
<1>4. PICK f : AnswersUpTo(ids, k - 1, f)
  BY <1>3
<1> DEFINE g == [n \in 0..k |-> IF n < k THEN f[n]
                                ELSE IF k \in ids THEN Append(f[k - 1], Result(k)) ELSE f[k - 1]]
<1>5. AnswersUpTo(ids, k, g)
  <2>1. \A n \in 0..k - 1 :
           f[n] = IF n = 0 THEN <<>>
                  ELSE IF n \in ids THEN Append(f[n - 1], Result(n)) ELSE f[n - 1]
    BY <1>3, <1>4 DEF AnswersUpTo
  <2>2. ASSUME NEW n \in 0..k
        PROVE  g[n] = IF n = 0 THEN <<>>
                      ELSE IF n \in ids THEN Append(g[n - 1], Result(n)) ELSE g[n - 1]
    <3>1. CASE n = k
      <4>1. g[k - 1] = f[k - 1]
        BY <1>3
      <4> QED BY <1>2, <3>1, <4>1
    <3>2. CASE n # k
      <4>1. n \in 0..k - 1 /\ g[n] = f[n] /\ (n # 0 => g[n - 1] = f[n - 1])
        BY <1>3, <3>2
      <4> HIDE DEF g
      <4> QED BY <2>1, <4>1
    <3> QED BY <3>1, <3>2
  <2>3. g = [n \in 0..k |-> g[n]]
    OBVIOUS
  <2> HIDE DEF g
  <2> QED BY <2>2, <2>3 DEF AnswersUpTo
<1> QED BY <1>5

\* Whatever the history owes, the answers pay it.
LEMMA AnswersPay ==
  ASSUME NEW ms \in Seq(Message), NEW ids \in SUBSET CallIds, Owes(ms, ids)
  PROVE  ms \o Answers(ids) \in Seq(Message) /\ Owes(ms \o Answers(ids), {})
<1> DEFINE f == CHOOSE f : AnswersUpTo(ids, MaxCalls, f)
<1>1. AnswersUpTo(ids, MaxCalls, f)
  <2>1. \E x : AnswersUpTo(ids, MaxCalls, x)
    BY AnswersExist, AgentAssumption
  <2> QED BY <2>1
<1>2. Answers(ids) = f[MaxCalls]
  BY DEF Answers, AnswersUpTo
<1> HIDE DEF f
<1> DEFINE Paid(n) == /\ f[n] \in Seq(Message) /\ ms \o f[n] \in Seq(Message)
                      /\ Owes(ms \o f[n], ids \ 1..n)
           T == {n \in 0..MaxCalls : ~Paid(n)}
<1>3. ASSUME T # {} PROVE FALSE
  <2>1. PICK n \in T : \A y \in T : n <= y
    <3>1. T \subseteq Nat
      BY AgentAssumption
    <3> HIDE DEF T
    <3> QED BY <1>3, <3>1, Least
  <2>2. n # 0
    <3>1. f[0] = <<>> /\ ids \ 1..0 = ids
      BY <1>1, AgentAssumption DEF AnswersUpTo
    <3>2. ms \o <<>> = ms
      OBVIOUS
    <3>3. Paid(0)
      BY <3>1, <3>2
    <3> QED BY <3>3
  <2>3. n \in Nat /\ n \in 0..MaxCalls /\ n \in CallIds /\ n - 1 \in Nat /\ Paid(n - 1)
    <3>1. n \in 0..MaxCalls
      OBVIOUS
    <3>2. n - 1 \in 0..MaxCalls /\ n - 1 \notin T
      <4> HIDE DEF T
      <4> QED BY <2>1, <2>2, <3>1, AgentAssumption
    <3> HIDE DEF Paid
    <3> QED BY <2>2, <3>1, <3>2, AgentAssumption DEF CallIds
  <2>4. f[n] = IF n \in ids THEN Append(f[n - 1], Result(n)) ELSE f[n - 1]
    BY <1>1, <2>2, <2>3, AgentAssumption DEF AnswersUpTo
  <2>5. CASE n \in ids
    <3>1. Result(n) \in Message /\ Result(n).role = "tool" /\ Result(n).id = n
      BY <2>3 DEF Result, Message
    <3>2. n \in ids \ 1..(n - 1)
      BY <2>3, <2>5
    <3>3. /\ Append(ms \o f[n - 1], Result(n)) \in Seq(Message)
          /\ Owes(Append(ms \o f[n - 1], Result(n)), (ids \ 1..(n - 1)) \ {n})
      BY <2>3, <3>1, <3>2, ResultPays
    <3>4. (ids \ 1..(n - 1)) \ {n} = ids \ 1..n
      <4>1. 1..n = 1..(n - 1) \cup {n}
        BY <2>3, <2>2
      <4> QED BY <4>1
    <3>5. ms \o Append(f[n - 1], Result(n)) = Append(ms \o f[n - 1], Result(n))
      BY <2>3, <3>1
    <3>6. Append(f[n - 1], Result(n)) \in Seq(Message)
      BY <2>3, <3>1
    <3> QED BY <2>4, <2>5, <3>3, <3>4, <3>5, <3>6
  <2>6. CASE n \notin ids
    <3>1. ids \ 1..n = ids \ 1..(n - 1)
      <4>1. 1..n = 1..(n - 1) \cup {n}
        BY <2>3, <2>2
      <4> QED BY <2>6, <4>1
    <3> QED BY <2>3, <2>4, <2>6, <3>1
  <2> QED BY <2>5, <2>6
<1>4. Paid(MaxCalls) /\ ids \ 1..MaxCalls = {}
  <2>1. MaxCalls \in 0..MaxCalls /\ ids \ 1..MaxCalls = {}
    BY AgentAssumption DEF CallIds
  <2> HIDE DEF Paid
  <2> QED BY <1>3, <2>1
<1> QED BY <1>2, <1>4

HealedUpTo(ms, m, f) ==
  f = [k \in 0..m |-> IF k = 0 THEN [out |-> <<>>, pending |-> {}] ELSE Heal(f[k - 1], ms[k])]

LEMMA HealedExist ==
  ASSUME NEW ms, NEW m \in Nat
  PROVE  \E f : HealedUpTo(ms, m, f)
<1> DEFINE T == {k \in Nat : ~ \E f : HealedUpTo(ms, k, f)}
<1> SUFFICES ASSUME T # {} PROVE FALSE
  OBVIOUS
<1>1. PICK k \in T : \A y \in T : k <= y
  <2>1. T \subseteq Nat
    OBVIOUS
  <2> HIDE DEF T
  <2> QED BY <2>1, Least
<1>2. k # 0
  <2> DEFINE z == [n \in 0..0 |-> [out |-> <<>>, pending |-> {}]]
  <2>1. HealedUpTo(ms, 0, z)
    BY DEF HealedUpTo
  <2> HIDE DEF z
  <2>2. 0 \notin T
    BY <2>1
  <2> QED BY <2>2
<1>3. k \in Nat /\ k - 1 \in Nat /\ k - 1 \notin T
  <2>1. k \in Nat
    OBVIOUS
  <2> HIDE DEF T
  <2> QED BY <1>1, <1>2, <2>1
<1>4. PICK f : HealedUpTo(ms, k - 1, f)
  BY <1>3
<1> DEFINE g == [n \in 0..k |-> IF n < k THEN f[n] ELSE Heal(f[k - 1], ms[k])]
<1>5. HealedUpTo(ms, k, g)
  <2>1. \A n \in 0..k - 1 :
           f[n] = IF n = 0 THEN [out |-> <<>>, pending |-> {}] ELSE Heal(f[n - 1], ms[n])
    BY <1>3, <1>4 DEF HealedUpTo
  <2>2. ASSUME NEW n \in 0..k
        PROVE  g[n] = IF n = 0 THEN [out |-> <<>>, pending |-> {}] ELSE Heal(g[n - 1], ms[n])
    <3>1. CASE n = k
      <4>1. g[k - 1] = f[k - 1]
        BY <1>3
      <4> QED BY <1>2, <3>1, <4>1
    <3>2. CASE n # k
      <4>1. n \in 0..k - 1 /\ g[n] = f[n] /\ (n # 0 => g[n - 1] = f[n - 1])
        BY <1>3, <3>2
      <4> HIDE DEF g
      <4> QED BY <2>1, <4>1
    <3> QED BY <3>1, <3>2
  <2>3. g = [n \in 0..k |-> g[n]]
    OBVIOUS
  <2> HIDE DEF g
  <2> QED BY <2>2, <2>3 DEF HealedUpTo
<1> QED BY <1>5

Healthy(healed) ==
  /\ healed.out \in Seq(Message) /\ healed.pending \in SUBSET CallIds
  /\ Owes(healed.out, healed.pending)

\* One message more: a result without its call is dropped, and the calls still owed
\* are answered before any other message.
LEMMA HealKeepsHealthy ==
  ASSUME NEW healed, Healthy(healed), NEW message \in Message
  PROVE  Healthy(Heal(healed, message))
<1>1. CASE message.role = "tool" /\ message.id \in healed.pending
  <2>1. /\ Append(healed.out, message) \in Seq(Message)
        /\ Owes(Append(healed.out, message), healed.pending \ {message.id})
    BY <1>1, ResultPays DEF Healthy
  <2> QED BY <1>1, <2>1 DEF Heal, Healthy
<1>2. CASE message.role = "tool" /\ message.id \notin healed.pending
  BY <1>2 DEF Heal
<1>3. CASE message.role # "tool"
  <2> DEFINE answered == healed.out \o Answers(healed.pending)
  <2>1. answered \in Seq(Message) /\ Owes(answered, {})
    BY AnswersPay DEF Healthy
  <2>2. Append(answered, message) \in Seq(Message) /\ Owes(Append(answered, message), message.calls)
    BY <1>3, <2>1, CallsAreOwed
  <2>3. message.calls \in SUBSET CallIds
    BY DEF Message
  <2>4. Heal(healed, message) = [out |-> Append(answered, message), pending |-> message.calls]
    BY <1>3 DEF Heal
  <2> QED BY <2>2, <2>3, <2>4 DEF Healthy
<1> QED BY <1>1, <1>2, <1>3

\* Whatever the history, the repaired one owes nothing.
LEMMA RepairedOwesNothing ==
  ASSUME NEW ms \in Seq(Message)
  PROVE  Repaired(ms) \in Seq(Message) /\ Owes(Repaired(ms), {})
<1> DEFINE l == Len(ms)
           f == CHOOSE f : HealedUpTo(ms, l, f)
<1>0. l \in Nat /\ \A k \in 1..l : ms[k] \in Message
  OBVIOUS
<1>1. HealedUpTo(ms, l, f)
  <2>1. \E x : HealedUpTo(ms, l, x)
    BY <1>0, HealedExist
  <2> QED BY <2>1
<1>2. Repaired(ms) = f[l].out \o Answers(f[l].pending)
  BY DEF Repaired, HealedUpTo
<1> HIDE DEF f, l
<1> DEFINE T == {k \in 0..l : ~Healthy(f[k])}
<1>3. ASSUME T # {} PROVE FALSE
  <2>1. PICK k \in T : \A y \in T : k <= y
    <3>1. T \subseteq Nat
      BY <1>0
    <3> HIDE DEF T
    <3> QED BY <1>3, <3>1, Least
  <2>2. k # 0
    <3>1. f[0] = [out |-> <<>>, pending |-> {}]
      BY <1>0, <1>1 DEF HealedUpTo
    <3>2. Healthy(f[0])
      BY <3>1, EmptyOwesNothing DEF Healthy
    <3> QED BY <3>2
  <2>3. k \in 1..l /\ Healthy(f[k - 1])
    <3>1. k \in 0..l
      OBVIOUS
    <3>2. k - 1 \in 0..l /\ k - 1 \notin T
      <4> HIDE DEF T
      <4> QED BY <1>0, <2>1, <2>2, <3>1
    <3> QED BY <1>0, <2>2, <3>1, <3>2
  <2>4. f[k] = Heal(f[k - 1], ms[k])
    <3>1. \A j \in 0..l : f[j] = IF j = 0 THEN [out |-> <<>>, pending |-> {}] ELSE Heal(f[j - 1], ms[j])
      BY <1>1 DEF HealedUpTo
    <3>2. k \in 0..l /\ k # 0
      BY <1>0, <2>3
    <3> HIDE DEF T
    <3> QED BY <3>1, <3>2
  <2> QED BY <1>0, <2>3, <2>4, HealKeepsHealthy
<1>4. Healthy(f[l])
  BY <1>0, <1>3
<1> QED BY <1>2, <1>4, AnswersPay DEF Healthy
-----------------------------------------------------------------------------
(* A history that owes nothing is one the providers accept.                 *)

\* The calls of a message and what is owed of them are finite.
LEMMA CallsAreFinite ==
  ASSUME NEW ids \in SUBSET CallIds
  PROVE  /\ IsFiniteSet(ids) /\ Cardinality(ids) \in Nat
         /\ Cardinality(ids) = 0 <=> ids = {}
         /\ \A x \in ids : Cardinality(ids \ {x}) = Cardinality(ids) - 1
<1>1. IsFiniteSet(CallIds)
  BY FS_Interval, AgentAssumption DEF CallIds
<1>2. IsFiniteSet(ids)
  BY <1>1, FS_Subset
<1> QED BY <1>2, FS_CardinalityType, FS_EmptySet, FS_RemoveElement

\* The j messages after k are answers to calls of k.
Answered(ms, owed, k, j) ==
  LET answers == {ms[k + i].id : i \in 1..j}
  IN  /\ k + j <= Len(ms) /\ answers \subseteq ms[k].calls
      /\ owed[k + j] = ms[k].calls \ answers
      /\ Cardinality(owed[k + j]) = Cardinality(ms[k].calls) - j

LEMMA AnswersFollow ==
  ASSUME NEW ms \in Seq(Message), NEW owed, Debts(ms, owed), owed[Len(ms)] = {},
         NEW k \in 1..Len(ms), ms[k].role # "tool"
  PROVE  LET n == Cardinality(ms[k].calls)
         IN  k + n <= Len(ms) /\ {ms[k + j].id : j \in 1..n} = ms[k].calls
<1> DEFINE calls == ms[k].calls
           n == Cardinality(calls)
           l == Len(ms)
           T == {j \in 0..n : ~Answered(ms, owed, k, j)}
<1>0. l \in Nat /\ k \in Nat /\ k \in 1..l /\ \A i \in 1..l : ms[i] \in Message
  OBVIOUS
<1>1. calls \in SUBSET CallIds /\ n \in Nat
  <2>1. calls \in SUBSET CallIds
    BY <1>0 DEF Message
  <2> QED BY <2>1, CallsAreFinite
<1>2. /\ \A i \in 0..l : owed[i] \in SUBSET CallIds
      /\ owed[k] = calls
      /\ \A i \in 1..l : IF ms[i].role = "tool"
                         THEN ms[i].id \in owed[i - 1] /\ owed[i] = owed[i - 1] \ {ms[i].id}
                         ELSE owed[i - 1] = {} /\ owed[i] = ms[i].calls
  BY <1>0 DEF Debts
<1>3. ASSUME T # {} PROVE FALSE
  <2>1. PICK j \in T : \A y \in T : j <= y
    <3>1. T \subseteq Nat
      BY <1>1
    <3> HIDE DEF T
    <3> QED BY <1>3, <3>1, Least
  <2>2. j # 0
    <3>1. {ms[k + i].id : i \in 1..0} = {} /\ k + 0 = k
      BY <1>0
    <3>2. Answered(ms, owed, k, 0)
      <4> HIDE DEF n, calls
      <4>1. calls \ {} = calls /\ Cardinality(calls) = n /\ n - 0 = n
        BY <1>1 DEF n
      <4> QED BY <1>0, <1>1, <1>2, <3>1, <4>1 DEF Answered, calls, n
    <3> QED BY <3>2
  <2>3. j \in 1..n /\ j - 1 \in 0..n /\ Answered(ms, owed, k, j - 1)
    <3>1. j \in 0..n
      OBVIOUS
    <3>2. j \in 1..n /\ j - 1 \in 0..n /\ j - 1 \notin T
      <4> HIDE DEF T
      <4> QED BY <1>1, <2>1, <2>2, <3>1
    <3> QED BY <3>2
  <2> DEFINE p == k + (j - 1)
             before == {ms[k + i].id : i \in 1..(j - 1)}
  <2>4. /\ p <= l /\ before \subseteq calls /\ owed[p] = calls \ before
        /\ Cardinality(owed[p]) = n - (j - 1)
    BY <2>3 DEF Answered
  <2>5. p \in 0..l /\ p \in Nat /\ k + j = p + 1
    BY <1>0, <1>1, <2>3, <2>4
  <2> HIDE DEF p, n, calls, l, T
  <2>6. owed[p] # {}
    <3>1. Cardinality(owed[p]) # 0
      BY <1>1, <2>3, <2>4
    <3> QED BY <1>2, <2>5, <3>1, CallsAreFinite
  <2>7. p + 1 \in 1..l
    <3>1. p # l
      BY <2>6 DEF l
    <3> QED BY <1>0, <2>5, <3>1
  <2>8. ms[p + 1].id \in owed[p] /\ owed[p + 1] = owed[p] \ {ms[p + 1].id}
    <3> DEFINE i == p + 1
    <3>1. i \in 1..l /\ i - 1 = p
      BY <2>5, <2>7
    <3> HIDE DEF i
    <3>2. ms[i].id \in owed[p] /\ owed[i] = owed[p] \ {ms[i].id}
      BY <1>2, <2>6, <3>1
    <3> QED BY <3>2 DEF i
  <2>9. {ms[k + i].id : i \in 1..j} = before \cup {ms[p + 1].id}
    <3>1. 1..j = 1..(j - 1) \cup {j}
      BY <1>1, <2>3
    <3> QED BY <2>5, <3>1
  <2>10. Cardinality(owed[p + 1]) = n - j
    <3>1. Cardinality(owed[p + 1]) = Cardinality(owed[p]) - 1
      BY <1>2, <2>5, <2>8, CallsAreFinite
    <3> QED BY <1>1, <2>3, <2>4, <3>1
  <2>11. Answered(ms, owed, k, j)
    <3>1. k + j <= Len(ms)
      BY <2>5, <2>7 DEF l
    <3>2. {ms[k + i].id : i \in 1..j} \subseteq ms[k].calls
      BY <2>4, <2>8, <2>9 DEF calls
    <3>3. owed[k + j] = ms[k].calls \ {ms[k + i].id : i \in 1..j}
      BY <2>4, <2>5, <2>8, <2>9 DEF calls
    <3>4. Cardinality(owed[k + j]) = Cardinality(ms[k].calls) - j
      BY <2>5, <2>10 DEF n, calls
    <3> QED BY <3>1, <3>2, <3>3, <3>4 DEF Answered
  <2>12. j \notin T
    BY <2>11 DEF T
  <2> QED BY <2>1, <2>12
<1>4. Answered(ms, owed, k, n)
  <2>1. n \in 0..n
    BY <1>1
  <2> QED BY <1>3, <2>1
<1>5. owed[k + n] = {}
  <2>1. Cardinality(owed[k + n]) = 0 /\ k + n \in 0..l
    <3> HIDE DEF n, l
    <3>1. Cardinality(owed[k + n]) = n - n /\ k + n <= l
      BY <1>4 DEF Answered, n, calls, l
    <3> QED BY <1>0, <1>1, <3>1
  <2> QED BY <1>2, <2>1, CallsAreFinite
<1> QED BY <1>4, <1>5 DEF Answered

\* What is owed after k messages are calls of one message, and as many of them were
\* answered as messages came since.
Traced(ms, owed, k) ==
  owed[k] # {} =>
    \E j \in 1..k : /\ owed[k] \subseteq ms[j].calls
                    /\ Cardinality(owed[k]) + (k - j) = Cardinality(ms[j].calls)

LEMMA DebtsAreTraced ==
  ASSUME NEW ms \in Seq(Message), NEW owed, Debts(ms, owed)
  PROVE  \A k \in 0..Len(ms) : Traced(ms, owed, k)
<1> DEFINE l == Len(ms)
           T == {k \in 0..l : ~Traced(ms, owed, k)}
<1> SUFFICES ASSUME T # {} PROVE FALSE
  OBVIOUS
<1>0. l \in Nat /\ \A i \in 1..l : ms[i] \in Message
  OBVIOUS
<1>1. PICK k \in T : \A y \in T : k <= y
  <2>1. T \subseteq Nat
    BY <1>0
  <2> HIDE DEF T
  <2> QED BY <2>1, Least
<1>2. k # 0
  BY DEF Debts, Traced
<1>3. k \in 1..l /\ k - 1 \in 0..l /\ k - 1 \in Nat /\ Traced(ms, owed, k - 1)
  <2>1. k \in 0..l
    OBVIOUS
  <2>2. k \in 1..l /\ k - 1 \in 0..l /\ k - 1 \notin T
    <3> HIDE DEF T
    <3> QED BY <1>0, <1>1, <1>2, <2>1
  <2> QED BY <1>0, <2>2
<1>4. /\ owed[k - 1] \in SUBSET CallIds /\ owed[k] \in SUBSET CallIds
      /\ IF ms[k].role = "tool"
         THEN ms[k].id \in owed[k - 1] /\ owed[k] = owed[k - 1] \ {ms[k].id}
         ELSE owed[k - 1] = {} /\ owed[k] = ms[k].calls
  BY <1>3 DEF Debts
<1>5. k \in Nat /\ ~Traced(ms, owed, k)
  BY <1>0
<1> HIDE DEF T, l
<1>6. CASE ms[k].role # "tool"
  <2>1. k \in 1..k /\ Cardinality(owed[k]) + (k - k) = Cardinality(owed[k])
    BY <1>3, <1>4, <1>5, CallsAreFinite
  <2> QED BY <1>4, <1>5, <1>6, <2>1 DEF Traced
<1>7. CASE ms[k].role = "tool"
  <2>1. PICK j \in 1..(k - 1) :
            /\ owed[k - 1] \subseteq ms[j].calls
            /\ Cardinality(owed[k - 1]) + (k - 1 - j) = Cardinality(ms[j].calls)
    BY <1>3, <1>4, <1>7 DEF Traced
  <2>2. /\ Cardinality(owed[k]) = Cardinality(owed[k - 1]) - 1
        /\ Cardinality(owed[k - 1]) \in Nat
    BY <1>4, <1>7, CallsAreFinite
  <2>3. j \in 1..k /\ Cardinality(owed[k]) + (k - j) = Cardinality(ms[j].calls)
    BY <1>5, <2>1, <2>2
  <2> QED BY <1>4, <1>5, <1>7, <2>1, <2>3 DEF Traced
<1> QED BY <1>6, <1>7

LEMMA PaidIsPaired ==
  ASSUME NEW ms \in Seq(Message), Owes(ms, {})
  PROVE  Paired(ms)
<1>1. PICK owed : Debts(ms, owed) /\ owed[Len(ms)] = {}
  BY DEF Owes
<1>2. Len(ms) \in Nat
  OBVIOUS
<1> SUFFICES ASSUME NEW k \in 1..Len(ms)
             PROVE  /\ LET n == Cardinality(ms[k].calls)
                       IN  /\ k + n <= Len(ms)
                           /\ {ms[k + j].id : j \in 1..n} = ms[k].calls
                    /\ ms[k].role = "tool" =>
                          \E j \in 1..k - 1 :
                             ms[k].id \in ms[j].calls /\ k - j <= Cardinality(ms[j].calls)
  BY DEF Paired
<1>3. k \in Nat /\ ms[k] \in Message
  BY <1>2
<1>4. CASE ms[k].role # "tool"
  BY <1>1, <1>4, AnswersFollow
<1>5. CASE ms[k].role = "tool"
  <2>1. ms[k].calls = {} /\ Cardinality({}) = 0
    BY <1>3, <1>5, FS_EmptySet DEF Message
  <2>2. k + 0 <= Len(ms) /\ {ms[k + j].id : j \in 1..0} = {}
    BY <1>2, <1>3
  <2>3. k - 1 \in 0..Len(ms) /\ ms[k].id \in owed[k - 1] /\ owed[k - 1] \in SUBSET CallIds
    BY <1>1, <1>2, <1>3, <1>5 DEF Debts
  <2>4. PICK j \in 1..(k - 1) :
            /\ owed[k - 1] \subseteq ms[j].calls
            /\ Cardinality(owed[k - 1]) + (k - 1 - j) = Cardinality(ms[j].calls)
    BY <1>1, <2>3, DebtsAreTraced DEF Traced
  <2>5. Cardinality(owed[k - 1]) \in Nat /\ Cardinality(owed[k - 1]) # 0
    BY <2>3, CallsAreFinite
  <2>6. k - j <= Cardinality(ms[j].calls)
    BY <1>3, <2>4, <2>5
  <2> QED BY <1>5, <2>1, <2>2, <2>3, <2>4, <2>6
<1> QED BY <1>4, <1>5
-----------------------------------------------------------------------------
(* What every step of the turn keeps.                                       *)

HasQuestion(ms) == \E k \in 1..Len(ms) : ms[k].role = "user"

\* While the turn may still ask the model, the messages owe the results of the batch
\* that runs and of no other call.
Sound ==
  /\ file \in Seq(Message) /\ messages \in Seq(Message)
  /\ at \in Places
  /\ DOMAIN tools \subseteq CallIds
  /\ at \in {"archive", "think", "asked", "closing"} =>
        Owes(messages, {}) /\ HasQuestion(messages)
  /\ at \in {"tools", "record"} => Owes(messages, DOMAIN tools) /\ HasQuestion(messages)

LEMMA AppendAsks ==
  ASSUME NEW ms \in Seq(Message), NEW m \in Message, HasQuestion(ms) \/ m.role = "user"
  PROVE  HasQuestion(Append(ms, m))
<1> DEFINE more == Append(ms, m)
<1>1. /\ Len(ms) \in Nat /\ Len(more) = Len(ms) + 1 /\ more[Len(ms) + 1] = m
      /\ \A k \in 1..Len(ms) : more[k] = ms[k]
  OBVIOUS
<1>2. CASE m.role = "user"
  <2>1. Len(ms) + 1 \in 1..Len(more)
    BY <1>1
  <2> QED BY <1>1, <1>2, <2>1 DEF HasQuestion
<1>3. CASE HasQuestion(ms)
  <2>1. PICK k \in 1..Len(ms) : ms[k].role = "user"
    BY <1>3 DEF HasQuestion
  <2>2. k \in 1..Len(more)
    BY <1>1
  <2> QED BY <1>1, <2>1, <2>2 DEF HasQuestion
<1> QED BY <1>2, <1>3

LEMMA MessagesAreMessages ==
  /\ Question \in Message
  /\ \A calls \in SUBSET CallIds : Says(calls) \in Message
  /\ \A i \in CallIds : Result(i) \in Message
BY DEF Question, Says, Result, Message

LEMMA CutKeeps ==
  ASSUME NEW ms \in Seq(Message), Owes(ms, {}), HasQuestion(ms), NEW overflow \in 0..Len(ms)
  PROVE  /\ Cut(ms, overflow) \in Seq(Message)
         /\ Owes(Cut(ms, overflow), {}) /\ HasQuestion(Cut(ms, overflow))
<1> DEFINE questions == {k \in overflow + 1..Len(ms) : ms[k].role = "user"}
<1>1. CASE overflow = 0 \/ questions = {}
  BY <1>1 DEF Cut
<1>2. CASE overflow # 0 /\ questions # {}
  <2> DEFINE q == CHOOSE k \in questions : \A j \in questions : k <= j
             cut == SubSeq(ms, q, Len(ms))
  <2>1. q \in questions
    <3>1. questions \subseteq Nat
      OBVIOUS
    <3> HIDE DEF questions
    <3>2. \E k \in questions : \A j \in questions : k <= j
      BY <1>2, <3>1, Least
    <3> QED BY <3>2
  <2>2. Cut(ms, overflow) = cut
    BY <1>2 DEF Cut
  <2> HIDE DEF q
  <2>3. q \in 1..Len(ms) /\ ms[q].role = "user"
    BY <2>1
  <2>4. cut \in Seq(Message) /\ Owes(cut, {})
    BY <2>3, CutOwesTheSame
  <2>5. HasQuestion(cut)
    <3>1. 1 \in 1..Len(cut) /\ cut[1] = ms[q]
      BY <2>3
    <3> QED BY <2>3, <3>1 DEF HasQuestion
  <2> QED BY <2>2, <2>4, <2>5
<1> QED BY <1>1, <1>2

LEMMA KeptAreMessages ==
  ASSUME NEW ms \in Seq(Message)
  PROVE  Kept(ms) \in Seq(Message)
<1>1. CASE Len(ms) > MaxPersisted
  <2>1. Len(ms) - MaxPersisted + 1 \in 1..Len(ms)
    BY <1>1, AgentAssumption
  <2>2. SubSeq(ms, Len(ms) - MaxPersisted + 1, Len(ms)) \in Seq(Message)
    BY <2>1
  <2> QED BY <1>1, <2>2 DEF Kept
<1>2. CASE ~(Len(ms) > MaxPersisted)
  BY <1>2 DEF Kept
<1> QED BY <1>1, <1>2

LEMMA ToolSound ==
  ASSUME Sound, NEW i \in DOMAIN tools, Tool(i)
  PROVE  Sound'
<1>1. PICK state : Set(i, state)
  BY DEF Tool, SkipCall, Submit, PoolStarts, RunAlone, EndCall
<1>2. DOMAIN tools' = DOMAIN tools /\ UNCHANGED <<file, messages, at>>
  BY <1>1 DEF Set
<1> QED BY <1>2 DEF Sound

LEMMA StepSound ==
  ASSUME Sound, [AgentNext]_agentVars
  PROVE  Sound'
<1>0. /\ file \in Seq(Message) /\ messages \in Seq(Message) /\ DOMAIN tools \subseteq CallIds
      /\ at \in Places
  BY DEF Sound
<1>1. CASE Begin
  <2> DEFINE old == Repaired(file)
  <2>1. old \in Seq(Message) /\ Owes(old, {})
    BY <1>0, RepairedOwesNothing
  <2>2. Question \in Message /\ Question.role = "user" /\ Question.calls = {}
    BY MessagesAreMessages DEF Question
  <2> HIDE DEF old
  <2>3. Append(old, Question) \in Seq(Message) /\ Owes(Append(old, Question), {})
    BY <2>1, <2>2, CallsAreOwed
  <2>4. HasQuestion(Append(old, Question))
    BY <2>1, <2>2, AppendAsks
  <2>5. messages' = Append(old, Question) /\ at' = "archive" /\ UNCHANGED <<file, tools>>
    BY <1>1 DEF Begin, batch, old
  <2> QED BY <1>0, <2>3, <2>4, <2>5 DEF Sound, Places
<1>2. CASE Archive
  <2>1. PICK overflow \in Overflows(messages) : messages' = Cut(messages, overflow)
    BY <1>2 DEF Archive
  <2>2. overflow \in 0..Len(messages)
    <3>1. Len(messages) \in Nat
      BY <1>0
    <3> QED BY <3>1, AgentAssumption DEF Overflows
  <2>3. Owes(messages, {}) /\ HasQuestion(messages)
    BY <1>2 DEF Archive, Sound
  <2>4. messages' \in Seq(Message) /\ Owes(messages', {}) /\ HasQuestion(messages')
    BY <1>0, <2>1, <2>2, <2>3, CutKeeps
  <2>5. at' = "think" /\ UNCHANGED <<file, tools>>
    BY <1>2 DEF Archive, batch
  <2> QED BY <1>0, <2>4, <2>5 DEF Sound, Places
<1>3. CASE StopThinking \/ Raise
  <2>1. at' = "save" /\ UNCHANGED <<file, messages, tools>>
    BY <1>3 DEF StopThinking, Raise, Stopped, batch
  <2> QED BY <1>0, <2>1 DEF Sound, Places
<1>4. CASE Ask
  <2>1. at = "think" /\ at' \in {"asked", "closing"} /\ UNCHANGED <<file, messages, tools>>
    BY <1>4 DEF Ask, batch
  <2> QED BY <2>1 DEF Sound, Places
<1>5. CASE StopStream \/ AnswerPlainly \/ Close
  <2>1. Says({}) \in Message
    BY MessagesAreMessages
  <2>2. messages' = Append(messages, Says({})) /\ at' = "save" /\ UNCHANGED <<file, tools>>
    BY <1>5 DEF StopStream, AnswerPlainly, Close, Stopped, batch
  <2> HIDE DEF Says
  <2>3. messages' \in Seq(Message)
    BY <1>0, <2>1, <2>2
  <2> QED BY <1>0, <2>2, <2>3 DEF Sound, Places
<1>6. ASSUME at = "asked", NEW n \in CallIds
      PROVE  LET asked == Append(messages, Says(1..n))
             IN  /\ 1..n \in SUBSET CallIds /\ asked \in Seq(Message)
                 /\ Owes(asked, 1..n) /\ HasQuestion(asked)
  <2>1. Owes(messages, {}) /\ HasQuestion(messages)
    BY <1>6 DEF Sound
  <2>2. 1..n \in SUBSET CallIds
    BY AgentAssumption DEF CallIds
  <2>3. Says(1..n) \in Message /\ Says(1..n).role # "tool" /\ Says(1..n).calls = 1..n
    BY <2>2, MessagesAreMessages DEF Says
  <2> QED BY <1>0, <2>1, <2>2, <2>3, CallsAreOwed, AppendAsks
<1>7. CASE AbandonCalls
  <2>1. PICK n \in CallIds : messages' = Append(messages, Says(1..n)) \o Answers(1..n)
    BY <1>7 DEF AbandonCalls
  <2>2. at = "asked" /\ at' = "save" /\ UNCHANGED <<file, tools>>
    BY <1>7 DEF AbandonCalls, Stopped, batch
  <2>3. messages' \in Seq(Message)
    BY <1>6, <2>1, <2>2, AnswersPay
  <2> QED BY <1>0, <2>2, <2>3 DEF Sound, Places
<1>8. CASE MakeCalls
  <2>1. PICK n \in CallIds : /\ messages' = Append(messages, Says(1..n))
                        /\ tools' = [i \in 1..n |-> "waiting"]
    BY <1>8 DEF MakeCalls
  <2>2. at = "asked" /\ at' = "tools" /\ file' = file /\ DOMAIN tools' = 1..n
    BY <1>8, <2>1 DEF MakeCalls
  <2> QED BY <1>0, <1>6, <2>1, <2>2 DEF Sound, Places
<1>9. CASE \E i \in DOMAIN tools : Tool(i)
  BY <1>9, ToolSound
<1>10. CASE AllOver
  <2>1. at = "tools" /\ at' = "record" /\ UNCHANGED <<file, messages, tools>>
    BY <1>10 DEF AllOver, batch
  <2> QED BY <2>1 DEF Sound, Places
<1>11. CASE Record
  <2>1. PICK i \in DOMAIN tools : /\ messages' = Append(messages, Result(i))
                                 /\ tools' = [j \in DOMAIN tools \ {i} |-> tools[j]]
    BY <1>11 DEF Record
  <2>2. at = "record" /\ at' = "record" /\ file' = file /\ DOMAIN tools' = DOMAIN tools \ {i}
    BY <1>11, <2>1 DEF Record
  <2>3. Owes(messages, DOMAIN tools) /\ HasQuestion(messages)
    BY <2>2 DEF Sound
  <2>4. Result(i) \in Message /\ Result(i).role = "tool" /\ Result(i).id = i
    BY <1>0, MessagesAreMessages DEF Result
  <2>5. messages' \in Seq(Message) /\ Owes(messages', DOMAIN tools')
    BY <1>0, <2>1, <2>2, <2>3, <2>4, ResultPays
  <2>6. HasQuestion(messages')
    BY <1>0, <2>1, <2>3, <2>4, AppendAsks
  <2> QED BY <1>0, <2>2, <2>5, <2>6 DEF Sound, Places
<1>12. CASE NextStep
  <2>1. /\ at = "record" /\ at' = "think" /\ DOMAIN tools = {}
        /\ UNCHANGED <<file, messages, tools>>
    BY <1>12 DEF NextStep, NoTools
  <2> QED BY <2>1 DEF Sound, Places
<1>13. CASE SaveSession
  <2>1. /\ file' = Kept(messages) /\ messages' = Kept(messages)
        /\ at' = "idle" /\ DOMAIN tools' = {}
    BY <1>13 DEF SaveSession, NoTools
  <2> QED BY <1>0, <2>1, KeptAreMessages DEF Sound, Places
<1>14. CASE Crash
  <2>1. messages' = file /\ file' = file /\ at' = "idle" /\ DOMAIN tools' = {}
    BY <1>14 DEF Crash, NoTools
  <2> QED BY <1>0, <2>1 DEF Sound, Places
<1>15. CASE Cancel \/ UNCHANGED agentVars
  <2>1. UNCHANGED <<file, messages, at, tools>>
    BY <1>15 DEF Cancel, batch, agentVars
  <2> QED BY <2>1 DEF Sound
<1> QED BY <1>1, <1>2, <1>3, <1>4, <1>5, <1>7, <1>8, <1>9, <1>10, <1>11, <1>12, <1>13, <1>14,
           <1>15 DEF AgentNext, Work

\* Whatever history an older version left in the file, and however the turns before
\* ended (a stop in any place, an exception, the end of the process, a save that cut
\* the messages in the middle of a batch), each call in a request is answered by the
\* messages right after it and the question is in it (AgentRunner.run with
\* _repair_interrupted_turn and _archive_overflow of agent.py).
THEOREM RequestsCorrect == AgentSpec => []RequestsAreLegal
<1>1. AgentInit => Sound
  BY AgentAssumption DEF AgentInit, Sound, NoTools, Places
<1>2. Sound /\ [AgentNext]_agentVars => Sound'
  BY StepSound
<1>3. Sound => RequestsAreLegal
  BY PaidIsPaired DEF Sound, RequestsAreLegal, HasQuestion
<1> QED BY <1>1, <1>2, <1>3, PTL DEF AgentSpec
-----------------------------------------------------------------------------
\* A step of the loop is counted before the model is asked, never past the last one.
Typed ==
  /\ step \in 0..MaxSteps + 1
  /\ at = "think" => step # 0
  /\ at \in {"asked", "tools", "record"} => step \in 1..MaxSteps
  /\ writes \subseteq CallIds
  /\ \A i \in DOMAIN tools : tools[i] \in ToolStates
  /\ cancelled \in BOOLEAN /\ begun \in 0..MaxTurns

LEMMA StepStaysTyped ==
  ASSUME Sound, Typed, [AgentNext]_agentVars
  PROVE  Typed'
<1>0. MaxSteps \in Nat \ {0} /\ MaxTurns \in Nat
  BY AgentAssumption
<1>1. CASE Begin
  <2>1. at' = "archive" /\ cancelled' = FALSE /\ begun' = begun + 1 /\ begun < MaxTurns
    BY <1>1 DEF Begin
  <2>2. UNCHANGED <<step, writes, tools>>
    BY <1>1 DEF Begin, batch
  <2>3. begun' \in 0..MaxTurns
    BY <1>0, <2>1 DEF Typed
  <2>4. cancelled' \in BOOLEAN
    BY <2>1
  <2> QED BY <2>1, <2>2, <2>3, <2>4 DEF Typed
<1>2. CASE Archive
  BY <1>0, <1>2 DEF Archive, Typed, batch
<1>3. CASE Ask
  <2>1. at = "think" /\ UNCHANGED <<step, writes, tools, cancelled, begun>>
    BY <1>3 DEF Ask, batch
  <2>2. at' = IF step > MaxSteps THEN "closing" ELSE "asked"
    BY <1>3 DEF Ask
  <2> QED BY <1>0, <2>1, <2>2 DEF Typed
<1>4. CASE MakeCalls
  <2>1. PICK n \in CallIds : tools' = [i \in 1..n |-> "waiting"] /\ writes' \in SUBSET (1..n)
    BY <1>4 DEF MakeCalls
  <2>2. 1..n \subseteq CallIds
    BY AgentAssumption DEF CallIds
  <2>3. \A i \in DOMAIN tools' : tools'[i] \in ToolStates
    BY <2>1 DEF ToolStates
  <2>4. writes' \subseteq CallIds
    BY <2>1, <2>2
  <2>5. at = "asked" /\ at' = "tools" /\ UNCHANGED <<step, cancelled, begun>>
    BY <1>4 DEF MakeCalls
  <2> QED BY <2>3, <2>4, <2>5 DEF Typed
<1>5. CASE \E i \in DOMAIN tools : Tool(i)
  <2>1. PICK i \in DOMAIN tools, state \in ToolStates : Set(i, state)
    BY <1>5 DEF Tool, SkipCall, Submit, PoolStarts, RunAlone, EndCall, ToolStates
  <2>2. DOMAIN tools' = DOMAIN tools /\ \A j \in DOMAIN tools : tools'[j] \in {tools[j], state}
    BY <2>1 DEF Set
  <2>3. UNCHANGED <<at, step, writes, cancelled, begun>>
    BY <2>1 DEF Set
  <2> QED BY <2>1, <2>2, <2>3 DEF Typed
<1>6. CASE Record
  <2>1. PICK i \in DOMAIN tools : tools' = [j \in DOMAIN tools \ {i} |-> tools[j]]
    BY <1>6 DEF Record
  <2>2. \A j \in DOMAIN tools' : tools'[j] \in ToolStates
    BY <2>1 DEF Typed
  <2>3. UNCHANGED <<at, step, writes, cancelled, begun>>
    BY <1>6 DEF Record
  <2> QED BY <2>2, <2>3 DEF Typed
<1>7. CASE NextStep
  <2>1. step \in 1..MaxSteps /\ step' = step + 1 /\ at' = "think" /\ writes' = {}
    BY <1>7 DEF NextStep, Typed
  <2>2. UNCHANGED <<tools, cancelled, begun>>
    BY <1>7 DEF NextStep
  <2> QED BY <1>0, <2>1, <2>2 DEF Typed
<1>8. CASE SaveSession \/ Crash
  <2>1. at' = "idle" /\ step' = 0 /\ writes' = {} /\ tools' = NoTools
    BY <1>8 DEF SaveSession, Crash
  <2>2. UNCHANGED <<cancelled, begun>>
    BY <1>8 DEF SaveSession, Crash
  <2> QED BY <1>0, <2>1, <2>2 DEF Typed, NoTools
<1>9. CASE StopThinking \/ StopStream \/ AnswerPlainly \/ AbandonCalls \/ Close \/ Raise
  <2>1. at' = "save" /\ UNCHANGED <<step, writes, tools, cancelled, begun>>
    BY <1>9 DEF StopThinking, StopStream, AnswerPlainly, AbandonCalls, Close, Raise, Stopped, batch
  <2> QED BY <2>1 DEF Typed
<1>10. CASE AllOver
  <2>1. at = "tools" /\ at' = "record" /\ UNCHANGED <<step, writes, tools, cancelled, begun>>
    BY <1>10 DEF AllOver, batch
  <2> QED BY <2>1 DEF Typed
<1>11. CASE Cancel
  <2>1. cancelled' = TRUE /\ UNCHANGED <<at, step, writes, tools, begun>>
    BY <1>11 DEF Cancel, batch
  <2> QED BY <2>1 DEF Typed
<1>12. CASE UNCHANGED agentVars
  BY <1>12 DEF agentVars, batch, Typed
<1> QED BY <1>1, <1>2, <1>3, <1>4, <1>5, <1>6, <1>7, <1>8, <1>9, <1>10, <1>11, <1>12
        DEF AgentNext, Work

\* The turn's state keeps its types: in particular the loop never asks the model for
\* tools past config.max_steps (AgentRunner.run of agent.py).
THEOREM AgentTypeCorrect == AgentSpec => []AgentTypeOK
<1>1. AgentInit => Sound /\ Typed
  <2>1. AgentInit => Sound
    BY AgentAssumption DEF AgentInit, Sound, NoTools, Places
  <2>2. AgentInit => Typed
    <3>1. 0 \in 0..MaxSteps + 1 /\ 0 \in 0..MaxTurns
      BY AgentAssumption
    <3>2. AgentInit => cancelled \in BOOLEAN
      BY DEF AgentInit
    <3>3. AgentInit => at = "idle" /\ step = 0 /\ writes = {} /\ tools = NoTools /\ begun = 0
      BY DEF AgentInit
    <3> QED BY <3>1, <3>2, <3>3 DEF Typed, NoTools
  <2> QED BY <2>1, <2>2
<1>2. Sound /\ Typed /\ [AgentNext]_agentVars => Sound' /\ Typed'
  BY StepSound, StepStaysTyped
<1>3. Sound /\ Typed => AgentTypeOK
  BY DEF Sound, Typed, AgentTypeOK
<1> QED BY <1>1, <1>2, <1>3, PTL DEF AgentSpec

-----------------------------------------------------------------------------
(* Requests and sessions.                                                   *)

USE RequestAssumption, IdAssumption, LimitAssumption

(* What a step makes of its request; the lock flag and the copy of the     *)
(* session matter to no other request.                                     *)
Becomes(r, stage, want, sid, entry, victims) ==
  /\ req' \in [Requests -> Request]
  /\ \A q \in Requests \ {r} : req'[q] = req[q]
  /\ req'[r].at = stage /\ req'[r].want = want /\ req'[r].sid = sid
  /\ req'[r].entry = entry /\ req'[r].victims = victims

LEMMA Fields ==
  ASSUME NEW q \in Request
  PROVE  /\ q.at \in Stages /\ q.want \in Ids \cup {None} /\ q.sid \in Ids \cup {None}
         /\ q.entry \in Requests \cup {None} /\ q.copy \in SUBSET Requests
         /\ q.victims \in SUBSET Ids
BY DEF Request

\* Each of the updates yields a request.
LEMMA Updated ==
  ASSUME NEW q \in Request, NEW st \in Stages, NEW i \in Ids \cup {None},
         NEW e \in Requests \cup {None}, NEW copy \in SUBSET Requests, NEW out \in SUBSET Ids
  PROVE  /\ [q EXCEPT !.at = st] \in Request
         /\ [q EXCEPT !.want = i, !.at = st] \in Request
         /\ [q EXCEPT !.entry = e, !.at = st] \in Request
         /\ [q EXCEPT !.at = st, !.entry = None] \in Request
         /\ [q EXCEPT !.held = TRUE, !.at = st] \in Request
         /\ [q EXCEPT !.held = FALSE, !.at = st] \in Request
         /\ [q EXCEPT !.sid = i, !.copy = copy, !.at = st] \in Request
         /\ [q EXCEPT !.sid = i, !.victims = out, !.at = st] \in Request
         /\ [q EXCEPT !.victims = out, !.at = st] \in Request
         /\ [q EXCEPT !.at = st, !.copy = {}] \in Request
<1>1. [q EXCEPT !.at = st] \in Request
  BY DEF Request
<1>2. [q EXCEPT !.want = i, !.at = st] \in Request
  BY DEF Request
<1>3. [q EXCEPT !.entry = e, !.at = st] \in Request
  BY DEF Request
<1>4. [q EXCEPT !.at = st, !.entry = None] \in Request
  BY DEF Request
<1>5. [q EXCEPT !.held = TRUE, !.at = st] \in Request
  BY DEF Request
<1>6. [q EXCEPT !.held = FALSE, !.at = st] \in Request
  BY DEF Request
<1>7. [q EXCEPT !.sid = i, !.copy = copy, !.at = st] \in Request
  BY DEF Request
<1>8. [q EXCEPT !.sid = i, !.victims = out, !.at = st] \in Request
  BY DEF Request
<1>9. [q EXCEPT !.victims = out, !.at = st] \in Request
  BY DEF Request
<1>10. [q EXCEPT !.at = st, !.copy = {}] \in Request
  BY DEF Request
<1> QED BY <1>1, <1>2, <1>3, <1>4, <1>5, <1>6, <1>7, <1>8, <1>9, <1>10

LEMMA MovesOn ==
  ASSUME req \in [Requests -> Request], NEW r \in Requests, NEW st \in Stages,
         req' = [req EXCEPT ![r].at = st]
  PROVE  Becomes(r, st, req[r].want, req[r].sid, req[r].entry, req[r].victims)
<1>1. [req[r] EXCEPT !.at = st] \in Request
  BY Updated
<1> QED BY <1>1 DEF Becomes, Request

LEMMA Wants ==
  ASSUME req \in [Requests -> Request], NEW r \in Requests, NEW st \in Stages,
         NEW i \in Ids \cup {None},
         req' = [req EXCEPT ![r].want = i, ![r].at = st]
  PROVE  Becomes(r, st, i, req[r].sid, req[r].entry, req[r].victims)
<1>1. [req[r] EXCEPT !.want = i, !.at = st] \in Request
  BY Updated
<1> QED BY <1>1 DEF Becomes, Request

LEMMA TakesEntry ==
  ASSUME req \in [Requests -> Request], NEW r \in Requests, NEW st \in Stages,
         NEW e \in Requests \cup {None},
         req' = [req EXCEPT ![r].entry = e, ![r].at = st]
  PROVE  Becomes(r, st, req[r].want, req[r].sid, e, req[r].victims)
<1>1. [req[r] EXCEPT !.entry = e, !.at = st] \in Request
  BY Updated
<1> QED BY <1>1 DEF Becomes, Request

LEMMA GivesEntry ==
  ASSUME req \in [Requests -> Request], NEW r \in Requests, NEW st \in Stages,
         req' = [req EXCEPT ![r].at = st, ![r].entry = None]
  PROVE  Becomes(r, st, req[r].want, req[r].sid, None, req[r].victims)
<1>1. [req[r] EXCEPT !.at = st, !.entry = None] \in Request
  BY Updated
<1> QED BY <1>1 DEF Becomes, Request

LEMMA TakesLock ==
  ASSUME req \in [Requests -> Request], NEW r \in Requests, NEW st \in Stages,
         req' = [req EXCEPT ![r].held = TRUE, ![r].at = st]
  PROVE  Becomes(r, st, req[r].want, req[r].sid, req[r].entry, req[r].victims)
<1>1. [req[r] EXCEPT !.held = TRUE, !.at = st] \in Request
  BY Updated
<1> QED BY <1>1 DEF Becomes, Request

LEMMA GivesLock ==
  ASSUME req \in [Requests -> Request], NEW r \in Requests, NEW st \in Stages,
         req' = [req EXCEPT ![r].held = FALSE, ![r].at = st]
  PROVE  Becomes(r, st, req[r].want, req[r].sid, req[r].entry, req[r].victims)
<1>1. [req[r] EXCEPT !.held = FALSE, !.at = st] \in Request
  BY Updated
<1> QED BY <1>1 DEF Becomes, Request

LEMMA Loads ==
  ASSUME req \in [Requests -> Request], NEW r \in Requests, NEW st \in Stages,
         NEW i \in Ids, NEW copy \in SUBSET Requests,
         req' = [req EXCEPT ![r].sid = i, ![r].copy = copy, ![r].at = st]
  PROVE  Becomes(r, st, req[r].want, i, req[r].entry, req[r].victims)
<1>1. [req[r] EXCEPT !.sid = i, !.copy = copy, !.at = st] \in Request
  BY Updated
<1> QED BY <1>1 DEF Becomes, Request

LEMMA Creates ==
  ASSUME req \in [Requests -> Request], NEW r \in Requests, NEW st \in Stages,
         NEW i \in Ids, NEW out \in SUBSET Ids,
         req' = [req EXCEPT ![r].sid = i, ![r].victims = out, ![r].at = st]
  PROVE  Becomes(r, st, req[r].want, i, req[r].entry, out)
<1>1. [req[r] EXCEPT !.sid = i, !.victims = out, !.at = st] \in Request
  BY Updated
<1> QED BY <1>1 DEF Becomes, Request

LEMMA Chooses ==
  ASSUME req \in [Requests -> Request], NEW r \in Requests, NEW st \in Stages,
         NEW out \in SUBSET Ids,
         req' = [req EXCEPT ![r].victims = out, ![r].at = st]
  PROVE  Becomes(r, st, req[r].want, req[r].sid, req[r].entry, out)
<1>1. [req[r] EXCEPT !.victims = out, !.at = st] \in Request
  BY Updated
<1> QED BY <1>1 DEF Becomes, Request

LEMMA Saves ==
  ASSUME req \in [Requests -> Request], NEW r \in Requests, NEW st \in Stages,
         req' = [req EXCEPT ![r].at = st, ![r].copy = {}]
  PROVE  Becomes(r, st, req[r].want, req[r].sid, req[r].entry, req[r].victims)
<1>1. [req[r] EXCEPT !.at = st, !.copy = {}] \in Request
  BY Updated
<1> QED BY <1>1 DEF Becomes, Request

-----------------------------------------------------------------------------
(* Types, and what a request has at each of its stages                      *)

\* It has no entry of the lock table yet, and never had one.
Fresh(r) ==
  \/ req[r].at \in {"idle", "retain"}
  \/ req[r].want = None /\ req[r].at \in {"load", "trim", "newRetain"}

Shape(r) ==
  /\ req[r].entry = None <=> Fresh(r) \/ req[r].at = "done"
  /\ req[r].at \in {"idle", "retain", "acquire", "load"} => req[r].sid = None
  /\ req[r].at = "idle" => req[r].want = None
  /\ req[r].at \in {"retain", "acquire"} => req[r].want # None
  /\ req[r].at \in {"newRetain", "newAcquire"} => req[r].want = None
  /\ req[r].at \in {"trim", "newRetain", "newAcquire"} \/ (InTurn(r) /\ req[r].at # "unlock")
       => req[r].sid # None
  /\ req[r].at \in {"unlock", "unref"} /\ req[r].want = None => req[r].sid # None

WellFormed == TypeOK /\ \A r \in Requests : Shape(r)

\* A step of a request that touches no lock.
Walk(r, stage, want, sid, victims) ==
  /\ Becomes(r, stage, want, sid, req[r].entry, victims)
  /\ UNCHANGED locking
Goes(r, stage) == Walk(r, stage, req[r].want, req[r].sid, req[r].victims)

LEMMA ArriveEffect ==
  ASSUME WellFormed, NEW r \in Requests, Arrive(r)
  PROVE  /\ req[r].at = "idle"
         /\ \E i \in Ids \cup {None} :
              Walk(r, IF i = None THEN "load" ELSE "retain", i, req[r].sid, req[r].victims)
         /\ UNCHANGED <<store, turns, issued, token, found, stopped, del>>
<1>1. PICK i \in issued \cup {None} :
        req' = [req EXCEPT ![r].want = i, ![r].at = IF i = None THEN "load" ELSE "retain"]
  BY DEF Arrive
<1>2. i \in Ids \cup {None} /\ (IF i = None THEN "load" ELSE "retain") \in Stages
  BY DEF WellFormed, TypeOK, Stages
<1>3. Becomes(r, IF i = None THEN "load" ELSE "retain", i, req[r].sid, req[r].entry, req[r].victims)
  BY <1>1, <1>2, Wants DEF WellFormed, TypeOK
<1> QED BY <1>2, <1>3 DEF Arrive, Walk, files

LEMMA GoesEffect ==
  ASSUME WellFormed, NEW r \in Requests
  PROVE  /\ TimeOut(r) => Goes(r, "unref")
         /\ Disconnect(r) => Goes(r, "unlock")
         /\ Register(r) => Goes(r, "run")
         /\ Save(r) => Goes(r, "scan")
         /\ SaveFails(r) => Goes(r, "unregister")
         /\ Unregister(r) => Goes(r, "unlock")
         /\ LoadFails(r) => Goes(r, IF req[r].entry = None THEN "done" ELSE "unlock")
<1>1. req \in [Requests -> Request]
  BY DEF WellFormed, TypeOK
<1>2. {"unref", "unlock", "run", "scan", "unregister", "done"} \subseteq Stages
  BY DEF Stages
<1>3. Save(r) => Goes(r, "scan")
  BY <1>1, <1>2, Saves DEF Save, Goes, Walk
<1>4. ASSUME NEW st \in Stages, req' = [req EXCEPT ![r].at = st], UNCHANGED locking PROVE Goes(r, st)
  BY <1>1, <1>4, MovesOn DEF Goes, Walk
<1> QED BY <1>2, <1>3, <1>4 DEF TimeOut, Disconnect, Register, SaveFails, Unregister, LoadFails, locking

LEMMA LoadEffect ==
  ASSUME WellFormed, NEW r \in Requests
  PROVE  /\ LoadFound(r) =>
              /\ Walk(r, "announce", req[r].want, req[r].want, req[r].victims)
              /\ req[r].want \in store
         /\ LoadCreated(r) => \E i \in Ids, out \in SUBSET Ids :
              /\ out \in Reclaimable(r, i)
              /\ Walk(r, "trim", req[r].want, i, out)
              /\ store' = store \cup {i} /\ issued' = issued \cup {i}
         /\ Scan(r) => \E out \in SUBSET Ids :
              /\ out \in Reclaimable(r, req[r].sid)
              /\ Walk(r, "unlink", req[r].want, req[r].sid, out)
<1>1. req \in [Requests -> Request] /\ store \subseteq Ids /\ turns \in [Ids -> SUBSET Requests]
  BY DEF WellFormed, TypeOK
<1>2. {"announce", "trim", "unlink"} \subseteq Stages
  BY DEF Stages
<1>3. ASSUME LoadFound(r)
      PROVE  Walk(r, "announce", req[r].want, req[r].want, req[r].victims) /\ req[r].want \in store
  <2>1. /\ req[r].want \in store
        /\ req' = [req EXCEPT ![r].sid = req[r].want, ![r].copy = turns[req[r].want], ![r].at = "announce"]
        /\ UNCHANGED locking
    BY <1>3 DEF LoadFound
  <2>2. req[r].want \in Ids /\ turns[req[r].want] \in SUBSET Requests
    BY <1>1, <2>1
  <2> QED BY <1>1, <1>2, <2>1, <2>2, Loads DEF Walk
<1>4. ASSUME LoadCreated(r)
      PROVE  \E i \in Ids, out \in SUBSET Ids :
               /\ out \in Reclaimable(r, i)
               /\ Walk(r, "trim", req[r].want, i, out)
               /\ store' = store \cup {i} /\ issued' = issued \cup {i}
  <2>1. PICK i \in Ids, out \in SUBSET Ids :
          /\ out \in Reclaimable(r, i)
          /\ store' = store \cup {i} /\ issued' = issued \cup {i}
          /\ req' = [req EXCEPT ![r].sid = i, ![r].victims = out, ![r].at = "trim"]
    BY <1>1, <1>4 DEF LoadCreated
  <2>2. Becomes(r, "trim", req[r].want, i, req[r].entry, out)
    BY <1>1, <1>2, <2>1, Creates
  <2> QED BY <1>4, <2>1, <2>2 DEF Walk, LoadCreated
<1>5. ASSUME Scan(r)
      PROVE  \E out \in SUBSET Ids : /\ out \in Reclaimable(r, req[r].sid)
                                     /\ Walk(r, "unlink", req[r].want, req[r].sid, out)
  <2>1. PICK out \in Reclaimable(r, req[r].sid) : req' = [req EXCEPT ![r].victims = out, ![r].at = "unlink"]
    BY <1>5 DEF Scan
  <2>2. out \in SUBSET Ids
    BY <1>1 DEF Reclaimable
  <2>3. Becomes(r, "unlink", req[r].want, req[r].sid, req[r].entry, out)
    BY <1>1, <1>2, <2>1, <2>2, Chooses
  <2> QED BY <1>5, <2>1, <2>2, <2>3 DEF Walk, Scan
<1> QED BY <1>3, <1>4, <1>5

LEMMA UnlinkEffect ==
  ASSUME WellFormed, NEW r \in Requests
  PROVE  /\ Trim(r) => Walk(r, IF req[r].entry = None THEN "newRetain" ELSE "announce",
                            req[r].want, req[r].sid, {})
         /\ Remove(r) => Walk(r, "unregister", req[r].want, req[r].sid, {})
<1>1. req \in [Requests -> Request]
  BY DEF WellFormed, TypeOK
<1>2. {"newRetain", "announce", "unregister"} \subseteq Stages
  BY DEF Stages
<1>3. ASSUME NEW st \in Stages, Unlink(r, st), UNCHANGED locking
      PROVE  Walk(r, st, req[r].want, req[r].sid, {})
  <2>1. Becomes(r, st, req[r].want, req[r].sid, req[r].entry, {})
    BY <1>1, <1>3, Chooses DEF Unlink
  <2> QED BY <1>3, <2>1 DEF Walk
<1> QED BY <1>2, <1>3 DEF Trim, Remove

\* The entry that a request gets: the one of the table, or a new one named after it,
\* for which only entries without references make room.
Retains(r, i, stage) ==
  \E e \in Requests :
    /\ Becomes(r, stage, req[r].want, req[r].sid, e, req[r].victims)
    /\ table' \in [Ids -> Requests \cup {None}] /\ table'[i] = e
    /\ refs' \in [Requests -> Nat] /\ refs'[e] = (IF table[i] = None THEN 1 ELSE refs[e] + 1)
    /\ \A f \in Requests \ {e} : refs'[f] = refs[f]
    /\ owner' = owner
    /\ e = (IF table[i] = None THEN r ELSE table[i])
    /\ \A k \in Ids \ {i} : table'[k] = table[k] \/ (table[k] # None /\ refs[table[k]] = 0 /\ table'[k] = None)

LEMMA RetainEffect ==
  ASSUME WellFormed, NEW r \in Requests, NEW i \in Ids, NEW st \in Stages, Retain(r, i, st)
  PROVE  Retains(r, i, st)
<1>1. /\ req \in [Requests -> Request] /\ table \in [Ids -> Requests \cup {None}]
      /\ refs \in [Requests -> Nat]
  BY DEF WellFormed, TypeOK
<1>2. CASE table[i] # None
  <2>1. /\ req' = [req EXCEPT ![r].entry = table[i], ![r].at = st]
        /\ refs' = [refs EXCEPT ![table[i]] = @ + 1] /\ UNCHANGED <<table, owner>>
    BY <1>2 DEF Retain
  <2>2. Becomes(r, st, req[r].want, req[r].sid, table[i], req[r].victims)
    BY <1>1, <2>1, TakesEntry
  <2> QED BY <1>1, <1>2, <2>1, <2>2 DEF Retains
<1>3. CASE table[i] = None
  <2>1. PICK out \in Evictions :
          table' = [k \in Ids |-> IF k = i THEN r ELSE IF k \in out THEN None ELSE table[k]]
    BY <1>3 DEF Retain
  <2>2. /\ req' = [req EXCEPT ![r].entry = r, ![r].at = st]
        /\ refs' = [refs EXCEPT ![r] = 1] /\ UNCHANGED owner
    BY <1>3 DEF Retain
  <2>3. Becomes(r, st, req[r].want, req[r].sid, r, req[r].victims)
    BY <1>1, <2>2, TakesEntry
  <2>4. \A k \in out : k \in Ids /\ table[k] # None /\ refs[table[k]] = 0
    BY DEF Evictions, Evictable, Cached
  <2> QED BY <1>1, <1>3, <2>1, <2>2, <2>3, <2>4 DEF Retains
<1> QED BY <1>2, <1>3

LEMMA RetainEffects ==
  ASSUME WellFormed, NEW r \in Requests
  PROVE  /\ RetainWanted(r) => req[r].want \in Ids /\ Retains(r, req[r].want, "acquire")
         /\ RetainNew(r) => req[r].sid \in Ids /\ Retains(r, req[r].sid, "newAcquire")
<1>1. {"acquire", "newAcquire"} \subseteq Stages /\ req[r] \in Request
  BY DEF Stages, WellFormed, TypeOK
<1>2. /\ RetainWanted(r) => req[r].want \in Ids
      /\ RetainNew(r) => req[r].sid \in Ids
  BY <1>1, Fields DEF RetainWanted, RetainNew, WellFormed, Shape
<1> QED BY <1>1, <1>2, RetainEffect DEF RetainWanted, RetainNew

LEMMA LockEffects ==
  ASSUME WellFormed, NEW r \in Requests
  PROVE  /\ AcquireWanted(r) => Becomes(r, "load", req[r].want, req[r].sid, req[r].entry, req[r].victims)
         /\ AcquireNew(r) => Becomes(r, "announce", req[r].want, req[r].sid, req[r].entry, req[r].victims)
         /\ Unlock(r) => Becomes(r, "unref", req[r].want, req[r].sid, req[r].entry, req[r].victims)
         /\ Unref(r) => Becomes(r, "done", req[r].want, req[r].sid, None, req[r].victims)
         /\ AcquireWanted(r) \/ AcquireNew(r) \/ Unlock(r) \/ Unref(r) => req[r].entry \in Requests
<1>1. req \in [Requests -> Request] /\ req[r].entry \in Requests \cup {None}
  BY Fields DEF WellFormed, TypeOK
<1>2. {"load", "announce", "unref", "done"} \subseteq Stages
  BY DEF Stages
<1>3. AcquireWanted(r) => Becomes(r, "load", req[r].want, req[r].sid, req[r].entry, req[r].victims)
  BY <1>1, <1>2, TakesLock DEF AcquireWanted, Acquire
<1>4. AcquireNew(r) => Becomes(r, "announce", req[r].want, req[r].sid, req[r].entry, req[r].victims)
  BY <1>1, <1>2, TakesLock DEF AcquireNew, Acquire
<1>5. Unlock(r) => Becomes(r, "unref", req[r].want, req[r].sid, req[r].entry, req[r].victims)
  BY <1>1, <1>2, GivesLock DEF Unlock
<1>6. Unref(r) => Becomes(r, "done", req[r].want, req[r].sid, None, req[r].victims)
  BY <1>1, <1>2, GivesEntry DEF Unref
<1>7. AcquireWanted(r) \/ AcquireNew(r) \/ Unlock(r) \/ Unref(r) => req[r].entry # None
  BY DEF AcquireWanted, AcquireNew, Unlock, Unref, WellFormed, Shape, Fresh
<1> QED BY <1>1, <1>3, <1>4, <1>5, <1>6, <1>7

\* The shape of a request only depends on four of its fields.
LEMMA ShapeFollows ==
  ASSUME WellFormed, NEW r \in Requests, NEW stage, NEW want, NEW sid, NEW entry, NEW victims,
         Becomes(r, stage, want, sid, entry, victims), Shape(r)'
  PROVE  \A q \in Requests : Shape(q)'
<1>1. ASSUME NEW q \in Requests \ {r} PROVE Shape(q)'
  BY <1>1 DEF Becomes, WellFormed, Shape, Fresh, InTurn
<1> QED BY <1>1

LEMMA ShapeStep ==
  ASSUME WellFormed, NEW r \in Requests, Arrive(r) \/ Step(r)
  PROVE  \A q \in Requests : Shape(q)'
<1> USE DEF Becomes, Fresh, InTurn
<1>1. Shape(r)
  BY DEF WellFormed
<1>2. ASSUME NEW stage, NEW want, NEW sid, NEW victims, Walk(r, stage, want, sid, victims), Shape(r)'
      PROVE  \A q \in Requests : Shape(q)'
  BY <1>2, ShapeFollows DEF Walk
<1>3. CASE Arrive(r)
  <2>1. PICK i : Walk(r, IF i = None THEN "load" ELSE "retain", i, req[r].sid, req[r].victims)
    BY <1>3, ArriveEffect
  <2>2. Shape(r)'
    BY <1>1, <1>3, <2>1 DEF Arrive, Walk, Shape
  <2> QED BY <1>2, <2>1, <2>2
<1>4. CASE TimeOut(r) \/ Disconnect(r) \/ Register(r) \/ Save(r) \/ SaveFails(r) \/ Unregister(r)
  <2>1. PICK st \in {"unref", "unlock", "run", "scan", "unregister"} :
          /\ Goes(r, st) /\ req[r].at # "unlock"
          /\ st = "unref" <=> req[r].at = "acquire"
          /\ st # "unref" => InTurn(r)
    BY <1>4, GoesEffect DEF TimeOut, Disconnect, Register, Save, SaveFails, Unregister
  <2>2. Shape(r)'
    BY <1>1, <2>1 DEF Goes, Walk, Shape
  <2> QED BY <1>2, <2>1, <2>2 DEF Goes
<1>5. CASE LoadFound(r)
  <2>1. Walk(r, "announce", req[r].want, req[r].want, req[r].victims) /\ req[r].want \in store
    BY <1>5, LoadEffect
  <2>2. req[r].want # None
    BY <2>1 DEF WellFormed, TypeOK
  <2>3. Shape(r)'
    BY <1>1, <1>5, <2>1, <2>2 DEF LoadFound, Walk, Shape
  <2> QED BY <1>2, <2>1, <2>3
<1>6. CASE LoadCreated(r)
  <2>1. PICK i \in Ids, out \in SUBSET Ids : Walk(r, "trim", req[r].want, i, out)
    BY <1>6, LoadEffect
  <2>2. Shape(r)'
    BY <1>1, <1>6, <2>1 DEF LoadCreated, Walk, Shape
  <2> QED BY <1>2, <2>1, <2>2
<1>7. CASE Scan(r)
  <2>1. PICK out : Walk(r, "unlink", req[r].want, req[r].sid, out)
    BY <1>7, LoadEffect
  <2>2. Shape(r)'
    BY <1>1, <1>7, <2>1 DEF Scan, Walk, Shape
  <2> QED BY <1>2, <2>1, <2>2
<1>8. CASE Trim(r)
  <2>1. Walk(r, IF req[r].entry = None THEN "newRetain" ELSE "announce", req[r].want, req[r].sid, {})
    BY <1>8, UnlinkEffect
  <2>2. Shape(r)'
    BY <1>1, <1>8, <2>1 DEF Trim, Walk, Shape
  <2> QED BY <1>2, <2>1, <2>2
<1>9. CASE Remove(r)
  <2>1. Walk(r, "unregister", req[r].want, req[r].sid, {})
    BY <1>9, UnlinkEffect
  <2>2. Shape(r)'
    BY <1>1, <1>9, <2>1 DEF Remove, Walk, Shape
  <2> QED BY <1>2, <2>1, <2>2
<1>10. CASE RetainWanted(r) \/ RetainNew(r)
  <2>1. PICK e \in Requests, st \in {"acquire", "newAcquire"} :
          /\ Becomes(r, st, req[r].want, req[r].sid, e, req[r].victims)
          /\ st = "acquire" <=> req[r].at = "retain"
          /\ st = "newAcquire" <=> req[r].at = "newRetain"
    BY <1>10, RetainEffects DEF Retains, RetainWanted, RetainNew
  <2>2. Shape(r)'
    BY <1>1, <2>1 DEF Shape
  <2> QED BY <2>1, <2>2, ShapeFollows
<1>11. CASE AcquireWanted(r) \/ AcquireNew(r) \/ Unlock(r)
  <2>1. PICK st \in {"load", "announce", "unref"} :
          /\ Becomes(r, st, req[r].want, req[r].sid, req[r].entry, req[r].victims)
          /\ st = "load" <=> req[r].at = "acquire"
          /\ st = "announce" <=> req[r].at = "newAcquire"
          /\ st = "unref" <=> req[r].at = "unlock"
    BY <1>11, LockEffects DEF AcquireWanted, AcquireNew, Unlock
  <2>2. Shape(r)'
    BY <1>1, <2>1 DEF Shape
  <2> QED BY <2>1, <2>2, ShapeFollows
<1>12. CASE Unref(r)
  <2>1. Becomes(r, "done", req[r].want, req[r].sid, None, req[r].victims)
    BY <1>12, LockEffects
  <2>2. Shape(r)'
    BY <1>1, <1>12, <2>1 DEF Unref, Shape
  <2> QED BY <2>1, <2>2, ShapeFollows
<1>13. CASE LoadFails(r)
  <2>1. Goes(r, IF req[r].entry = None THEN "done" ELSE "unlock")
    BY <1>13, GoesEffect
  <2>2. Shape(r)'
    BY <1>1, <1>13, <2>1 DEF LoadFails, Goes, Walk, Shape
  <2> QED BY <1>2, <2>1, <2>2 DEF Goes
<1> QED BY <1>3, <1>4, <1>5, <1>6, <1>7, <1>8, <1>9, <1>10, <1>11, <1>12, <1>13 DEF Step

LEMMA RequestTypes ==
  ASSUME WellFormed, NEW r \in Requests, Arrive(r) \/ Step(r)
  PROVE  TypeOK'
<1> USE DEF WellFormed, TypeOK
<1>1. req[r] \in Request /\ store \subseteq Ids
  OBVIOUS
<1>2. CASE Arrive(r)
  BY <1>2, ArriveEffect DEF Walk, Becomes, locking
<1>3. CASE TimeOut(r) \/ Disconnect(r) \/ SaveFails(r) \/ LoadFails(r)
  BY <1>3, GoesEffect DEF TimeOut, Disconnect, SaveFails, LoadFails, Goes, Walk, Becomes, locking, files
<1>4. CASE Register(r) \/ Unregister(r)
  <2>1. req' \in [Requests -> Request]
    BY <1>4, GoesEffect DEF Goes, Walk, Becomes
  <2>2. token' \in [Ids -> Requests \cup {None}]
    BY <1>4 DEF Register, Unregister
  <2> QED BY <1>4, <2>1, <2>2 DEF Register, Unregister, locking, files
<1>5. CASE Save(r)
  <2>1. req' \in [Requests -> Request]
    BY <1>5, GoesEffect DEF Goes, Walk, Becomes
  <2>2. req[r].sid \in Ids /\ req[r].copy \in SUBSET Requests
    BY <1>1, <1>5, Fields DEF Save, Shape, InTurn
  <2>3. turns' \in [Ids -> SUBSET Requests] /\ store' \subseteq Ids
    BY <1>5, <2>2 DEF Save
  <2> QED BY <1>5, <2>1, <2>3 DEF Save, locking
<1>6. CASE LoadFound(r) \/ Scan(r)
  <2>1. req' \in [Requests -> Request]
    BY <1>6, LoadEffect DEF Walk, Becomes
  <2> QED BY <1>6, <2>1 DEF LoadFound, Scan, locking, files
<1>7. CASE LoadCreated(r)
  <2>1. req' \in [Requests -> Request] /\ store' \subseteq Ids /\ issued' \subseteq Ids
    BY <1>7, LoadEffect DEF Walk, Becomes
  <2> QED BY <1>7, <2>1 DEF LoadCreated, locking
<1>8. CASE Trim(r) \/ Remove(r)
  <2>1. req' \in [Requests -> Request]
    BY <1>8, UnlinkEffect DEF Walk, Becomes
  <2>2. store' \subseteq Ids /\ turns' \in [Ids -> SUBSET Requests]
    BY <1>8 DEF Trim, Remove, Unlink
  <2> QED BY <1>8, <2>1, <2>2 DEF Trim, Remove, locking
<1>9. CASE RetainWanted(r) \/ RetainNew(r)
  <2>1. PICK i \in Ids, st \in {"acquire", "newAcquire"} : Retains(r, i, st)
    BY <1>9, RetainEffects
  <2>2. /\ req' \in [Requests -> Request] /\ table' \in [Ids -> Requests \cup {None}]
        /\ refs' \in [Requests -> Nat] /\ owner' = owner
    BY <2>1 DEF Retains, Becomes
  <2> QED BY <1>9, <2>2 DEF RetainWanted, RetainNew, files
<1>10. CASE AcquireWanted(r) \/ AcquireNew(r) \/ Unlock(r) \/ Unref(r)
  <2>1. req' \in [Requests -> Request] /\ req[r].entry \in Requests
    BY <1>10, LockEffects DEF Becomes
  <2>2. /\ table' = table /\ owner' \in [Requests -> Requests \cup {None}]
        /\ refs' \in [Requests -> Nat]
    BY <1>10, <2>1 DEF AcquireWanted, AcquireNew, Acquire, Unlock, Unref
  <2> QED BY <1>10, <2>1, <2>2 DEF AcquireWanted, AcquireNew, Unlock, Unref, files
<1> QED BY <1>2, <1>3, <1>4, <1>5, <1>6, <1>7, <1>8, <1>9, <1>10 DEF Step

LEMMA OtherTypes ==
  ASSUME WellFormed, \/ \E i \in Ids : CancelTurn(i)
                     \/ \E r \in Requests : SetToken(r)
                     \/ \E d \in Deleters : DeleteCheck(d) \/ DeleteUnlink(d)
                     \/ UNCHANGED vars
  PROVE  TypeOK' /\ UNCHANGED <<table, refs, owner, issued, token, req>>
<1> USE DEF WellFormed, TypeOK
<1>1. ASSUME NEW i \in Ids, CancelTurn(i) PROVE TypeOK' /\ UNCHANGED <<table, refs, owner, issued, token, req>>
  BY <1>1 DEF CancelTurn, locking, files
<1>2. ASSUME NEW d \in Deleters, DeleteCheck(d)
      PROVE  TypeOK' /\ UNCHANGED <<table, refs, owner, issued, token, req>>
  <2>1. PICK i \in Ids : del' = [del EXCEPT ![d] = IF Busy(i) THEN [at |-> "done", id |-> i]
                                                             ELSE [at |-> "unlink", id |-> i]]
    BY <1>2 DEF DeleteCheck
  <2>2. [at |-> "done", id |-> i] \in Deleter /\ [at |-> "unlink", id |-> i] \in Deleter
    BY DEF Deleter
  <2>3. del' \in [Deleters -> Deleter]
    BY <2>1, <2>2
  <2> QED BY <1>2, <2>3 DEF DeleteCheck, locking, files
<1>3. ASSUME NEW d \in Deleters, DeleteUnlink(d)
      PROVE  TypeOK' /\ UNCHANGED <<table, refs, owner, issued, token, req>>
  <2>1. ASSUME NEW x \in Deleter PROVE [x EXCEPT !.at = "done"] \in Deleter
    BY DEF Deleter
  <2>2. del' = [del EXCEPT ![d] = [del[d] EXCEPT !.at = "done"]]
    BY <1>3 DEF DeleteUnlink
  <2>3. del' \in [Deleters -> Deleter]
    BY <2>1, <2>2
  <2>4. turns' \in [Ids -> SUBSET Requests] /\ store' \subseteq Ids
    BY <1>3 DEF DeleteUnlink
  <2> QED BY <1>3, <2>3, <2>4 DEF DeleteUnlink, locking
<1>4. ASSUME NEW r \in Requests, SetToken(r)
      PROVE  TypeOK' /\ UNCHANGED <<table, refs, owner, issued, token, req>>
  BY <1>4 DEF SetToken, locking, files
<1>5. CASE UNCHANGED vars
  BY <1>5 DEF vars
<1> QED BY <1>1, <1>2, <1>3, <1>4, <1>5

LEMMA StepWellFormed ==
  ASSUME WellFormed, [Next]_vars
  PROVE  WellFormed'
<1>1. ASSUME NEW r \in Requests, Arrive(r) \/ Step(r) PROVE WellFormed'
  BY <1>1, RequestTypes, ShapeStep DEF WellFormed
<1>2. CASE \/ \E i \in Ids : CancelTurn(i)
           \/ \E r \in Requests : SetToken(r)
           \/ \E d \in Deleters : DeleteCheck(d) \/ DeleteUnlink(d)
           \/ UNCHANGED vars
  <2>1. TypeOK' /\ req' = req
    BY <1>2, OtherTypes
  <2> QED BY <2>1 DEF WellFormed, Shape, Fresh, InTurn
<1> QED BY <1>1, <1>2 DEF Next

LEMMA InitWellFormed == Init => WellFormed
<1> SUFFICES ASSUME Init PROVE WellFormed
  OBVIOUS
<1>1. /\ Blank.at = "idle" /\ Blank.want = None /\ Blank.sid = None /\ Blank.entry = None
      /\ Blank \in Request
  BY DEF Blank, Request, Stages
<1>2. [at |-> "idle", id |-> None] \in Deleter
  BY DEF Deleter
<1>3. TypeOK
  BY <1>1, <1>2 DEF Init, TypeOK
<1>4. \A r \in Requests : Shape(r)
  BY <1>1 DEF Init, Shape, Fresh, InTurn
<1> QED BY <1>3, <1>4 DEF WellFormed

\* Every variable of the chat service has its type, for any requests and sessions
\* (_session_lock, chat_stream and delete_session of facade.py).
THEOREM ChatTypeCorrect == Spec => []TypeOK
<1>1. WellFormed => TypeOK
  BY DEF WellFormed
<1> QED BY <1>1, InitWellFormed, StepWellFormed, PTL DEF Spec

-----------------------------------------------------------------------------
(* The lock table                                                           *)

Users(e) == {q \in Requests : req[q].entry = e}

\* The id whose lock a request with an entry has.
Key(r) == IF req[r].want = None THEN req[r].sid ELSE req[r].want

\* It has taken its lock and not given it back.
Works(r) == InTurn(r) \/ (req[r].at \in {"load", "trim"} /\ req[r].entry # None)

\* References are counted right, so an entry that is used is in the table under its
\* id: only unreferenced entries go.  A lock is held by the request that works under it.
Counted == \A e \in Requests : refs[e] = Cardinality(Users(e))
Found   == \A r \in Requests : req[r].entry # None => table[Key(r)] = req[r].entry
Held    == /\ \A r \in Requests : Works(r) => owner[req[r].entry] = r
           /\ \A e \in Requests : owner[e] # None => Works(owner[e]) /\ req[owner[e]].entry = e
Unused  == \A r \in Requests : Fresh(r) => /\ \A i \in Ids : table[i] # r
                                           /\ \A q \in Requests : req[q].entry # r
LockInv == Counted /\ Found /\ Held /\ Unused

LEMMA KeyIsId ==
  ASSUME WellFormed, NEW r \in Requests, req[r].entry # None
  PROVE  Key(r) \in Ids /\ req[r].entry \in Requests
<1>1. Shape(r) /\ req[r] \in Request
  BY DEF WellFormed, TypeOK
<1>2. req[r].want = None => req[r].sid # None
  BY <1>1, Fields DEF Shape, Fresh, InTurn, Stages
<1> QED BY <1>1, <1>2, Fields DEF Key

\* Whoever works has an entry.
LEMMA WorkersHaveOne ==
  ASSUME WellFormed, NEW r \in Requests, Works(r)
  PROVE  req[r].entry \in Requests /\ ~Fresh(r)
BY Fields DEF WellFormed, TypeOK, Shape, Works, InTurn, Fresh

LEMMA UsersFinite ==
  ASSUME NEW e
  PROVE  IsFiniteSet(Users(e))
BY FS_Subset DEF Users

\* A step that leaves the locks, and the request's part in them, alone.
LEMMA LocksStay ==
  ASSUME WellFormed, LockInv, NEW r \in Requests,
         NEW stage, NEW want, NEW sid, NEW victims, Walk(r, stage, want, sid, victims),
         req[r].entry # None => Key(r)' = Key(r),
         Works(r)' <=> Works(r), Fresh(r)' => Fresh(r)
  PROVE  LockInv'
<1>1. /\ \A q \in Requests \ {r} : req'[q] = req[q]
      /\ req'[r].entry = req[r].entry /\ UNCHANGED <<table, refs, owner>>
  BY DEF Walk, Becomes, locking
<1>2. \A q \in Requests : req'[q].entry = req[q].entry
  BY <1>1
<1>3. \A q \in Requests : /\ req[q].entry # None => Key(q)' = Key(q)
                          /\ Works(q)' <=> Works(q)
                          /\ Fresh(q)' => Fresh(q)
  BY <1>1 DEF Key, Works, Fresh, InTurn
<1>4. Counted'
  <2>1. \A e \in Requests : Users(e)' = Users(e)
    BY <1>2 DEF Users
  <2> QED BY <1>1, <2>1 DEF LockInv, Counted
<1>5. Found'
  BY <1>1, <1>2, <1>3 DEF LockInv, Found
<1>6. Held'
  <2>1. \A e \in Requests : owner[e] # None => owner[e] \in Requests
    BY DEF WellFormed, TypeOK
  <2> QED BY <1>1, <1>2, <1>3, <2>1 DEF LockInv, Held
<1>7. Unused'
  BY <1>1, <1>2, <1>3 DEF LockInv, Unused
<1> QED BY <1>4, <1>5, <1>6, <1>7 DEF LockInv

LEMMA WalkLocks ==
  ASSUME WellFormed, LockInv, NEW r \in Requests,
         \/ Arrive(r) \/ TimeOut(r) \/ Disconnect(r) \/ Register(r) \/ Save(r) \/ SaveFails(r)
         \/ Unregister(r) \/ LoadFound(r) \/ LoadCreated(r) \/ LoadFails(r) \/ Scan(r) \/ Trim(r)
         \/ Remove(r)
  PROVE  LockInv'
<1> USE DEF Becomes, Fresh, InTurn, Works, Key
<1>1. Shape(r)
  BY DEF WellFormed
<1>2. CASE Arrive(r)
  <2>1. req[r].at = "idle" /\ req[r].entry = None /\ Fresh(r)
    BY <1>1, <1>2 DEF Arrive, Shape
  <2>2. PICK i : Walk(r, IF i = None THEN "load" ELSE "retain", i, req[r].sid, req[r].victims)
    BY <1>2, ArriveEffect
  <2>3. Works(r)' <=> Works(r)
    BY <2>1, <2>2 DEF Walk
  <2> QED BY <2>1, <2>2, <2>3, LocksStay
<1>3. CASE TimeOut(r) \/ Disconnect(r) \/ Register(r) \/ Save(r) \/ SaveFails(r) \/ Unregister(r)
  <2>1. PICK st \in {"unref", "unlock", "run", "scan", "unregister"} :
          /\ Goes(r, st)
          /\ st = "unref" <=> req[r].at = "acquire"
          /\ st # "unref" => InTurn(r)
    BY <1>3, GoesEffect DEF TimeOut, Disconnect, Register, Save, SaveFails, Unregister
  <2>2. (Works(r)' <=> Works(r)) /\ (Fresh(r)' => Fresh(r)) /\ Key(r)' = Key(r)
    BY <2>1 DEF Goes, Walk
  <2> QED BY <2>1, <2>2, LocksStay DEF Goes
<1>4. CASE LoadFound(r)
  <2>1. Walk(r, "announce", req[r].want, req[r].want, req[r].victims) /\ req[r].want \in store
    BY <1>4, LoadEffect
  <2>2. req[r].want # None
    BY <2>1 DEF WellFormed, TypeOK
  <2>3. (Works(r)' <=> Works(r)) /\ (Fresh(r)' => Fresh(r)) /\ Key(r)' = Key(r)
    BY <1>1, <1>4, <2>1, <2>2 DEF LoadFound, Walk, Shape
  <2> QED BY <2>1, <2>3, LocksStay
<1>5. CASE LoadCreated(r)
  <2>1. PICK i \in Ids, out \in SUBSET Ids : Walk(r, "trim", req[r].want, i, out)
    BY <1>5, LoadEffect
  <2>2. /\ (Works(r)' <=> Works(r)) /\ (Fresh(r)' => Fresh(r))
        /\ req[r].entry # None => Key(r)' = Key(r)
    BY <1>1, <1>5, <2>1 DEF LoadCreated, Walk, Shape
  <2> QED BY <2>1, <2>2, LocksStay
<1>6. CASE Scan(r)
  <2>1. PICK out : Walk(r, "unlink", req[r].want, req[r].sid, out)
    BY <1>6, LoadEffect
  <2>2. (Works(r)' <=> Works(r)) /\ (Fresh(r)' => Fresh(r)) /\ Key(r)' = Key(r)
    BY <1>6, <2>1 DEF Scan, Walk
  <2> QED BY <2>1, <2>2, LocksStay
<1>7. CASE Trim(r)
  <2>1. Walk(r, IF req[r].entry = None THEN "newRetain" ELSE "announce", req[r].want, req[r].sid, {})
    BY <1>7, UnlinkEffect
  <2>2. (Works(r)' <=> Works(r)) /\ (Fresh(r)' => Fresh(r)) /\ Key(r)' = Key(r)
    BY <1>1, <1>7, <2>1 DEF Trim, Walk, Shape
  <2> QED BY <2>1, <2>2, LocksStay
<1>8. CASE Remove(r)
  <2>1. Walk(r, "unregister", req[r].want, req[r].sid, {})
    BY <1>8, UnlinkEffect
  <2>2. (Works(r)' <=> Works(r)) /\ (Fresh(r)' => Fresh(r)) /\ Key(r)' = Key(r)
    BY <1>8, <2>1 DEF Remove, Walk
  <2> QED BY <2>1, <2>2, LocksStay
<1>9. CASE LoadFails(r)
  <2>1. Goes(r, IF req[r].entry = None THEN "done" ELSE "unlock") /\ req[r].at = "load"
    BY <1>9, GoesEffect DEF LoadFails
  <2>2. (Works(r)' <=> Works(r)) /\ (Fresh(r)' => Fresh(r)) /\ Key(r)' = Key(r)
    BY <1>1, <2>1 DEF Goes, Walk, Shape
  <2> QED BY <2>1, <2>2, LocksStay DEF Goes
<1> QED BY <1>2, <1>3, <1>4, <1>5, <1>6, <1>7, <1>8, <1>9

\* An entry that somebody has is referenced.
LEMMA UsedIsReferenced ==
  ASSUME WellFormed, LockInv, NEW q \in Requests, req[q].entry # None
  PROVE  refs[req[q].entry] # 0
<1>1. req[q].entry \in Requests /\ q \in Users(req[q].entry)
  BY KeyIsId DEF Users
<1>2. Cardinality(Users(req[q].entry)) # 0
  BY <1>1, UsersFinite, FS_EmptySet
<1> QED BY <1>1, <1>2 DEF LockInv, Counted

LEMMA RetainLocks ==
  ASSUME WellFormed, LockInv, NEW r \in Requests, NEW i \in Ids, NEW st \in {"acquire", "newAcquire"},
         Fresh(r), Retains(r, i, st), i = Key(r)
  PROVE  LockInv'
<1>1. PICK e \in Requests :
        /\ Becomes(r, st, req[r].want, req[r].sid, e, req[r].victims)
        /\ table' \in [Ids -> Requests \cup {None}] /\ table'[i] = e
        /\ refs' \in [Requests -> Nat] /\ refs'[e] = (IF table[i] = None THEN 1 ELSE refs[e] + 1)
        /\ \A f \in Requests \ {e} : refs'[f] = refs[f]
        /\ owner' = owner
        /\ e = (IF table[i] = None THEN r ELSE table[i])
        /\ \A k \in Ids \ {i} : \/ table'[k] = table[k]
                                \/ table[k] # None /\ refs[table[k]] = 0 /\ table'[k] = None
  BY DEF Retains
<1>2. \A q \in Requests \ {r} : req'[q] = req[q]
  BY <1>1 DEF Becomes
<1>3. /\ req[r].entry = None /\ req'[r].entry = e
      /\ ~Works(r) /\ ~Works(r)' /\ ~Fresh(r)' /\ Key(r)' = i
  BY <1>1 DEF Becomes, WellFormed, Shape, Fresh, Works, InTurn, Key
<1>4. \A q \in Requests \ {r} : /\ Works(q)' <=> Works(q)
                                /\ Fresh(q)' <=> Fresh(q)
                                /\ Key(q)' = Key(q)
  BY <1>2 DEF Works, Fresh, InTurn, Key
<1>5. Counted'
  <2>1. Users(e)' = Users(e) \cup {r} /\ r \notin Users(e)
    BY <1>2, <1>3 DEF Users
  <2>2. Cardinality(Users(e)') = Cardinality(Users(e)) + 1
    BY <2>1, UsersFinite, FS_AddElement
  <2>3. refs'[e] = Cardinality(Users(e)')
    <3>1. CASE table[i] # None
      BY <1>1, <2>2, <3>1 DEF LockInv, Counted
    <3>2. CASE table[i] = None
      <4>1. Users(e) = {}
        BY <1>1, <3>2 DEF LockInv, Unused, Users
      <4> QED BY <1>1, <2>2, <3>2, <4>1, FS_EmptySet
    <3> QED BY <3>1, <3>2
  <2>4. ASSUME NEW f \in Requests \ {e} PROVE refs'[f] = Cardinality(Users(f)')
    <3>1. Users(f)' = Users(f)
      BY <1>2, <1>3 DEF Users
    <3> QED BY <1>1, <3>1 DEF LockInv, Counted
  <2> QED BY <2>3, <2>4 DEF Counted
<1>6. Found'
  <2>1. ASSUME NEW q \in Requests \ {r}, req[q].entry # None PROVE table'[Key(q)] = req[q].entry
    <3>1. table[Key(q)] = req[q].entry /\ Key(q) \in Ids
      BY <2>1, KeyIsId DEF LockInv, Found
    <3>2. refs[req[q].entry] # 0
      BY <2>1, UsedIsReferenced
    <3> QED BY <1>1, <2>1, <3>1, <3>2
  <2> QED BY <1>1, <1>2, <1>3, <1>4, <2>1 DEF Found
<1>7. Held'
  <2>1. \A q \in Requests \ {r} : Works(q)' => owner'[req'[q].entry] = q
    BY <1>1, <1>2, <1>4 DEF LockInv, Held
  <2>2. ASSUME NEW f \in Requests, owner'[f] # None PROVE Works(owner[f])' /\ req'[owner'[f]].entry = f
    <3>1. owner[f] \in Requests /\ Works(owner[f]) /\ req[owner[f]].entry = f
      BY <1>1, <2>2 DEF LockInv, Held, WellFormed, TypeOK
    <3>2. owner[f] # r
      BY <1>3, <3>1
    <3> QED BY <1>1, <1>2, <1>4, <3>1, <3>2
  <2> QED BY <1>3, <2>1, <2>2 DEF Held
<1>8. Unused'
  <2>1. ASSUME NEW q \in Requests \ {r}, Fresh(q)
        PROVE  (\A k \in Ids : table'[k] # q) /\ \A p \in Requests : req'[p].entry # q
    <3>1. (\A k \in Ids : table[k] # q) /\ \A p \in Requests : req[p].entry # q
      BY <2>1 DEF LockInv, Unused
    <3>2. e # q
      BY <1>1, <3>1
    <3> QED BY <1>1, <1>2, <1>3, <3>1, <3>2
  <2> QED BY <1>3, <1>4, <2>1 DEF Unused
<1> QED BY <1>5, <1>6, <1>7, <1>8 DEF LockInv

\* Taking and giving back the lock.
LEMMA OwnerLocks ==
  ASSUME WellFormed, LockInv, NEW r \in Requests, NEW st, UNCHANGED <<table, refs>>,
         Becomes(r, st, req[r].want, req[r].sid, req[r].entry, req[r].victims),
         req[r].entry \in Requests, ~Fresh(r)',
         NEW o \in {r, None}, owner' = [owner EXCEPT ![req[r].entry] = o],
         owner[req[r].entry] \in {r, None},
         Works(r)' <=> o = r, Works(r) <=> o # r
  PROVE  LockInv'
<1>1. \A q \in Requests \ {r} : req'[q] = req[q]
  BY DEF Becomes
<1>2. /\ \A q \in Requests : req'[q].entry = req[q].entry /\ Key(q)' = Key(q)
      /\ \A q \in Requests \ {r} : (Works(q)' <=> Works(q)) /\ (Fresh(q)' <=> Fresh(q))
  BY <1>1 DEF Becomes, Works, Fresh, InTurn, Key
<1>3. Counted'
  <2>1. \A e \in Requests : Users(e)' = Users(e)
    BY <1>2 DEF Users
  <2> QED BY <2>1 DEF LockInv, Counted
<1>4. Found'
  BY <1>2 DEF LockInv, Found
<1>5. \A e \in Requests : owner'[e] = IF e = req[r].entry THEN o ELSE owner[e]
  BY DEF WellFormed, TypeOK
<1>6. Held'
  <2>1. ASSUME NEW q \in Requests, Works(q)' PROVE owner'[req'[q].entry] = q
    <3>1. CASE q = r
      BY <1>2, <1>5, <2>1, <3>1
    <3>2. CASE q # r
      <4>1. Works(q) /\ req[q].entry \in Requests
        BY <1>2, <2>1, <3>2, WorkersHaveOne
      <4>2. owner[req[q].entry] = q
        BY <4>1 DEF LockInv, Held
      <4> QED BY <1>2, <1>5, <3>2, <4>1, <4>2
    <3> QED BY <3>1, <3>2
  <2>2. ASSUME NEW e \in Requests, owner'[e] # None PROVE Works(owner[e])' /\ req'[owner'[e]].entry = e
    <3>1. CASE e = req[r].entry
      BY <1>2, <1>5, <2>2, <3>1
    <3>2. CASE e # req[r].entry
      <4>1. owner'[e] = owner[e] /\ owner[e] \in Requests /\ Works(owner[e]) /\ req[owner[e]].entry = e
        BY <1>5, <2>2, <3>2 DEF LockInv, Held, WellFormed, TypeOK
      <4> QED BY <1>2, <3>2, <4>1
    <3> QED BY <3>1, <3>2
  <2> QED BY <2>1, <2>2 DEF Held
<1>7. Unused'
  BY <1>2 DEF LockInv, Unused
<1> QED BY <1>3, <1>4, <1>6, <1>7 DEF LockInv

\* Giving back the reference.
LEMMA UnrefLocks ==
  ASSUME WellFormed, LockInv, NEW r \in Requests, Unref(r)
  PROVE  LockInv'
<1>1. /\ req[r].entry \in Requests
      /\ \A q \in Requests \ {r} : req'[q] = req[q]
      /\ req'[r].entry = None /\ req'[r].at = "done"
      /\ req[r].at = "unref" /\ UNCHANGED <<table, owner>>
  BY LockEffects DEF Becomes, Unref
<1> PICK e \in Requests : e = req[r].entry
  BY <1>1
<1>2. /\ refs[e] # 0 /\ refs[e] \in Nat
      /\ refs'[e] = refs[e] - 1 /\ \A f \in Requests \ {e} : refs'[f] = refs[f]
  BY <1>1, UsedIsReferenced DEF Unref, WellFormed, TypeOK
<1>3. ~Works(r) /\ ~Works(r)' /\ ~Fresh(r)'
  BY <1>1 DEF Works, InTurn, Fresh
<1>4. \A q \in Requests \ {r} : /\ Works(q)' <=> Works(q)
                                /\ Fresh(q)' <=> Fresh(q)
                                /\ Key(q)' = Key(q)
  BY <1>1 DEF Works, Fresh, InTurn, Key
<1>5. Counted'
  <2>1. Users(e)' = Users(e) \ {r} /\ r \in Users(e)
    BY <1>1 DEF Users
  <2>2. Cardinality(Users(e)') = Cardinality(Users(e)) - 1
    <3>1. Cardinality(Users(e) \ {r}) = Cardinality(Users(e)) - 1
      <4>1. IsFiniteSet(Users(e))
        BY UsersFinite
      <4> QED BY <2>1, <4>1, FS_RemoveElement
    <3> QED BY <2>1, <3>1
  <2>3. ASSUME NEW f \in Requests \ {e} PROVE refs'[f] = Cardinality(Users(f)')
    <3>1. Users(f)' = Users(f)
      BY <1>1 DEF Users
    <3> QED BY <1>2, <3>1 DEF LockInv, Counted
  <2>4. refs'[e] = Cardinality(Users(e)')
    BY <1>1, <1>2, <2>2 DEF LockInv, Counted
  <2> QED BY <2>3, <2>4 DEF Counted
<1>6. Found'
  BY <1>1, <1>4 DEF LockInv, Found
<1>7. Held'
  <2>1. ASSUME NEW f \in Requests, owner[f] # None PROVE owner[f] \in Requests \ {r}
    BY <1>3, <2>1 DEF LockInv, Held, WellFormed, TypeOK
  <2> QED BY <1>1, <1>3, <1>4, <2>1 DEF LockInv, Held
<1>8. Unused'
  BY <1>1, <1>3, <1>4 DEF LockInv, Unused
<1> QED BY <1>5, <1>6, <1>7, <1>8 DEF LockInv

LEMMA StepLocks ==
  ASSUME WellFormed, LockInv, [Next]_vars
  PROVE  LockInv'
<1>1. ASSUME NEW r \in Requests, Arrive(r) \/ Step(r) PROVE LockInv'
  <2>1. CASE RetainWanted(r) \/ RetainNew(r)
    <3>1. Fresh(r) /\ Shape(r)
      BY <2>1 DEF RetainWanted, RetainNew, WellFormed, Shape, Fresh
    <3>2. PICK i \in Ids, st \in {"acquire", "newAcquire"} : Retains(r, i, st) /\ i = Key(r)
      BY <2>1, <3>1, RetainEffects DEF RetainWanted, RetainNew, Key, Shape
    <3> QED BY <3>1, <3>2, RetainLocks
  <2>2. CASE AcquireWanted(r) \/ AcquireNew(r)
    <3>1. PICK st \in {"load", "announce"} :
            /\ Becomes(r, st, req[r].want, req[r].sid, req[r].entry, req[r].victims)
            /\ st = "load" <=> req[r].at = "acquire"
            /\ req[r].at \in {"acquire", "newAcquire"} /\ req[r].entry \in Requests
      BY <2>2, LockEffects DEF AcquireWanted, AcquireNew
    <3>2. /\ owner' = [owner EXCEPT ![req[r].entry] = r] /\ owner[req[r].entry] = None
          /\ UNCHANGED <<table, refs>>
      BY <2>2 DEF AcquireWanted, AcquireNew, Acquire
    <3>3. ~Fresh(r)' /\ Works(r)' /\ ~Works(r)
      BY <3>1 DEF Becomes, Fresh, Works, InTurn, WellFormed, Shape
    <3> QED BY <3>1, <3>2, <3>3, OwnerLocks
  <2>3. CASE Unlock(r)
    <3>1. /\ Becomes(r, "unref", req[r].want, req[r].sid, req[r].entry, req[r].victims)
          /\ req[r].at = "unlock" /\ req[r].entry \in Requests
          /\ owner' = [owner EXCEPT ![req[r].entry] = None] /\ UNCHANGED <<table, refs>>
      BY <2>3, LockEffects DEF Unlock
    <3>2. ~Fresh(r)' /\ ~Works(r)' /\ Works(r)
      BY <3>1 DEF Becomes, Fresh, Works, InTurn
    <3>3. owner[req[r].entry] = r
      BY <3>2 DEF LockInv, Held
    <3> QED BY <3>1, <3>2, <3>3, OwnerLocks
  <2> QED BY <1>1, <2>1, <2>2, <2>3, WalkLocks, UnrefLocks DEF Step
<1>2. CASE \/ \E i \in Ids : CancelTurn(i)
           \/ \E r \in Requests : SetToken(r)
           \/ \E d \in Deleters : DeleteCheck(d) \/ DeleteUnlink(d)
           \/ UNCHANGED vars
  <2>1. UNCHANGED <<table, refs, owner, req>>
    BY <1>2, OtherTypes
  <2> QED BY <2>1 DEF LockInv, Counted, Found, Held, Unused, Users, Works, Fresh, InTurn, Key
<1> QED BY <1>1, <1>2 DEF Next

LEMMA InitLocks == Init => LockInv
<1> SUFFICES ASSUME Init PROVE LockInv
  OBVIOUS
<1>1. \A r \in Requests : /\ req[r].at = "idle" /\ req[r].entry = None
                          /\ refs[r] = 0 /\ owner[r] = None
  BY DEF Init, Blank
<1>2. Counted
  <2>1. \A e \in Requests : Users(e) = {}
    BY <1>1 DEF Users
  <2> QED BY <1>1, <2>1, FS_EmptySet DEF Counted
<1>3. Found /\ Held /\ Unused
  BY <1>1 DEF Init, Found, Held, Unused, Works, Fresh, InTurn
<1> QED BY <1>2, <1>3 DEF LockInv

LEMMA LocksSuffice ==
  ASSUME WellFormed, LockInv
  PROVE  LocksExclude
<1> SUFFICES ASSUME NEW r \in Requests, NEW q \in Requests, InTurn(r), InTurn(q),
                    OwnLock(r), OwnLock(q), req[r].sid = req[q].sid
             PROVE  r = q
  BY DEF LocksExclude
<1>1. Works(r) /\ Works(q)
  BY DEF Works
<1>2. req[r].entry \in Requests /\ req[q].entry \in Requests
  BY <1>1, WorkersHaveOne
<1>3. Key(r) = req[r].sid /\ Key(q) = req[q].sid
  BY DEF Key, OwnLock
<1>4. req[r].entry = req[q].entry
  BY <1>2, <1>3 DEF LockInv, Found
<1> QED BY <1>1, <1>4 DEF LockInv, Held

\* Two turns that locked the same session never work on it at once, however many
\* requests there are and whatever the bounded table evicted in between
\* (facade.py:273-274).
THEOREM LocksCorrect == Spec => []LocksExclude
<1>1. Init => WellFormed /\ LockInv
  BY InitWellFormed, InitLocks
<1>2. WellFormed /\ LockInv /\ [Next]_vars => (WellFormed /\ LockInv)'
  BY StepWellFormed, StepLocks
<1>3. WellFormed /\ LockInv => LocksExclude
  BY LocksSuffice
<1> QED BY <1>1, <1>2, <1>3, PTL DEF Spec

-----------------------------------------------------------------------------
(* The turn registry                                                        *)

\* A token is of a turn of its session that is at work; a turn without its token has
\* another request in its session, one that never locked it.
TokenInv ==
  /\ \A i \in Ids : token[i] # None => req[token[i]].sid = i /\ req[token[i]].at \in InFlight
  /\ \A r \in Requests : req[r].at \in InFlight /\ token[req[r].sid] # r =>
        \E q \in Requests : req[q].sid = req[r].sid /\ ~OwnLock(q)

\* The session of a request does not change once it has one, nor what it asked for.
LEMMA TokensStay ==
  ASSUME WellFormed, TokenInv, NEW r \in Requests, \A q \in Requests \ {r} : req'[q] = req[q],
         token' = token, req'[r].at \in InFlight <=> req[r].at \in InFlight,
         req[r].sid # None => req'[r].sid = req[r].sid /\ req'[r].want = req[r].want
  PROVE  TokenInv'
<1>1. \A q \in Requests : /\ req'[q].at \in InFlight <=> req[q].at \in InFlight
                          /\ req[q].at \in InFlight => req[q].sid # None
                          /\ req[q].sid # None => req'[q].sid = req[q].sid /\ req'[q].want = req[q].want
  BY DEF WellFormed, Shape, InTurn, InFlight
<1>2. ASSUME NEW i \in Ids, token'[i] # None
      PROVE  req'[token'[i]].sid = i /\ req'[token'[i]].at \in InFlight
  <2>1. token[i] \in Requests
    BY <1>2 DEF WellFormed, TypeOK
  <2> QED BY <1>1, <1>2, <2>1 DEF TokenInv
<1>3. ASSUME NEW p \in Requests, req'[p].at \in InFlight, token'[req'[p].sid] # p
      PROVE  \E q \in Requests : req'[q].sid = req'[p].sid /\ ~OwnLock(q)'
  <2>1. req[p].at \in InFlight /\ req[p].sid # None /\ req'[p].sid = req[p].sid
    BY <1>1, <1>3
  <2>2. PICK q \in Requests : req[q].sid = req[p].sid /\ ~OwnLock(q)
    BY <1>3, <2>1 DEF TokenInv
  <2>3. req'[q].sid = req[q].sid /\ req'[q].want = req[q].want
    BY <1>1, <2>1, <2>2
  <2> QED BY <2>1, <2>2, <2>3 DEF OwnLock
<1> QED BY <1>2, <1>3 DEF TokenInv

LEMMA RegisterTokens ==
  ASSUME WellFormed, LockInv, TokenInv, NEW r \in Requests, Register(r)
  PROVE  TokenInv'
<1>1. /\ req[r].at = "announce" /\ req'[r].at = "run" /\ req[r].sid \in Ids
      /\ \A q \in Requests \ {r} : req'[q] = req[q]
      /\ \A q \in Requests : req'[q].sid = req[q].sid /\ req'[q].want = req[q].want
  <2>1. Goes(r, "run") /\ req[r].at = "announce"
    BY GoesEffect DEF Register
  <2>2. req[r].sid \in Ids
    BY <2>1, Fields DEF WellFormed, TypeOK, Shape, InTurn
  <2> QED BY <2>1, <2>2 DEF Goes, Walk, Becomes
<1>2. \A i \in Ids : token'[i] = IF i = req[r].sid THEN r ELSE token[i]
  BY DEF Register, WellFormed, TypeOK
<1>3. ASSUME NEW i \in Ids, token'[i] # None
      PROVE  req'[token'[i]].sid = i /\ req'[token'[i]].at \in InFlight
  <2>1. CASE i = req[r].sid
    BY <1>1, <1>2, <2>1 DEF InFlight
  <2>2. CASE i # req[r].sid
    <3>1. token'[i] = token[i] /\ token[i] \in Requests
      BY <1>2, <1>3, <2>2 DEF WellFormed, TypeOK
    <3>2. req[token[i]].sid = i /\ req[token[i]].at \in InFlight
      BY <1>3, <3>1 DEF TokenInv
    <3> QED BY <1>1, <3>1, <3>2, <2>2
  <2> QED BY <2>1, <2>2
<1>4. ASSUME NEW p \in Requests, req'[p].at \in InFlight, token'[req'[p].sid] # p
      PROVE  \E q \in Requests : req[q].sid = req[p].sid /\ ~OwnLock(q)
  <2>1. p # r
    BY <1>1, <1>2, <1>4
  <2>2. req[p].at \in InFlight /\ req[p].sid \in Ids
    BY <1>1, <1>4, <2>1, Fields DEF WellFormed, TypeOK, Shape, InTurn, InFlight
  <2>3. CASE req[p].sid = req[r].sid
    BY <1>1, <2>1, <2>2, <2>3, LocksSuffice DEF LocksExclude, InTurn, InFlight
  <2>4. CASE req[p].sid # req[r].sid
    BY <1>1, <1>2, <1>4, <2>2, <2>4 DEF TokenInv
  <2> QED BY <2>3, <2>4
<1>5. \A q \in Requests : OwnLock(q)' <=> OwnLock(q)
  BY <1>1 DEF OwnLock
<1> QED BY <1>1, <1>3, <1>4, <1>5 DEF TokenInv

LEMMA UnregisterTokens ==
  ASSUME WellFormed, TokenInv, NEW r \in Requests, Unregister(r)
  PROVE  TokenInv'
<1>1. /\ req'[r].at = "unlock" /\ \A q \in Requests \ {r} : req'[q] = req[q]
      /\ \A q \in Requests : req'[q].sid = req[q].sid /\ req'[q].want = req[q].want
  BY GoesEffect DEF Goes, Walk, Becomes
<1>2. \A i \in Ids : token'[i] = IF i = req[r].sid /\ token[i] = r THEN None ELSE token[i]
  BY DEF Unregister, WellFormed, TypeOK
<1>3. ASSUME NEW i \in Ids, token'[i] # None
      PROVE  req'[token'[i]].sid = i /\ req'[token'[i]].at \in InFlight
  <2>1. token'[i] = token[i] /\ token[i] \in Requests
    BY <1>2, <1>3 DEF WellFormed, TypeOK
  <2>2. req[token[i]].sid = i /\ req[token[i]].at \in InFlight
    BY <1>3, <2>1 DEF TokenInv
  <2>3. token[i] # r
    BY <1>2, <1>3, <2>2, <2>1
  <2> QED BY <1>1, <2>1, <2>2, <2>3
<1>4. ASSUME NEW p \in Requests, req'[p].at \in InFlight, token'[req'[p].sid] # p
      PROVE  \E q \in Requests : req[q].sid = req[p].sid /\ ~OwnLock(q)
  <2>1. p # r /\ req[p].at \in InFlight
    BY <1>1, <1>4 DEF InFlight
  <2>2. req[p].sid \in Ids
    BY <2>1, Fields DEF WellFormed, TypeOK, Shape, InTurn, InFlight
  <2>3. token[req[p].sid] # p
    BY <1>1, <1>2, <1>4, <2>1, <2>2
  <2> QED BY <2>1, <2>3 DEF TokenInv
<1>5. \A q \in Requests : OwnLock(q)' <=> OwnLock(q)
  BY <1>1 DEF OwnLock
<1> QED BY <1>1, <1>3, <1>4, <1>5 DEF TokenInv

LEMMA StepTokens ==
  ASSUME WellFormed, LockInv, TokenInv, [Next]_vars
  PROVE  TokenInv'
<1>1. ASSUME NEW r \in Requests, Arrive(r) \/ Step(r), ~Register(r), ~Unregister(r) PROVE TokenInv'
  <2>1. token' = token
    BY <1>1 DEF Arrive, Step, RetainWanted, AcquireWanted, TimeOut, LoadFound, LoadCreated, LoadFails, Trim,
                RetainNew, AcquireNew, Disconnect, Save, SaveFails, Scan, Remove, Unlock, Unref
  <2>2. ASSUME NEW stage, NEW want, NEW sid, NEW entry, NEW victims,
               Becomes(r, stage, want, sid, entry, victims),
               stage \in InFlight <=> req[r].at \in InFlight,
               req[r].sid # None => sid = req[r].sid /\ want = req[r].want
        PROVE  TokenInv'
    BY <2>1, <2>2, TokensStay DEF Becomes
  <2>3. Shape(r)
    BY DEF WellFormed
  <2>4. CASE Arrive(r)
    <3>1. PICK i : Walk(r, IF i = None THEN "load" ELSE "retain", i, req[r].sid, req[r].victims)
      BY <2>4, ArriveEffect
    <3> QED BY <2>2, <2>3, <2>4, <3>1 DEF Walk, Arrive, Shape, InFlight
  <2>5. CASE TimeOut(r)
    BY <2>2, <2>5, GoesEffect DEF Goes, Walk, TimeOut, InFlight
  <2>6. CASE Disconnect(r)
    BY <2>2, <2>6, GoesEffect DEF Goes, Walk, Disconnect, InFlight
  <2>7. CASE Save(r)
    BY <2>2, <2>7, GoesEffect DEF Goes, Walk, Save, InFlight
  <2>8. CASE SaveFails(r)
    BY <2>2, <2>8, GoesEffect DEF Goes, Walk, SaveFails, InFlight
  <2>9. CASE LoadFound(r)
    BY <2>2, <2>3, <2>9, LoadEffect DEF Walk, LoadFound, Shape, InFlight
  <2>10. CASE LoadCreated(r)
    <3>1. PICK i, out : Walk(r, "trim", req[r].want, i, out)
      BY <2>10, LoadEffect
    <3> QED BY <2>2, <2>3, <2>10, <3>1 DEF Walk, LoadCreated, Shape, InFlight
  <2>11. CASE Scan(r)
    <3>1. PICK out : Walk(r, "unlink", req[r].want, req[r].sid, out)
      BY <2>11, LoadEffect
    <3> QED BY <2>2, <2>11, <3>1 DEF Walk, Scan, InFlight
  <2>12. CASE Trim(r)
    BY <2>2, <2>12, UnlinkEffect DEF Walk, Trim, InFlight
  <2>13. CASE Remove(r)
    BY <2>2, <2>13, UnlinkEffect DEF Walk, Remove, InFlight
  <2>14. CASE RetainWanted(r) \/ RetainNew(r)
    <3>1. PICK i, st : Retains(r, i, st) /\ st \notin InFlight
      BY <2>14, RetainEffects DEF InFlight
    <3>2. PICK e : Becomes(r, st, req[r].want, req[r].sid, e, req[r].victims)
      BY <3>1 DEF Retains
    <3>3. st \notin InFlight /\ req[r].at \notin InFlight
      BY <2>14, <3>1 DEF RetainWanted, RetainNew, InFlight
    <3> QED BY <2>2, <3>2, <3>3
  <2>15. CASE AcquireWanted(r)
    BY <2>2, <2>15, LockEffects DEF AcquireWanted, InFlight
  <2>16. CASE AcquireNew(r)
    BY <2>2, <2>16, LockEffects DEF AcquireNew, InFlight
  <2>17. CASE Unlock(r)
    BY <2>2, <2>17, LockEffects DEF Unlock, InFlight
  <2>18. CASE Unref(r)
    BY <2>2, <2>18, LockEffects DEF Unref, InFlight
  <2>19. CASE LoadFails(r)
    BY <2>2, <2>19, GoesEffect DEF Goes, Walk, LoadFails, InFlight
  <2> QED BY <1>1, <2>4, <2>5, <2>6, <2>7, <2>8, <2>9, <2>10, <2>11, <2>12, <2>13, <2>14, <2>15,
             <2>16, <2>17, <2>18, <2>19 DEF Step
<1>2. CASE \/ \E i \in Ids : CancelTurn(i)
           \/ \E r \in Requests : SetToken(r)
           \/ \E d \in Deleters : DeleteCheck(d) \/ DeleteUnlink(d)
           \/ UNCHANGED vars
  <2>1. UNCHANGED <<token, req>>
    BY <1>2, OtherTypes
  <2> QED BY <2>1 DEF TokenInv, OwnLock
<1> QED BY <1>1, <1>2, RegisterTokens, UnregisterTokens DEF Next

\* It registered its turn once: the stages from then on are its last.
Begun(r) == req[r].at \in InFlight \cup {"unlock", "unref", "done"}

\* What a stop has looked up, or set, is the token of a turn that has begun.
SoughtInv == \A r \in found \cup stopped : Begun(r)

LEMMA StepForward ==
  ASSUME WellFormed, NEW r \in Requests, Arrive(r) \/ Step(r)
  PROVE  UNCHANGED <<found, stopped>> /\ \A q \in Requests : Begun(q) => Begun(q)'
<1>1. UNCHANGED <<found, stopped>>
  BY DEF Arrive, Step, RetainWanted, AcquireWanted, TimeOut, LoadFound, LoadCreated, LoadFails, Trim,
         RetainNew, AcquireNew, Disconnect, Register, Save, SaveFails, Scan, Remove, Unregister,
         Unlock, Unref
<1> SUFFICES \A q \in Requests : Begun(q) => Begun(q)'
  BY <1>1
<1>2. ASSUME NEW stage, NEW want, NEW sid, NEW entry, NEW victims,
             Becomes(r, stage, want, sid, entry, victims),
             Begun(r) => stage \in InFlight \cup {"unlock", "unref", "done"}
      PROVE  \A q \in Requests : Begun(q) => Begun(q)'
  BY <1>2 DEF Becomes, Begun
<1>3. CASE Arrive(r)
  <2>1. ~Begun(r)
    BY <1>3 DEF Arrive, Begun, InFlight
  <2> QED BY <1>2, <1>3, <2>1, ArriveEffect DEF Walk
<1>4. CASE TimeOut(r) \/ Disconnect(r) \/ Register(r) \/ Save(r) \/ SaveFails(r) \/ Unregister(r)
  <2>1. PICK st \in InFlight \cup {"unlock", "unref"} : Goes(r, st)
    BY <1>4, GoesEffect DEF InFlight
  <2> QED BY <1>2, <2>1 DEF Goes, Walk
<1>5. CASE LoadFails(r)
  <2>1. ~Begun(r)
    BY <1>5 DEF LoadFails, Begun, InFlight
  <2> QED BY <1>2, <1>5, <2>1, GoesEffect DEF Goes, Walk
<1>6. CASE LoadFound(r) \/ LoadCreated(r)
  <2>1. ~Begun(r)
    BY <1>6 DEF LoadFound, LoadCreated, Begun, InFlight
  <2>2. PICK st, want, sid, out : Walk(r, st, want, sid, out)
    BY <1>6, LoadEffect
  <2> QED BY <1>2, <2>1, <2>2 DEF Walk
<1>7. CASE Scan(r)
  <2>1. PICK out : Walk(r, "unlink", req[r].want, req[r].sid, out)
    BY <1>7, LoadEffect
  <2> QED BY <1>2, <2>1 DEF Walk, InFlight
<1>8. CASE Trim(r)
  <2>1. ~Begun(r)
    BY <1>8 DEF Trim, Begun, InFlight
  <2> QED BY <1>2, <1>8, <2>1, UnlinkEffect DEF Walk
<1>9. CASE Remove(r)
  BY <1>2, <1>9, UnlinkEffect DEF Walk, InFlight
<1>10. CASE RetainWanted(r) \/ RetainNew(r)
  <2>1. ~Begun(r)
    BY <1>10 DEF RetainWanted, RetainNew, Begun, InFlight
  <2>2. PICK i, st : Retains(r, i, st)
    BY <1>10, RetainEffects
  <2>3. PICK e : Becomes(r, st, req[r].want, req[r].sid, e, req[r].victims)
    BY <2>2 DEF Retains
  <2> QED BY <1>2, <2>1, <2>3
<1>11. CASE AcquireWanted(r) \/ AcquireNew(r)
  <2>1. ~Begun(r)
    BY <1>11 DEF AcquireWanted, AcquireNew, Begun, InFlight
  <2> QED BY <1>2, <1>11, <2>1, LockEffects
<1>12. CASE Unlock(r) \/ Unref(r)
  BY <1>2, <1>12, LockEffects
<1> QED BY <1>3, <1>4, <1>5, <1>6, <1>7, <1>8, <1>9, <1>10, <1>11, <1>12 DEF Step

LEMMA StepSought ==
  ASSUME WellFormed, TokenInv, SoughtInv, [Next]_vars
  PROVE  SoughtInv'
<1> USE DEF SoughtInv
<1>1. ASSUME NEW r \in Requests, Arrive(r) \/ Step(r) PROVE SoughtInv'
  <2>1. found \cup stopped \subseteq Requests
    BY DEF WellFormed, TypeOK
  <2> QED BY <1>1, <2>1, StepForward
<1>2. ASSUME NEW i \in Ids, CancelTurn(i) PROVE SoughtInv'
  <2>1. Begun(token[i])
    BY <1>2 DEF CancelTurn, TokenInv, Begun
  <2> QED BY <1>2, <2>1 DEF CancelTurn, Begun
<1>3. ASSUME NEW r \in Requests, SetToken(r) PROVE SoughtInv'
  BY <1>3 DEF SetToken, Begun
<1>4. ASSUME NEW d \in Deleters, DeleteCheck(d) \/ DeleteUnlink(d) PROVE SoughtInv'
  BY <1>4 DEF DeleteCheck, DeleteUnlink, Begun
<1>5. CASE UNCHANGED vars
  BY <1>5 DEF vars, Begun
<1> QED BY <1>1, <1>2, <1>3, <1>4, <1>5 DEF Next

LEMMA TokensSuffice ==
  ASSUME WellFormed, LockInv, TokenInv, SoughtInv
  PROVE  StopHitsItsTurn /\ NothingLeaks
<1>1. StopHitsItsTurn
  BY DEF TokenInv, SoughtInv, Begun, StopHitsItsTurn, InFlight
<1>2. ASSUME \A r \in Requests : req[r].at \in {"idle", "done"}
      PROVE  /\ \A e \in Requests : refs[e] = 0 /\ owner[e] = None
             /\ \A i \in Ids : token[i] = None
  <2>1. \A r \in Requests : req[r].entry = None /\ ~Works(r)
    BY <1>2 DEF WellFormed, Shape, Fresh, Works, InTurn
  <2>2. ASSUME NEW e \in Requests PROVE refs[e] = 0 /\ owner[e] = None
    <3>1. Users(e) = {}
      BY <2>1 DEF Users
    <3>2. refs[e] = 0
      BY <3>1, FS_EmptySet DEF LockInv, Counted
    <3>3. owner[e] = None
      BY <2>1 DEF LockInv, Held, WellFormed, TypeOK
    <3> QED BY <3>2, <3>3
  <2>3. ASSUME NEW i \in Ids PROVE token[i] = None
    BY <1>2 DEF TokenInv, InFlight, WellFormed, TypeOK
  <2> QED BY <2>2, <2>3
<1>3. ASSUME NEW e \in Requests, owner[e] # None
      PROVE  /\ req[owner[e]].entry = e /\ refs[e] > 0
             /\ req[owner[e]].at \in {"load", "trim", "unlock"} \/ InTurn(owner[e])
  <2>1. owner[e] \in Requests /\ Works(owner[e]) /\ req[owner[e]].entry = e
    BY <1>3 DEF LockInv, Held, WellFormed, TypeOK
  <2>2. refs[e] # 0 /\ refs[e] \in Nat
    BY <2>1, UsedIsReferenced DEF WellFormed, TypeOK
  <2> QED BY <2>1, <2>2 DEF Works
<1> QED BY <1>1, <1>2, <1>3 DEF NothingLeaks

LEMMA InitTokens == Init => TokenInv /\ SoughtInv
BY DEF Init, Blank, TokenInv, SoughtInv, InFlight

ChatInv == WellFormed /\ LockInv /\ TokenInv /\ SoughtInv

LEMMA AllInv == Spec => []ChatInv
<1> USE DEF ChatInv
<1>1. Init => ChatInv
  BY InitWellFormed, InitLocks, InitTokens
<1>2. ChatInv /\ [Next]_vars => ChatInv'
  BY StepWellFormed, StepLocks, StepTokens, StepSought
<1> QED BY <1>1, <1>2, PTL DEF Spec

\* The stop button finds the turn of its session from its registration until after its
\* save, and what it stops is the turn it found, which may have ended by then, and never
\* one that has not begun (facade.py:409-410, cancel.py:61-68).
THEOREM StopCorrect == Spec => []StopHitsItsTurn
<1>1. ChatInv => StopHitsItsTurn
  BY TokensSuffice DEF ChatInv
<1> QED BY <1>1, AllInv, PTL

\* Once all requests are done, whether they ended, failed, timed out or lost their
\* client, no lock, reference or token is left; until then a lock is held by a request
\* that works (the finally blocks of chat_stream).
THEOREM LeaksCorrect == Spec => []NothingLeaks
<1>1. ChatInv => NothingLeaks
  BY TokensSuffice DEF ChatInv
<1> QED BY <1>1, AllInv, PTL

-----------------------------------------------------------------------------
(* The clean-up                                                             *)

LEMMA ClaimedIsBusy ==
  ASSUME WellFormed, LockInv, NEW r \in Requests, NEW i \in Ids, Claims(r, i)
  PROVE  Busy(i)
<1>1. req[r].entry # None /\ i = Key(r)
  BY DEF Claims, Key
<1>2. table[i] = req[r].entry /\ refs[req[r].entry] # 0 /\ refs[req[r].entry] \in Nat
  BY <1>1, KeyIsId, UsedIsReferenced DEF LockInv, Found, WellFormed, TypeOK
<1> QED BY <1>1, <1>2 DEF Busy

\* What a clean-up chooses is not busy; the other steps choose nothing.
LEMMA VictimsAreIdle ==
  ASSUME WellFormed, NEW r \in Requests, Arrive(r) \/ Step(r), NEW p \in Requests,
         NEW i \in req'[p].victims \ req[p].victims
  PROVE  ~Busy(i)
<1>1. ASSUME NEW stage, NEW want, NEW sid, NEW entry, NEW victims,
             Becomes(r, stage, want, sid, entry, victims),
             \A k \in victims \ req[r].victims : ~Busy(k)
      PROVE  ~Busy(i)
  BY <1>1 DEF Becomes
<1>2. \A k \in Ids, j \in Ids \cup {None} : \A out \in Reclaimable(r, j) : k \in out => ~Busy(k)
  BY DEF Reclaimable
<1>3. CASE Arrive(r)
  BY <1>1, <1>3, ArriveEffect DEF Walk
<1>4. CASE \/ TimeOut(r) \/ Disconnect(r) \/ Register(r) \/ Save(r) \/ SaveFails(r)
           \/ Unregister(r) \/ LoadFails(r)
  <2>1. PICK st : Goes(r, st)
    BY <1>4, GoesEffect
  <2> QED BY <1>1, <2>1 DEF Goes, Walk
<1>5. CASE LoadFound(r)
  BY <1>1, <1>5, LoadEffect DEF Walk
<1>6. CASE LoadCreated(r)
  <2>1. PICK j \in Ids, out \in SUBSET Ids :
          out \in Reclaimable(r, j) /\ Walk(r, "trim", req[r].want, j, out)
    BY <1>6, LoadEffect
  <2> QED BY <1>1, <1>2, <2>1 DEF Walk
<1>7. CASE Scan(r)
  <2>1. PICK out \in SUBSET Ids :
          out \in Reclaimable(r, req[r].sid) /\ Walk(r, "unlink", req[r].want, req[r].sid, out)
    BY <1>7, LoadEffect
  <2>2. req[r].sid \in Ids \cup {None}
    BY Fields DEF WellFormed, TypeOK
  <2> QED BY <1>1, <1>2, <2>1, <2>2 DEF Walk
<1>8. CASE Trim(r) \/ Remove(r)
  <2>1. PICK st : Walk(r, st, req[r].want, req[r].sid, {})
    BY <1>8, UnlinkEffect
  <2> QED BY <1>1, <2>1 DEF Walk
<1>9. CASE RetainWanted(r) \/ RetainNew(r)
  <2>1. PICK j, st : Retains(r, j, st)
    BY <1>9, RetainEffects
  <2>2. PICK e : Becomes(r, st, req[r].want, req[r].sid, e, req[r].victims)
    BY <2>1 DEF Retains
  <2> QED BY <1>1, <2>2
<1>10. CASE AcquireWanted(r) \/ AcquireNew(r) \/ Unlock(r) \/ Unref(r)
  <2>1. PICK st, e : Becomes(r, st, req[r].want, req[r].sid, e, req[r].victims)
    BY <1>10, LockEffects
  <2> QED BY <1>1, <2>1
<1> QED BY <1>3, <1>4, <1>5, <1>6, <1>7, <1>8, <1>9, <1>10 DEF Step

\* A delete only goes on to its unlink when its session is not busy.
LEMMA DeletedIsIdle ==
  ASSUME WellFormed, NEW d \in Deleters, DeleteCheck(d) \/ DeleteUnlink(d),
         NEW c \in Deleters, NEW i \in Ids, del[c].at = "idle", del'[c] = [at |-> "unlink", id |-> i]
  PROVE  ~Busy(i)
<1>1. [at |-> "unlink", id |-> i].at = "unlink" /\ [at |-> "unlink", id |-> i].id = i
  OBVIOUS
<1>2. del \in [Deleters -> Deleter]
  BY DEF WellFormed, TypeOK
<1>3. CASE DeleteCheck(d)
  <2>1. PICK j : del' = [del EXCEPT ![d] = IF Busy(j) THEN [at |-> "done", id |-> j]
                                                      ELSE [at |-> "unlink", id |-> j]]
    BY <1>3 DEF DeleteCheck
  <2>2. c = d
    BY <1>1, <1>2, <2>1
  <2>3. del'[c] = IF Busy(j) THEN [at |-> "done", id |-> j] ELSE [at |-> "unlink", id |-> j]
    BY <1>2, <2>1, <2>2
  <2>4. [at |-> "done", id |-> j].at = "done" /\ [at |-> "unlink", id |-> j].id = j
    OBVIOUS
  <2> QED BY <1>1, <2>3, <2>4
<1>4. CASE DeleteUnlink(d)
  <2>1. del[d].at = "unlink" /\ del' = [del EXCEPT ![d].at = "done"]
    BY <1>4 DEF DeleteUnlink
  <2>2. c # d /\ del'[c] = del[c]
    BY <1>2, <2>1
  <2> QED BY <1>1, <2>2
<1> QED BY <1>3, <1>4

LEMMA StepSpares ==
  ASSUME WellFormed, LockInv, [Next]_vars
  PROVE  [\A i \in Ids : Condemned(i) => \A r \in Requests : ~Claims(r, i)]_vars
<1> SUFFICES ASSUME Next, NEW i \in Ids, Condemned(i) PROVE ~Busy(i)
  BY ClaimedIsBusy
<1>1. ASSUME NEW r \in Requests, Arrive(r) \/ Step(r) PROVE ~Busy(i)
  <2>1. del' = del
    BY <1>1 DEF Arrive, Step, RetainWanted, AcquireWanted, TimeOut, LoadFound, LoadCreated, LoadFails, Trim,
                RetainNew, AcquireNew, Disconnect, Register, Save, SaveFails, Scan, Remove,
                Unregister, Unlock, Unref
  <2>2. ASSUME NEW d \in Deleters, del[d].at = "idle", del'[d] = [at |-> "unlink", id |-> i]
        PROVE  FALSE
    <3>1. [at |-> "unlink", id |-> i].at = "unlink"
      OBVIOUS
    <3> QED BY <2>1, <2>2, <3>1
  <2>3. PICK p \in Requests : i \in req'[p].victims \ req[p].victims
    BY <2>2 DEF Condemned
  <2> QED BY <1>1, <2>3, VictimsAreIdle
<1>2. ASSUME NEW d \in Deleters, DeleteCheck(d) \/ DeleteUnlink(d) PROVE ~Busy(i)
  <2>1. req' = req
    BY <1>2, OtherTypes
  <2>2. PICK c \in Deleters : del[c].at = "idle" /\ del'[c] = [at |-> "unlink", id |-> i]
    BY <2>1 DEF Condemned
  <2> QED BY <1>2, <2>2, DeletedIsIdle
<1>3. CASE (\E k \in Ids : CancelTurn(k)) \/ \E q \in Requests : SetToken(q)
  <2>1. UNCHANGED <<req, del>>
    BY <1>3 DEF CancelTurn, SetToken
  <2>2. [at |-> "unlink", id |-> i].at = "unlink"
    OBVIOUS
  <2> QED BY <2>1, <2>2 DEF Condemned
<1> QED BY <1>1, <1>2, <1>3 DEF Next

\* No clean-up and no delete ever chooses a session whose lock somebody has or waits
\* for (facade.py:561-565).
THEOREM ClaimedCorrect == Spec => ClaimedIsSpared
<1>1. Init => WellFormed /\ LockInv
  BY InitWellFormed, InitLocks
<1>2. WellFormed /\ LockInv /\ [Next]_vars => (WellFormed /\ LockInv)'
  BY StepWellFormed, StepLocks
<1>3. WellFormed /\ LockInv /\ [Next]_vars =>
        [\A i \in Ids : Condemned(i) => \A r \in Requests : ~Claims(r, i)]_vars
  BY StepSpares
<1>4. Spec => [][\A i \in Ids : Condemned(i) => \A r \in Requests : ~Claims(r, i)]_vars
  BY <1>1, <1>2, <1>3, PTL DEF Spec
<1> QED BY <1>4 DEF ClaimedIsSpared
=============================================================================
