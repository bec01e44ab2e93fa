-------------------------- MODULE ProceduresProofs --------------------------
(***************************************************************************)
(* What the procedures that fetch and start services promise, whatever the *)
(* services they ask may answer and for every value of their constants.    *)
(* CalculationProofs goes on with those that compute.                      *)
(***************************************************************************)
EXTENDS Procedures, FiniteSetTheorems, SequenceTheorems, WellFoundedInduction, TLAPS

\* A step is one of the procedure under way, and no step makes another of it.
LEMMA InitIsNamed ==
  ASSUME Init
  PROVE  "of" \in DOMAIN work
<1>1. CASE FetchBegins
  BY <1>1 DEF FetchBegins
<1>2. CASE DataBegins
  <2>1. DailyBegins => "of" \in DOMAIN work
    BY DEF DailyBegins
  <2>2. SyncBegins => "of" \in DOMAIN work
    BY DEF SyncBegins
  <2> QED BY <1>2, <2>1, <2>2 DEF DataBegins
<1>3. CASE MarketBegins
  BY <1>3 DEF MarketBegins
<1>4. CASE TextBegins
  BY <1>4 DEF TextBegins
<1>5. CASE \E overlap \in BOOLEAN : work = [of |-> "launch", n |-> NewLaunch(overlap)]
  BY <1>5
<1> QED BY <1>1, <1>2, <1>3, <1>4, <1>5 DEF Init

LEMMA NextIsNamed ==
  ASSUME "of" \in DOMAIN work, [Next]_work
  PROVE  "of" \in DOMAIN work' /\ work'.of = work.of
BY DEF Next, SendRequest, AskForSlot, FetchBars, TryCombination, ReadPage, FetchFlow, FetchBatch,
       KeepRows, WriteRow, AppendRow, AskForBreadth, AskForSectors, RefreshPool, ReadLocal,
       WriteMemory, TakeTurn, SyncMarket, FetchDaily, LiveOn, FillFlow, Launch

LEMMA StepOfItsOwn ==
  ASSUME "of" \in DOMAIN work, [Next]_work, work' # work
  PROVE  /\ work.of = "launch" => \E n \in AllLaunchSteps(work.n) : work' = [work EXCEPT !.n = n]
         /\ work.of = "life" => \E l \in LifeSteps(work.l) : work' = [work EXCEPT !.l = l]
         /\ work.of = "daily" => \E d \in DailySteps(work.d) : work' = [work EXCEPT !.d = d]
         /\ work.of = "flowJob" => \E j \in FlowJobSteps(work.j) : work' = [work EXCEPT !.j = j]
         /\ work.of = "sync" => \E y \in SyncSteps(work.y) : work' = [work EXCEPT !.y = y]
         /\ work.of = "request" => \E r \in RequestSteps(work.r) : work' = [work EXCEPT !.r = r]
         /\ work.of = "bars" => \E f \in FetchSteps(work.f, work.listed) : work' = [work EXCEPT !.f = f]
         /\ work.of = "throttle" =>
              \E host \in Hosts, passed \in 0..Horizon : work' = [work EXCEPT !.t = Throttled(@, host, passed)]
BY DEF Next, SendRequest, AskForSlot, FetchBars, TryCombination, ReadPage, FetchFlow, FetchBatch,
       KeepRows, WriteRow, AppendRow, AskForBreadth, AskForSectors, RefreshPool, ReadLocal,
       WriteMemory, TakeTurn, SyncMarket, FetchDaily, LiveOn, FillFlow, Launch

LEMMA BeginningOfItsOwn ==
  ASSUME Init
  PROVE  /\ work.of = "launch" => \E overlap \in BOOLEAN : work = [of |-> "launch", n |-> NewLaunch(overlap)]
         /\ work.of = "life" => work = [of |-> "life", l |-> NewLife]
         /\ work.of = "daily" => DailyBegins
         /\ work.of = "flowJob" => work = [of |-> "flowJob", j |-> NewFlowJob]
         /\ work.of = "sync" => SyncBegins
         /\ work.of = "request" =>
              \E alternate \in BOOLEAN : work = [of |-> "request", r |-> NewRequest(alternate)]
         /\ work.of = "bars" =>
              \E board \in {"bj", "other"}, w \in Windows, listed \in Histories :
                work = [of |-> "bars", f |-> NewFetch(board, w[1], w[2]), listed |-> listed]
         /\ work.of = "throttle" => work = [of |-> "throttle", t |-> NewThrottle]
<1>1. ASSUME SyncBegins PROVE work.of = "sync"
  BY <1>1 DEF SyncBegins
<1>2. ASSUME DailyBegins PROVE work.of = "daily"
  BY <1>2 DEF DailyBegins
<1>3. CASE FetchBegins
  BY <1>3 DEF FetchBegins
<1>4. CASE DataBegins
  BY <1>1, <1>2, <1>4 DEF DataBegins
<1>5. CASE MarketBegins
  BY <1>5 DEF MarketBegins
<1>6. CASE TextBegins
  BY <1>6 DEF TextBegins
<1>7. CASE \E overlap \in BOOLEAN : work = [of |-> "launch", n |-> NewLaunch(overlap)]
  BY <1>7
<1> QED BY <1>3, <1>4, <1>5, <1>6, <1>7 DEF Init
-----------------------------------------------------------------------------
(* Launcher: calls of ensure_running that do not overlap.                   *)

LaunchStages ==
  {"idle", "look", "remove", "create", "wait", "removeLate", "recreate", "fill", "spawn",
   "health", "stop", "inspect", "write"}

Launching ==
  [overlap : BOOLEAN, lock : SUBSET [by : Shells, port : 0..MaxPorts],
   service : [Ports -> {"none", "starting", "up", "dead"}], used : 0..MaxPorts, exits : Int,
   at : [Shells -> LaunchStages], port : [Shells -> 0..MaxPorts],
   child : [Shells -> 0..MaxPorts], told : [Shells -> 0..MaxPorts]]

LEMMA PortsAreNumbers == Ports \subseteq 0..MaxPorts /\ 0 \notin Ports
BY LauncherConstants DEF Ports

LEMMA StepsOfAShell ==
  ASSUME NEW n \in Launching, NEW i \in Shells, NEW m \in LaunchSteps(n, i)
  PROVE  /\ n.at[i] = "idle" => MayCall(n) /\ m \in BeginLaunch(n, i)
         /\ n.at[i] = "look" => m = LookAtLock(n, i)
         /\ n.at[i] = "remove" => m = Go(RemoveLock(n), i, "create")
         /\ n.at[i] = "create" => m = CreateLock(n, i, "wait")
         /\ n.at[i] = "wait" => m \in WaitForLocked(n, i)
         /\ n.at[i] = "removeLate" => m = Go(RemoveLock(n), i, "recreate")
         /\ n.at[i] = "recreate" => m = CreateLock(n, i, "idle")
         /\ n.at[i] = "fill" => m = FillLock(n, i)
         /\ n.at[i] = "spawn" => \/ m = Go(n, i, "idle")
                                 \/ m = [n EXCEPT !.service[n.port[i]] = "starting", !.at[i] = "health"]
         /\ n.at[i] = "health" => \/ m = Go(RemoveLock(n), i, "stop")
                                  \/ IsUp(n, n.port[i]) /\ m = Go(n, i, "inspect")
         /\ n.at[i] = "stop" => m = GiveUp(n, i)
         /\ n.at[i] = "inspect" => m = IF IsUp(n, n.port[i]) THEN Go(n, i, "write")
                                      ELSE Go(RemoveLock(n), i, "idle")
         /\ n.at[i] = "write" => m = [Tell(n, i, n.port[i]) EXCEPT
                                       !.lock = {[by |-> i, port |-> n.port[i]]},
                                       !.child[i] = n.port[i]]
BY DEF LaunchSteps

LEMMA UpdatesAreLaunches ==
  ASSUME NEW n \in Launching, NEW i \in Shells
  PROVE  /\ \A step \in LaunchStages : Go(n, i, step) \in Launching
         /\ \A p \in 0..MaxPorts : Tell(n, i, p) \in Launching /\ Kill(n, p) \in Launching
         /\ RemoveLock(n) \in Launching
<1>1. \A step \in LaunchStages : Go(n, i, step) \in Launching
  BY DEF Go, Launching
<1>2. ASSUME NEW p \in 0..MaxPorts PROVE Tell(n, i, p) \in Launching
  BY DEF Tell, Launching, LaunchStages
<1>3. ASSUME NEW p \in 0..MaxPorts PROVE Kill(n, p) \in Launching
  BY DEF Kill, Launching
<1>4. RemoveLock(n) \in Launching
  BY DEF RemoveLock, Launching
<1> QED BY <1>1, <1>2, <1>3, <1>4
Payloads == [by : Shells, port : 0..MaxPorts]

\* A record with one field after another replaced by a value of its type.
LEMMA FieldsOfALaunch ==
  ASSUME NEW n \in Launching
  PROVE  /\ \A x \in SUBSET Payloads : [n EXCEPT !.lock = x] \in Launching
         /\ \A x \in [Ports -> {"none", "starting", "up", "dead"}] : [n EXCEPT !.service = x] \in Launching
         /\ \A x \in 0..MaxPorts : [n EXCEPT !.used = x] \in Launching
         /\ \A x \in Int : [n EXCEPT !.exits = x] \in Launching
         /\ \A i \in Shells : /\ \A x \in LaunchStages : [n EXCEPT !.at[i] = x] \in Launching
                             /\ \A x \in 0..MaxPorts : /\ [n EXCEPT !.port[i] = x] \in Launching
                                                      /\ [n EXCEPT !.child[i] = x] \in Launching
                                                      /\ [n EXCEPT !.told[i] = x] \in Launching
BY DEF Launching, Payloads

LEMMA LockedPortsAreNumbers ==
  ASSUME NEW n \in Launching
  PROVE  LockedPorts(n) \subseteq Ports
BY LauncherConstants DEF LockedPorts, Launching, Ports

LEMMA ShellStepIsTyped ==
  ASSUME NEW n \in Launching, NEW i \in Shells, NEW m \in LaunchSteps(n, i)
  PROVE  m \in Launching /\ m.overlap = n.overlap
<1>0. /\ n.at[i] \in LaunchStages /\ n.port[i] \in 0..MaxPorts /\ n.child[i] \in 0..MaxPorts
      /\ Ports \subseteq 0..MaxPorts
  BY PortsAreNumbers DEF Launching
<1>1. CASE n.at[i] = "idle"
  <2>1. m \in BeginLaunch(n, i)
    BY <1>1, StepsOfAShell
  <2>2. CASE n.child[i] # 0 /\ IsUp(n, n.child[i])
    <3>1. m = Tell(n, i, n.child[i])
      BY <2>1, <2>2 DEF BeginLaunch
    <3>2. m.overlap = n.overlap
      BY <3>1 DEF Tell, Launching
    <3> QED BY <1>0, <3>1, <3>2, UpdatesAreLaunches
  <2>3. CASE ~(n.child[i] # 0 /\ IsUp(n, n.child[i]))
    <3> DEFINE k == Kill(n, n.child[i])
    <3>1. k \in Launching /\ k.overlap = n.overlap /\ k.used = n.used
      BY <1>0, UpdatesAreLaunches DEF Kill, Launching
    <3>2. n.used # MaxPorts /\ m = [k EXCEPT !.child[i] = 0, !.used = @ + 1, !.port[i] = n.used + 1,
                                            !.at[i] = "look"]
      BY <2>1, <2>3 DEF BeginLaunch
    <3>3. n.used + 1 \in 0..MaxPorts /\ k.used + 1 \in 0..MaxPorts
      BY <3>1, <3>2, LauncherConstants DEF Launching
    <3> HIDE DEF k
    <3>4. m = [[[[k EXCEPT !.child[i] = 0] EXCEPT !.used = k.used + 1] EXCEPT !.port[i] = n.used + 1]
                EXCEPT !.at[i] = "look"]
      BY <3>1, <3>2 DEF Launching
    <3>5. m \in Launching
      <4> DEFINE k1 == [k EXCEPT !.child[i] = 0]
                 k2 == [k1 EXCEPT !.used = k.used + 1]
                 k3 == [k2 EXCEPT !.port[i] = n.used + 1]
      <4>0. 0 \in 0..MaxPorts
        BY LauncherConstants
      <4>1. k1 \in Launching
        BY <3>1, <4>0, FieldsOfALaunch
      <4>2. m = [k3 EXCEPT !.at[i] = "look"]
        BY <3>4
      <4> HIDE DEF k1
      <4>3. k2 \in Launching
        BY <3>3, <4>1, FieldsOfALaunch
      <4> HIDE DEF k2
      <4>4. k3 \in Launching
        BY <3>3, <4>3, FieldsOfALaunch
      <4> HIDE DEF k3
      <4> QED BY <4>2, <4>4, FieldsOfALaunch DEF LaunchStages
    <3>6. m.overlap = n.overlap
      BY <3>1, <3>2 DEF Launching
    <3> QED BY <3>5, <3>6
  <2> QED BY <2>2, <2>3
<1>2. CASE n.at[i] = "look"
  <2>1. m = LookAtLock(n, i)
    BY <1>2, StepsOfAShell
  <2>2. (CHOOSE p \in LockedPorts(n) : TRUE) \in 0..MaxPorts \/ LockedPorts(n) = {}
    BY <1>0, LockedPortsAreNumbers
  <2>3. m \in Launching
    BY <2>1, <2>2, UpdatesAreLaunches DEF LookAtLock, LaunchStages
  <2>4. m.overlap = n.overlap
    BY <2>1 DEF LookAtLock, Go, Tell, Launching
  <2> QED BY <2>3, <2>4
<1>3. CASE n.at[i] = "remove" \/ n.at[i] = "removeLate"
  <2>1. m = Go(RemoveLock(n), i, "create") \/ m = Go(RemoveLock(n), i, "recreate")
    BY <1>3, StepsOfAShell
  <2>2. m \in Launching
    BY <2>1, UpdatesAreLaunches DEF LaunchStages
  <2> QED BY <2>1, <2>2 DEF Go, RemoveLock, Launching
<1>4. CASE n.at[i] = "create" \/ n.at[i] = "recreate"
  <2>1. PICK s \in {"wait", "idle"} : m = CreateLock(n, i, s)
    BY <1>4, StepsOfAShell
  <2>2. CASE n.lock = {}
    <3>1. m = [n EXCEPT !.lock = {[by |-> i, port |-> 0]}, !.at[i] = "fill"]
      BY <2>1, <2>2 DEF CreateLock
    <3>2. m = [[n EXCEPT !.lock = {[by |-> i, port |-> 0]}] EXCEPT !.at[i] = "fill"]
      BY <3>1 DEF Launching
    <3>3. {[by |-> i, port |-> 0]} \in SUBSET Payloads
      BY LauncherConstants DEF Payloads
    <3>4. m \in Launching
      BY <3>2, <3>3, FieldsOfALaunch DEF LaunchStages
    <3> QED BY <3>1, <3>4 DEF Launching
  <2>3. CASE n.lock # {}
    <3>1. m = Go(n, i, s)
      BY <2>1, <2>3 DEF CreateLock
    <3>2. m \in Launching
      BY <3>1, UpdatesAreLaunches DEF LaunchStages
    <3> QED BY <3>1, <3>2 DEF Go, Launching
  <2> QED BY <2>2, <2>3
<1>5. CASE n.at[i] = "wait"
  <2>1. m = Go(n, i, "removeLate") \/ \E p \in LockedPorts(n) : m = Tell(n, i, p)
    BY <1>5, StepsOfAShell DEF WaitForLocked
  <2>2. m \in Launching
    BY <1>0, <2>1, UpdatesAreLaunches, LockedPortsAreNumbers DEF LaunchStages
  <2> QED BY <2>1, <2>2 DEF Go, Tell, Launching
<1>6. CASE n.at[i] = "fill"
  <2>1. m = FillLock(n, i)
    BY <1>6, StepsOfAShell
  <2>2. PICK lock \in SUBSET Payloads : m = [n EXCEPT !.lock = lock, !.at[i] = "spawn"]
    <3>1. {[by |-> i, port |-> n.port[i]]} \in SUBSET Payloads /\ n.lock \in SUBSET Payloads
      BY <1>0 DEF Launching, Payloads
    <3> QED BY <2>1, <3>1 DEF FillLock
  <2>3. m = [[n EXCEPT !.lock = lock] EXCEPT !.at[i] = "spawn"]
    BY <2>2 DEF Launching
  <2>4. m \in Launching
    BY <2>3, FieldsOfALaunch DEF LaunchStages
  <2> QED BY <2>2, <2>4 DEF Launching
<1>7. CASE n.at[i] = "spawn"
  <2>1. \/ m = Go(n, i, "idle")
        \/ m = [n EXCEPT !.service[n.port[i]] = "starting", !.at[i] = "health"]
    BY <1>7, StepsOfAShell
  <2>2. CASE m = Go(n, i, "idle")
    <3>1. m \in Launching
      BY <2>2, UpdatesAreLaunches DEF LaunchStages
    <3> QED BY <2>2, <3>1 DEF Go, Launching
  <2>3. CASE m = [n EXCEPT !.service[n.port[i]] = "starting", !.at[i] = "health"]
    <3> DEFINE service == [n.service EXCEPT ![n.port[i]] = "starting"]
    <3>1. service \in [Ports -> {"none", "starting", "up", "dead"}]
      BY DEF Launching
    <3>2. m = [[n EXCEPT !.service = service] EXCEPT !.at[i] = "health"]
      BY <2>3 DEF Launching
    <3> HIDE DEF service
    <3>3. m \in Launching
      BY <3>1, <3>2, FieldsOfALaunch DEF LaunchStages
    <3> QED BY <2>3, <3>3 DEF Launching
  <2> QED BY <2>1, <2>2, <2>3
<1>8. CASE n.at[i] = "health" \/ n.at[i] = "inspect"
  <2>1. PICK s \in {"stop", "inspect", "write", "idle"} :
            m = Go(RemoveLock(n), i, s) \/ m = Go(n, i, s)
    BY <1>8, StepsOfAShell
  <2>2. m \in Launching
    BY <2>1, UpdatesAreLaunches DEF LaunchStages
  <2> QED BY <2>1, <2>2 DEF Go, RemoveLock, Launching
<1>9. CASE n.at[i] = "stop"
  <2>1. m = Go(Kill(n, n.port[i]), i, "idle")
    BY <1>9, StepsOfAShell DEF GiveUp
  <2>2. Kill(n, n.port[i]) \in Launching /\ Kill(n, n.port[i]).overlap = n.overlap
    BY <1>0, UpdatesAreLaunches DEF Kill, Launching
  <2> HIDE DEF Kill
  <2>3. m \in Launching
    BY <2>1, <2>2, UpdatesAreLaunches DEF LaunchStages
  <2> QED BY <2>1, <2>2, <2>3 DEF Go, Launching
<1>10. CASE n.at[i] = "write"
  <2> DEFINE t == Tell(n, i, n.port[i])
  <2>1. m = [t EXCEPT !.lock = {[by |-> i, port |-> n.port[i]]}, !.child[i] = n.port[i]]
    BY <1>10, StepsOfAShell
  <2>2. t \in Launching /\ t.overlap = n.overlap
    BY <1>0, UpdatesAreLaunches DEF Tell, Launching
  <2> HIDE DEF t
  <2>3. m = [[t EXCEPT !.lock = {[by |-> i, port |-> n.port[i]]}] EXCEPT !.child[i] = n.port[i]]
    BY <2>1, <2>2 DEF Launching
  <2>4. {[by |-> i, port |-> n.port[i]]} \in SUBSET Payloads
    BY <1>0 DEF Payloads
  <2>5. m \in Launching
    BY <1>0, <2>2, <2>3, <2>4, FieldsOfALaunch
  <2> QED BY <2>1, <2>2, <2>5 DEF Launching
<1> QED BY <1>0, <1>1, <1>2, <1>3, <1>4, <1>5, <1>6, <1>7, <1>8, <1>9, <1>10 DEF LaunchStages

LEMMA OtherStepIsTyped ==
  ASSUME NEW n \in Launching, NEW m \in ServiceSteps(n) \cup ShellEnds(n)
  PROVE  m \in Launching /\ m.overlap = n.overlap
<1>1. CASE m \in ServiceSteps(n)
  <2>1. PICK p \in Ports, s \in {"up", "dead"} : m = [n EXCEPT !.service[p] = s]
    BY <1>1 DEF ServiceSteps, Alive
  <2> QED BY <2>1 DEF Launching
<1>2. CASE m \in ShellEnds(n)
  <2>1. PICK i \in Shells : m = [n EXCEPT !.exits = @ + 1, !.at[i] = "idle", !.child[i] = 0, !.told[i] = 0]
    BY <1>2 DEF ShellEnds
  <2>2. m = [[[[n EXCEPT !.exits = n.exits + 1] EXCEPT !.at[i] = "idle"] EXCEPT !.child[i] = 0]
              EXCEPT !.told[i] = 0]
    BY <2>1 DEF Launching
  <2>3. n.exits + 1 \in Int /\ 0 \in 0..MaxPorts
    BY LauncherConstants DEF Launching
  <2>4. m \in Launching
    BY <2>2, <2>3, FieldsOfALaunch DEF LaunchStages
  <2> QED BY <2>1, <2>4 DEF Launching
<1> QED BY <1>1, <1>2
-----------------------------------------------------------------------------
(* A single launch, and what holds at each of its steps.                    *)

\* The lock file names the one service that is alive.
LockNames(n) == \A p \in Alive(n) : LockedPorts(n) = {p}

\* What the shell that is in ensure_running has made sure of.
Stage(n, i) ==
  /\ n.at[i] # "idle" => n.port[i] \in Ports
  /\ n.at[i] = "look" => LockNames(n) /\ \A p \in Ports : n.service[p] # "starting"
  /\ n.at[i] \in {"remove", "create", "wait", "removeLate", "recreate", "fill", "spawn"} => Alive(n) = {}
  /\ n.at[i] = "fill" => n.lock = {[by |-> i, port |-> 0]}
  /\ n.at[i] \in {"spawn", "health", "inspect", "write"} => n.lock = {[by |-> i, port |-> n.port[i]]}
  /\ n.at[i] \in {"health", "stop", "inspect", "write"} => Alive(n) \subseteq {n.port[i]}
  /\ n.at[i] \in {"inspect", "write"} => n.service[n.port[i]] # "starting"

Alone(n) ==
  /\ \A i, j \in Shells : n.at[i] # "idle" /\ n.at[j] # "idle" => i = j
  /\ (\A i \in Shells : n.at[i] = "idle") => LockNames(n)
  /\ \A i \in Shells : Stage(n, i)

LaunchInv(n) == n \in Launching /\ (~n.overlap => Alone(n))

\* What is said of a launch is said of a few of its fields.
LEMMA SameServices ==
  ASSUME NEW n, NEW m
  PROVE  /\ m.service = n.service => Alive(m) = Alive(n)
         /\ m.lock = n.lock => LockedPorts(m) = LockedPorts(n)
         /\ Alive(m) \subseteq Alive(n) /\ LockedPorts(m) = LockedPorts(n) /\ LockNames(n) => LockNames(m)
BY DEF Alive, LockedPorts, LockNames

LEMMA OwnLock ==
  ASSUME NEW n, NEW i, NEW p, p # 0, n.lock = {[by |-> i, port |-> p]}
  PROVE  LockedPorts(n) = {p}
BY DEF LockedPorts

LEMMA Moves ==
  ASSUME NEW m, NEW i \in Shells, \A j \in Shells \ {i} : m.at[j] = "idle",
         Stage(m, i), m.at[i] = "idle" => LockNames(m)
  PROVE  Alone(m)
<1>1. \A j \in Shells \ {i} : Stage(m, j)
  BY DEF Stage
<1> QED BY <1>1 DEF Alone

LEMMA KillShrinks ==
  ASSUME NEW n \in Launching, NEW p \in 0..MaxPorts
  PROVE  /\ Alive(Kill(n, p)) = Alive(n) \ {p}
         /\ Kill(n, p).lock = n.lock /\ Kill(n, p).at = n.at /\ Kill(n, p).port = n.port
         /\ \A q \in Ports : Kill(n, p).service[q] \in {n.service[q], "dead"}
<1>1. 0 \notin Ports
  BY PortsAreNumbers
<1>2. CASE p = 0
  BY <1>1, <1>2 DEF Kill, Alive
<1>3. CASE p # 0
  <2>1. Kill(n, p) = [n EXCEPT !.service[p] = "dead"]
    BY <1>3 DEF Kill
  <2>2. p \in Ports
    BY <1>3, LauncherConstants DEF Ports
  <2>3. /\ \A q \in Ports : Kill(n, p).service[q] = IF q = p THEN "dead" ELSE n.service[q]
        /\ Kill(n, p).lock = n.lock /\ Kill(n, p).at = n.at /\ Kill(n, p).port = n.port
    BY <2>1, <2>2 DEF Launching
  <2> HIDE DEF Kill
  <2> QED BY <2>2, <2>3 DEF Alive
<1> QED BY <1>2, <1>3

LEMMA ShellStepIsAlone ==
  ASSUME NEW n \in Launching, NEW i \in Shells, NEW m \in LaunchSteps(n, i), ~n.overlap, Alone(n)
  PROVE  Alone(m)
<1>0. /\ n.at[i] \in LaunchStages /\ n.port[i] \in 0..MaxPorts /\ n.child[i] \in 0..MaxPorts
      /\ Ports \subseteq 0..MaxPorts /\ 0 \notin Ports
  BY PortsAreNumbers DEF Launching
<1>1. Stage(n, i)
  BY DEF Alone
<1>2. \A j \in Shells \ {i} : n.at[j] = "idle"
  <2>1. CASE n.at[i] = "idle"
    BY <2>1, StepsOfAShell DEF MayCall
  <2>2. CASE n.at[i] # "idle"
    BY <2>2 DEF Alone
  <2> QED BY <2>1, <2>2
<1>3. m \in Launching
  BY ShellStepIsTyped
<1>11. CASE n.at[i] = "idle"
  <2>1. m \in BeginLaunch(n, i) /\ \A p \in Ports : n.service[p] # "starting"
    BY <1>11, StepsOfAShell DEF MayCall
  <2>2. LockNames(n)
    BY <1>2, <1>11 DEF Alone
  <2>3. CASE n.child[i] # 0 /\ IsUp(n, n.child[i])
    <3>1. m = Tell(n, i, n.child[i])
      BY <2>1, <2>3 DEF BeginLaunch
    <3>2. m.at[i] = "idle" /\ m.lock = n.lock /\ m.service = n.service
          /\ \A j \in Shells \ {i} : m.at[j] = "idle"
      BY <1>2, <3>1 DEF Tell, Launching
    <3>3. LockNames(m)
      BY <2>2, <3>2, SameServices
    <3>4. Stage(m, i)
      BY <3>2 DEF Stage
    <3> QED BY <3>2, <3>3, <3>4, Moves
  <2>4. CASE ~(n.child[i] # 0 /\ IsUp(n, n.child[i]))
    <3> DEFINE k == Kill(n, n.child[i])
    <3>1. n.used # MaxPorts /\ m = [k EXCEPT !.child[i] = 0, !.used = @ + 1, !.port[i] = n.used + 1,
                                            !.at[i] = "look"]
      BY <2>1, <2>4 DEF BeginLaunch
    <3>2. /\ Alive(k) \subseteq Alive(n) /\ k.lock = n.lock /\ k.at = n.at /\ k.port = n.port
          /\ \A p \in Ports : k.service[p] \in {n.service[p], "dead"}
      BY <1>0, KillShrinks
    <3>3. k \in Launching
      BY <1>0, UpdatesAreLaunches
    <3>4. n.used + 1 \in Ports
      BY <3>1, LauncherConstants DEF Launching, Ports
    <3> HIDE DEF k
    <3>5. /\ m.at[i] = "look" /\ m.lock = n.lock /\ m.service = k.service /\ m.port[i] \in Ports
          /\ \A j \in Shells \ {i} : m.at[j] = "idle"
      BY <1>2, <3>1, <3>2, <3>3, <3>4 DEF Launching
    <3>6. Alive(m) \subseteq Alive(n) /\ \A p \in Ports : m.service[p] # "starting"
      <4>1. Alive(m) = Alive(k)
        BY <3>5, SameServices
      <4> QED BY <2>1, <3>2, <3>5, <4>1
    <3>7. LockNames(m)
      BY <2>2, <3>5, <3>6, SameServices
    <3>8. Stage(m, i)
      BY <3>5, <3>6, <3>7 DEF Stage
    <3> QED BY <3>5, <3>7, <3>8, Moves
  <2> QED BY <2>3, <2>4
<1>12. CASE n.at[i] = "look"
  <2>1. m = LookAtLock(n, i)
    BY <1>12, StepsOfAShell
  <2>2. LockNames(n) /\ n.port[i] \in Ports /\ \A p \in Ports : n.service[p] # "starting"
    BY <1>1, <1>12 DEF Stage
  <2>3. CASE \E p \in LockedPorts(n) : IsUp(n, p)
    <3>1. PICK p : m = Tell(n, i, p)
      BY <2>1, <2>3 DEF LookAtLock
    <3>2. m.at[i] = "idle" /\ m.lock = n.lock /\ m.service = n.service
          /\ \A j \in Shells \ {i} : m.at[j] = "idle"
      BY <1>2, <3>1 DEF Tell, Launching
    <3>3. LockNames(m)
      BY <2>2, <3>2, SameServices
    <3>4. Stage(m, i)
      BY <3>2 DEF Stage
    <3> QED BY <3>2, <3>3, <3>4, Moves
  <2>4. CASE ~\E p \in LockedPorts(n) : IsUp(n, p)
    <3>1. PICK s \in {"create", "remove"} : m = Go(n, i, s)
      BY <2>1, <2>4 DEF LookAtLock
    <3>2. Alive(n) = {}
      <4>1. ASSUME NEW p \in Alive(n) PROVE FALSE
        <5>1. LockedPorts(n) = {p}
          BY <2>2 DEF LockNames
        <5>2. p \in Ports /\ n.service[p] \in {"starting", "up"}
          BY DEF Alive
        <5> QED BY <2>2, <2>4, <5>1, <5>2 DEF IsUp
      <4> QED BY <4>1
    <3>3. m.at[i] = s /\ m.service = n.service /\ m.port = n.port
          /\ \A j \in Shells \ {i} : m.at[j] = "idle"
      BY <1>2, <3>1 DEF Go, Launching
    <3>4. Alive(m) = {}
      BY <3>2, <3>3, SameServices
    <3>5. Stage(m, i)
      BY <2>2, <3>3, <3>4 DEF Stage
    <3> QED BY <3>3, <3>5, Moves
  <2> QED BY <2>3, <2>4
<1>13. CASE n.at[i] \in {"remove", "removeLate", "create", "recreate", "wait", "fill"}
  <2>1. Alive(n) = {} /\ n.port[i] \in Ports
    BY <1>1, <1>13 DEF Stage
  <2>2. /\ m.service = n.service /\ m.port = n.port
        /\ \A j \in Shells \ {i} : m.at[j] = "idle"
        /\ m.at[i] \in {"create", "recreate", "wait", "idle", "fill", "spawn", "removeLate"}
        /\ m.at[i] = "fill" => m.lock = {[by |-> i, port |-> 0]}
        /\ m.at[i] = "spawn" => m.lock = {[by |-> i, port |-> n.port[i]]}
    <3>1. CASE n.at[i] \in {"remove", "removeLate"}
      <4>1. PICK s \in {"create", "recreate"} : m = Go(RemoveLock(n), i, s)
        BY <3>1, StepsOfAShell
      <4>2. m.service = n.service /\ m.port = n.port /\ m.at = [n.at EXCEPT ![i] = s]
        BY <4>1 DEF Go, RemoveLock, Launching
      <4>3. m.at[i] = s /\ \A j \in Shells \ {i} : m.at[j] = "idle"
        BY <1>2, <4>2 DEF Launching
      <4> QED BY <4>2, <4>3
    <3>2. CASE n.at[i] \in {"create", "recreate"}
      <4>1. PICK s \in {"wait", "idle"} : m = CreateLock(n, i, s)
        BY <3>2, StepsOfAShell
      <4>2. \/ m = Go(n, i, s)
            \/ m = [n EXCEPT !.lock = {[by |-> i, port |-> 0]}, !.at[i] = "fill"]
        BY <4>1 DEF CreateLock
      <4>3. m.service = n.service /\ m.port = n.port
        BY <4>2 DEF Go, Launching
      <4>4. \/ m.at = [n.at EXCEPT ![i] = s]
            \/ m.at = [n.at EXCEPT ![i] = "fill"] /\ m.lock = {[by |-> i, port |-> 0]}
        BY <4>2 DEF Go, Launching
      <4>5. /\ m.at[i] = s \/ (m.at[i] = "fill" /\ m.lock = {[by |-> i, port |-> 0]})
            /\ \A j \in Shells \ {i} : m.at[j] = "idle"
        BY <1>2, <4>4 DEF Launching
      <4> QED BY <4>1, <4>3, <4>5
    <3>3. CASE n.at[i] = "wait"
      <4>1. m = Go(n, i, "removeLate") \/ \E p \in LockedPorts(n) : m = Tell(n, i, p)
        BY <3>3, StepsOfAShell DEF WaitForLocked
      <4>2. m.service = n.service /\ m.port = n.port
        BY <4>1 DEF Go, Tell, Launching
      <4>3. m.at = [n.at EXCEPT ![i] = "removeLate"] \/ m.at = [n.at EXCEPT ![i] = "idle"]
        BY <4>1 DEF Go, Tell, Launching
      <4>4. m.at[i] \in {"removeLate", "idle"} /\ \A j \in Shells \ {i} : m.at[j] = "idle"
        BY <1>2, <4>3 DEF Launching
      <4> QED BY <4>2, <4>4
    <3>4. CASE n.at[i] = "fill"
      <4>1. m = FillLock(n, i) /\ n.lock = {[by |-> i, port |-> 0]}
        BY <1>1, <3>4, StepsOfAShell DEF Stage
      <4>2. m = [n EXCEPT !.lock = {[by |-> i, port |-> n.port[i]]}, !.at[i] = "spawn"]
        BY <4>1 DEF FillLock
      <4> QED BY <1>2, <4>2 DEF Launching
    <3> QED BY <1>13, <3>1, <3>2, <3>3, <3>4
  <2>3. Alive(m) = {}
    BY <2>1, <2>2, SameServices
  <2>4. Stage(m, i)
    BY <2>1, <2>2, <2>3 DEF Stage
  <2>5. LockNames(m)
    BY <2>3 DEF LockNames
  <2> QED BY <2>2, <2>4, <2>5, Moves
<1>14. CASE n.at[i] = "spawn"
  <2>1. Alive(n) = {} /\ n.port[i] \in Ports /\ n.lock = {[by |-> i, port |-> n.port[i]]}
    BY <1>1, <1>14 DEF Stage
  <2>2. CASE m = Go(n, i, "idle")
    <3>1. m.at[i] = "idle" /\ m.service = n.service /\ \A j \in Shells \ {i} : m.at[j] = "idle"
      BY <1>2, <2>2 DEF Go, Launching
    <3>2. Alive(m) = {}
      BY <2>1, <3>1, SameServices
    <3>3. LockNames(m) /\ Stage(m, i)
      BY <3>1, <3>2 DEF LockNames, Stage
    <3> QED BY <3>1, <3>3, Moves
  <2>3. CASE m = [n EXCEPT !.service[n.port[i]] = "starting", !.at[i] = "health"]
    <3>1. /\ m.at[i] = "health" /\ m.lock = n.lock /\ m.port = n.port
          /\ \A j \in Shells \ {i} : m.at[j] = "idle"
          /\ \A p \in Ports : m.service[p] = IF p = n.port[i] THEN "starting" ELSE n.service[p]
      BY <1>2, <2>1, <2>3 DEF Launching
    <3>2. Alive(m) \subseteq {m.port[i]}
      BY <2>1, <3>1 DEF Alive
    <3>3. Stage(m, i)
      BY <2>1, <3>1, <3>2 DEF Stage
    <3> QED BY <3>1, <3>3, Moves
  <2> QED BY <1>14, <2>2, <2>3, StepsOfAShell
<1>15. CASE n.at[i] = "health"
  <2>1. /\ Alive(n) \subseteq {n.port[i]} /\ n.port[i] \in Ports
        /\ n.lock = {[by |-> i, port |-> n.port[i]]}
    BY <1>1, <1>15 DEF Stage
  <2>2. CASE m = Go(RemoveLock(n), i, "stop")
    <3>1. /\ m.at[i] = "stop" /\ m.service = n.service /\ m.port = n.port
          /\ \A j \in Shells \ {i} : m.at[j] = "idle"
      BY <1>2, <2>2 DEF Go, RemoveLock, Launching
    <3>2. Alive(m) = Alive(n)
      BY <3>1, SameServices
    <3>3. Stage(m, i)
      BY <2>1, <3>1, <3>2 DEF Stage
    <3> QED BY <3>1, <3>3, Moves
  <2>3. CASE IsUp(n, n.port[i]) /\ m = Go(n, i, "inspect")
    <3>1. /\ m.at[i] = "inspect" /\ m.service = n.service /\ m.port = n.port /\ m.lock = n.lock
          /\ \A j \in Shells \ {i} : m.at[j] = "idle"
      BY <1>2, <2>3 DEF Go, Launching
    <3>2. Alive(m) = Alive(n) /\ m.service[m.port[i]] # "starting"
      BY <2>3, <3>1, SameServices DEF IsUp
    <3>3. Stage(m, i)
      BY <2>1, <3>1, <3>2 DEF Stage
    <3> QED BY <3>1, <3>3, Moves
  <2> QED BY <1>15, <2>2, <2>3, StepsOfAShell
<1>16. CASE n.at[i] = "stop"
  <2> DEFINE k == Kill(n, n.port[i])
  <2>1. Alive(n) \subseteq {n.port[i]} /\ m = Go(k, i, "idle")
    BY <1>1, <1>16, StepsOfAShell DEF Stage, GiveUp
  <2>2. Alive(k) = {} /\ k.at = n.at /\ k \in Launching
    BY <1>0, <2>1, KillShrinks, UpdatesAreLaunches
  <2> HIDE DEF k
  <2>3. m.at[i] = "idle" /\ m.service = k.service /\ \A j \in Shells \ {i} : m.at[j] = "idle"
    BY <1>2, <2>1, <2>2 DEF Go, Launching
  <2>4. Alive(m) = {}
    BY <2>2, <2>3, SameServices
  <2>5. LockNames(m) /\ Stage(m, i)
    BY <2>3, <2>4 DEF LockNames, Stage
  <2> QED BY <2>3, <2>5, Moves
<1>17. CASE n.at[i] = "inspect"
  <2>1. /\ Alive(n) \subseteq {n.port[i]} /\ n.port[i] \in Ports
        /\ n.lock = {[by |-> i, port |-> n.port[i]]} /\ n.service[n.port[i]] # "starting"
    BY <1>1, <1>17 DEF Stage
  <2>2. CASE IsUp(n, n.port[i])
    <3>1. m = Go(n, i, "write")
      BY <1>17, <2>2, StepsOfAShell
    <3>2. /\ m.at[i] = "write" /\ m.service = n.service /\ m.port = n.port /\ m.lock = n.lock
          /\ \A j \in Shells \ {i} : m.at[j] = "idle"
      BY <1>2, <3>1 DEF Go, Launching
    <3>3. Alive(m) = Alive(n)
      BY <3>2, SameServices
    <3>4. Stage(m, i)
      BY <2>1, <3>2, <3>3 DEF Stage
    <3> QED BY <3>2, <3>4, Moves
  <2>3. CASE ~IsUp(n, n.port[i])
    <3>1. m = Go(RemoveLock(n), i, "idle")
      BY <1>17, <2>3, StepsOfAShell
    <3>2. m.at[i] = "idle" /\ m.service = n.service /\ \A j \in Shells \ {i} : m.at[j] = "idle"
      BY <1>2, <3>1 DEF Go, RemoveLock, Launching
    <3>3. Alive(n) = {}
      BY <2>1, <2>3 DEF Alive, IsUp
    <3>4. Alive(m) = {}
      BY <3>2, <3>3, SameServices
    <3>5. LockNames(m) /\ Stage(m, i)
      BY <3>2, <3>4 DEF LockNames, Stage
    <3> QED BY <3>2, <3>5, Moves
  <2> QED BY <2>2, <2>3
<1>18. CASE n.at[i] = "write"
  <2> DEFINE t == Tell(n, i, n.port[i])
  <2>1. Alive(n) \subseteq {n.port[i]} /\ n.port[i] \in Ports
    BY <1>1, <1>18 DEF Stage
  <2>2. m = [t EXCEPT !.lock = {[by |-> i, port |-> n.port[i]]}, !.child[i] = n.port[i]]
    BY <1>18, StepsOfAShell
  <2>3. t \in Launching /\ t.service = n.service /\ t.at = [n.at EXCEPT ![i] = "idle"]
    BY <1>0, UpdatesAreLaunches DEF Tell, Launching
  <2> HIDE DEF t
  <2>4. /\ m.at[i] = "idle" /\ m.service = n.service /\ m.lock = {[by |-> i, port |-> n.port[i]]}
        /\ \A j \in Shells \ {i} : m.at[j] = "idle"
    BY <1>2, <2>2, <2>3 DEF Launching
  <2>5. Alive(m) = Alive(n) /\ LockedPorts(m) = {n.port[i]}
    <3>1. Alive(m) = Alive(n)
      BY <2>4, SameServices
    <3>2. n.port[i] # 0
      BY <2>1, PortsAreNumbers
    <3>3. LockedPorts(m) = {n.port[i]}
      BY <2>4, <3>2 DEF LockedPorts
    <3> QED BY <3>1, <3>3
  <2>6. LockNames(m) /\ Stage(m, i)
    BY <2>1, <2>4, <2>5 DEF LockNames, Stage
  <2> QED BY <2>4, <2>6, Moves
<1> QED BY <1>0, <1>11, <1>12, <1>13, <1>14, <1>15, <1>16, <1>17, <1>18 DEF LaunchStages
LEMMA OtherStepIsAlone ==
  ASSUME NEW n \in Launching, NEW m \in ServiceSteps(n) \cup ShellEnds(n), ~n.overlap, Alone(n)
  PROVE  Alone(m)
<1>1. CASE m \in ServiceSteps(n)
  <2>1. PICK p \in Alive(n), s \in {"up", "dead"} : m = [n EXCEPT !.service[p] = s]
    BY <1>1 DEF ServiceSteps, Alive
  <2>2. /\ m.at = n.at /\ m.lock = n.lock /\ m.port = n.port
        /\ \A q \in Ports : m.service[q] \in {n.service[q], s}
        /\ \A q \in Ports \ {p} : m.service[q] = n.service[q]
    BY <2>1 DEF Launching
  <2>3. Alive(m) \subseteq Alive(n)
    BY <2>1, <2>2 DEF Alive
  <2>4. LockNames(n) => LockNames(m)
    BY <2>2, <2>3, SameServices
  <2>5. ASSUME NEW i \in Shells PROVE Stage(m, i)
    <3>1. Stage(n, i)
      BY DEF Alone
    <3> QED BY <2>2, <2>3, <2>4, <3>1 DEF Stage
  <2> QED BY <2>2, <2>4, <2>5 DEF Alone
<1>2. CASE m \in ShellEnds(n)
  <2>1. PICK i \in Shells : /\ n.at[i] # "stop"
                            /\ m = [n EXCEPT !.exits = @ + 1, !.at[i] = "idle", !.child[i] = 0, !.told[i] = 0]
    BY <1>2 DEF ShellEnds
  <2>2. m.service = n.service /\ m.lock = n.lock /\ m.port = n.port /\ m.at = [n.at EXCEPT ![i] = "idle"]
    BY <2>1 DEF Launching
  <2>3. m.at[i] = "idle" /\ \A j \in Shells \ {i} : m.at[j] = n.at[j]
    BY <2>2 DEF Launching
  <2>4. Alive(m) = Alive(n) /\ LockedPorts(m) = LockedPorts(n) /\ (LockNames(n) => LockNames(m))
    BY <2>2, SameServices
  <2>5. ASSUME \A j \in Shells : m.at[j] = "idle" PROVE LockNames(m)
    <3>1. \A j \in Shells \ {i} : n.at[j] = "idle"
      BY <2>3, <2>5
    <3>2. Stage(n, i) /\ ((\A j \in Shells : n.at[j] = "idle") => LockNames(n))
      BY DEF Alone
    <3>3. n.at[i] \in LaunchStages
      BY DEF Launching
    <3>4. CASE n.at[i] = "idle"
      BY <2>4, <3>1, <3>2, <3>4
    <3>5. CASE n.at[i] = "look"
      BY <2>4, <3>2, <3>5 DEF Stage
    <3>6. CASE n.at[i] \in {"remove", "create", "wait", "removeLate", "recreate", "fill", "spawn"}
      <4>1. Alive(n) = {}
        BY <3>2, <3>6 DEF Stage
      <4> QED BY <2>4, <4>1 DEF LockNames
    <3>7. CASE n.at[i] \in {"health", "inspect", "write"}
      <4>1. /\ Alive(n) \subseteq {n.port[i]} /\ n.port[i] \in Ports
            /\ n.lock = {[by |-> i, port |-> n.port[i]]}
        BY <3>2, <3>7 DEF Stage
      <4>2. LockedPorts(n) = {n.port[i]}
        BY <4>1, OwnLock, PortsAreNumbers
      <4>3. LockNames(n)
        BY <4>1, <4>2 DEF LockNames
      <4> QED BY <2>4, <4>3
    <3> QED BY <2>1, <3>3, <3>4, <3>5, <3>6, <3>7 DEF LaunchStages
  <2>6. ASSUME NEW j \in Shells PROVE Stage(m, j)
    <3>1. Stage(n, j)
      BY DEF Alone
    <3>2. CASE j = i
      BY <2>3, <3>2 DEF Stage
    <3>3. CASE j # i
      <4>1. m.at[j] = n.at[j]
        BY <2>3, <3>3
      <4> QED BY <2>2, <2>4, <3>1, <4>1 DEF Stage
    <3> QED BY <3>2, <3>3
  <2>7. \A j, k \in Shells : m.at[j] # "idle" /\ m.at[k] # "idle" => j = k
    BY <2>3 DEF Alone
  <2> QED BY <2>5, <2>6, <2>7 DEF Alone
<1> QED BY <1>1, <1>2

LEMMA LaunchStepKeeps ==
  ASSUME NEW n, LaunchInv(n), NEW m \in AllLaunchSteps(n)
  PROVE  LaunchInv(m)
<1>1. n \in Launching /\ (~n.overlap => Alone(n))
  BY DEF LaunchInv
<1>2. CASE \E i \in Shells : m \in LaunchSteps(n, i)
  BY <1>1, <1>2, ShellStepIsTyped, ShellStepIsAlone DEF LaunchInv
<1>3. CASE m \in ServiceSteps(n) \cup ShellEnds(n)
  BY <1>1, <1>3, OtherStepIsTyped, OtherStepIsAlone DEF LaunchInv
<1>4. (\E i \in Shells : m \in LaunchSteps(n, i)) \/ m \in ServiceSteps(n) \cup ShellEnds(n)
  <2>1. m \in UNION {LaunchSteps(n, i) : i \in Shells} \/ m \in ServiceSteps(n) \cup ShellEnds(n)
    BY DEF AllLaunchSteps
  <2>2. \A S : m \in UNION S => \E T \in S : m \in T
    OBVIOUS
  <2>3. ASSUME m \in UNION {LaunchSteps(n, i) : i \in Shells} PROVE \E i \in Shells : m \in LaunchSteps(n, i)
    <3>1. PICK T \in {LaunchSteps(n, i) : i \in Shells} : m \in T
      BY <2>2, <2>3
    <3> QED BY <3>1
  <2> QED BY <2>1, <2>3
<1> QED BY <1>2, <1>3, <1>4

LEMMA NewLaunchIsAlone ==
  ASSUME NEW overlap \in BOOLEAN
  PROVE  LaunchInv(NewLaunch(overlap))
<1> DEFINE n == NewLaunch(overlap)
<1> SUFFICES LaunchInv(n)
  OBVIOUS
<1>1. n \in Launching
  BY LauncherConstants DEF NewLaunch, Launching, LaunchStages
<1>2. (\A i \in Shells : n.at[i] = "idle") /\ \A p \in Ports : n.service[p] = "none"
  BY DEF NewLaunch
<1> HIDE DEF n
<1>3. Alive(n) = {}
  BY <1>2 DEF Alive
<1>4. LockNames(n) /\ \A i \in Shells : Stage(n, i)
  BY <1>2, <1>3 DEF LockNames, Stage
<1>5. Alone(n)
  BY <1>2, <1>4 DEF Alone
<1> QED BY <1>1, <1>5 DEF LaunchInv

LEMMA AloneIsSingle ==
  ASSUME NEW n, LaunchInv(n)
  PROVE  LaunchesAreSingle(n)
<1> SUFFICES ASSUME ~n.overlap PROVE LaunchesAreSingle(n)
  BY DEF LaunchesAreSingle
<1>1. n \in Launching /\ Alone(n)
  BY DEF LaunchInv
<1>2. \E p : Alive(n) \subseteq {p}
  <2>1. CASE \A i \in Shells : n.at[i] = "idle"
    <3>1. LockNames(n)
      BY <1>1, <2>1 DEF Alone
    <3>2. \A p, q \in Alive(n) : p = q
      BY <3>1 DEF LockNames
    <3> QED BY <3>2
  <2>2. CASE \E i \in Shells : n.at[i] # "idle"
    <3>1. PICK i \in Shells : n.at[i] # "idle"
      BY <2>2
    <3>2. Stage(n, i) /\ n.at[i] \in LaunchStages
      BY <1>1 DEF Alone, Launching
    <3>3. CASE n.at[i] = "look"
      <4>1. \A p, q \in Alive(n) : p = q
        BY <3>2, <3>3 DEF Stage, LockNames
      <4> QED BY <4>1
    <3> QED BY <3>1, <3>2, <3>3 DEF Stage, LaunchStages
  <2> QED BY <2>1, <2>2
<1>3. Cardinality(Alive(n)) <= 1
  <2>1. PICK p : Alive(n) = {} \/ Alive(n) = {p}
    BY <1>2
  <2>2. Cardinality({}) = 0 /\ Cardinality({p}) = 1
    BY FS_EmptySet, FS_Singleton
  <2> QED BY <2>1, <2>2
<1> QED BY <1>1, <1>3 DEF Alone, LockNames, LaunchesAreSingle

LaunchState == "of" \in DOMAIN work /\ (work.of = "launch" => "n" \in DOMAIN work /\ LaunchInv(work.n))

LEMMA LaunchBegins ==
  ASSUME Init
  PROVE  LaunchState
<1>5. ASSUME NEW overlap \in BOOLEAN, work = [of |-> "launch", n |-> NewLaunch(overlap)]
      PROVE  LaunchState
  <2>1. "of" \in DOMAIN work /\ "n" \in DOMAIN work /\ work.n = NewLaunch(overlap)
    BY <1>5
  <2> QED BY <2>1, NewLaunchIsAlone DEF LaunchState
<1> QED BY <1>5, InitIsNamed, BeginningOfItsOwn DEF LaunchState

LEMMA LaunchGoesOn ==
  ASSUME LaunchState, [Next]_work
  PROVE  LaunchState'
<1>1. "of" \in DOMAIN work' /\ work'.of = work.of
  BY NextIsNamed DEF LaunchState
<1>2. CASE work.of # "launch"
  BY <1>1, <1>2 DEF LaunchState
<1>3. CASE work.of = "launch"
  <2>1. "n" \in DOMAIN work /\ LaunchInv(work.n)
    BY <1>3 DEF LaunchState
  <2>2. CASE work' = work
    BY <2>2 DEF LaunchState
  <2>3. ASSUME NEW n \in AllLaunchSteps(work.n), work' = [work EXCEPT !.n = n] PROVE LaunchState'
    <3>1. "n" \in DOMAIN work' /\ work'.n = n
      BY <2>1, <2>3
    <3>2. LaunchInv(n)
      BY <2>1, LaunchStepKeeps
    <3> QED BY <1>1, <3>1, <3>2 DEF LaunchState
  <2> QED BY <1>3, <2>2, <2>3, StepOfItsOwn DEF LaunchState
<1> QED BY <1>2, <1>3

\* service_manager.rs, ensure_running: shells that call one after the other never
\* leave two services of a cache directory alive, whenever a service dies, a start
\* fails or a shell ends, and the lock file they leave names the one that is alive.
THEOREM ServiceCorrect == Spec => []ServiceIsSingle
<1>1. LaunchState => ServiceIsSingle
  BY AloneIsSingle DEF LaunchState, ServiceIsSingle
<1> QED BY <1>1, LaunchBegins, LaunchGoesOn, PTL DEF Spec
-----------------------------------------------------------------------------
(* Sets of integers.  An induction over the elements of a set is a search   *)
(* for the least number of elements for which the fact fails.               *)

LEMMA Least ==
  ASSUME NEW T, T \subseteq Nat, T # {}
  PROVE  \E x \in T : \A y \in T : x <= y
<1>1. PICK x \in T : \A y \in T : ~(<<y, x>> \in OpToRel(<, Nat))
  BY NatLessThanWellFounded, WFMin
<1>2. \A y \in T : ~(y < x)
  BY <1>1 DEF OpToRel
<1> QED BY <1>2

HasEnds(S) == (\E x \in S : \A y \in S : y <= x) /\ (\E x \in S : \A y \in S : x <= y)

LEMMA FiniteHasEnds ==
  ASSUME NEW S \in SUBSET Int, IsFiniteSet(S), S # {}
  PROVE  HasEnds(S)
<1> DEFINE Bad == {T \in SUBSET S : T # {} /\ ~HasEnds(T)}
           Sizes == {Cardinality(T) : T \in Bad}
<1> SUFFICES ASSUME Bad # {} PROVE FALSE
  OBVIOUS
<1>1. \A T \in SUBSET S : IsFiniteSet(T) /\ Cardinality(T) \in Nat
  BY FS_Subset, FS_CardinalityType
<1>2. PICK n \in Sizes : \A k \in Sizes : n <= k
  <2>1. Sizes \subseteq Nat /\ Sizes # {}
    BY <1>1
  <2> HIDE DEF Sizes
  <2> QED BY <2>1, Least
<1>3. PICK T \in Bad : Cardinality(T) = n
  OBVIOUS
<1>4. PICK x \in T : TRUE
  OBVIOUS
<1> DEFINE U == T \ {x}
<1>5. U \in SUBSET S /\ Cardinality(U) \in Nat /\ Cardinality(U) < Cardinality(T) /\ Cardinality(T) \in Nat
  <2>1. IsFiniteSet(T) /\ Cardinality(T) \in Nat /\ U \in SUBSET S
    BY <1>1
  <2>2. Cardinality(U) = Cardinality(T) - 1
    BY <1>4, <2>1, FS_RemoveElement
  <2>3. Cardinality(U) \in Nat
    BY <1>1, <2>1
  <2> HIDE DEF U
  <2> QED BY <2>1, <2>2, <2>3
<1>6. U \notin Bad
  <2> SUFFICES ASSUME U \in Bad PROVE FALSE
    OBVIOUS
  <2>1. Cardinality(U) \in Sizes
    OBVIOUS
  <2> QED BY <1>2, <1>3, <1>5, <2>1
<1>7. CASE U = {}
  <2>1. T = {x} /\ x \in Int
    BY <1>4, <1>7
  <2>2. HasEnds(T)
    BY <2>1 DEF HasEnds
  <2> QED BY <2>2
<1>8. CASE U # {}
  <2>1. HasEnds(U)
    BY <1>5, <1>6, <1>8
  <2>2. PICK m \in U, k \in U : \A y \in U : y <= m /\ k <= y
    BY <2>1 DEF HasEnds
  <2>3. x \in Int /\ m \in Int /\ k \in Int /\ T \subseteq Int /\ m \in T /\ k \in T /\ T = U \cup {x}
    BY <1>4, <2>2
  <2> HIDE DEF U
  <2>4. \E z \in T : \A y \in T : y <= z
    <3>1. CASE x <= m
      BY <2>2, <2>3, <3>1
    <3>2. CASE m <= x
      <4>1. \A y \in T : y <= x
        BY <2>2, <2>3, <3>2
      <4> QED BY <1>4, <4>1
    <3> QED BY <2>3, <3>1, <3>2
  <2>5. \E z \in T : \A y \in T : z <= y
    <3>1. CASE k <= x
      BY <2>2, <2>3, <3>1
    <3>2. CASE x <= k
      <4>1. \A y \in T : x <= y
        BY <2>2, <2>3, <3>2
      <4> QED BY <1>4, <4>1
    <3> QED BY <2>3, <3>1, <3>2
  <2> QED BY <2>4, <2>5 DEF HasEnds
<1> QED BY <1>7, <1>8

LEMMA Ends ==
  ASSUME NEW S \in SUBSET Int, IsFiniteSet(S), S # {}
  PROVE  /\ Max(S) \in S /\ \A y \in S : y <= Max(S)
         /\ Min(S) \in S /\ \A y \in S : Min(S) <= y
<1>1. (\E x \in S : \A y \in S : x >= y) /\ (\E x \in S : \A y \in S : x =< y)
  BY FiniteHasEnds DEF HasEnds
<1>2. Max(S) \in S /\ \A y \in S : Max(S) >= y
  BY <1>1 DEF Max
<1>3. Min(S) \in S /\ \A y \in S : Min(S) <= y
  BY <1>1 DEF Min
<1> QED BY <1>2, <1>3

LEMMA PairEnds ==
  ASSUME NEW a \in Int, NEW b \in Int
  PROVE  /\ Max({a, b}) = IF a >= b THEN a ELSE b
         /\ Min({a, b}) = IF a <= b THEN a ELSE b
<1>1. IsFiniteSet({a, b})
  <2>1. {a, b} = {a} \cup {b}
    OBVIOUS
  <2>2. IsFiniteSet({a}) /\ IsFiniteSet({b})
    BY FS_Singleton
  <2> QED BY <2>1, <2>2, FS_Union
<1>2. /\ Max({a, b}) \in {a, b} /\ \A y \in {a, b} : y <= Max({a, b})
      /\ Min({a, b}) \in {a, b} /\ \A y \in {a, b} : Min({a, b}) <= y
  <2>1. {a, b} \in SUBSET Int /\ {a, b} # {}
    OBVIOUS
  <2> QED BY <1>1, <2>1, Ends
<1> QED BY <1>2
-----------------------------------------------------------------------------
(* DataOperations: the lifecycle table.                                     *)

LifeRows == [listing : SUBSET Int, delisted : SUBSET Int, status : {"none", "listed", "delisted"}]

Living ==
  [table : [Stocks -> LifeRows], last : [Stocks -> Int], today : Int, list : SUBSET Stocks,
   absent : SUBSET Stocks, unread : BOOLEAN]

LifeInv(l) == l \in Living /\ LifeIsSound(l)

\* What a record says after one of a refresh has been written over it.
LEMMA UpsertedRecord ==
  ASSUME NEW table \in [Stocks -> LifeRows], NEW rows, NEW s \in Stocks, s \in DOMAIN rows => rows[s] \in LifeRows
  PROVE  LET row == UpsertSymbolLifecycle(table, rows)[s]
         IN  /\ row \in LifeRows
             /\ s \notin DOMAIN rows => row = table[s]
             /\ s \in DOMAIN rows => /\ row.delisted = Coalesce(rows[s].delisted, table[s].delisted)
                                     /\ row.status = rows[s].status
<1> DEFINE row == UpsertSymbolLifecycle(table, rows)[s]
<1>1. CASE s \notin DOMAIN rows
  <2>1. row = table[s]
    BY <1>1 DEF UpsertSymbolLifecycle
  <2> QED BY <1>1, <2>1
<1>2. CASE s \in DOMAIN rows
  <2>1. row = [listing |-> Coalesce(rows[s].listing, table[s].listing),
               delisted |-> Coalesce(rows[s].delisted, table[s].delisted),
               status |-> rows[s].status]
    BY <1>2 DEF UpsertSymbolLifecycle
  <2>2. /\ Coalesce(rows[s].listing, table[s].listing) \in SUBSET Int
        /\ Coalesce(rows[s].delisted, table[s].delisted) \in SUBSET Int
        /\ rows[s].status \in {"none", "listed", "delisted"}
    BY <1>2 DEF LifeRows, Coalesce
  <2> HIDE DEF row
  <2>3. row \in LifeRows
    BY <2>1, <2>2 DEF LifeRows
  <2>4. row.delisted = Coalesce(rows[s].delisted, table[s].delisted) /\ row.status = rows[s].status
    BY <2>1
  <2> QED BY <1>2, <2>3, <2>4 DEF row
<1> QED BY <1>1, <1>2

LEMMA SyncDayIsSound ==
  ASSUME NEW l, LifeInv(l), NEW traded
  PROVE  LifeInv(SyncDay(l, traded))
<1> DEFINE m == SyncDay(l, traded)
           last == [s \in Stocks |-> IF s \in traded \cap SyncSymbols(l.table, l.last)
                                     THEN l.today + 1 ELSE l.last[s]]
<1> SUFFICES LifeInv(m)
  OBVIOUS
<1>1. l \in Living /\ LifeIsSound(l)
  BY DEF LifeInv
<1>2. m = [l EXCEPT !.today = l.today + 1, !.last = last]
  BY DEF SyncDay
<1>3. last \in [Stocks -> Int]
  BY <1>1 DEF Living
<1>4. \A s \in DelistedSymbols(l.table) : s \in Stocks /\ last[s] = l.last[s]
  BY DEF DelistedSymbols, SyncSymbols
<1>5. \A s \in Stocks : l.table[s].delisted # {} => s \in DelistedSymbols(l.table)
  BY DEF DelistedSymbols
<1> HIDE DEF m, last
<1>6. m.table = l.table /\ m.last = last /\ m.today = l.today + 1 /\ m.absent = l.absent /\ m.unread = l.unread
  BY <1>1, <1>2 DEF Living
<1>7. m \in Living
  <2> DEFINE k == [l EXCEPT !.today = l.today + 1]
  <2>1. k \in Living
    BY <1>1 DEF Living
  <2>2. m = [k EXCEPT !.last = last]
    BY <1>2
  <2> HIDE DEF k
  <2> QED BY <1>3, <2>1, <2>2 DEF Living
<1>8. \A s \in DelistedSymbols(m.table) : m.unread \/ m.last[s] < m.today - StaleDays
  <2>1. ASSUME NEW s \in DelistedSymbols(l.table) PROVE l.unread \/ last[s] < l.today + 1 - StaleDays
    <3>1. l.unread \/ l.last[s] < l.today - StaleDays
      BY <1>1 DEF LifeIsSound
    <3>2. l.last[s] \in Int /\ l.today \in Int /\ StaleDays \in Int
      BY <1>1, <1>4, OperationConstants DEF Living
    <3> QED BY <1>4, <3>1, <3>2
  <2>2. \A s \in DelistedSymbols(l.table) : l.unread \/ last[s] < l.today + 1 - StaleDays
    BY <2>1
  <2>3. DelistedSymbols(m.table) = DelistedSymbols(l.table)
    BY <1>6
  <2>4. SUFFICES ASSUME NEW s \in DelistedSymbols(l.table), ~m.unread PROVE m.last[s] < m.today - StaleDays
    BY <2>3
  <2>5. ~l.unread
    BY <1>6, <2>4, Zenon
  <2>6. l.today \in Int /\ StaleDays \in Int
    BY <1>1, OperationConstants DEF Living
  <2> QED BY <1>6, <2>2, <2>4, <2>5, <2>6
<1>9. \A s \in Stocks : m.table[s].delisted \subseteq {m.last[s]}
  BY <1>1, <1>4, <1>5, <1>6 DEF LifeIsSound
<1>10. DelistedSymbols(m.table) \subseteq m.absent
  BY <1>1, <1>6 DEF LifeIsSound
<1> QED BY <1>7, <1>8, <1>9, <1>10 DEF LifeInv, LifeIsSound

LEMMA RefreshIsSound ==
  ASSUME NEW l, LifeInv(l), NEW list \in SUBSET Stocks, NEW recentRead \in BOOLEAN, NEW lastRead \in BOOLEAN
  PROVE  LifeInv(RefreshSymbolLifecycle(l, list, recentRead, lastRead))
<1> DEFINE recent == IF recentRead THEN {s \in Stocks : l.last[s] >= l.today - StaleDays} ELSE {}
           stale == StaleCandidates(l, list, recent)
           rows == [s \in list \cup stale |->
                      IF s \in list THEN Listing({}) ELSE Delisting(IF lastRead THEN {l.last[s]} ELSE {})]
           table == UpsertSymbolLifecycle(l.table, rows)
           absent == l.absent \cup (IF Cardinality(list) < MinCurrent THEN {} ELSE Stocks \ list)
           unread == l.unread \/ ~recentRead
           m == [l EXCEPT !.table = table, !.list = list, !.absent = absent, !.unread = unread]
<1>1. l \in Living /\ LifeIsSound(l)
  BY DEF LifeInv
<1>2. CASE list = {}
  <2>1. RefreshSymbolLifecycle(l, list, recentRead, lastRead) = l
    BY <1>2 DEF RefreshSymbolLifecycle
  <2> QED BY <2>1
<1>3. CASE list # {}
  <2>1. RefreshSymbolLifecycle(l, list, recentRead, lastRead) = m
    BY <1>3 DEF RefreshSymbolLifecycle
  <2>2. /\ stale \subseteq Stocks /\ stale \cap list = {} /\ stale \subseteq absent
        /\ absent \subseteq Stocks /\ l.absent \subseteq absent
        /\ \A s \in stale : recentRead => ~(l.last[s] >= l.today - StaleDays)
    BY <1>1 DEF StaleCandidates, Living
  <2>3. /\ DOMAIN rows = list \cup stale
        /\ \A s \in list : rows[s].delisted = {} /\ rows[s].status = "listed" /\ rows[s] \in LifeRows
        /\ \A s \in stale : rows[s].delisted \subseteq {l.last[s]} /\ rows[s] \in LifeRows
    <3>1. DOMAIN rows = list \cup stale
      OBVIOUS
    <3>2. ASSUME NEW s \in list PROVE rows[s].delisted = {} /\ rows[s].status = "listed" /\ rows[s] \in LifeRows
      BY DEF Listing, LifeRows
    <3>3. ASSUME NEW s \in stale PROVE rows[s].delisted \subseteq {l.last[s]} /\ rows[s] \in LifeRows
      <4>1. rows[s] = Delisting(IF lastRead THEN {l.last[s]} ELSE {}) /\ l.last[s] \in Int
        BY <1>1, <2>2 DEF Living
      <4> HIDE DEF rows
      <4> QED BY <4>1 DEF Delisting, LifeRows
    <3> QED BY <3>1, <3>2, <3>3
  <2>4. l.table \in [Stocks -> LifeRows]
    BY <1>1 DEF Living
  <2> HIDE DEF stale, rows
  <2>5. ASSUME NEW s \in Stocks
        PROVE  /\ table[s] \in LifeRows
               /\ s \in DOMAIN rows => /\ table[s].delisted = Coalesce(rows[s].delisted, l.table[s].delisted)
                                       /\ table[s].status = rows[s].status
               /\ s \notin DOMAIN rows => table[s] = l.table[s]
    <3>1. s \in DOMAIN rows => rows[s] \in LifeRows
      BY <2>3
    <3> QED BY <2>4, <3>1, UpsertedRecord
  <2>6. table \in [Stocks -> LifeRows]
    <3>1. table = [s \in Stocks |-> table[s]]
      BY DEF UpsertSymbolLifecycle
    <3> HIDE DEF table
    <3> QED BY <2>5, <3>1
  <2>7. unread \in BOOLEAN /\ (unread <=> l.unread \/ ~recentRead)
    OBVIOUS
  <2> HIDE DEF table, absent, unread
  <2>8. /\ m.table = table /\ m.absent = absent /\ m.last = l.last /\ m.today = l.today /\ m.unread = unread
    BY <1>1 DEF Living
  <2>9. m \in Living
    <3> DEFINE m1 == [l EXCEPT !.table = table]
               m2 == [m1 EXCEPT !.list = list]
               m3 == [m2 EXCEPT !.absent = absent]
    <3>1. m1 \in Living
      BY <1>1, <2>6 DEF Living
    <3>2. m = [m3 EXCEPT !.unread = unread]
      OBVIOUS
    <3> HIDE DEF m1, m
    <3>3. m2 \in Living
      BY <3>1 DEF Living
    <3> HIDE DEF m2
    <3>4. m3 \in Living
      BY <2>2, <3>3 DEF Living
    <3> HIDE DEF m3
    <3> QED BY <2>7, <3>2, <3>4 DEF Living
  <2>10. ASSUME NEW s \in DelistedSymbols(table) PROVE s \in Stocks /\ (s \in DelistedSymbols(l.table) \/ s \in stale)
    <3>1. s \in Stocks /\ (table[s].delisted # {} \/ table[s].status = "delisted")
      BY DEF DelistedSymbols
    <3>2. CASE s \in list
      <4>1. table[s].delisted = Coalesce({}, l.table[s].delisted) /\ table[s].status = "listed"
        BY <2>3, <2>5, <3>1, <3>2
      <4>2. l.table[s].delisted # {}
        BY <3>1, <4>1 DEF Coalesce
      <4> QED BY <3>1, <4>2 DEF DelistedSymbols
    <3>3. CASE s \notin list /\ s \notin stale
      <4>1. table[s] = l.table[s]
        BY <2>3, <2>5, <3>1, <3>3
      <4> QED BY <3>1, <4>1 DEF DelistedSymbols
    <3> QED BY <3>1, <3>2, <3>3
  <2> HIDE DEF m
  <2>11. DelistedSymbols(m.table) \subseteq m.absent
    BY <1>1, <2>2, <2>8, <2>10 DEF LifeIsSound
  <2>12. ASSUME NEW s \in DelistedSymbols(table), ~unread PROVE l.last[s] < l.today - StaleDays
    <3>1. CASE s \in DelistedSymbols(l.table)
      BY <1>1, <2>7, <2>12, <3>1 DEF LifeIsSound
    <3>2. CASE s \in stale
      <4>1. l.last[s] \in Int /\ l.today - StaleDays \in Int
        BY <1>1, <2>2, <3>2, OperationConstants DEF Living
      <4> QED BY <2>2, <2>7, <2>12, <3>2, <4>1
    <3> QED BY <2>10, <3>1, <3>2
  <2>13. \A s \in DelistedSymbols(m.table) : m.unread \/ m.last[s] < m.today - StaleDays
    <3>1. \A s \in DelistedSymbols(table) : unread \/ l.last[s] < l.today - StaleDays
      BY <2>12
    <3> QED BY <2>8, <3>1
  <2>14. ASSUME NEW s \in Stocks PROVE table[s].delisted \subseteq {l.last[s]}
    <3>1. l.table[s].delisted \subseteq {l.last[s]}
      BY <1>1 DEF LifeIsSound
    <3>2. CASE s \in DOMAIN rows
      <4>1. rows[s].delisted \subseteq {l.last[s]}
        BY <2>3, <3>2
      <4> QED BY <2>5, <3>1, <3>2, <4>1 DEF Coalesce
    <3>3. CASE s \notin DOMAIN rows
      BY <2>5, <3>1, <3>3
    <3> QED BY <3>2, <3>3
  <2>15. \A s \in Stocks : m.table[s].delisted \subseteq {m.last[s]}
    BY <2>8, <2>14
  <2> QED BY <2>1, <2>9, <2>11, <2>13, <2>15 DEF LifeInv, LifeIsSound
<1> QED BY <1>2, <1>3

LEMMA LifeStepKeeps ==
  ASSUME NEW l, LifeInv(l), NEW m \in LifeSteps(l)
  PROVE  LifeInv(m)
<1>1. \/ \E traded \in SUBSET Stocks : m = SyncDay(l, traded)
      \/ \E list \in SUBSET Stocks, recentRead \in BOOLEAN, lastRead \in BOOLEAN :
           m = RefreshSymbolLifecycle(l, list, recentRead, lastRead)
  BY DEF LifeSteps
<1> QED BY <1>1, SyncDayIsSound, RefreshIsSound

LEMMA NewLifeIsSound == LifeInv(NewLife)
<1>1. NewLife \in Living
  BY DEF NewLife, Living, LifeRows, NoRecord
<1>2. \A s \in Stocks : NewLife.table[s].delisted = {} /\ NewLife.table[s].status = "none"
  BY DEF NewLife, NoRecord
<1>3. DelistedSymbols(NewLife.table) = {}
  BY <1>2 DEF DelistedSymbols
<1> QED BY <1>1, <1>2, <1>3 DEF LifeInv, LifeIsSound
-----------------------------------------------------------------------------
(* DataOperations: a fetch of daily bars.                                   *)

DailyStages == {"fetch", "raised", "no trade days", "flow", "cache", "warehouse", "life", "report", "done"}

Fetching ==
  [at : DailyStages, known : [Stocks -> LifeRows], table : [Stocks -> LifeRows], read : BOOLEAN,
   withFlow : BOOLEAN, got : [Stocks -> FetchAnswers], crawled : BOOLEAN, cache : BOOLEAN,
   warehouse : BOOLEAN, missing : SUBSET Stocks, status : {"none", "ok", "partial"}]

\* Whatever has been learnt of the life of a stock, its end is what it was; and rows
\* that were brought are in both stores before anything is reported of them.
DailyInv(d) ==
  /\ d \in Fetching
  /\ \A s \in Stocks : d.table[s].delisted = d.known[s].delisted /\ IsFiniteSet(d.known[s].delisted)
  /\ d.at = "warehouse" => d.cache
  /\ d.at = "life" => d.cache /\ d.warehouse
  /\ d.at = "report" => FoundNothing(d) \/ (d.cache /\ d.warehouse)
  /\ FetchIsHonest(d)

LEMMA FieldsOfAFetch ==
  ASSUME NEW d \in Fetching
  PROVE  /\ \A x \in DailyStages : [d EXCEPT !.at = x] \in Fetching
         /\ \A x \in [Stocks -> LifeRows] : [d EXCEPT !.table = x] \in Fetching
         /\ \A x \in [Stocks -> FetchAnswers] : [d EXCEPT !.got = x] \in Fetching
         /\ \A x \in BOOLEAN : /\ [d EXCEPT !.read = x] \in Fetching /\ [d EXCEPT !.crawled = x] \in Fetching
                               /\ [d EXCEPT !.cache = x] \in Fetching /\ [d EXCEPT !.warehouse = x] \in Fetching
         /\ \A x \in SUBSET Stocks : [d EXCEPT !.missing = x] \in Fetching
         /\ \A x \in {"none", "ok", "partial"} : [d EXCEPT !.status = x] \in Fetching
BY DEF Fetching

LEMMA DaysHaveEnds ==
  ASSUME NEW B \in SUBSET Days, B # {}
  PROVE  Max(B) \in B /\ Max(B) \in Int /\ \A y \in B : y <= Max(B)
<1>1. IsFiniteSet(B) /\ B \in SUBSET Int
  <2>1. IsFiniteSet(Days) /\ Days \subseteq Int
    BY FS_Interval, GapAssumption DEF Days
  <2> QED BY <2>1, FS_Subset
<1> QED BY <1>1, Ends

LEMMA LastIsInt ==
  ASSUME NEW D \in SUBSET Int, IsFiniteSet(D)
  PROVE  Min({LastDay} \cup D) \in Int /\ Min({LastDay} \cup D) <= LastDay
<1>1. IsFiniteSet({LastDay} \cup D)
  BY FS_Singleton, FS_Union
<1>2. {LastDay} \cup D \in SUBSET Int /\ LastDay \in {LastDay} \cup D
  BY GapAssumption
<1> QED BY <1>1, <1>2, Ends

LEMMA TailIsADifference ==
  ASSUME NEW m \in Int, NEW last \in Int
  PROVE  Cardinality(m + 1..last) > TailDays <=> last - m > TailDays
<1>1. Cardinality(m + 1..last) = IF m + 1 > last THEN 0 ELSE last - (m + 1) + 1
  BY FS_Interval
<1> QED BY <1>1, OperationConstants

LEMMA ReportIsHonest ==
  ASSUME NEW d, DailyInv(d), d.at = "report", NEW read \in BOOLEAN
  PROVE  DailyInv(Report(d, read))
<1> DEFINE none == [s \in Stocks |-> NoRecord]
           table == IF read THEN d.table ELSE none
           bars == [s \in Stocks |-> d.got[s].bars]
           missing == {s \in Stocks : d.got[s].bars = {}} \cup FlowLess(d) \cup TailCoverageShortfall(bars, table)
           status == IF missing # {} \/ HasFailures(d) THEN "partial" ELSE "ok"
           r == [d EXCEPT !.at = "done", !.read = read, !.missing = missing, !.status = status]
           last(s) == Min({LastDay} \cup d.known[s].delisted)
           Lacks(s) == \/ d.got[s].bars = {} \/ last(s) - Max(d.got[s].bars) > TailDays
                       \/ d.withFlow /\ ~(d.got[s].bars \subseteq FlowAfter(d, s))
           lacking == {s \in Stocks : Lacks(s)}
<1>1. d \in Fetching /\ \A s \in Stocks : d.table[s].delisted = d.known[s].delisted /\ IsFiniteSet(d.known[s].delisted)
  BY DEF DailyInv
<1>2. Report(d, read) = r
  BY DEF Report
<1>3. ASSUME NEW s \in Stocks
      PROVE  /\ read => table[s].delisted = d.known[s].delisted
             /\ ~read => table[s].delisted = {}
             /\ bars[s] = d.got[s].bars /\ d.got[s].bars \in SUBSET Days
             /\ d.known[s].delisted \in SUBSET Int /\ IsFiniteSet(d.known[s].delisted)
  <2>1. read => table[s].delisted = d.known[s].delisted
    BY <1>1
  <2>2. ~read => table[s].delisted = {}
    BY DEF NoRecord
  <2>3. d.got[s] \in FetchAnswers /\ d.known[s] \in LifeRows
    BY <1>1 DEF Fetching
  <2>4. d.got[s].bars \in SUBSET Days /\ d.known[s].delisted \in SUBSET Int
    BY <2>3 DEF FetchAnswers, LifeRows
  <2>5. bars[s] = d.got[s].bars
    OBVIOUS
  <2> QED BY <1>1, <2>1, <2>2, <2>4, <2>5
<1> HIDE DEF table, bars
<1>4. ASSUME NEW s \in Stocks, d.got[s].bars # {}
      PROVE  /\ s \in TailCoverageShortfall(bars, table) => last(s) - Max(d.got[s].bars) > TailDays \/ ~read
             /\ last(s) - Max(d.got[s].bars) > TailDays => s \in TailCoverageShortfall(bars, table)
  <2> DEFINE m == Max(d.got[s].bars)
             known == d.known[s].delisted
             end == Min({LastDay} \cup table[s].delisted)
  <2>1. m \in Int /\ last(s) \in Int /\ last(s) <= LastDay /\ TailDays \in Int /\ LastDay \in Int
    <3>1. d.got[s].bars \in SUBSET Days /\ known \in SUBSET Int /\ IsFiniteSet(known)
      BY <1>3
    <3>2. m \in Int
      BY <1>4, <3>1, DaysHaveEnds
    <3> HIDE DEF m, known
    <3>3. last(s) \in Int /\ last(s) <= LastDay
      BY <3>1, LastIsInt DEF known
    <3> HIDE DEF last
    <3> QED BY <3>2, <3>3, OperationConstants, GapAssumption
  <2>2. (read => end = last(s)) /\ (~read => end = LastDay)
    <3>1. CASE read
      <4>1. table[s].delisted = d.known[s].delisted
        BY <1>3, <3>1
      <4> QED BY <3>1, <4>1, Zenon
    <3>2. CASE ~read
      <4>1. {LastDay} \cup table[s].delisted = {LastDay}
        BY <1>3, <3>2
      <4>2. Min({LastDay}) \in {LastDay}
        <5>1. {LastDay} \in SUBSET Int /\ {LastDay} # {}
          BY GapAssumption
        <5>2. IsFiniteSet({LastDay})
          BY FS_Singleton
        <5> QED BY <5>1, <5>2, Ends
      <4>3. end = Min({LastDay})
        BY <4>1, Zenon
      <4> QED BY <3>2, <4>2, <4>3
    <3> QED BY <3>1, <3>2
  <2>3. s \in TailCoverageShortfall(bars, table) <=> Cardinality(m + 1..end) > TailDays
    <3>1. bars[s] = d.got[s].bars
      BY <1>3
    <3>2. m = Max(bars[s])
      BY <3>1, Zenon
    <3>3. bars[s] # {}
      BY <1>4, <3>1
    <3> HIDE DEF m
    <3> QED BY <3>2, <3>3 DEF TailCoverageShortfall
  <2> HIDE DEF m, end, last
  <2>4. end \in Int
    BY <2>1, <2>2
  <2>5. Cardinality(m + 1..end) > TailDays <=> end - m > TailDays
    BY <2>1, <2>4, TailIsADifference
  <2>6. /\ s \in TailCoverageShortfall(bars, table) => last(s) - m > TailDays \/ ~read
        /\ last(s) - m > TailDays => s \in TailCoverageShortfall(bars, table)
    BY <2>1, <2>2, <2>3, <2>5
  <2> QED BY <2>6 DEF m, last
<1>5. \A s \in Stocks : s \in FlowLess(d) <=> d.withFlow /\ ~(d.got[s].bars \subseteq FlowAfter(d, s))
  BY DEF FlowLess
<1> HIDE DEF last
<1>6. lacking \subseteq missing
  BY <1>4, <1>5
<1>7. read => missing = lacking
  <2> SUFFICES ASSUME read PROVE missing \subseteq lacking
    BY <1>6
  <2>1. TailCoverageShortfall(bars, table) \subseteq {s \in Stocks : d.got[s].bars # {}}
    <3>1. \A s \in Stocks : bars[s] = d.got[s].bars
      BY <1>3
    <3> QED BY <3>1 DEF TailCoverageShortfall
  <2>2. FlowLess(d) \subseteq Stocks
    BY DEF FlowLess
  <2> QED BY <1>4, <1>5, <2>1, <2>2
<1>8. status = "ok" => missing = {}
  OBVIOUS
<1>9. missing = {} /\ Stocks # {} => d.cache /\ d.warehouse
  <2> SUFFICES ASSUME missing = {}, Stocks # {} PROVE ~FoundNothing(d)
    BY DEF DailyInv
  <2> QED BY DEF FoundNothing
<1>10. missing \in SUBSET Stocks /\ status \in {"none", "ok", "partial"}
  BY DEF FlowLess, TailCoverageShortfall
<1> HIDE DEF missing, status
<1>11. r \in Fetching
  <2> DEFINE r1 == [d EXCEPT !.at = "done"]
             r2 == [r1 EXCEPT !.read = read]
             r3 == [r2 EXCEPT !.missing = missing]
  <2>1. r1 \in Fetching
    BY <1>1, FieldsOfAFetch DEF DailyStages
  <2>2. r = [r3 EXCEPT !.status = status]
    OBVIOUS
  <2> HIDE DEF r, r1
  <2>3. r2 \in Fetching
    BY <2>1, FieldsOfAFetch
  <2> HIDE DEF r2
  <2>4. r3 \in Fetching
    BY <1>10, <2>3, FieldsOfAFetch
  <2> HIDE DEF r3
  <2> QED BY <1>10, <2>2, <2>4, FieldsOfAFetch
<1>12. /\ r.at = "done" /\ r.read = read /\ r.missing = missing /\ r.status = status
       /\ r.got = d.got /\ r.known = d.known /\ r.table = d.table /\ r.withFlow = d.withFlow
       /\ r.crawled = d.crawled /\ r.cache = d.cache /\ r.warehouse = d.warehouse
  BY <1>1 DEF Fetching
<1> HIDE DEF r
<1>13. \A s \in Stocks : FlowAfter(r, s) = FlowAfter(d, s)
  BY <1>12 DEF FlowAfter
<1> DEFINE Lacked(s) == \/ r.got[s].bars = {}
                        \/ Min({LastDay} \cup r.known[s].delisted) - Max(r.got[s].bars) > TailDays
                        \/ r.withFlow /\ ~(r.got[s].bars \subseteq FlowAfter(r, s))
<1>14. {s \in Stocks : Lacked(s)} = lacking
  BY <1>12, <1>13 DEF last
<1> HIDE DEF lacking
<1>15. FetchIsHonest(r)
  <2> SUFFICES /\ r.status = "ok" => lacking = {} /\ (Stocks # {} => r.cache /\ r.warehouse)
               /\ lacking \subseteq r.missing
               /\ r.read => r.missing = lacking
    BY <1>14 DEF FetchIsHonest
  <2>1. r.status = "ok" => lacking = {} /\ (Stocks # {} => d.cache /\ d.warehouse)
    BY <1>6, <1>8, <1>9, <1>12
  <2>2. d.cache /\ d.warehouse => r.cache /\ r.warehouse
    BY <1>12, Zenon
  <2>3. r.read => read
    BY <1>12, Zenon
  <2> QED BY <1>6, <1>7, <1>12, <2>1, <2>2, <2>3
<1> QED BY <1>1, <1>2, <1>11, <1>12, <1>15 DEF DailyInv

LEMMA DerivedListingsAreRows ==
  ASSUME NEW got \in [Stocks -> FetchAnswers], NEW s \in DOMAIN DeriveListings(got)
  PROVE  DeriveListings(got)[s] \in LifeRows /\ DeriveListings(got)[s].delisted = {}
<1>1. s \in Stocks /\ got[s].bars # {}
      /\ DeriveListings(got)[s] = Listing({Max(got[s].bars) - age : age \in got[s].age})
  BY DEF DeriveListings
<1>2. got[s].bars \in SUBSET Days /\ got[s].age \in SUBSET Nat
  BY <1>1 DEF FetchAnswers
<1>3. Max(got[s].bars) \in Int
  BY <1>1, <1>2, DaysHaveEnds
<1>4. {Max(got[s].bars) - age : age \in got[s].age} \in SUBSET Int
  BY <1>2, <1>3
<1> QED BY <1>1, <1>4 DEF Listing, LifeRows

LEMMA ListingsKeepTheEnd ==
  ASSUME NEW d, DailyInv(d)
  PROVE  LET table == UpsertSymbolLifecycle(d.table, DeriveListings(d.got))
         IN  table \in [Stocks -> LifeRows] /\ \A s \in Stocks : table[s].delisted = d.known[s].delisted
<1> DEFINE rows == DeriveListings(d.got)
           table == UpsertSymbolLifecycle(d.table, rows)
<1>1. d.table \in [Stocks -> LifeRows] /\ d.got \in [Stocks -> FetchAnswers]
  BY DEF DailyInv, Fetching
<1>2. \A s \in DOMAIN rows : rows[s] \in LifeRows /\ rows[s].delisted = {}
  BY <1>1, DerivedListingsAreRows
<1>3. table = [s \in Stocks |-> table[s]]
  BY DEF UpsertSymbolLifecycle
<1> HIDE DEF rows
<1>4. ASSUME NEW s \in Stocks
      PROVE  table[s] \in LifeRows /\ table[s].delisted = d.known[s].delisted
  <2>1. /\ table[s] \in LifeRows
        /\ s \notin DOMAIN rows => table[s] = d.table[s]
        /\ s \in DOMAIN rows => table[s].delisted = Coalesce(rows[s].delisted, d.table[s].delisted)
    BY <1>1, <1>2, UpsertedRecord
  <2>2. d.table[s].delisted = d.known[s].delisted
    BY DEF DailyInv
  <2>3. CASE s \in DOMAIN rows
    <3>1. rows[s].delisted = {}
      BY <1>2, <2>3
    <3>2. table[s].delisted = Coalesce({}, d.table[s].delisted)
      BY <2>1, <2>3, <3>1
    <3> QED BY <2>1, <2>2, <3>2 DEF Coalesce
  <2>4. CASE s \notin DOMAIN rows
    BY <2>1, <2>2, <2>4
  <2> QED BY <2>3, <2>4
<1> HIDE DEF table
<1>5. table \in [Stocks -> LifeRows]
  BY <1>3, <1>4
<1> QED BY <1>4, <1>5 DEF table, rows

LEMMA DailyStepKeeps ==
  ASSUME NEW d, DailyInv(d), NEW m \in DailySteps(d)
  PROVE  DailyInv(m)
<1>1. d \in Fetching
  BY DEF DailyInv
<1>2. CASE d.at = "fetch"
  <2>1. CASE \E s \in {"raised", "no trade days"} : m = [d EXCEPT !.at = s]
    <3>1. PICK s \in {"raised", "no trade days"} : m = [d EXCEPT !.at = s]
      BY <2>1
    <3>2. m \in Fetching
      BY <1>1, <3>1, FieldsOfAFetch DEF DailyStages
    <3>3. m.at = s /\ m.table = d.table /\ m.known = d.known
      BY <1>1, <3>1 DEF Fetching
    <3> QED BY <3>2, <3>3 DEF DailyInv, FetchIsHonest
  <2>2. CASE \E got \in [Stocks -> Fetched] :
               m = [d EXCEPT !.at = IF \A s \in Stocks : got[s].bars = {} THEN "report" ELSE "flow", !.got = got]
    <3>1. PICK got \in [Stocks -> Fetched] :
               m = [d EXCEPT !.at = IF \A s \in Stocks : got[s].bars = {} THEN "report" ELSE "flow", !.got = got]
      BY <2>2
    <3> DEFINE at == IF \A s \in Stocks : got[s].bars = {} THEN "report" ELSE "flow"
    <3>2. got \in [Stocks -> FetchAnswers]
      BY OperationConstants
    <3>3. at \in DailyStages /\ at \in {"report", "flow"} /\ (at = "report" => \A s \in Stocks : got[s].bars = {})
      BY DEF DailyStages
    <3>4. m = [[d EXCEPT !.at = at] EXCEPT !.got = got]
      BY <3>1
    <3> HIDE DEF at
    <3>5. m \in Fetching
      BY <1>1, <3>2, <3>3, <3>4, FieldsOfAFetch
    <3>6. m.at = at /\ m.got = got /\ m.table = d.table /\ m.known = d.known
      BY <1>1, <3>4 DEF Fetching
    <3>7. m.at = "report" => FoundNothing(m)
      BY <3>3, <3>6 DEF FoundNothing
    <3> QED BY <3>3, <3>5, <3>6, <3>7 DEF DailyInv, FetchIsHonest
  <2> QED BY <1>2, <2>1, <2>2 DEF DailySteps
<1>3. CASE d.at = "flow"
  <2>1. PICK answers \in BOOLEAN : m = [d EXCEPT !.at = "cache", !.crawled = answers]
    BY <1>3 DEF DailySteps
  <2>2. m = [[d EXCEPT !.at = "cache"] EXCEPT !.crawled = answers]
    BY <2>1
  <2>3. m \in Fetching
    BY <1>1, <2>2, FieldsOfAFetch DEF DailyStages
  <2>4. m.at = "cache" /\ m.table = d.table /\ m.known = d.known
    BY <1>1, <2>2 DEF Fetching
  <2> QED BY <2>3, <2>4 DEF DailyInv, FetchIsHonest
<1>4. CASE d.at \in {"cache", "warehouse"}
  <2>1. CASE m = [d EXCEPT !.at = "raised"]
    <3>1. m \in Fetching
      BY <1>1, <2>1, FieldsOfAFetch DEF DailyStages
    <3>2. m.at = "raised" /\ m.table = d.table /\ m.known = d.known
      BY <1>1, <2>1 DEF Fetching
    <3> QED BY <3>1, <3>2 DEF DailyInv, FetchIsHonest
  <2>2. CASE d.at = "cache" /\ m = [d EXCEPT !.at = "warehouse", !.cache = TRUE]
    <3>1. m = [[d EXCEPT !.at = "warehouse"] EXCEPT !.cache = TRUE]
      BY <2>2
    <3>2. m \in Fetching
      BY <1>1, <3>1, FieldsOfAFetch DEF DailyStages
    <3>3. m.at = "warehouse" /\ m.cache = TRUE /\ m.table = d.table /\ m.known = d.known
      BY <1>1, <3>1 DEF Fetching
    <3> QED BY <3>2, <3>3 DEF DailyInv, FetchIsHonest
  <2>3. CASE d.at = "warehouse" /\ m = [d EXCEPT !.at = "life", !.warehouse = TRUE]
    <3>1. m = [[d EXCEPT !.at = "life"] EXCEPT !.warehouse = TRUE]
      BY <2>3
    <3>2. m \in Fetching
      BY <1>1, <3>1, FieldsOfAFetch DEF DailyStages
    <3>3. m.at = "life" /\ m.warehouse = TRUE /\ m.cache = d.cache /\ m.table = d.table /\ m.known = d.known
      BY <1>1, <3>1 DEF Fetching
    <3>4. d.cache
      BY <2>3 DEF DailyInv
    <3>5. m.cache /\ m.warehouse
      BY <3>3, <3>4, Zenon
    <3> QED BY <3>2, <3>3, <3>5 DEF DailyInv, FetchIsHonest
  <2> QED BY <1>4, <2>1, <2>2, <2>3 DEF DailySteps
<1>5. CASE d.at = "life"
  <2>1. PICK table \in {d.table, UpsertSymbolLifecycle(d.table, DeriveListings(d.got))} :
          m = [d EXCEPT !.at = "report", !.table = table]
    BY <1>5 DEF DailySteps
  <2>2. table \in [Stocks -> LifeRows] /\ \A s \in Stocks : table[s].delisted = d.known[s].delisted
    BY <1>1, ListingsKeepTheEnd DEF DailyInv, Fetching
  <2>3. m = [[d EXCEPT !.at = "report"] EXCEPT !.table = table]
    BY <2>1
  <2>4. m \in Fetching
    BY <1>1, <2>2, <2>3, FieldsOfAFetch DEF DailyStages
  <2>5. m.at = "report" /\ m.table = table /\ m.cache = d.cache /\ m.warehouse = d.warehouse /\ m.known = d.known
    BY <1>1, <2>3 DEF Fetching
  <2>6. d.cache /\ d.warehouse /\ \A s \in Stocks : IsFiniteSet(d.known[s].delisted)
    BY <1>5 DEF DailyInv
  <2>7. m.cache /\ m.warehouse
    BY <2>5, <2>6, Zenon
  <2> QED BY <2>2, <2>4, <2>5, <2>6, <2>7 DEF DailyInv, FetchIsHonest
<1>6. CASE d.at = "report"
  <2>1. \E read \in BOOLEAN : m = Report(d, read)
    BY <1>6 DEF DailySteps
  <2> QED BY <1>6, <2>1, ReportIsHonest
<1>7. d.at \notin {"raised", "no trade days", "done"}
  BY DEF DailySteps
<1> QED BY <1>1, <1>2, <1>3, <1>4, <1>5, <1>6, <1>7 DEF Fetching, DailyStages

LEMMA DailyBeginsIn ==
  ASSUME DailyBegins
  PROVE  "d" \in DOMAIN work /\ DailyInv(work.d)
<1>1. PICK gone \in {{}, {2}, {LastDay}}, withFlow \in BOOLEAN :
        work = [of |-> "daily",
                d |-> NewDaily([s \in Stocks |-> IF s \in Whole THEN NoRecord ELSE GoneAt(gone)], withFlow)]
  BY DEF DailyBegins
<1> DEFINE table == [s \in Stocks |-> IF s \in Whole THEN NoRecord ELSE GoneAt(gone)]
           d == NewDaily(table, withFlow)
<1>2. gone \in SUBSET Int /\ IsFiniteSet(gone)
  <2>1. IsFiniteSet({}) /\ IsFiniteSet({2})
    BY FS_EmptySet, FS_Singleton
  <2>2. IsFiniteSet({LastDay})
    BY FS_Singleton
  <2> QED BY <2>1, <2>2, GapAssumption
<1>3. ASSUME NEW s \in Stocks PROVE table[s] \in LifeRows /\ IsFiniteSet(table[s].delisted)
  <2>1. CASE s \in Whole
    <3>1. table[s] = NoRecord
      BY <2>1
    <3> HIDE DEF table
    <3> QED BY <3>1, FS_EmptySet DEF NoRecord, LifeRows
  <2>2. CASE s \notin Whole
    <3>1. table[s] = GoneAt(gone)
      BY <2>2
    <3>2. GoneAt(gone) = [listing |-> {}, delisted |-> gone, status |-> "none"]
      BY DEF GoneAt, NoRecord
    <3> HIDE DEF table
    <3>3. table[s].delisted = gone
      BY <3>1, <3>2
    <3>4. table[s] \in LifeRows
      BY <1>2, <3>1, <3>2 DEF LifeRows
    <3> QED BY <1>2, <3>3, <3>4
  <2> QED BY <2>1, <2>2
<1>4. table \in [Stocks -> LifeRows]
  BY <1>3
<1>5. [s \in Stocks |-> NoAnswer] \in [Stocks -> FetchAnswers]
  BY DEF NoAnswer, FetchAnswers
<1> HIDE DEF table
<1>6. d \in Fetching
  BY <1>4, <1>5 DEF NewDaily, Fetching, DailyStages
<1>7. d.at = "fetch" /\ d.table = table /\ d.known = table
  BY DEF NewDaily
<1>8. work.d = d /\ "d" \in DOMAIN work
  BY <1>1 DEF table
<1> HIDE DEF d
<1> QED BY <1>3, <1>6, <1>7, <1>8 DEF DailyInv, FetchIsHonest

FetchState ==
  /\ "of" \in DOMAIN work
  /\ work.of = "daily" => "d" \in DOMAIN work /\ DailyInv(work.d)
  /\ work.of = "life" => "l" \in DOMAIN work /\ LifeInv(work.l)

LEMMA FetchStateBegins ==
  ASSUME Init
  PROVE  FetchState
<1>1. work.of = "daily" => "d" \in DOMAIN work /\ DailyInv(work.d)
  BY BeginningOfItsOwn, DailyBeginsIn
<1>2. work = [of |-> "life", l |-> NewLife] => "l" \in DOMAIN work /\ LifeInv(work.l)
  BY NewLifeIsSound
<1>3. work.of = "life" => work = [of |-> "life", l |-> NewLife]
  BY BeginningOfItsOwn
<1> QED BY <1>1, <1>2, <1>3, InitIsNamed DEF FetchState

LEMMA FetchStateGoesOn ==
  ASSUME FetchState, [Next]_work
  PROVE  FetchState'
<1>1. "of" \in DOMAIN work /\ "of" \in DOMAIN work' /\ work'.of = work.of
  BY NextIsNamed DEF FetchState
<1>2. CASE work' = work
  BY <1>2 DEF FetchState
<1>3. CASE work' # work /\ work.of = "daily"
  <2>1. "d" \in DOMAIN work /\ DailyInv(work.d)
    BY <1>3 DEF FetchState
  <2>2. PICK d \in DailySteps(work.d) : work' = [work EXCEPT !.d = d]
    BY <1>1, <1>3, StepOfItsOwn
  <2>3. "d" \in DOMAIN work' /\ work'.d = d /\ DailyInv(d)
    BY <2>1, <2>2, DailyStepKeeps
  <2> QED BY <1>1, <1>3, <2>3 DEF FetchState
<1>4. CASE work' # work /\ work.of = "life"
  <2>1. "l" \in DOMAIN work /\ LifeInv(work.l)
    BY <1>4 DEF FetchState
  <2>2. PICK l \in LifeSteps(work.l) : work' = [work EXCEPT !.l = l]
    BY <1>1, <1>4, StepOfItsOwn
  <2>3. "l" \in DOMAIN work' /\ work'.l = l /\ LifeInv(l)
    BY <2>1, <2>2, LifeStepKeeps
  <2> QED BY <1>1, <1>4, <2>3 DEF FetchState
<1>5. CASE work.of # "daily" /\ work.of # "life"
  BY <1>1, <1>5 DEF FetchState
<1> QED BY <1>2, <1>3, <1>4, <1>5

\* operations.py, fetch_daily_bars_into_cache and refresh_symbol_lifecycle: what a
\* fetch calls missing is what it lacks, and "ok" means both stores have the rest; a
\* stock is left out of the sync only after a believable list did not name it.
THEOREM FetchCorrect == Spec => []FetchHonest
<1>1. FetchState => FetchHonest
  BY DEF FetchState, FetchHonest, DailyInv, LifeInv
<1> QED BY <1>1, FetchStateBegins, FetchStateGoesOn, PTL DEF Spec
-----------------------------------------------------------------------------
(* DataOperations: the capital-flow job.                                    *)

Filling ==
  [at : {"batch", "cancel", "done"}, todo : SUBSET Stocks, processed : Int, completed : Int, failed : Int,
   skipped : Int, skipEastmoney : BOOLEAN, refused : BOOLEAN, asked : BOOLEAN, errors : SUBSET Stocks,
   raised : SUBSET Stocks, status : {"running", "cancelled", "completed", "completed_with_errors"}]

\* Stocks that failed are of batches that are over; a job that is under way runs.
FlowJobInv(j) ==
  /\ j \in Filling /\ FlowJobIsAccounted(j)
  /\ (j.errors \cup j.raised) \cap j.todo = {}
  /\ j.refused => j.skipEastmoney
  /\ j.at # "done" => j.status = "running"

LEMMA SetsOfStocks ==
  ASSUME NEW S \in SUBSET Stocks
  PROVE  IsFiniteSet(S) /\ Cardinality(S) \in Nat
BY GapAssumption, FS_Subset, FS_CardinalityType

LEMMA DisjointStocks ==
  ASSUME NEW S \in SUBSET Stocks, NEW T \in SUBSET Stocks, S \cap T = {}
  PROVE  Cardinality(S \cup T) = Cardinality(S) + Cardinality(T)
<1>1. IsFiniteSet(S) /\ IsFiniteSet(T) /\ Cardinality(S) \in Nat /\ Cardinality(T) \in Nat
  BY SetsOfStocks
<1>2. Cardinality(S \cup T) = Cardinality(S) + Cardinality(T) - Cardinality(S \cap T)
  BY <1>1, FS_Union
<1>3. Cardinality(S \cap T) = 0
  BY FS_EmptySet
<1> QED BY <1>1, <1>2, <1>3

\* A batch that is over, however it ended, is accounted for like those before it.
LEMMA BatchIsAccountedFor ==
  ASSUME NEW j, FlowJobInv(j), NEW batch \in SUBSET j.todo,
         NEW k \in Filling, k.at = "cancel", k.status = j.status,
         NEW lost \in SUBSET batch, NEW won \in SUBSET batch, NEW idle \in SUBSET won,
         won \cup lost = batch, won \cap lost = {},
         k.todo = j.todo \ batch, k.processed = j.processed + Cardinality(batch),
         k.completed = j.completed + Cardinality(won), k.failed = j.failed + Cardinality(lost),
         k.skipped = j.skipped + Cardinality(idle), k.errors \cup k.raised = j.errors \cup j.raised \cup lost,
         k.refused => k.skipEastmoney, ~k.asked, j.status = "running"
  PROVE  FlowJobInv(k)
<1>1. /\ j \in Filling /\ j.todo \in SUBSET Stocks /\ batch \in SUBSET Stocks /\ lost \in SUBSET Stocks
      /\ won \in SUBSET Stocks /\ idle \in SUBSET Stocks /\ j.errors \in SUBSET Stocks /\ j.raised \in SUBSET Stocks
      /\ j.processed \in Int /\ j.completed \in Int /\ j.failed \in Int /\ j.skipped \in Int
  BY DEF FlowJobInv, Filling
<1>2. /\ j.processed = Cardinality(Stocks \ j.todo) /\ j.processed = j.completed + j.failed
      /\ j.failed = Cardinality(j.errors \cup j.raised) /\ j.skipped <= j.completed
      /\ (j.errors \cup j.raised) \cap j.todo = {}
  BY DEF FlowJobInv, FlowJobIsAccounted
<1>3. /\ Cardinality(batch) \in Nat /\ Cardinality(won) \in Nat /\ Cardinality(lost) \in Nat
      /\ Cardinality(idle) \in Nat
  BY <1>1, SetsOfStocks
<1>4. Cardinality(batch) = Cardinality(won) + Cardinality(lost)
  BY <1>1, DisjointStocks
<1>5. Cardinality(idle) <= Cardinality(won)
  BY <1>1, SetsOfStocks, FS_Subset
<1>6. k.processed = Cardinality(Stocks \ k.todo)
  <2>1. Stocks \ (j.todo \ batch) = (Stocks \ j.todo) \cup batch /\ (Stocks \ j.todo) \cap batch = {}
    BY <1>1
  <2>2. Cardinality((Stocks \ j.todo) \cup batch) = Cardinality(Stocks \ j.todo) + Cardinality(batch)
    BY <1>1, <2>1, DisjointStocks
  <2> QED BY <1>2, <2>1, <2>2
<1>7. k.failed = Cardinality(k.errors \cup k.raised)
  <2>1. (j.errors \cup j.raised) \cap lost = {} /\ j.errors \cup j.raised \in SUBSET Stocks
    BY <1>1, <1>2
  <2>2. Cardinality((j.errors \cup j.raised) \cup lost) = Cardinality(j.errors \cup j.raised) + Cardinality(lost)
    BY <1>1, <2>1, DisjointStocks
  <2> QED BY <1>2, <2>2
<1>8. k.processed = k.completed + k.failed /\ k.skipped <= k.completed
  BY <1>1, <1>2, <1>3, <1>4, <1>5
<1>9. (k.errors \cup k.raised) \cap k.todo = {}
  BY <1>1, <1>2
<1> QED BY <1>6, <1>7, <1>8, <1>9 DEF FlowJobInv, FlowJobIsAccounted

LEMMA FieldsOfAJob ==
  ASSUME NEW j \in Filling
  PROVE  /\ \A x \in {"batch", "cancel", "done"} : [j EXCEPT !.at = x] \in Filling
         /\ \A x \in SUBSET Stocks : /\ [j EXCEPT !.todo = x] \in Filling /\ [j EXCEPT !.errors = x] \in Filling
                                     /\ [j EXCEPT !.raised = x] \in Filling
         /\ \A x \in Int : /\ [j EXCEPT !.processed = x] \in Filling /\ [j EXCEPT !.completed = x] \in Filling
                           /\ [j EXCEPT !.failed = x] \in Filling /\ [j EXCEPT !.skipped = x] \in Filling
         /\ \A x \in BOOLEAN : /\ [j EXCEPT !.skipEastmoney = x] \in Filling /\ [j EXCEPT !.refused = x] \in Filling
                               /\ [j EXCEPT !.asked = x] \in Filling
         /\ \A x \in {"running", "cancelled", "completed", "completed_with_errors"} :
              [j EXCEPT !.status = x] \in Filling
BY DEF Filling

LEMMA RaisingIsAccountedFor ==
  ASSUME NEW j, FlowJobInv(j), j.at = "batch", NEW batch \in SUBSET j.todo
  PROVE  FlowJobInv(FlowBatchRaises(j, batch))
<1> DEFINE n == Cardinality(batch)
           k1 == [j EXCEPT !.at = "cancel"]
           k2 == [k1 EXCEPT !.todo = j.todo \ batch]
           k3 == [k2 EXCEPT !.processed = j.processed + n]
           k4 == [k3 EXCEPT !.failed = j.failed + n]
           k == [k4 EXCEPT !.raised = j.raised \cup batch]
<1>1. /\ j \in Filling /\ batch \in SUBSET Stocks /\ j.todo \ batch \in SUBSET Stocks
      /\ j.raised \cup batch \in SUBSET Stocks /\ j.processed \in Int /\ j.failed \in Int
      /\ j.completed \in Int /\ j.skipped \in Int
  BY DEF FlowJobInv, Filling
<1>2. n \in Nat
  BY <1>1, SetsOfStocks
<1>3. FlowBatchRaises(j, batch) = k
  BY DEF FlowBatchRaises
<1> HIDE DEF n
<1>4. k \in Filling
  <2>1. k1 \in Filling
    BY <1>1, FieldsOfAJob
  <2> HIDE DEF k1
  <2>2. k2 \in Filling
    BY <1>1, <2>1, FieldsOfAJob
  <2> HIDE DEF k2
  <2>3. j.processed + n \in Int /\ j.failed + n \in Int
    BY <1>1, <1>2
  <2>4. k3 \in Filling
    BY <2>2, <2>3, FieldsOfAJob
  <2> HIDE DEF k3
  <2>5. k4 \in Filling
    BY <2>3, <2>4, FieldsOfAJob
  <2> HIDE DEF k4
  <2> QED BY <1>1, <2>5, FieldsOfAJob
<1>5. /\ k.at = "cancel" /\ k.todo = j.todo \ batch /\ k.processed = j.processed + n
      /\ k.failed = j.failed + n /\ k.raised = j.raised \cup batch /\ k.errors = j.errors
      /\ k.completed = j.completed /\ k.skipped = j.skipped /\ k.status = j.status
      /\ k.skipEastmoney = j.skipEastmoney /\ k.refused = j.refused /\ k.asked = j.asked
  BY <1>1 DEF Filling
<1> HIDE DEF k
<1>6. k.completed = j.completed + Cardinality({}) /\ k.skipped = j.skipped + Cardinality({})
  BY <1>1, <1>5, FS_EmptySet
<1>7. k.errors \cup k.raised = j.errors \cup j.raised \cup batch
  BY <1>5
<1>8. (k.refused => k.skipEastmoney) /\ ~k.asked /\ j.status = "running"
  <2>1. (j.refused => j.skipEastmoney) /\ ~j.asked /\ j.status = "running"
    BY DEF FlowJobInv, FlowJobIsAccounted
  <2> QED BY <1>5, <2>1, Zenon
<1> DEFINE none == {}
<1>9. none \in SUBSET batch /\ none \in SUBSET none /\ none \cup batch = batch /\ none \cap batch = {}
      /\ batch \in SUBSET batch
  OBVIOUS
<1>10. k.completed = j.completed + Cardinality(none) /\ k.skipped = j.skipped + Cardinality(none)
  BY <1>6
<1>11. k.processed = j.processed + Cardinality(batch) /\ k.failed = j.failed + Cardinality(batch)
  BY <1>5 DEF n
<1> HIDE DEF none
<1> QED BY <1>3, <1>4, <1>5, <1>7, <1>8, <1>9, <1>10, <1>11, BatchIsAccountedFor

LEMMA DoneIsAccountedFor ==
  ASSUME NEW j, FlowJobInv(j), j.at = "batch", NEW batch \in SUBSET j.todo,
         NEW r \in FlowResults(batch), IsResult(batch, r), NEW refused \in BOOLEAN
  PROVE  FlowJobInv(FlowBatchDone(j, batch, r, refused))
<1> DEFINE lost == FlowFailureReasons(batch, r)
           won == CompletedFlowSymbols(batch, r)
           k1 == [j EXCEPT !.at = "cancel"]
           k2 == [k1 EXCEPT !.todo = j.todo \ batch]
           k3 == [k2 EXCEPT !.processed = j.processed + Cardinality(batch)]
           k4 == [k3 EXCEPT !.completed = j.completed + Cardinality(won)]
           k5 == [k4 EXCEPT !.failed = j.failed + Cardinality(lost)]
           k6 == [k5 EXCEPT !.skipped = j.skipped + Cardinality(r.skipped)]
           k7 == [k6 EXCEPT !.errors = j.errors \cup lost]
           asked == j.asked \/ (j.refused /\ ~j.skipEastmoney)
           k8 == [k7 EXCEPT !.asked = asked]
           refusing == j.refused \/ refused
           k9 == [k8 EXCEPT !.refused = refusing]
           skips == j.skipEastmoney \/ refused
           k == [k9 EXCEPT !.skipEastmoney = skips]
<1>1. /\ j \in Filling /\ batch \in SUBSET Stocks /\ j.todo \ batch \in SUBSET Stocks
      /\ j.errors \in SUBSET Stocks /\ j.processed \in Int /\ j.failed \in Int
      /\ j.completed \in Int /\ j.skipped \in Int
  BY DEF FlowJobInv, Filling
<1>2. PICK skipped \in SUBSET batch, fetched \in SUBSET batch, short \in SUBSET batch, failures \in SUBSET batch :
        r = [skipped |-> skipped, fetched |-> fetched, short |-> short, failures |-> failures,
             missing |-> (batch \ (skipped \cup fetched)) \cup failures]
  BY DEF FlowResults
<1>3. /\ lost = (failures \cup short \cup (batch \ (skipped \cup fetched)))
      /\ won = (fetched \cup skipped) \ lost
      /\ (fetched \cup short \cup failures) \cap skipped = {}
  <2>1. (fetched \cup short \cup failures) \cap skipped = {}
    BY <1>2 DEF IsResult
  <2>2. lost = (failures \cup short \cup (batch \ (skipped \cup fetched)))
    BY <1>2 DEF FlowFailureReasons
  <2>3. won = (fetched \cup skipped) \ lost
    BY <1>2 DEF CompletedFlowSymbols
  <2> QED BY <2>1, <2>2, <2>3
<1>4. FlowBatchDone(j, batch, r, refused) = k
  BY DEF FlowBatchDone
<1> HIDE DEF lost, won
<1>5. /\ lost \in SUBSET batch /\ won \in SUBSET batch /\ won \cup lost = batch /\ won \cap lost = {}
      /\ skipped \in SUBSET won /\ r.skipped = skipped
  BY <1>2, <1>3
<1>6. /\ Cardinality(batch) \in Nat /\ Cardinality(won) \in Nat /\ Cardinality(lost) \in Nat
      /\ Cardinality(skipped) \in Nat
  BY <1>1, <1>5, SetsOfStocks
<1>7. asked \in BOOLEAN /\ refusing \in BOOLEAN /\ skips \in BOOLEAN
  OBVIOUS
<1>8. (refusing => skips) /\ ~asked /\ j.status = "running"
  BY DEF FlowJobInv, FlowJobIsAccounted
<1> HIDE DEF asked, refusing, skips
<1>9. k \in Filling
  <2>1. k1 \in Filling
    BY <1>1, FieldsOfAJob
  <2> HIDE DEF k1
  <2>2. k2 \in Filling
    BY <1>1, <2>1, FieldsOfAJob
  <2> HIDE DEF k2
  <2>3. /\ j.processed + Cardinality(batch) \in Int /\ j.completed + Cardinality(won) \in Int
        /\ j.failed + Cardinality(lost) \in Int /\ j.skipped + Cardinality(r.skipped) \in Int
    BY <1>1, <1>5, <1>6
  <2>4. k3 \in Filling
    BY <2>2, <2>3, FieldsOfAJob
  <2> HIDE DEF k3
  <2>5. k4 \in Filling
    BY <2>3, <2>4, FieldsOfAJob
  <2> HIDE DEF k4
  <2>6. k5 \in Filling
    BY <2>3, <2>5, FieldsOfAJob
  <2> HIDE DEF k5
  <2>7. k6 \in Filling
    BY <2>3, <2>6, FieldsOfAJob
  <2> HIDE DEF k6
  <2>8. j.errors \cup lost \in SUBSET Stocks
    BY <1>1, <1>5
  <2>9. k7 \in Filling
    BY <2>7, <2>8, FieldsOfAJob
  <2> HIDE DEF k7
  <2>10. k8 \in Filling
    BY <1>7, <2>9, FieldsOfAJob
  <2> HIDE DEF k8
  <2>11. k9 \in Filling
    BY <1>7, <2>10, FieldsOfAJob
  <2> HIDE DEF k9
  <2> QED BY <1>7, <2>11, FieldsOfAJob
<1>10. /\ k.at = "cancel" /\ k.todo = j.todo \ batch /\ k.processed = j.processed + Cardinality(batch)
       /\ k.failed = j.failed + Cardinality(lost) /\ k.raised = j.raised /\ k.errors = j.errors \cup lost
       /\ k.completed = j.completed + Cardinality(won) /\ k.skipped = j.skipped + Cardinality(r.skipped)
       /\ k.status = j.status /\ k.skipEastmoney = skips /\ k.refused = refusing /\ k.asked = asked
  BY <1>1 DEF Filling
<1> HIDE DEF k
<1>11. k.errors \cup k.raised = j.errors \cup j.raised \cup lost
  BY <1>10
<1>12. (k.refused => k.skipEastmoney) /\ ~k.asked
  BY <1>8, <1>10, Zenon
<1>13. k.skipped = j.skipped + Cardinality(skipped)
  BY <1>5, <1>10, Zenon
<1> QED BY <1>4, <1>5, <1>8, <1>9, <1>10, <1>11, <1>12, <1>13, BatchIsAccountedFor

LEMMA FlowJobStepKeeps ==
  ASSUME NEW j, FlowJobInv(j), NEW k \in FlowJobSteps(j)
  PROVE  FlowJobInv(k)
<1>1. j \in Filling /\ FlowJobIsAccounted(j) /\ (j.refused => j.skipEastmoney)
      /\ (j.errors \cup j.raised) \cap j.todo = {} /\ (j.at # "done" => j.status = "running")
  BY DEF FlowJobInv
<1>2. ASSUME NEW at \in {"batch", "cancel", "done"},
             NEW status \in {"running", "cancelled", "completed", "completed_with_errors"},
             k = [j EXCEPT !.at = at, !.status = status],
             at # "done" => status = "running",
             status = "completed" => j.todo = {} /\ j.errors \cup j.raised = {}
      PROVE  FlowJobInv(k)
  <2>1. k = [[j EXCEPT !.at = at] EXCEPT !.status = status]
    BY <1>2
  <2>2. k \in Filling
    BY <1>1, <2>1, FieldsOfAJob
  <2>3. /\ k.at = at /\ k.status = status /\ k.todo = j.todo /\ k.processed = j.processed
        /\ k.completed = j.completed /\ k.failed = j.failed /\ k.skipped = j.skipped /\ k.errors = j.errors
        /\ k.raised = j.raised /\ k.asked = j.asked /\ k.refused = j.refused /\ k.skipEastmoney = j.skipEastmoney
    BY <1>1, <2>1 DEF Filling
  <2>4. ~k.asked /\ (k.refused => k.skipEastmoney)
    <3>1. ~j.asked
      BY <1>1 DEF FlowJobIsAccounted
    <3> QED BY <1>1, <2>3, <3>1, Zenon
  <2>5. k.status = "completed" => k.todo = {} /\ k.errors \cup k.raised = {}
    BY <1>2, <2>3
  <2> QED BY <1>1, <1>2, <2>2, <2>3, <2>4, <2>5 DEF FlowJobInv, FlowJobIsAccounted
<1>3. CASE j.at = "batch" /\ j.todo # {}
  <2>1. \/ k = [j EXCEPT !.at = "done", !.status = "cancelled"]
        \/ \E batch \in SUBSET j.todo :
              \/ k = FlowBatchRaises(j, batch)
              \/ \E r \in FlowResults(batch), refused \in BOOLEAN :
                   IsResult(batch, r) /\ k = FlowBatchDone(j, batch, r, refused)
    BY <1>3 DEF FlowJobSteps, kSubset
  <2>2. CASE k = [j EXCEPT !.at = "done", !.status = "cancelled"]
    BY <1>2, <2>2
  <2> QED BY <1>3, <2>1, <2>2, RaisingIsAccountedFor, DoneIsAccountedFor
<1>4. CASE j.at = "cancel"
  <2>1. \/ k = [j EXCEPT !.at = "done", !.status = "cancelled"]
        \/ k = [j EXCEPT !.at = "batch"]
    BY <1>4 DEF FlowJobSteps
  <2>2. k = [j EXCEPT !.at = "batch"] => k = [j EXCEPT !.at = "batch", !.status = "running"]
    BY <1>1, <1>4 DEF Filling
  <2> QED BY <1>2, <2>1, <2>2
<1>5. CASE j.at = "batch" /\ j.todo = {}
  <2> DEFINE status == IF j.failed > 0 THEN "completed_with_errors" ELSE "completed"
  <2>1. k = [j EXCEPT !.at = "done", !.status = status]
    BY <1>5 DEF FlowJobSteps
  <2>2. status = "completed" => j.errors \cup j.raised = {}
    <3> SUFFICES ASSUME ~(j.failed > 0) PROVE j.errors \cup j.raised = {}
      OBVIOUS
    <3>1. j.errors \cup j.raised \in SUBSET Stocks /\ j.failed = Cardinality(j.errors \cup j.raised)
      BY <1>1 DEF FlowJobIsAccounted, Filling
    <3>2. IsFiniteSet(j.errors \cup j.raised) /\ Cardinality(j.errors \cup j.raised) \in Nat
      BY <3>1, SetsOfStocks
    <3>3. Cardinality(j.errors \cup j.raised) = 0
      BY <3>1, <3>2
    <3> QED BY <3>2, <3>3, FS_EmptySet
  <2>3. status \in {"running", "cancelled", "completed", "completed_with_errors"}
    OBVIOUS
  <2> HIDE DEF status
  <2> QED BY <1>2, <1>5, <2>1, <2>2, <2>3
<1>6. j.at # "done"
  BY DEF FlowJobSteps
<1> QED BY <1>1, <1>3, <1>4, <1>5, <1>6 DEF Filling

LEMMA NewFlowJobIsAccounted == FlowJobInv(NewFlowJob)
<1>1. NewFlowJob \in Filling
  BY DEF NewFlowJob, Filling
<1>2. Cardinality(Stocks \ Stocks) = 0 /\ Cardinality({} \cup {}) = 0
  <2>1. Stocks \ Stocks = {} /\ {} \cup {} = {}
    OBVIOUS
  <2> QED BY <2>1, FS_EmptySet
<1>3. FlowJobIsAccounted(NewFlowJob)
  BY <1>2 DEF NewFlowJob, FlowJobIsAccounted
<1> QED BY <1>1, <1>3 DEF NewFlowJob, FlowJobInv
-----------------------------------------------------------------------------
(* FullMarketSync.                                                          *)

SyncCells == Stocks \X Days
SyncFrames == [SyncCells -> {"none", "bar", "full"}]
SyncFields == {"at", "symbols", "todo", "batch", "was", "complete", "missing", "lacks", "frame", "pending",
               "waiting", "batchFailed", "tally", "errors", "fetched", "status"}
TallyFields == {"processed", "completed", "failed", "skipped", "imported", "daily", "caps"}

SyncTyped(y) ==
  /\ DOMAIN y = SyncFields /\ DOMAIN y.tally = TallyFields
  /\ y.symbols \in SUBSET Stocks /\ y.todo \in SUBSET y.symbols /\ y.batch \in SUBSET y.symbols
  /\ y.was \in SyncFrames /\ y.frame \in SyncFrames /\ y.pending \in SyncFrames /\ y.fetched \in SyncFrames
  /\ y.errors \in SUBSET y.symbols /\ y.tally.completed \in Int /\ y.tally.skipped \in Int

\* Disk and what waits are together what was there with what was fetched; nothing
\* was fetched yet for the stocks ahead, so no row is counted twice.
Ahead(y) == y.todo \cup y.batch
NewRows(was, rows) == {c \in Filled(rows) : was[c] = "none"}
NewCaps(was, rows) == {c \in Filled(rows) : was[c] = "bar" /\ rows[c] = "full"}

SyncMerged(y) ==
  /\ MergedRows(y.frame, y.pending) = MergedRows(y.was, y.fetched)
  /\ \A c \in Filled(y.fetched) : c[1] \notin Ahead(y)
  /\ y.tally.daily = Cardinality(NewRows(y.was, y.fetched))
  /\ y.tally.caps = Cardinality(NewCaps(y.was, y.fetched))

\* Every stock that is no longer ahead has one outcome.
SyncCounted(y) ==
  /\ y.todo \cap y.batch = {} /\ y.errors \cap Ahead(y) = {}
  /\ y.tally.processed = Cardinality(y.symbols \ Ahead(y))
  /\ y.tally.processed = y.tally.completed + y.tally.failed + y.tally.skipped
  /\ y.tally.failed = Cardinality(y.errors)

SyncWindowed(y) == \A s \in Stocks \ y.complete : y.lacks[s] \subseteq NarrowFetchWindow(y.missing[s])

SyncSound(y) == SyncTyped(y) /\ SyncMerged(y) /\ SyncCounted(y) /\ SyncWindowed(y)

SyncRuns(y) == /\ SyncSound(y) /\ y.at \in {"batch", "stock", "flushed"} /\ y.status = "running"
               /\ y.at # "stock" => y.batch = {}

SyncInv(y) == SyncIsAccounted(y) /\ (y.at \notin {"done", "refused"} => SyncRuns(y))

LEMMA MergeIsAFrame ==
  ASSUME NEW a \in SyncFrames, NEW b \in SyncFrames
  PROVE  MergedRows(a, b) \in SyncFrames
BY DEF MergedRows, SyncFrames

\* Merging one after the other is merging what was merged.
LEMMA MergesAssociate ==
  ASSUME NEW a \in SyncFrames, NEW b \in SyncFrames, NEW c \in SyncFrames
  PROVE  MergedRows(MergedRows(a, b), c) = MergedRows(a, MergedRows(b, c))
BY DEF MergedRows, SyncFrames

LEMMA NothingToMerge ==
  ASSUME NEW a \in SyncFrames, NEW b \in SyncFrames
  PROVE  /\ NoFrame \in SyncFrames /\ Filled(NoFrame) = {} /\ MergedRows(a, NoFrame) = a
         /\ Filled(b) = {} => MergedRows(a, b) = a
         /\ Filled(MergedRows(a, b)) = Filled(a) \cup Filled(b)
BY DEF MergedRows, SyncFrames, NoFrame, Filled, SyncCells

LEMMA SetsOfCells ==
  ASSUME NEW S \in SUBSET SyncCells
  PROVE  IsFiniteSet(S) /\ Cardinality(S) \in Nat
<1>1. IsFiniteSet(Days)
  BY GapAssumption, FS_Interval DEF Days
<1>2. IsFiniteSet(SyncCells)
  BY <1>1, GapAssumption, FS_Product DEF SyncCells
<1> QED BY <1>2, FS_Subset, FS_CardinalityType

LEMMA DisjointCells ==
  ASSUME NEW S \in SUBSET SyncCells, NEW T \in SUBSET SyncCells, S \cap T = {}
  PROVE  Cardinality(S \cup T) = Cardinality(S) + Cardinality(T)
<1>1. IsFiniteSet(S) /\ IsFiniteSet(T) /\ Cardinality(S) \in Nat /\ Cardinality(T) \in Nat
  BY SetsOfCells
<1>2. Cardinality(S \cup T) = Cardinality(S) + Cardinality(T) - Cardinality(S \cap T)
  BY <1>1, FS_Union
<1>3. Cardinality(S \cap T) = 0
  BY FS_EmptySet
<1> QED BY <1>1, <1>2, <1>3

\* What a stock brings counts besides what the others brought.
LEMMA FillsAdd ==
  ASSUME NEW was \in SyncFrames, NEW old \in SyncFrames, NEW rows \in SyncFrames,
         Filled(old) \cap Filled(rows) = {}
  PROVE  LET new == MergedRows(old, rows)
         IN  /\ Cardinality(NewRows(was, new)) = Cardinality(NewRows(was, old)) + Cardinality(NewRows(was, rows))
             /\ Cardinality(NewCaps(was, new)) = Cardinality(NewCaps(was, old)) + Cardinality(NewCaps(was, rows))
<1> DEFINE new == MergedRows(old, rows)
<1>1. /\ NewRows(was, old) \in SUBSET SyncCells /\ NewRows(was, rows) \in SUBSET SyncCells
      /\ NewCaps(was, old) \in SUBSET SyncCells /\ NewCaps(was, rows) \in SUBSET SyncCells
  BY DEF NewRows, NewCaps, Filled, SyncFrames
<1>2. NewRows(was, old) \cap NewRows(was, rows) = {} /\ NewCaps(was, old) \cap NewCaps(was, rows) = {}
  BY DEF NewRows, NewCaps
<1>3. NewRows(was, new) = NewRows(was, old) \cup NewRows(was, rows)
  BY NothingToMerge DEF NewRows
<1>4. \A c \in SyncCells : /\ c \in Filled(old) => new[c] = old[c]
                           /\ c \in Filled(rows) => new[c] = rows[c]
  BY DEF MergedRows, SyncFrames, Filled
<1>5. NewCaps(was, new) = NewCaps(was, old) \cup NewCaps(was, rows)
  <2>1. Filled(new) = Filled(old) \cup Filled(rows) /\ Filled(new) \subseteq SyncCells
    BY NothingToMerge DEF Filled, SyncFrames
  <2> HIDE DEF new
  <2> QED BY <1>4, <2>1 DEF NewCaps
<1> QED BY <1>1, <1>2, <1>3, <1>5, DisjointCells

\* The window that is asked for holds what it is computed from.
LEMMA WindowHoldsTheMissing ==
  ASSUME NEW missing \in SUBSET Days
  PROVE  missing \subseteq NarrowFetchWindow(missing)
<1> SUFFICES ASSUME missing # {}, NEW d \in missing PROVE d \in NarrowFetchWindow(missing)
  BY DEF NarrowFetchWindow
<1>1. missing \in SUBSET Int /\ LastDay \in Nat /\ Buffer \in Nat /\ d \in 1..LastDay
  BY GapAssumption, SyncConstants DEF Days
<1>2. IsFiniteSet(missing)
  <2>1. IsFiniteSet(1..LastDay)
    BY GapAssumption, FS_Interval
  <2> QED BY <2>1, FS_Subset DEF Days
<1>3. /\ Min(missing) \in Int /\ Max(missing) \in Int /\ Min(missing) <= d /\ d <= Max(missing)
  BY <1>1, <1>2, Ends
<1> DEFINE a == Min(missing) - Buffer
           b == Max(missing) + Buffer
<1>4. a \in Int /\ b \in Int /\ a <= d /\ d <= b
  BY <1>1, <1>3
<1>5. NarrowFetchWindow(missing) = Max({1, a})..Min({LastDay, b})
  BY DEF NarrowFetchWindow
<1> HIDE DEF a, b
<1>6. Max({1, a}) \in Int /\ Max({1, a}) <= d
  <2>1. Max({1, a}) = IF 1 >= a THEN 1 ELSE a
    BY <1>4, PairEnds
  <2> QED BY <1>1, <1>4, <2>1
<1>7. Min({LastDay, b}) \in Int /\ d <= Min({LastDay, b})
  <2>1. LastDay \in Int
    BY <1>1
  <2>2. Min({LastDay, b}) = IF LastDay <= b THEN LastDay ELSE b
    BY <1>4, <2>1, PairEnds
  <2> QED BY <1>1, <1>4, <2>2
<1>8. d \in Int
  BY <1>1
<1> QED BY <1>5, <1>6, <1>7, <1>8

LEMMA SoundIsAccounted ==
  ASSUME NEW y, SyncSound(y),
         y.at = "done" =>
           /\ y.status # "failed" => Filled(y.pending) = {}
           /\ y.status \in {"completed", "completed_with_errors"} => Ahead(y) = {}
           /\ y.status = "completed" => y.errors = {}
  PROVE  SyncIsAccounted(y)
<1>1. MergedRows(y.frame, y.pending) = MergedRows(y.was, y.fetched) /\ y.was \in SyncFrames
      /\ y.frame \in SyncFrames /\ y.pending \in SyncFrames /\ y.fetched \in SyncFrames
  BY DEF SyncSound, SyncMerged, SyncTyped
<1>2. /\ y.tally.processed = Cardinality(y.symbols \ Ahead(y))
      /\ y.tally.processed = y.tally.completed + y.tally.failed + y.tally.skipped
      /\ y.tally.failed = Cardinality(y.errors)
  BY DEF SyncSound, SyncCounted
<1>3. ASSUME y.at = "done", y.status # "failed"
      PROVE  /\ Filled(y.pending) = {} /\ y.frame = MergedRows(y.was, y.fetched)
             /\ y.tally.daily = Cardinality({c \in Filled(y.frame) : y.was[c] = "none"})
             /\ y.tally.caps = Cardinality({c \in Filled(y.frame) : y.was[c] = "bar" /\ y.frame[c] = "full"})
  <2>1. Filled(y.pending) = {}
    BY <1>3
  <2>2. y.frame = MergedRows(y.was, y.fetched)
    BY <1>1, <2>1, NothingToMerge
  <2>3. {c \in Filled(y.frame) : y.was[c] = "none"} = NewRows(y.was, y.fetched)
    BY <1>1, <2>2 DEF NewRows, Filled, MergedRows, SyncFrames
  <2>4. {c \in Filled(y.frame) : y.was[c] = "bar" /\ y.frame[c] = "full"} = NewCaps(y.was, y.fetched)
    BY <1>1, <2>2 DEF NewCaps, Filled, MergedRows, SyncFrames
  <2> QED BY <2>1, <2>2, <2>3, <2>4 DEF SyncSound, SyncMerged
<1>4. y.at = "done" /\ y.status \in {"completed", "completed_with_errors"} => y.tally.processed = Cardinality(y.symbols)
  <2> SUFFICES ASSUME Ahead(y) = {} PROVE y.tally.processed = Cardinality(y.symbols)
    OBVIOUS
  <2>1. y.symbols \ Ahead(y) = y.symbols
    OBVIOUS
  <2> QED BY <1>2, <2>1
<1>5. \A s \in Stocks \ y.complete : y.lacks[s] \subseteq NarrowFetchWindow(y.missing[s])
  BY DEF SyncSound, SyncWindowed
<1> QED BY <1>1, <1>2, <1>3, <1>4, <1>5 DEF SyncIsAccounted

\* The place, the status and the count of waiting rows matter to the end alone.
LEMMA SoundElsewhere ==
  ASSUME NEW y, SyncSound(y), NEW x
  PROVE  /\ SyncSound([y EXCEPT !.at = x]) /\ SyncSound([y EXCEPT !.status = x])
         /\ SyncSound([y EXCEPT !.waiting = x]) /\ SyncSound([y EXCEPT !.batchFailed = x])
<1> SUFFICES ASSUME NEW f \in {"at", "status", "waiting", "batchFailed"}
             PROVE  SyncSound([y EXCEPT ![f] = x])
  OBVIOUS
<1> DEFINE z == [y EXCEPT ![f] = x]
<1>1. DOMAIN y = SyncFields
  BY DEF SyncSound, SyncTyped
<1>2. /\ DOMAIN z = SyncFields /\ z.symbols = y.symbols /\ z.todo = y.todo /\ z.batch = y.batch /\ z.was = y.was
      /\ z.complete = y.complete /\ z.missing = y.missing /\ z.lacks = y.lacks /\ z.frame = y.frame
      /\ z.pending = y.pending /\ z.tally = y.tally /\ z.errors = y.errors /\ z.fetched = y.fetched
  BY <1>1 DEF SyncFields
<1> HIDE DEF z
<1>3. SyncTyped(z)
  BY <1>2 DEF SyncSound, SyncTyped
<1>4. Ahead(z) = Ahead(y)
  BY <1>2 DEF Ahead
<1>5. SyncMerged(z)
  BY <1>2, <1>4 DEF SyncSound, SyncMerged
<1>6. SyncCounted(z)
  BY <1>2, <1>4 DEF SyncSound, SyncCounted
<1>7. SyncWindowed(z)
  BY <1>2 DEF SyncSound, SyncWindowed
<1> QED BY <1>3, <1>5, <1>6, <1>7 DEF SyncSound, z

\* A write that succeeds moves what waits to the disk; one that fails ends the job.
LEMMA FlushKeeps ==
  ASSUME NEW y, SyncSound(y), NEW then, NEW z \in FlushFrames(y, then)
  PROVE  /\ SyncSound(z) /\ Ahead(z) = Ahead(y) /\ z.batch = y.batch /\ z.errors = y.errors /\ z.tally = y.tally
         /\ \/ z.at = then /\ z.status = y.status /\ Filled(z.pending) = {}
            \/ z.at = "done" /\ z.status = "failed"
<1>1. /\ DOMAIN y = SyncFields /\ y.frame \in SyncFrames /\ y.pending \in SyncFrames
      /\ y.was \in SyncFrames /\ y.fetched \in SyncFrames
  BY DEF SyncSound, SyncTyped
<1>2. CASE z = [y EXCEPT !.at = then] /\ Filled(y.pending) = {}
  <2>1. SyncSound(z)
    BY <1>2, SoundElsewhere
  <2>2. z.at = then /\ z.status = y.status /\ z.pending = y.pending /\ z.todo = y.todo /\ z.batch = y.batch
        /\ z.errors = y.errors /\ z.tally = y.tally
    BY <1>1, <1>2 DEF SyncFields
  <2> QED BY <1>2, <2>1, <2>2 DEF Ahead
<1>3. CASE z = [y EXCEPT !.frame = MergedRows(@, y.pending), !.pending = NoFrame, !.at = then]
  <2>1. /\ DOMAIN z = SyncFields /\ z.symbols = y.symbols /\ z.todo = y.todo /\ z.batch = y.batch /\ z.was = y.was
        /\ z.complete = y.complete /\ z.missing = y.missing /\ z.lacks = y.lacks
        /\ z.frame = MergedRows(y.frame, y.pending) /\ z.pending = NoFrame /\ z.tally = y.tally
        /\ z.errors = y.errors /\ z.fetched = y.fetched /\ z.at = then /\ z.status = y.status
    BY <1>1, <1>3 DEF SyncFields
  <2>2. z.frame \in SyncFrames /\ z.pending \in SyncFrames /\ Filled(z.pending) = {}
        /\ MergedRows(z.frame, z.pending) = MergedRows(y.frame, y.pending)
    <3>1. MergedRows(y.frame, y.pending) \in SyncFrames
      BY <1>1, MergeIsAFrame
    <3>2. /\ NoFrame \in SyncFrames /\ Filled(NoFrame) = {}
          /\ MergedRows(MergedRows(y.frame, y.pending), NoFrame) = MergedRows(y.frame, y.pending)
      BY <3>1, NothingToMerge
    <3> QED BY <2>1, <3>1, <3>2, Zenon
  <2>3. SyncTyped(z)
    BY <2>1, <2>2 DEF SyncSound, SyncTyped
  <2>4. Ahead(z) = Ahead(y)
    BY <2>1 DEF Ahead
  <2>5. SyncMerged(z)
    BY <2>1, <2>2, <2>4 DEF SyncSound, SyncMerged
  <2>6. SyncCounted(z)
    BY <2>1, <2>4 DEF SyncSound, SyncCounted
  <2>7. SyncWindowed(z)
    BY <2>1 DEF SyncSound, SyncWindowed
  <2> QED BY <2>1, <2>2, <2>3, <2>4, <2>5, <2>6, <2>7 DEF SyncSound
<1>4. CASE z = [y EXCEPT !.at = "done", !.status = "failed"]
  <2> DEFINE k == [y EXCEPT !.at = "done"]
  <2>1. z = [k EXCEPT !.status = "failed"]
    BY <1>4
  <2>2. SyncSound(k)
    BY SoundElsewhere
  <2> HIDE DEF k
  <2>3. SyncSound(z)
    BY <2>1, <2>2, SoundElsewhere
  <2>4. z.at = "done" /\ z.status = "failed" /\ z.todo = y.todo /\ z.batch = y.batch
        /\ z.errors = y.errors /\ z.tally = y.tally
    BY <1>1, <1>4 DEF SyncFields
  <2> QED BY <2>3, <2>4 DEF Ahead
<1> QED BY <1>2, <1>3, <1>4 DEF FlushFrames

\* What a stock that has been answered for leaves behind, whatever its outcome.
LEMMA AnswerKeeps ==
  ASSUME NEW y, SyncSound(y), NEW s \in y.batch, NEW rows \in SyncFrames, NEW z,
         \A c \in Filled(rows) : c[1] = s,
         DOMAIN z = SyncFields, DOMAIN z.tally = TallyFields,
         z.symbols = y.symbols, z.todo = y.todo, z.batch = y.batch \ {s}, z.was = y.was,
         z.complete = y.complete, z.missing = y.missing, z.lacks = y.lacks, z.frame = y.frame,
         z.pending = MergedRows(y.pending, rows), z.fetched = MergedRows(y.fetched, rows),
         z.tally.daily = y.tally.daily + Cardinality(NewRows(y.was, rows)),
         z.tally.caps = y.tally.caps + Cardinality(NewCaps(y.was, rows)),
         z.tally.processed = y.tally.processed + 1,
         z.tally.completed \in Int, z.tally.skipped \in Int,
         z.tally.completed + z.tally.failed + z.tally.skipped
            = y.tally.completed + y.tally.failed + y.tally.skipped + 1,
         \/ z.errors = y.errors /\ z.tally.failed = y.tally.failed
         \/ z.errors = y.errors \cup {s} /\ z.tally.failed = y.tally.failed + 1
  PROVE  SyncSound(z)
<1>1. /\ y.symbols \in SUBSET Stocks /\ y.todo \in SUBSET y.symbols /\ y.batch \in SUBSET y.symbols
      /\ y.was \in SyncFrames /\ y.frame \in SyncFrames /\ y.pending \in SyncFrames /\ y.fetched \in SyncFrames
      /\ y.errors \in SUBSET y.symbols /\ s \in y.symbols /\ s \in Stocks
  BY DEF SyncSound, SyncTyped
<1>2. /\ y.todo \cap y.batch = {} /\ y.errors \cap Ahead(y) = {}
      /\ y.tally.processed = Cardinality(y.symbols \ Ahead(y))
      /\ y.tally.processed = y.tally.completed + y.tally.failed + y.tally.skipped
      /\ y.tally.failed = Cardinality(y.errors)
  BY DEF SyncSound, SyncCounted
<1>3. Ahead(z) = Ahead(y) \ {s} /\ s \in Ahead(y)
  BY <1>2 DEF Ahead
<1>4. SyncTyped(z)
  <2>1. z.pending \in SyncFrames /\ z.fetched \in SyncFrames
    BY <1>1, MergeIsAFrame
  <2>2. z.errors \in SUBSET z.symbols /\ z.batch \in SUBSET z.symbols
    BY <1>1
  <2> QED BY <1>1, <2>1, <2>2 DEF SyncTyped
<1>5. SyncMerged(z)
  <2>1. /\ MergedRows(y.frame, y.pending) = MergedRows(y.was, y.fetched)
        /\ \A c \in Filled(y.fetched) : c[1] \notin Ahead(y)
        /\ y.tally.daily = Cardinality(NewRows(y.was, y.fetched))
        /\ y.tally.caps = Cardinality(NewCaps(y.was, y.fetched))
    BY DEF SyncSound, SyncMerged
  <2>2. MergedRows(z.frame, z.pending) = MergedRows(z.was, z.fetched)
    <3>1. MergedRows(MergedRows(y.frame, y.pending), rows) = MergedRows(y.frame, MergedRows(y.pending, rows))
      BY <1>1, MergesAssociate
    <3>2. MergedRows(MergedRows(y.was, y.fetched), rows) = MergedRows(y.was, MergedRows(y.fetched, rows))
      BY <1>1, MergesAssociate
    <3> QED BY <2>1, <3>1, <3>2
  <2>3. Filled(y.fetched) \cap Filled(rows) = {}
    BY <1>3, <2>1
  <2>4. \A c \in Filled(z.fetched) : c[1] \notin Ahead(z)
    <3>1. Filled(z.fetched) = Filled(y.fetched) \cup Filled(rows)
      BY <1>1, NothingToMerge
    <3> QED BY <1>3, <2>1, <3>1
  <2>5. /\ Cardinality(NewRows(z.was, z.fetched)) = y.tally.daily + Cardinality(NewRows(y.was, rows))
        /\ Cardinality(NewCaps(z.was, z.fetched)) = y.tally.caps + Cardinality(NewCaps(y.was, rows))
    <3> DEFINE new == MergedRows(y.fetched, rows)
    <3>1. /\ Cardinality(NewRows(y.was, new))
               = Cardinality(NewRows(y.was, y.fetched)) + Cardinality(NewRows(y.was, rows))
          /\ Cardinality(NewCaps(y.was, new))
               = Cardinality(NewCaps(y.was, y.fetched)) + Cardinality(NewCaps(y.was, rows))
      BY <1>1, <2>3, FillsAdd
    <3>2. z.was = y.was /\ z.fetched = new
      OBVIOUS
    <3>3. /\ Cardinality(NewRows(z.was, z.fetched)) = Cardinality(NewRows(y.was, new))
          /\ Cardinality(NewCaps(z.was, z.fetched)) = Cardinality(NewCaps(y.was, new))
      BY <3>2, Zenon
    <3> HIDE DEF new
    <3> QED BY <2>1, <3>1, <3>3, Zenon
  <2> QED BY <2>2, <2>4, <2>5 DEF SyncMerged
<1>6. SyncCounted(z)
  <2>1. z.todo \cap z.batch = {} /\ z.errors \cap Ahead(z) = {}
    BY <1>2, <1>3
  <2>2. z.tally.processed = Cardinality(z.symbols \ Ahead(z))
    <3>1. z.symbols \ Ahead(z) = (y.symbols \ Ahead(y)) \cup {s} /\ s \notin y.symbols \ Ahead(y)
      BY <1>1, <1>3
    <3>2. IsFiniteSet(y.symbols \ Ahead(y)) /\ Cardinality(y.symbols \ Ahead(y)) \in Nat
      <4>1. y.symbols \ Ahead(y) \in SUBSET Stocks
        BY <1>1
      <4> QED BY <4>1, SetsOfStocks
    <3>3. Cardinality((y.symbols \ Ahead(y)) \cup {s}) = Cardinality(y.symbols \ Ahead(y)) + 1
      BY <3>1, <3>2, FS_AddElement
    <3> QED BY <1>2, <3>1, <3>3
  <2>3. z.tally.failed = Cardinality(z.errors) /\ z.tally.failed \in Int /\ y.tally.failed \in Int
    <3>1. s \notin y.errors /\ y.errors \in SUBSET Stocks
      BY <1>1, <1>2, <1>3
    <3>2. IsFiniteSet(y.errors) /\ Cardinality(y.errors) \in Nat
      BY <3>1, SetsOfStocks
    <3>3. Cardinality(y.errors \cup {s}) = Cardinality(y.errors) + 1
      BY <3>1, <3>2, FS_AddElement
    <3>4. CASE z.errors = y.errors /\ z.tally.failed = y.tally.failed
      BY <1>2, <3>2, <3>4
    <3>5. CASE z.errors = y.errors \cup {s} /\ z.tally.failed = y.tally.failed + 1
      BY <1>2, <3>2, <3>3, <3>5
    <3> QED BY <3>4, <3>5
  <2>4. z.tally.processed = z.tally.completed + z.tally.failed + z.tally.skipped
    BY <1>2
  <2> QED BY <2>1, <2>2, <2>3, <2>4 DEF SyncCounted
<1>7. SyncWindowed(z)
  BY DEF SyncSound, SyncWindowed
<1> QED BY <1>4, <1>5, <1>6, <1>7 DEF SyncSound

LEMMA RunningIsAccounted ==
  ASSUME NEW y, SyncRuns(y)
  PROVE  SyncInv(y)
BY SoundIsAccounted DEF SyncRuns, SyncInv

LEMMA FlushRuns ==
  ASSUME NEW y, SyncSound(y), y.status = "running", NEW then \in {"batch", "stock", "flushed"},
         then # "stock" => y.batch = {}, NEW z \in FlushFrames(y, then)
  PROVE  SyncInv(z)
<1>1. /\ SyncSound(z) /\ z.batch = y.batch
      /\ \/ z.at = then /\ z.status = y.status
         \/ z.at = "done" /\ z.status = "failed"
  BY FlushKeeps
<1>2. CASE z.at = then /\ z.status = y.status
  BY <1>1, <1>2, RunningIsAccounted DEF SyncRuns
<1>3. CASE z.at = "done" /\ z.status = "failed"
  BY <1>1, <1>3, SoundIsAccounted DEF SyncInv
<1> QED BY <1>1, <1>2, <1>3

LEMMA CancelIsAccounted ==
  ASSUME NEW y, SyncSound(y), NEW z \in Cancelled(y)
  PROVE  SyncInv(z)
<1> DEFINE k == [y EXCEPT !.status = "cancelled"]
<1>1. SyncSound(k) /\ k.status = "cancelled" /\ z \in FlushFrames(k, "done")
  BY SoundElsewhere DEF Cancelled, SyncSound, SyncTyped, SyncFields
<1> HIDE DEF k
<1>2. /\ SyncSound(z) /\ z.at = "done"
      /\ \/ z.status = "cancelled" /\ Filled(z.pending) = {}
         \/ z.status = "failed"
  BY <1>1, FlushKeeps
<1> QED BY <1>2, SoundIsAccounted DEF SyncInv

LEMMA EndIsAccounted ==
  ASSUME NEW y, SyncSound(y), y.status = "running", Ahead(y) = {}, NEW z \in EndLoop(y)
  PROVE  SyncInv(z)
<1>1. PICK k \in FlushFrames(y, "done") : z = IF k.status = "failed" THEN k ELSE EndStatus(k)
  BY DEF EndLoop
<1>2. /\ SyncSound(k) /\ Ahead(k) = Ahead(y) /\ k.at = "done"
      /\ \/ k.status = "running" /\ Filled(k.pending) = {}
         \/ k.status = "failed"
  BY <1>1, FlushKeeps
<1>3. CASE k.status = "failed"
  BY <1>1, <1>2, <1>3, SoundIsAccounted DEF SyncInv
<1>4. CASE k.status # "failed"
  <2> DEFINE status == IF k.tally.failed > 0 THEN "completed_with_errors" ELSE "completed"
             k1 == [k EXCEPT !.at = "done"]
  <2>1. z = [k1 EXCEPT !.status = status]
    BY <1>1, <1>4 DEF EndStatus
  <2>2. SyncSound(k1)
    BY <1>2, SoundElsewhere
  <2>3. DOMAIN k = SyncFields
    BY <1>2 DEF SyncSound, SyncTyped
  <2>4. /\ z.at = "done" /\ z.status = status /\ z.pending = k.pending /\ z.todo = k.todo /\ z.batch = k.batch
        /\ z.errors = k.errors
    BY <2>1, <2>3 DEF SyncFields
  <2> HIDE DEF k1
  <2>5. SyncSound(z)
    BY <2>1, <2>2, SoundElsewhere
  <2>6. status = "completed" => k.errors = {}
    <3> SUFFICES ASSUME ~(k.tally.failed > 0) PROVE k.errors = {}
      OBVIOUS
    <3>1. k.errors \in SUBSET Stocks /\ k.tally.failed = Cardinality(k.errors)
      BY <1>2 DEF SyncSound, SyncCounted, SyncTyped
    <3>2. IsFiniteSet(k.errors) /\ Cardinality(k.errors) \in Nat
      BY <3>1, SetsOfStocks
    <3>3. Cardinality(k.errors) = 0
      BY <3>1, <3>2
    <3> QED BY <3>2, <3>3, FS_EmptySet
  <2>7. Ahead(z) = {} /\ Filled(z.pending) = {} /\ (z.status = "completed" => z.errors = {})
    BY <1>2, <1>4, <2>4, <2>6 DEF Ahead
  <2> QED BY <2>4, <2>5, <2>7, SoundIsAccounted DEF SyncInv
<1> QED BY <1>3, <1>4

OneAnswer(y, s, a) ==
  /\ DOMAIN a = SyncFields /\ DOMAIN a.tally = TallyFields
  /\ a.symbols = y.symbols /\ a.todo = y.todo /\ a.batch = y.batch \ {s} /\ a.was = y.was
  /\ a.complete = y.complete /\ a.missing = y.missing /\ a.lacks = y.lacks /\ a.frame = y.frame
  /\ a.pending = y.pending /\ a.fetched = y.fetched /\ a.at = y.at /\ a.status = y.status
  /\ a.errors = y.errors
  /\ a.tally.daily = y.tally.daily /\ a.tally.caps = y.tally.caps
  /\ a.tally.processed = y.tally.processed + 1 /\ a.tally.completed = y.tally.completed
  /\ a.tally.failed = y.tally.failed /\ a.tally.skipped = y.tally.skipped

LEMMA AnswerIsOne ==
  ASSUME NEW y, SyncTyped(y), NEW s
  PROVE  OneAnswer(y, s, Answered(y, s))
<1> DEFINE a == Answered(y, s)
<1>1. DOMAIN y = SyncFields /\ DOMAIN y.tally = TallyFields
  BY DEF SyncTyped
<1>2. /\ DOMAIN a = SyncFields /\ DOMAIN a.tally = TallyFields
      /\ a.symbols = y.symbols /\ a.todo = y.todo /\ a.batch = y.batch \ {s} /\ a.was = y.was
      /\ a.complete = y.complete /\ a.missing = y.missing /\ a.lacks = y.lacks /\ a.frame = y.frame
      /\ a.pending = y.pending /\ a.fetched = y.fetched /\ a.at = y.at /\ a.status = y.status
      /\ a.errors = y.errors
      /\ a.tally = [y.tally EXCEPT !.processed = y.tally.processed + 1]
  BY <1>1 DEF Answered, SyncFields
<1> HIDE DEF a
<1>3. /\ a.tally.daily = y.tally.daily /\ a.tally.caps = y.tally.caps
      /\ a.tally.processed = y.tally.processed + 1 /\ a.tally.completed = y.tally.completed
      /\ a.tally.failed = y.tally.failed /\ a.tally.skipped = y.tally.skipped
  BY <1>1, <1>2 DEF TallyFields
<1> QED BY <1>2, <1>3 DEF OneAnswer, a

LEMMA UnfetchedIsAccounted ==
  ASSUME NEW y, SyncRuns(y), y.at = "stock", NEW s \in y.batch,
         NEW z \in {StockFails(y, s), StockSkipped(y, s)}
  PROVE  SyncInv(z)
<1>1. SyncSound(y) /\ DOMAIN y = SyncFields /\ DOMAIN y.tally = TallyFields /\ y.status = "running"
      /\ y.was \in SyncFrames /\ y.pending \in SyncFrames /\ y.fetched \in SyncFrames
      /\ y.tally.completed \in Int /\ y.tally.skipped \in Int /\ y.errors \in SUBSET Stocks
      /\ y.tally.failed = Cardinality(y.errors)
  BY DEF SyncRuns, SyncSound, SyncTyped, SyncCounted
<1>2. y.tally.failed \in Int
  BY <1>1, SetsOfStocks
<1>3. /\ DOMAIN z = SyncFields /\ DOMAIN z.tally = TallyFields
      /\ z.symbols = y.symbols /\ z.todo = y.todo /\ z.batch = y.batch \ {s} /\ z.was = y.was
      /\ z.complete = y.complete /\ z.missing = y.missing /\ z.lacks = y.lacks /\ z.frame = y.frame
      /\ z.pending = y.pending /\ z.fetched = y.fetched /\ z.at = y.at /\ z.status = y.status
      /\ z.tally.daily = y.tally.daily /\ z.tally.caps = y.tally.caps
      /\ z.tally.processed = y.tally.processed + 1 /\ z.tally.completed = y.tally.completed
      /\ \/ z.errors = y.errors /\ z.tally.failed = y.tally.failed /\ z.tally.skipped = y.tally.skipped + 1
         \/ z.errors = y.errors \cup {s} /\ z.tally.failed = y.tally.failed + 1 /\ z.tally.skipped = y.tally.skipped
  <2> DEFINE a == Answered(y, s)
  <2>1. OneAnswer(y, s, a)
    BY AnswerIsOne DEF SyncRuns, SyncSound
  <2> USE DEF OneAnswer
  <2>3. CASE z = StockFails(y, s)
    <3>1. z = [a EXCEPT !.tally.failed = @ + 1, !.errors = @ \cup {s}, !.batchFailed = TRUE]
      BY <2>3 DEF StockFails
    <3> HIDE DEF a
    <3> QED BY <2>1, <3>1 DEF SyncFields, TallyFields
  <2>4. CASE z = StockSkipped(y, s)
    <3>1. z = [a EXCEPT !.tally.skipped = @ + 1]
      BY <2>4 DEF StockSkipped
    <3> HIDE DEF a
    <3> QED BY <2>1, <3>1 DEF SyncFields, TallyFields
  <2> QED BY <2>3, <2>4
<1>4. /\ z.pending = MergedRows(y.pending, NoFrame) /\ z.fetched = MergedRows(y.fetched, NoFrame)
      /\ NoFrame \in SyncFrames /\ Filled(NoFrame) = {}
  BY <1>1, <1>3, NothingToMerge
<1>5. Cardinality(NewRows(y.was, NoFrame)) = 0 /\ Cardinality(NewCaps(y.was, NoFrame)) = 0
  <2>1. NewRows(y.was, NoFrame) = {} /\ NewCaps(y.was, NoFrame) = {}
    BY <1>4 DEF NewRows, NewCaps
  <2> QED BY <2>1, FS_EmptySet
<1>6. y.tally.daily \in Int /\ y.tally.caps \in Int
  <2>1. NewRows(y.was, y.fetched) \in SUBSET SyncCells /\ NewCaps(y.was, y.fetched) \in SUBSET SyncCells
    BY <1>1 DEF NewRows, NewCaps, Filled, SyncFrames
  <2> QED BY <1>1, <2>1, SetsOfCells DEF SyncSound, SyncMerged
<1>7. SyncSound(z)
  <2>1. z.tally.daily = y.tally.daily + Cardinality(NewRows(y.was, NoFrame))
        /\ z.tally.caps = y.tally.caps + Cardinality(NewCaps(y.was, NoFrame))
    BY <1>3, <1>5, <1>6
  <2>2. z.tally.completed \in Int /\ z.tally.skipped \in Int
        /\ z.tally.completed + z.tally.failed + z.tally.skipped
             = y.tally.completed + y.tally.failed + y.tally.skipped + 1
    BY <1>1, <1>2, <1>3
  <2> QED BY <1>1, <1>3, <1>4, <2>1, <2>2, AnswerKeeps
<1>8. SyncRuns(z)
  BY <1>1, <1>3, <1>7 DEF SyncRuns
<1> QED BY <1>8, RunningIsAccounted

LEMMA FetchedIsAccounted ==
  ASSUME NEW y, SyncRuns(y), y.at = "stock", NEW s \in y.batch,
         NEW days, NEW row \in {"bar", "full"}, NEW z \in StockFetched(y, s, RowsFor(s, days, row))
  PROVE  SyncInv(z)
<1> DEFINE rows == RowsFor(s, days, row)
           filled == FillCounts(y, rows)
           a == Answered(y, s)
           kept == [a EXCEPT
                      !.tally.completed = @ + 1, !.tally.imported = @ + Cardinality(Filled(rows)),
                      !.tally.daily = @ + filled.daily, !.tally.caps = @ + filled.caps,
                      !.fetched = MergedRows(@, rows), !.pending = MergedRows(@, rows),
                      !.waiting = @ + Cardinality(Filled(rows))]
<1>1. SyncSound(y) /\ DOMAIN y = SyncFields /\ DOMAIN y.tally = TallyFields /\ y.status = "running"
      /\ y.tally.completed \in Int /\ y.tally.skipped \in Int /\ y.errors \in SUBSET Stocks
      /\ y.tally.failed = Cardinality(y.errors)
  BY DEF SyncRuns, SyncSound, SyncTyped, SyncCounted
<1>2. y.tally.failed \in Int
  BY <1>1, SetsOfStocks
<1>3. rows \in SyncFrames /\ \A c \in Filled(rows) : c[1] = s
  BY DEF RowsFor, SyncFrames, SyncCells, Filled
<1>4. filled.daily = Cardinality(NewRows(y.was, rows)) /\ filled.caps = Cardinality(NewCaps(y.was, rows))
  BY DEF FillCounts, NewRows, NewCaps
<1>5. z \in IF kept.waiting >= WriteRows THEN FlushFrames([kept EXCEPT !.waiting = 0], "stock") ELSE {kept}
  BY DEF StockFetched
<1>6. OneAnswer(y, s, a)
  BY AnswerIsOne DEF SyncRuns, SyncSound
<1> HIDE DEF rows, filled, a
<1>7. /\ DOMAIN kept = SyncFields /\ DOMAIN kept.tally = TallyFields
      /\ kept.symbols = y.symbols /\ kept.todo = y.todo /\ kept.batch = y.batch \ {s} /\ kept.was = y.was
      /\ kept.complete = y.complete /\ kept.missing = y.missing /\ kept.lacks = y.lacks /\ kept.frame = y.frame
      /\ kept.at = y.at /\ kept.status = y.status /\ kept.errors = y.errors
      /\ kept.pending = MergedRows(y.pending, rows) /\ kept.fetched = MergedRows(y.fetched, rows)
  BY <1>1, <1>6 DEF OneAnswer, SyncFields, TallyFields
<1>8. /\ kept.tally.daily = y.tally.daily + filled.daily /\ kept.tally.caps = y.tally.caps + filled.caps
      /\ kept.tally.processed = y.tally.processed + 1 /\ kept.tally.completed = y.tally.completed + 1
      /\ kept.tally.failed = y.tally.failed /\ kept.tally.skipped = y.tally.skipped
  BY <1>1, <1>6, ZenonT(40) DEF OneAnswer, SyncFields, TallyFields
<1> HIDE DEF kept
<1>9. SyncSound(kept)
  <2>1. kept.tally.completed \in Int /\ kept.tally.skipped \in Int
        /\ kept.tally.completed + kept.tally.failed + kept.tally.skipped
             = y.tally.completed + y.tally.failed + y.tally.skipped + 1
    BY <1>1, <1>2, <1>8
  <2> QED BY <1>1, <1>3, <1>4, <1>7, <1>8, <2>1, AnswerKeeps
<1>10. CASE z = kept
  <2>1. SyncRuns(z)
    BY <1>1, <1>7, <1>9, <1>10 DEF SyncRuns
  <2> QED BY <2>1, RunningIsAccounted
<1>11. CASE z \in FlushFrames([kept EXCEPT !.waiting = 0], "stock")
  <2> DEFINE k == [kept EXCEPT !.waiting = 0]
  <2>1. SyncSound(k) /\ k.status = "running"
    BY <1>1, <1>7, <1>9, SoundElsewhere DEF SyncFields
  <2> HIDE DEF k
  <2>2. z \in FlushFrames(k, "stock")
    BY <1>11 DEF k
  <2> QED BY <2>1, <2>2, FlushRuns
<1> QED BY <1>5, <1>10, <1>11

LEMMA SyncStepKeeps ==
  ASSUME NEW y, SyncInv(y), NEW z \in SyncSteps(y)
  PROVE  SyncInv(z)
<1>1. y.at \in {"batch", "stock", "flushed"}
  BY DEF SyncSteps, SyncInv, SyncRuns
<1>2. SyncRuns(y) /\ SyncSound(y) /\ DOMAIN y = SyncFields /\ y.status = "running"
      /\ (y.at # "stock" => y.batch = {})
  BY <1>1 DEF SyncInv, SyncRuns, SyncSound, SyncTyped
<1>3. CASE z \in Cancelled(y)
  BY <1>2, <1>3, CancelIsAccounted
<1>4. CASE y.at = "batch" /\ y.todo # {} /\ z \notin Cancelled(y)
  <2>1. PICK b \in SUBSET y.todo : z = [y EXCEPT !.at = "stock", !.batch = b, !.todo = @ \ b, !.batchFailed = FALSE]
    BY <1>4 DEF SyncSteps, kSubset
  <2>2. /\ DOMAIN z = SyncFields /\ z.symbols = y.symbols /\ z.todo = y.todo \ b /\ z.batch = b /\ z.was = y.was
        /\ z.complete = y.complete /\ z.missing = y.missing /\ z.lacks = y.lacks /\ z.frame = y.frame
        /\ z.pending = y.pending /\ z.tally = y.tally /\ z.errors = y.errors /\ z.fetched = y.fetched
        /\ z.at = "stock" /\ z.status = y.status
    BY <1>2, <2>1 DEF SyncFields
  <2>3. Ahead(z) = Ahead(y)
    BY <1>2, <1>4, <2>2 DEF Ahead
  <2>4. SyncTyped(z)
    <3>1. y.todo \in SUBSET y.symbols
      BY <1>2 DEF SyncSound, SyncTyped
    <3> QED BY <1>2, <2>2, <3>1 DEF SyncSound, SyncTyped
  <2>5. SyncMerged(z)
    BY <1>2, <2>2, <2>3 DEF SyncSound, SyncMerged
  <2>6. SyncCounted(z)
    BY <1>2, <2>2, <2>3 DEF SyncSound, SyncCounted
  <2>7. SyncWindowed(z)
    BY <1>2, <2>2 DEF SyncSound, SyncWindowed
  <2>8. SyncRuns(z)
    BY <1>2, <2>2, <2>4, <2>5, <2>6, <2>7 DEF SyncRuns, SyncSound
  <2> QED BY <2>8, RunningIsAccounted
<1>5. CASE y.at = "stock" /\ y.batch # {}
  <2>1. PICK s \in y.batch : z \in FetchOutcomes(y, s)
    BY <1>5 DEF SyncSteps
  <2>2. \/ z \in {StockFails(y, s), StockSkipped(y, s)}
        \/ \E days : \E row \in {"bar", "full"} : z \in StockFetched(y, s, RowsFor(s, days, row))
    <3> DEFINE window == NarrowFetchWindow(y.missing[s])
               outcomes == {StockFetched(y, s, RowsFor(s, days, row)) :
                              days \in {window, {Min(window)}}, row \in {"bar", "full"}}
    <3>1. z \in {StockFails(y, s), StockSkipped(y, s)} \/ z \in UNION outcomes
      BY <2>1 DEF FetchOutcomes
    <3> HIDE DEF window
    <3>2. ASSUME z \in UNION outcomes
          PROVE  \E days : \E row \in {"bar", "full"} : z \in StockFetched(y, s, RowsFor(s, days, row))
      <4>1. PICK days \in {window, {Min(window)}}, row \in {"bar", "full"} :
              z \in StockFetched(y, s, RowsFor(s, days, row))
        BY <3>2
      <4> QED BY <4>1
    <3> QED BY <3>1, <3>2
  <2> QED BY <1>2, <1>5, <2>1, <2>2, UnfetchedIsAccounted, FetchedIsAccounted
<1>6. CASE y.at = "stock" /\ y.batch = {}
  <2>1. CASE z = [y EXCEPT !.at = "flushed"]
    <3>1. SyncSound(z) /\ z.at = "flushed" /\ z.status = y.status /\ z.batch = y.batch
      BY <1>2, <2>1, SoundElsewhere DEF SyncFields
    <3>2. SyncRuns(z)
      BY <1>2, <1>6, <3>1 DEF SyncRuns
    <3> QED BY <3>2, RunningIsAccounted
  <2>2. CASE z \in FlushFrames([y EXCEPT !.waiting = 0], "flushed")
    <3> DEFINE k == [y EXCEPT !.waiting = 0]
    <3>1. SyncSound(k) /\ k.status = "running" /\ k.batch = {}
      BY <1>2, <1>6, SoundElsewhere DEF SyncFields
    <3> HIDE DEF k
    <3>2. z \in FlushFrames(k, "flushed")
      BY <2>2 DEF k
    <3> QED BY <3>1, <3>2, FlushRuns
  <2> QED BY <1>6, <2>1, <2>2 DEF SyncSteps
<1>7. CASE y.at = "flushed" /\ z \notin Cancelled(y)
  <2>1. z = [y EXCEPT !.at = "batch"]
    BY <1>7 DEF SyncSteps
  <2>2. SyncSound(z) /\ z.at = "batch" /\ z.status = y.status /\ z.batch = y.batch
    BY <1>2, <2>1, SoundElsewhere DEF SyncFields
  <2>3. SyncRuns(z)
    BY <1>2, <1>7, <2>2 DEF SyncRuns
  <2> QED BY <2>3, RunningIsAccounted
<1>8. CASE y.at = "batch" /\ y.todo = {} /\ z \notin Cancelled(y)
  <2>1. z \in EndLoop(y)
    BY <1>8 DEF SyncSteps
  <2>2. Ahead(y) = {}
    BY <1>2, <1>8 DEF Ahead
  <2> QED BY <1>2, <2>1, <2>2, EndIsAccounted
<1> QED BY <1>1, <1>3, <1>4, <1>5, <1>6, <1>7, <1>8

LEMMA NewSyncIsAccounted ==
  ASSUME NEW frame \in SyncFrames, NEW known, NEW missingOnly \in BOOLEAN, NEW open \in BOOLEAN
  PROVE  SyncInv(NewSync(frame, known, missingOnly, open))
<1> DEFINE symbols == IF missingOnly THEN IncompleteSymbols(frame, known) ELSE Stocks
           y == NewSync(frame, known, missingOnly, open)
           lacks(s) == Required(frame, known, s) \ Capped(frame, s)
<1>1. symbols \in SUBSET Stocks
  BY DEF IncompleteSymbols, Traded
<1>2. \A s \in Stocks : /\ lacks(s) \in SUBSET Days
                        /\ MissingDates(frame, known, s) \in {{}, lacks(s)}
  BY DEF Required, MissingDates
<1>3. \A s \in Stocks : lacks(s) \subseteq NarrowFetchWindow(MissingDates(frame, known, s))
  <2> SUFFICES ASSUME NEW s \in Stocks
               PROVE  lacks(s) \subseteq NarrowFetchWindow(MissingDates(frame, known, s))
    OBVIOUS
  <2>1. CASE MissingDates(frame, known, s) = {}
    BY <1>2, <2>1 DEF NarrowFetchWindow
  <2>2. CASE MissingDates(frame, known, s) = lacks(s)
    BY <1>2, <2>2, WindowHoldsTheMissing
  <2> QED BY <1>2, <2>1, <2>2
<1>4. /\ y.at = (IF symbols = {} THEN "refused" ELSE IF open THEN "batch" ELSE "done")
      /\ y.symbols = symbols /\ y.todo = symbols /\ y.batch = {} /\ y.was = frame
      /\ y.missing = [s \in Stocks |-> MissingDates(frame, known, s)]
      /\ y.lacks = [s \in Stocks |-> lacks(s)]
      /\ y.frame = frame /\ y.pending = NoFrame /\ y.fetched = NoFrame /\ y.errors = {}
      /\ y.tally = (IF open THEN Zero ELSE [Zero EXCEPT !.processed = Cardinality(symbols),
                                                        !.skipped = Cardinality(symbols)])
      /\ y.status = (IF open THEN "running" ELSE "completed") /\ DOMAIN y = SyncFields
  BY DEF NewSync, SyncFields
<1> SUFFICES SyncInv(y)
  OBVIOUS
<1> HIDE DEF y, symbols
<1>5. MergedRows(y.frame, y.pending) = frame /\ MergedRows(y.was, y.fetched) = frame
      /\ Filled(NoFrame) = {} /\ NoFrame \in SyncFrames
  BY <1>4, NothingToMerge
<1>6. SyncWindowed(y)
  BY <1>3, <1>4 DEF SyncWindowed
<1>7. Cardinality(NewRows(frame, NoFrame)) = 0 /\ Cardinality(NewCaps(frame, NoFrame)) = 0 /\ Cardinality({}) = 0
  <2>1. NewRows(frame, NoFrame) = {} /\ NewCaps(frame, NoFrame) = {}
    BY <1>5 DEF NewRows, NewCaps
  <2> QED BY <2>1, FS_EmptySet
<1>8. CASE open
  <2>1. y.tally = Zero /\ y.status = "running" /\ y.at \in {"refused", "batch"}
    BY <1>4, <1>8
  <2>2. SyncTyped(y)
    BY <1>1, <1>4, <1>5, <2>1 DEF SyncTyped, Zero, TallyFields
  <2>3. SyncMerged(y)
    BY <1>4, <1>5, <1>7, <2>1 DEF SyncMerged, Zero
  <2>4. SyncCounted(y)
    <3>1. y.symbols \ Ahead(y) = {} /\ y.todo \cap y.batch = {} /\ y.errors \cap Ahead(y) = {}
      BY <1>4 DEF Ahead
    <3>2. Cardinality(y.symbols \ Ahead(y)) = 0 /\ Cardinality(y.errors) = 0
      BY <1>4, <1>7, <3>1
    <3> QED BY <2>1, <3>1, <3>2 DEF SyncCounted, Zero
  <2>5. SyncSound(y)
    BY <1>6, <2>2, <2>3, <2>4 DEF SyncSound
  <2>6. SyncIsAccounted(y)
    BY <2>1, <2>5, SoundIsAccounted
  <2>7. y.at = "batch" => SyncRuns(y)
    BY <1>4, <2>1, <2>5 DEF SyncRuns
  <2> QED BY <2>1, <2>6, <2>7 DEF SyncInv
<1>9. CASE ~open
  <2>1. /\ y.tally.processed = Cardinality(symbols) /\ y.tally.skipped = Cardinality(symbols)
        /\ y.tally.completed = 0 /\ y.tally.failed = 0 /\ y.tally.daily = 0 /\ y.tally.caps = 0
        /\ y.status = "completed" /\ y.at \in {"refused", "done"}
    BY <1>4, <1>9 DEF Zero
  <2>2. Cardinality(symbols) \in Nat
    BY <1>1, SetsOfStocks
  <2>3. y.tally.processed = y.tally.completed + y.tally.failed + y.tally.skipped
    BY <2>1, <2>2
  <2>4. {c \in Filled(y.frame) : y.was[c] = "none"} = {}
        /\ {c \in Filled(y.frame) : y.was[c] = "bar" /\ y.frame[c] = "full"} = {}
    BY <1>4 DEF Filled
  <2>5. y.frame = MergedRows(y.was, y.fetched) /\ Filled(y.pending) = {} /\ Filled(y.fetched) = {}
    BY <1>4, <1>5
  <2>6. \A s \in Stocks \ y.complete : y.lacks[s] \subseteq NarrowFetchWindow(y.missing[s])
    BY <1>6 DEF SyncWindowed
  <2>7. /\ y.tally.daily = Cardinality({c \in Filled(y.frame) : y.was[c] = "none"})
        /\ y.tally.caps = Cardinality({c \in Filled(y.frame) : y.was[c] = "bar" /\ y.frame[c] = "full"})
        /\ y.tally.failed = Cardinality(y.errors)
    BY <1>4, <1>7, <2>1, <2>4
  <2>8. y.tally.processed = Cardinality(y.symbols) /\ y.errors = {} /\ y.at \notin {"batch", "stock", "flushed"}
    BY <1>4, <2>1
  <2>9. SyncIsAccounted(y)
    BY <2>3, <2>5, <2>6, <2>7, <2>8 DEF SyncIsAccounted
  <2> QED BY <2>1, <2>9 DEF SyncInv
<1> QED BY <1>8, <1>9

LEMMA SyncBeginsIn ==
  ASSUME SyncBegins
  PROVE  "y" \in DOMAIN work /\ SyncInv(work.y)
<1>1. PICK rows \in [Stocks -> AtFirst], known \in [Stocks -> Lives], missingOnly \in BOOLEAN, open \in BOOLEAN :
        work = [of |-> "sync", y |-> NewSync([c \in Stocks \X Days |-> rows[c[1]][c[2]]], known, missingOnly, open)]
  BY DEF SyncBegins
<1> DEFINE frame == [c \in Stocks \X Days |-> rows[c[1]][c[2]]]
<1>2. \A s \in Stocks : rows[s] \in [Days -> {"none", "bar", "full"}]
  BY ProcedureAssumption
<1>3. frame \in SyncFrames
  BY <1>2 DEF SyncFrames, SyncCells
<1>4. work.y = NewSync(frame, known, missingOnly, open) /\ "y" \in DOMAIN work
  BY <1>1
<1> HIDE DEF frame
<1> QED BY <1>3, <1>4, NewSyncIsAccounted

SyncState ==
  /\ "of" \in DOMAIN work
  /\ work.of = "sync" => "y" \in DOMAIN work /\ SyncInv(work.y)
  /\ work.of = "flowJob" => "j" \in DOMAIN work /\ FlowJobInv(work.j)

LEMMA SyncStateBegins ==
  ASSUME Init
  PROVE  SyncState
<1>1. work.of = "sync" => "y" \in DOMAIN work /\ SyncInv(work.y)
  BY BeginningOfItsOwn, SyncBeginsIn
<1>2. work = [of |-> "flowJob", j |-> NewFlowJob] => "j" \in DOMAIN work /\ FlowJobInv(work.j)
  BY NewFlowJobIsAccounted
<1>3. work.of = "flowJob" => work = [of |-> "flowJob", j |-> NewFlowJob]
  BY BeginningOfItsOwn
<1> QED BY <1>1, <1>2, <1>3, InitIsNamed DEF SyncState

LEMMA SyncStateGoesOn ==
  ASSUME SyncState, [Next]_work
  PROVE  SyncState'
<1>1. "of" \in DOMAIN work /\ "of" \in DOMAIN work' /\ work'.of = work.of
  BY NextIsNamed DEF SyncState
<1>2. CASE work' = work
  BY <1>2 DEF SyncState
<1>3. CASE work' # work /\ work.of = "sync"
  <2>1. "y" \in DOMAIN work /\ SyncInv(work.y)
    BY <1>3 DEF SyncState
  <2>2. PICK y \in SyncSteps(work.y) : work' = [work EXCEPT !.y = y]
    BY <1>1, <1>3, StepOfItsOwn
  <2>3. "y" \in DOMAIN work' /\ work'.y = y /\ SyncInv(y)
    BY <2>1, <2>2, SyncStepKeeps
  <2> QED BY <1>1, <1>3, <2>3 DEF SyncState
<1>4. CASE work' # work /\ work.of = "flowJob"
  <2>1. "j" \in DOMAIN work /\ FlowJobInv(work.j)
    BY <1>4 DEF SyncState
  <2>2. PICK j \in FlowJobSteps(work.j) : work' = [work EXCEPT !.j = j]
    BY <1>1, <1>4, StepOfItsOwn
  <2>3. "j" \in DOMAIN work' /\ work'.j = j /\ FlowJobInv(j)
    BY <2>1, <2>2, FlowJobStepKeeps
  <2> QED BY <1>1, <1>4, <2>3 DEF SyncState
<1>5. CASE work.of # "sync" /\ work.of # "flowJob"
  BY <1>1, <1>5 DEF SyncState
<1> QED BY <1>2, <1>3, <1>4, <1>5

\* sync.py, a full-market sync and a capital-flow job: every stock has one outcome,
\* the rows that were fetched are on disk or wait, whatever write fails or cancel
\* comes, and the fill counts of a job that ends are the rows that are on disk now.
THEOREM SyncCorrect == Spec => []SyncAccounted
<1>1. SyncState => SyncAccounted
  BY DEF SyncState, SyncAccounted, SyncInv, FlowJobInv
<1> QED BY <1>1, SyncStateBegins, SyncStateGoesOn, PTL DEF Spec
-----------------------------------------------------------------------------
(* HttpTransport: a request, and the slots of the throttle.                 *)

RequestFields == {"at", "attempt", "spent", "alternate", "log"}
Attempts == [over : {"primary", "alternate"}, reply : Replies, sent : BOOLEAN]

\* All but the last attempt failed, over the first transport in a way that may pass.
RequestInv(r) ==
  /\ DOMAIN r = RequestFields /\ r.log \in Seq(Attempts) /\ r.spent \in 0..Timeout
  /\ RequestIsBounded(r)
  /\ r.at = "primary" =>
       /\ r.attempt \in 1..Retries + 1 /\ Len(r.log) = r.attempt - 1
       /\ \A i \in 1..Len(r.log) : r.log[i].reply = "transient"
  /\ r.at = "alternate" =>
       /\ Len(r.log) \in 1..Retries + 1 /\ r.log[Len(r.log)].reply # "ok"
       /\ \A i \in 1..Len(r.log) - 1 : r.log[i].reply = "transient"
  /\ r.at \in {"primary", "alternate", "answered", "raised"}

LEMMA LogGrows ==
  ASSUME NEW log \in Seq(Attempts), NEW e \in Attempts
  PROVE  /\ Append(log, e) \in Seq(Attempts) /\ Len(log) \in Nat /\ Len(Append(log, e)) = Len(log) + 1
         /\ \A i \in 1..Len(log) : Append(log, e)[i] = log[i]
         /\ Append(log, e)[Len(log) + 1] = e
OBVIOUS

LEMMA RequestStepKeeps ==
  ASSUME NEW r, RequestInv(r), NEW z \in RequestSteps(r)
  PROVE  RequestInv(z)
<1>1. /\ DOMAIN r = RequestFields /\ r.log \in Seq(Attempts) /\ r.spent \in 0..Timeout
      /\ Retries \in Nat /\ Timeout \in Nat
  BY TransportConstants DEF RequestInv
<1>2. PICK reply \in Replies, took \in Nat :
        /\ r.spent + took <= Timeout
        /\ \/ r.at = "primary" /\ z = PrimaryAttempt(r, reply, took)
           \/ r.at = "alternate" /\ z = AlternateAttempt(r, reply, took)
  <2> DEFINE possible == IF Exhausted(r) THEN {<<"transient", 0>>} ELSE Replies \X (0..AttemptTimeout(r))
  <2>1. \A p \in possible : p[1] \in Replies /\ p[2] \in Nat /\ r.spent + p[2] <= Timeout
    BY <1>1 DEF Exhausted, AttemptTimeout, Replies, Failures
  <2>2. \/ r.at = "primary" /\ z \in {PrimaryAttempt(r, p[1], p[2]) : p \in possible}
        \/ r.at = "alternate" /\ z \in {AlternateAttempt(r, p[1], p[2]) : p \in possible}
    BY DEF RequestSteps
  <2> HIDE DEF possible
  <2> QED BY <2>1, <2>2
<1> DEFINE over == IF r.at = "primary" THEN "primary" ELSE "alternate"
           e == [over |-> over, reply |-> reply, sent |-> ~Exhausted(r)]
           log == Append(r.log, e)
           n == Len(r.log)
<1>3. e \in Attempts /\ e.reply = reply /\ e.over = over
  BY DEF Attempts
<1> HIDE DEF e
<1>4. /\ log \in Seq(Attempts) /\ n \in Nat /\ Len(log) = n + 1
      /\ \A i \in 1..n : log[i] = r.log[i]
      /\ log[n + 1] = e
  BY <1>1, <1>3, LogGrows
<1>5. DOMAIN z = RequestFields /\ z.log = log /\ z.spent = r.spent + took /\ z.alternate = r.alternate
  BY <1>1, <1>2 DEF PrimaryAttempt, AlternateAttempt, Attempted, RequestFields, e
<1>6. /\ z.at \in {"primary", "alternate", "answered", "raised"}
      /\ z.at = "primary" =>
           /\ r.at = "primary" /\ reply = "transient" /\ r.attempt < Retries + 1 /\ z.attempt = r.attempt + 1
      /\ z.at = "alternate" => r.at = "primary" /\ reply # "ok"
      /\ z.at = "raised" /\ r.alternate => r.at = "alternate"
  BY <1>1, <1>2 DEF PrimaryAttempt, AlternateAttempt, Attempted, RequestFields
<1> HIDE DEF log
<1>7. \A i \in 1..n - 1 : r.log[i].reply = "transient"
  BY <1>2, <1>4 DEF RequestInv
<1>8. /\ n <= Retries + 1
      /\ r.at = "primary" => /\ r.attempt \in 1..Retries + 1 /\ n = r.attempt - 1
                             /\ \A i \in 1..n : r.log[i].reply = "transient"
      /\ r.at = "alternate" => n >= 1 /\ r.log[n].reply # "ok"
  BY <1>1, <1>2, <1>4 DEF RequestInv
<1>9. \A i \in 1..n : /\ log[i].reply # "ok"
                      /\ log[i].reply = "fatal" => log[i + 1].over = "alternate"
  <2> SUFFICES ASSUME NEW i \in 1..n
               PROVE  log[i].reply # "ok" /\ (log[i].reply = "fatal" => log[i + 1].over = "alternate")
    OBVIOUS
  <2>1. log[i] = r.log[i] /\ i \in Int
    BY <1>4
  <2>2. CASE i # n
    <3>1. i \in 1..n - 1
      BY <1>4, <2>2
    <3> QED BY <1>7, <2>1, <3>1
  <2>3. CASE i = n /\ r.at = "primary"
    BY <1>8, <2>1, <2>3
  <2>4. CASE i = n /\ r.at = "alternate"
    BY <1>3, <1>4, <1>8, <2>1, <2>4
  <2> QED BY <1>2, <2>2, <2>3, <2>4
<1>10. RequestIsBounded(z)
  <2>1. z.spent <= Timeout /\ Len(z.log) <= Retries + 2
    BY <1>1, <1>2, <1>4, <1>5, <1>8
  <2>2. z.at = "raised" /\ z.alternate => z.log[Len(z.log)].over = "alternate"
    BY <1>3, <1>4, <1>5, <1>6
  <2>3. Len(z.log) - 1 = n
    BY <1>4, <1>5
  <2> QED BY <1>5, <1>9, <2>1, <2>2, <2>3 DEF RequestIsBounded
<1>11. z.at = "primary" => /\ z.attempt \in 1..Retries + 1 /\ Len(z.log) = z.attempt - 1
                           /\ \A i \in 1..Len(z.log) : z.log[i].reply = "transient"
  <2> SUFFICES ASSUME z.at = "primary"
               PROVE  /\ z.attempt \in 1..Retries + 1 /\ n + 1 = z.attempt - 1
                      /\ \A i \in 1..n + 1 : log[i].reply = "transient"
    BY <1>4, <1>5
  <2>1. z.attempt \in 1..Retries + 1 /\ n + 1 = z.attempt - 1
    BY <1>1, <1>4, <1>6, <1>8
  <2>2. \A i \in 1..n : log[i].reply = "transient"
    BY <1>4, <1>6, <1>8
  <2>3. log[n + 1].reply = "transient"
    BY <1>3, <1>4, <1>6
  <2> QED BY <1>4, <2>1, <2>2, <2>3
<1>12. z.at = "alternate" => /\ Len(z.log) \in 1..Retries + 1 /\ z.log[Len(z.log)].reply # "ok"
                             /\ \A i \in 1..Len(z.log) - 1 : z.log[i].reply = "transient"
  <2> SUFFICES ASSUME z.at = "alternate"
               PROVE  /\ n + 1 \in 1..Retries + 1 /\ log[n + 1].reply # "ok"
                      /\ \A i \in 1..n : log[i].reply = "transient"
    BY <1>4, <1>5
  <2>1. n + 1 \in 1..Retries + 1
    BY <1>1, <1>4, <1>6, <1>8
  <2>2. \A i \in 1..n : log[i].reply = "transient"
    BY <1>4, <1>6, <1>8
  <2>3. log[n + 1].reply # "ok"
    BY <1>3, <1>4, <1>6
  <2> QED BY <2>1, <2>2, <2>3
<1>13. z.spent \in 0..Timeout
  BY <1>1, <1>2, <1>5
<1> QED BY <1>4, <1>5, <1>6, <1>10, <1>11, <1>12, <1>13 DEF RequestInv

LEMMA NewRequestIsBounded ==
  ASSUME NEW alternate \in BOOLEAN
  PROVE  RequestInv(NewRequest(alternate))
<1> DEFINE r == NewRequest(alternate)
<1>1. DOMAIN r = RequestFields /\ r.at = "primary" /\ r.attempt = 1 /\ r.spent = 0 /\ r.log = <<>>
  BY DEF NewRequest, RequestFields
<1> HIDE DEF r
<1>2. r.log \in Seq(Attempts) /\ Len(r.log) = 0
  BY <1>1
<1> SUFFICES RequestInv(r)
  BY DEF r
<1> QED BY <1>1, <1>2, TransportConstants DEF RequestInv, RequestIsBounded

Sendings == [host : Hosts, asked : Int, out : Int]
SentTo(sent, host) == {i \in 1..Len(sent) : sent[i].host = host}

\* SlotsAreSpaced, of one sending and of those before it to the same host.
Before(sent, j) == {i \in 1..j - 1 : sent[i].host = sent[j].host}
Spaced(sending, before, sent) ==
  IF before = {} \/ HostInterval = 0 THEN sending.out = sending.asked
  ELSE sending.out = Max({sending.asked, sent[Max(before)].out + HostInterval})

LEMMA SpacedOneByOne ==
  ASSUME NEW t
  PROVE  SlotsAreSpaced(t) <=> \A j \in 1..Len(t.sent) : Spaced(t.sent[j], Before(t.sent, j), t.sent)
BY DEF SlotsAreSpaced, Spaced, Before

\* A host that was asked for is free the interval after its last slot.
ThrottleInv(t) ==
  /\ t.now \in Int /\ t.sent \in Seq(Sendings) /\ SlotsAreSpaced(t)
  /\ HostInterval # 0 =>
       /\ DOMAIN t.nextAllowed \subseteq Hosts
       /\ \A h \in Hosts : h \in DOMAIN t.nextAllowed <=> SentTo(t.sent, h) # {}
       /\ \A h \in DOMAIN t.nextAllowed :
            t.nextAllowed[h] = t.sent[Max(SentTo(t.sent, h))].out + HostInterval

LEMMA LastSent ==
  ASSUME NEW sent \in Seq(Sendings), NEW h, SentTo(sent, h) # {}
  PROVE  /\ Max(SentTo(sent, h)) \in 1..Len(sent) /\ sent[Max(SentTo(sent, h))].out \in Int
         /\ \A i \in SentTo(sent, h) : i <= Max(SentTo(sent, h))
<1> DEFINE S == SentTo(sent, h)
<1>1. S \in SUBSET (1..Len(sent)) /\ Len(sent) \in Nat
  BY DEF SentTo
<1>2. IsFiniteSet(S)
  <2>1. IsFiniteSet(1..Len(sent))
    BY <1>1, FS_Interval
  <2> QED BY <1>1, <2>1, FS_Subset
<1> HIDE DEF S
<1>3. S \in SUBSET Int /\ S # {}
  BY <1>1 DEF S
<1>4. Max(S) \in S /\ \A i \in S : i <= Max(S)
  BY <1>2, <1>3, Ends
<1>5. Max(S) \in 1..Len(sent)
  BY <1>1, <1>4
<1>6. sent[Max(S)].out \in Int
  <2> DEFINE m == Max(S)
  <2> HIDE DEF m
  <2>1. m \in 1..Len(sent)
    BY <1>5 DEF m
  <2>2. sent[m] \in Sendings
    BY <2>1
  <2>3. sent[m].out \in Int
    BY <2>2 DEF Sendings
  <2> QED BY <2>3 DEF m
<1> QED BY <1>4, <1>5, <1>6 DEF S

LEMMA SendingsGrow ==
  ASSUME NEW sent \in Seq(Sendings), NEW e \in Sendings
  PROVE  /\ Append(sent, e) \in Seq(Sendings) /\ Len(sent) \in Nat /\ Len(Append(sent, e)) = Len(sent) + 1
         /\ \A i \in 1..Len(sent) : Append(sent, e)[i] = sent[i]
         /\ Append(sent, e)[Len(sent) + 1] = e
OBVIOUS

LEMMA ThrottleStepKeeps ==
  ASSUME NEW t, ThrottleInv(t), NEW host \in Hosts, NEW passed \in Nat
  PROVE  ThrottleInv(Throttled(t, host, passed))
<1> DEFINE now == t.now + passed
           out == Slot(t.nextAllowed, host, now)
           e == [host |-> host, asked |-> now, out |-> out]
           sent == Append(t.sent, e)
           n == Len(t.sent)
           z == Throttled(t, host, passed)
<1>1. t.now \in Int /\ now \in Int /\ t.sent \in Seq(Sendings) /\ HostInterval \in Nat
  BY TransportConstants DEF ThrottleInv
<1>2. z.now = now /\ z.sent = sent /\ z.nextAllowed = Reserve(t.nextAllowed, host, now)
  BY DEF Throttled
<1>3. HostInterval # 0 =>
        /\ DOMAIN t.nextAllowed \subseteq Hosts
        /\ \A h \in Hosts : h \in DOMAIN t.nextAllowed <=> SentTo(t.sent, h) # {}
        /\ \A h \in DOMAIN t.nextAllowed :
             t.nextAllowed[h] = t.sent[Max(SentTo(t.sent, h))].out + HostInterval
  BY DEF ThrottleInv
<1> DEFINE free == t.sent[Max(SentTo(t.sent, host))].out + HostInterval
<1>4. IF SentTo(t.sent, host) = {} \/ HostInterval = 0 THEN out = now ELSE out = Max({now, free})
  <2>1. CASE HostInterval = 0 \/ host \notin DOMAIN t.nextAllowed
    BY <1>3, <2>1 DEF Slot
  <2>2. CASE HostInterval # 0 /\ host \in DOMAIN t.nextAllowed
    <3>1. t.nextAllowed[host] = free /\ SentTo(t.sent, host) # {}
      BY <1>3, <2>2
    <3>2. out = Max({now, t.nextAllowed[host]})
      BY <2>2 DEF Slot
    <3>3. out = Max({now, free})
      BY <3>1, <3>2, Zenon
    <3> QED BY <2>2, <3>1, <3>3
  <2> QED BY <2>1, <2>2
<1> HIDE DEF now, out, z
<1>5. out \in Int
  <2>1. CASE SentTo(t.sent, host) = {} \/ HostInterval = 0
    BY <1>1, <1>4, <2>1
  <2>2. CASE ~(SentTo(t.sent, host) = {} \/ HostInterval = 0)
    <3>1. free \in Int
      BY <1>1, <2>2, LastSent
    <3> HIDE DEF free
    <3>2. Max({now, free}) = IF now >= free THEN now ELSE free
      BY <1>1, <3>1, PairEnds
    <3> QED BY <1>1, <1>4, <2>2, <3>1, <3>2
  <2> QED BY <2>1, <2>2
<1>6. e \in Sendings /\ e.host = host /\ e.asked = now /\ e.out = out
  BY <1>1, <1>5 DEF Sendings
<1> HIDE DEF e
<1>7. /\ sent \in Seq(Sendings) /\ n \in Nat /\ Len(sent) = n + 1
      /\ \A i \in 1..n : sent[i] = t.sent[i]
      /\ sent[n + 1] = e
  BY <1>1, <1>6, SendingsGrow
<1> HIDE DEF sent
<1>8. SlotsAreSpaced(z)
  <2> SUFFICES ASSUME NEW j \in 1..n + 1
               PROVE  Spaced(sent[j], Before(sent, j), sent)
    BY <1>2, <1>7, SpacedOneByOne
  <2>1. CASE j # n + 1
    <3> DEFINE before == Before(t.sent, j)
    <3>1. j \in 1..n /\ sent[j] = t.sent[j]
      BY <1>7, <2>1
    <3>2. Spaced(t.sent[j], before, t.sent)
      BY <3>1, SpacedOneByOne DEF ThrottleInv
    <3>3. Before(sent, j) = before
      BY <1>7, <3>1 DEF Before
    <3>4. before # {} => sent[Max(before)] = t.sent[Max(before)]
      <4> SUFFICES ASSUME before # {} PROVE sent[Max(before)] = t.sent[Max(before)]
        OBVIOUS
      <4>1. before \in SUBSET (1..n) /\ before \in SUBSET Int
        BY <1>7, <3>1 DEF Before
      <4>2. IsFiniteSet(before)
        <5>1. IsFiniteSet(1..n)
          BY <1>7, FS_Interval
        <5> QED BY <4>1, <5>1, FS_Subset
      <4> HIDE DEF before
      <4>3. Max(before) \in before
        BY <4>1, <4>2, Ends
      <4>4. Max(before) \in 1..n
        BY <4>1, <4>3
      <4> QED BY <1>7, <4>4
    <3> HIDE DEF before
    <3>5. Spaced(sent[j], before, sent)
      <4>1. CASE before = {} \/ HostInterval = 0
        BY <3>1, <3>2, <4>1 DEF Spaced
      <4>2. CASE ~(before = {} \/ HostInterval = 0)
        <5>1. t.sent[j].out = Max({t.sent[j].asked, t.sent[Max(before)].out + HostInterval})
          BY <3>2, <4>2 DEF Spaced
        <5>2. sent[j].out = Max({sent[j].asked, sent[Max(before)].out + HostInterval})
          BY <3>1, <3>4, <4>2, <5>1, Zenon
        <5> QED BY <4>2, <5>2 DEF Spaced
      <4> QED BY <4>1, <4>2
    <3> QED BY <3>3, <3>5, Zenon
  <2>2. CASE j = n + 1
    <3> DEFINE before == SentTo(t.sent, host)
    <3>1. Before(sent, j) = before
      BY <1>6, <1>7, <2>2 DEF SentTo, Before
    <3>2. sent[j].out = out /\ sent[j].asked = now
      BY <1>6, <1>7, <2>2
    <3>3. Spaced(sent[j], before, sent)
      <4>1. CASE before = {} \/ HostInterval = 0
        BY <1>4, <3>2, <4>1 DEF Spaced
      <4>2. CASE ~(before = {} \/ HostInterval = 0)
        <5>1. Max(before) \in 1..n
          BY <1>1, <4>2, LastSent
        <5>2. sent[Max(before)] = t.sent[Max(before)]
          BY <1>7, <5>1
        <5>3. out = Max({now, free})
          BY <1>4, <4>2
        <5>4. sent[j].out = Max({sent[j].asked, sent[Max(before)].out + HostInterval})
          BY <3>2, <5>2, <5>3, Zenon
        <5> HIDE DEF before
        <5> QED BY <4>2, <5>4 DEF Spaced
      <4> QED BY <4>1, <4>2
    <3> QED BY <3>1, <3>3, Zenon
  <2> QED BY <2>1, <2>2
<1>9. ASSUME HostInterval # 0
      PROVE  /\ DOMAIN z.nextAllowed \subseteq Hosts
             /\ \A h \in Hosts : h \in DOMAIN z.nextAllowed <=> SentTo(sent, h) # {}
             /\ \A h \in DOMAIN z.nextAllowed :
                  z.nextAllowed[h] = sent[Max(SentTo(sent, h))].out + HostInterval
  <2>1. z.nextAllowed = [h \in DOMAIN t.nextAllowed \cup {host} |->
                           IF h = host THEN out + HostInterval ELSE t.nextAllowed[h]]
    BY <1>2, <1>9 DEF Reserve, out
  <2>2. DOMAIN z.nextAllowed = DOMAIN t.nextAllowed \cup {host}
    BY <2>1
  <2>3. \A h : SentTo(sent, h) = IF h = host THEN SentTo(t.sent, h) \cup {n + 1} ELSE SentTo(t.sent, h)
    BY <1>6, <1>7 DEF SentTo
  <2>4. \A h \in Hosts : h \in DOMAIN z.nextAllowed <=> SentTo(sent, h) # {}
    BY <1>3, <1>9, <2>2, <2>3
  <2>5. z.nextAllowed[host] = sent[Max(SentTo(sent, host))].out + HostInterval
    <3>1. n + 1 \in SentTo(sent, host)
      BY <2>3
    <3>2. /\ Max(SentTo(sent, host)) \in 1..n + 1
          /\ \A i \in SentTo(sent, host) : i <= Max(SentTo(sent, host))
      BY <1>7, <3>1, LastSent
    <3>3. Max(SentTo(sent, host)) = n + 1
      BY <1>7, <3>1, <3>2
    <3>4. sent[Max(SentTo(sent, host))].out = out
      BY <1>6, <1>7, <3>3
    <3> QED BY <2>1, <3>4
  <2>6. ASSUME NEW h \in DOMAIN t.nextAllowed, h # host
        PROVE  z.nextAllowed[h] = sent[Max(SentTo(sent, h))].out + HostInterval
    <3>1. h \in Hosts /\ SentTo(t.sent, h) # {}
          /\ t.nextAllowed[h] = t.sent[Max(SentTo(t.sent, h))].out + HostInterval
      BY <1>3, <1>9, <2>6
    <3>2. Max(SentTo(t.sent, h)) \in 1..n
      BY <1>1, <3>1, LastSent
    <3>3. SentTo(sent, h) = SentTo(t.sent, h)
      BY <2>3, <2>6
    <3>4. Max(SentTo(sent, h)) = Max(SentTo(t.sent, h))
      BY <3>3, Zenon
    <3>5. sent[Max(SentTo(sent, h))] = t.sent[Max(SentTo(t.sent, h))]
      BY <1>7, <3>2, <3>4
    <3> QED BY <2>1, <2>6, <3>1, <3>5
  <2>7. DOMAIN z.nextAllowed \subseteq Hosts
    BY <1>3, <1>9, <2>2
  <2> QED BY <2>2, <2>4, <2>5, <2>6, <2>7
<1>10. z.now \in Int /\ z.sent \in Seq(Sendings)
  BY <1>1, <1>2, <1>7
<1> QED BY <1>2, <1>8, <1>9, <1>10 DEF ThrottleInv, z

LEMMA NewThrottleIsSpaced == ThrottleInv(NewThrottle)
<1>1. /\ NewThrottle.now = 0 /\ NewThrottle.sent = <<>> /\ NewThrottle.nextAllowed = <<>>
  BY DEF NewThrottle
<1>2. Len(NewThrottle.sent) = 0 /\ NewThrottle.sent \in Seq(Sendings) /\ DOMAIN NewThrottle.nextAllowed = {}
  BY <1>1
<1>3. \A h : SentTo(NewThrottle.sent, h) = {}
  BY <1>2 DEF SentTo
<1>4. SlotsAreSpaced(NewThrottle)
  BY <1>2 DEF SlotsAreSpaced
<1> QED BY <1>1, <1>2, <1>3, <1>4 DEF ThrottleInv

-----------------------------------------------------------------------------
(* KlineFetch.                                                              *)

LEMMA SubsetsAreFinite ==
  ASSUME NEW S, IsFiniteSet(S), NEW T \in SUBSET S
  PROVE  IsFiniteSet(T) /\ Cardinality(T) \in Nat /\ Cardinality(S) \in Nat /\ Cardinality(T) <= Cardinality(S)
BY FS_Subset, FS_CardinalityType

\* The newest n days of a history leave out only older days, and are n if any is left out.
LEMMA NewestAreLast ==
  ASSUME NEW S \in SUBSET Int, IsFiniteSet(S), NEW n \in Nat
  PROVE  /\ Newest(S, n) \in SUBSET S
         /\ \A d \in Newest(S, n), e \in S : e > d => e \in Newest(S, n)
         /\ n > 0 /\ S # {} => Newest(S, n) # {}
         /\ S # Newest(S, n) => Cardinality(Newest(S, n)) >= n
<1> DEFINE later(d) == {e \in S : e > d}
           N == Newest(S, n)
<1>1. \A d \in S : IsFiniteSet(later(d)) /\ Cardinality(later(d)) \in Nat
  BY SubsetsAreFinite
<1>2. N = {d \in S : Cardinality(later(d)) < n}
  BY DEF Newest
<1>3. ASSUME NEW d \in N, NEW e \in S, e > d PROVE e \in N
  <2> HIDE DEF N
  <2>1. d \in S /\ d \in Int /\ e \in Int
    BY <1>2
  <2>2. later(e) \in SUBSET later(d)
    <3> SUFFICES ASSUME NEW x \in S, x > e PROVE x > d
      OBVIOUS
    <3>1. x \in Int
      OBVIOUS
    <3> QED BY <1>3, <2>1, <3>1
  <2>3. Cardinality(later(e)) <= Cardinality(later(d)) /\ Cardinality(later(e)) \in Nat
        /\ Cardinality(later(d)) \in Nat
    BY <1>1, <2>1, <2>2, SubsetsAreFinite
  <2>4. Cardinality(later(d)) < n
    BY <1>2
  <2> HIDE DEF later
  <2>5. Cardinality(later(e)) < n
    BY <2>3, <2>4
  <2> QED BY <1>2, <2>5
<1>4. ASSUME n > 0, S # {} PROVE N # {}
  <2>1. PICK m \in S : \A y \in S : y <= m
    BY <1>4, Ends
  <2>2. later(m) = {}
    <3> SUFFICES ASSUME NEW e \in S, e > m PROVE FALSE
      OBVIOUS
    <3>1. e \in Int /\ m \in Int /\ e <= m
      BY <2>1
    <3> QED BY <3>1
  <2>3. Cardinality(later(m)) = 0
    BY <2>2, FS_EmptySet
  <2> QED BY <1>2, <1>4, <2>1, <2>3
<1>5. ASSUME S # N PROVE Cardinality(N) >= n
  <2> DEFINE rest == S \ N
  <2>1. rest \in SUBSET S /\ rest \in SUBSET Int /\ rest # {}
    BY <1>2, <1>5
  <2>2. IsFiniteSet(rest)
    BY <2>1, SubsetsAreFinite
  <2> DEFINE m == Max(rest)
  <2>3. m \in rest /\ \A y \in rest : y <= m
    <3> HIDE DEF rest
    <3> QED BY <2>1, <2>2, Ends
  <2> HIDE DEF m
  <2>4. later(m) \in SUBSET N
    <3> SUFFICES ASSUME NEW e \in S, e > m, e \notin N PROVE FALSE
      OBVIOUS
    <3>1. e \in rest /\ e \in Int /\ m \in Int
      BY <2>1, <2>3
    <3> QED BY <2>3, <3>1
  <2>5. N \in SUBSET S
    BY <1>2
  <2>6. IsFiniteSet(N) /\ Cardinality(N) \in Nat
    BY <2>5, SubsetsAreFinite
  <2>7. Cardinality(later(m)) <= Cardinality(N)
    BY <2>4, <2>6, SubsetsAreFinite
  <2>8. ~(Cardinality(later(m)) < n) /\ Cardinality(later(m)) \in Nat
    BY <1>1, <1>2, <2>3
  <2> HIDE DEF later, N
  <2> QED BY <2>6, <2>7, <2>8
<1> QED BY <1>2, <1>3, <1>4, <1>5

KlineFields == {"at", "start", "end", "cursor", "pages", "rows", "walk", "warned", "bars", "source"}

\* What a source is asked about, in a window that has room for what the stock traded.
KlineAsks(f, listed) ==
  /\ DOMAIN f = KlineFields /\ f.start \in Int /\ f.end \in Int /\ f.cursor \in Int /\ f.pages \in Int
  /\ listed \in SUBSET Int /\ IsFiniteSet(listed) /\ f.rows \in SUBSET listed
  /\ Cardinality({d \in listed : f.start <= d /\ d <= f.end}) <= SinaWindow(f.start, f.end)

Warm(f, listed) == {d \in listed : WarmupStart(f.start) <= d /\ d <= f.end}

\* Every day of the window that the walk has passed has been gathered.
KlineInv(f, listed) ==
  /\ KlineAsks(f, listed) /\ BarsAreComplete(f, listed)
  /\ f.at # "done" => f.bars = {} /\ f.source = "none"
  /\ f.at = "tencent" => \A d \in Warm(f, listed) : d > f.cursor => d \in f.rows

LEMMA AcceptIsSound ==
  ASSUME NEW f, NEW listed, KlineAsks(f, listed), f.bars = {}, f.source = "none", NEW rows \in SUBSET listed,
         NEW source \in {"tencent", "sina", "baidu"}, NEW following \in {"sina", "baidu", "done"},
         source = "tencent" /\ f.walk \in {"covered", "empty"} => Warm(f, listed) \subseteq rows,
         source = "sina" /\ f.end >= Max(listed) /\ (\E d \in rows : f.start <= d /\ d <= f.end) =>
           Wanted(f, listed) \subseteq rows \/ f.warned
  PROVE  KlineInv(Accept(f, source, rows, following), listed)
<1> DEFINE z == Accept(f, source, rows, following)
           clipped == {d \in rows : f.start <= d /\ d <= f.end}
<1>1. /\ DOMAIN z = KlineFields /\ z.start = f.start /\ z.end = f.end /\ z.cursor = f.cursor
      /\ z.pages = f.pages /\ z.walk = f.walk /\ z.warned = f.warned
      /\ \/ /\ clipped # {} /\ z.at = "done" /\ z.bars = clipped /\ z.rows = rows /\ z.source = source
         \/ z.at = following /\ z.rows = {} /\ z.bars = {} /\ z.source = "none"
  BY DEF Accept, KlineAsks, KlineFields
<1> HIDE DEF z
<1>2. KlineAsks(z, listed)
  BY <1>1 DEF KlineAsks
<1>3. Wanted(z, listed) = Wanted(f, listed) /\ Warm(z, listed) = Warm(f, listed)
      /\ clipped \subseteq Wanted(f, listed)
  BY <1>1 DEF Wanted, Warm
<1>4. Wanted(f, listed) \subseteq rows => clipped = Wanted(f, listed)
  BY <1>3 DEF Wanted
<1>5. Wanted(f, listed) \subseteq Warm(f, listed)
  <2>1. f.start \in Int /\ listed \in SUBSET Int /\ WarmupDays \in Nat
    BY KlineConstants DEF KlineAsks
  <2> SUFFICES ASSUME NEW d \in listed, f.start <= d, d <= f.end
               PROVE  f.start - WarmupDays <= d
    BY DEF Wanted, Warm, WarmupStart
  <2>2. d \in Int
    BY <2>1
  <2> QED BY <2>1, <2>2
<1>6. CASE z.at = following /\ z.rows = {} /\ z.bars = {} /\ z.source = "none"
  BY <1>2, <1>6 DEF KlineInv, BarsAreComplete, z
<1>7. CASE clipped # {} /\ z.at = "done" /\ z.bars = clipped /\ z.rows = rows /\ z.source = source
  <2>1. z.source = "tencent" /\ z.walk \in {"covered", "empty"} =>
          z.bars = Wanted(z, listed) /\ Warm(z, listed) \subseteq z.rows
    BY <1>1, <1>3, <1>4, <1>5, <1>7
  <2>2. z.source = "sina" /\ z.end >= Max(listed) => z.bars = Wanted(z, listed) \/ z.warned
    <3> SUFFICES ASSUME source = "sina", f.end >= Max(listed) PROVE clipped = Wanted(f, listed) \/ f.warned
      BY <1>1, <1>3, <1>7, Zenon
    <3>1. Wanted(f, listed) \subseteq rows \/ f.warned
      BY <1>7
    <3> QED BY <1>4, <3>1
  <2>3. BarsAreComplete(z, listed)
    BY <1>3, <1>7, <2>1, <2>2 DEF BarsAreComplete, Warm
  <2> QED BY <1>2, <1>7, <2>3 DEF KlineInv, z
<1> QED BY <1>1, <1>6, <1>7

\* A page holds all the days of the window between its oldest and the cursor, and
\* an empty one means that there are none up to the cursor.
PageIsWhole(f, listed, page) ==
  /\ page \in SUBSET listed
  /\ page = {} => \A d \in Warm(f, listed) : d > f.cursor
  /\ page # {} => \A d \in Warm(f, listed) : Min(page) <= d /\ d <= f.cursor => d \in page

LEMMA PagesAreWhole ==
  ASSUME NEW f, NEW listed, KlineAsks(f, listed)
  PROVE  /\ PageIsWhole(f, listed, TencentAnswers(f, listed))
         /\ PageIsWhole(f, listed, Newest(listed, PageSize))
<1>1. listed \in SUBSET Int /\ IsFiniteSet(listed) /\ f.cursor \in Int /\ PageSize \in Nat /\ PageSize > 0
  BY KlineConstants DEF KlineAsks
<1>2. ASSUME NEW S \in SUBSET listed, \A d \in Warm(f, listed) : d <= f.cursor => d \in S
      PROVE  PageIsWhole(f, listed, Newest(S, PageSize))
  <2>1. S \in SUBSET Int /\ IsFiniteSet(S)
    BY <1>1, SubsetsAreFinite
  <2> DEFINE page == Newest(S, PageSize)
  <2>2. /\ page \in SUBSET S
        /\ \A d \in page, e \in S : e > d => e \in page
        /\ S # {} => page # {}
    BY <1>1, <2>1, NewestAreLast
  <2> HIDE DEF page
  <2>3. page = {} => \A d \in Warm(f, listed) : d > f.cursor
    <3> SUFFICES ASSUME page = {}, NEW d \in Warm(f, listed) PROVE d > f.cursor
      OBVIOUS
    <3>1. d \in Int /\ ~(d <= f.cursor)
      BY <1>1, <1>2, <2>2 DEF Warm
    <3> QED BY <1>1, <3>1
  <2>4. ASSUME page # {}, NEW d \in Warm(f, listed), Min(page) <= d, d <= f.cursor
        PROVE  d \in page
    <3>1. page \in SUBSET Int /\ IsFiniteSet(page)
      BY <2>1, <2>2, SubsetsAreFinite
    <3>2. PICK m \in page : m = Min(page)
      BY <2>4, <3>1, Ends
    <3>3. d \in S /\ d \in Int /\ m \in Int /\ m <= d
      BY <1>2, <2>1, <2>4, <3>1, <3>2
    <3>4. CASE d = m
      BY <3>2, <3>4
    <3>5. CASE d > m
      BY <2>2, <3>2, <3>3, <3>5
    <3> QED BY <3>3, <3>4, <3>5
  <2> QED BY <2>2, <2>3, <2>4 DEF PageIsWhole, page
<1> DEFINE upTo == {d \in listed : WarmupStart(f.start) <= d /\ d <= f.cursor}
<1>3. PageIsWhole(f, listed, Newest(upTo, PageSize))
  <2>1. upTo \in SUBSET listed /\ \A d \in Warm(f, listed) : d <= f.cursor => d \in upTo
    BY DEF Warm
  <2> HIDE DEF upTo
  <2> QED BY <1>2, <2>1
<1>4. PageIsWhole(f, listed, Newest(listed, PageSize))
  BY <1>2 DEF Warm
<1> QED BY <1>3, <1>4 DEF TencentAnswers

\* The walk ends, for whatever reason but "covered" or "empty" with what it has.
LEMMA EndOfWalkIsSound ==
  ASSUME NEW f, NEW listed, KlineAsks(f, listed), f.bars = {}, f.source = "none",
         NEW why \in {"covered", "empty", "capped", "late", "stuck"},
         why \in {"covered", "empty"} => Warm(f, listed) \subseteq f.rows
  PROVE  KlineInv(EndWalk(f, why), listed)
<1> DEFINE g == [f EXCEPT !.walk = why]
<1>1. /\ DOMAIN g = KlineFields /\ g.start = f.start /\ g.end = f.end /\ g.cursor = f.cursor
      /\ g.pages = f.pages /\ g.rows = f.rows /\ g.walk = why /\ g.bars = f.bars /\ g.source = f.source
  BY DEF KlineAsks, KlineFields
<1>2. EndWalk(f, why) = Accept(g, "tencent", f.rows, "sina")
  BY DEF EndWalk
<1> HIDE DEF g
<1>3. KlineAsks(g, listed) /\ f.rows \in SUBSET listed
  BY <1>1 DEF KlineAsks
<1>4. Warm(g, listed) = Warm(f, listed)
  BY <1>1 DEF Warm
<1>5. g.walk \in {"covered", "empty"} => Warm(g, listed) \subseteq f.rows
  BY <1>1, <1>4
<1>6. g.bars = {} /\ g.source = "none"
  BY <1>1
<1>7. KlineInv(Accept(g, "tencent", f.rows, "sina"), listed)
  BY <1>3, <1>5, <1>6, AcceptIsSound
<1> QED BY <1>2, <1>7

LEMMA PageKeeps ==
  ASSUME NEW f, NEW listed, KlineInv(f, listed), f.at = "tencent", NEW page, PageIsWhole(f, listed, page)
  PROVE  KlineInv(TencentPage(f, page), listed)
<1> DEFINE asked == [f EXCEPT !.pages = @ + 1]
           gathered == [asked EXCEPT !.rows = @ \cup page]
<1>1. /\ KlineAsks(f, listed) /\ f.bars = {} /\ f.source = "none" /\ page \in SUBSET listed
      /\ \A d \in Warm(f, listed) : d > f.cursor => d \in f.rows
      /\ DOMAIN f = KlineFields /\ f.pages \in Int /\ f.cursor \in Int /\ listed \in SUBSET Int
  BY DEF KlineInv, PageIsWhole, KlineAsks
<1>2. /\ DOMAIN asked = KlineFields /\ asked.start = f.start /\ asked.end = f.end /\ asked.cursor = f.cursor
      /\ asked.pages = f.pages + 1 /\ asked.rows = f.rows /\ asked.bars = f.bars /\ asked.source = f.source
      /\ asked.at = f.at
  BY <1>1 DEF KlineFields
<1>3. /\ DOMAIN gathered = KlineFields /\ gathered.start = f.start /\ gathered.end = f.end
      /\ gathered.cursor = f.cursor /\ gathered.pages = f.pages + 1 /\ gathered.rows = f.rows \cup page
      /\ gathered.bars = f.bars /\ gathered.source = f.source /\ gathered.at = f.at
  BY <1>1 DEF KlineFields
<1>4. TencentPage(f, page) =
        IF page = {} THEN EndWalk(asked, "empty")
        ELSE IF ~Rewinds(f, page) THEN EndWalk(asked, "stuck")
        ELSE IF Min(page) <= WarmupStart(f.start) THEN EndWalk(gathered, "covered")
        ELSE [gathered EXCEPT !.cursor = Min(page) - 1]
  BY DEF TencentPage
<1> HIDE DEF asked, gathered
<1>5. KlineAsks(asked, listed) /\ KlineAsks(gathered, listed)
  <2>1. KlineAsks(asked, listed)
    BY <1>1, <1>2 DEF KlineAsks
  <2>2. KlineAsks(gathered, listed)
    <3>1. f.rows \in SUBSET listed
      BY <1>1 DEF KlineAsks
    <3>2. f.rows \cup page \in SUBSET listed
      BY <1>1, <3>1
    <3>3. gathered.rows \in SUBSET listed
      BY <1>3, <3>2, Zenon
    <3>4. gathered.pages \in Int
      BY <1>1, <1>3
    <3> QED BY <1>1, <1>3, <3>3, <3>4 DEF KlineAsks
  <2> QED BY <2>1, <2>2
<1>6. Warm(asked, listed) = Warm(f, listed) /\ Warm(gathered, listed) = Warm(f, listed)
  BY <1>2, <1>3 DEF Warm
<1>7. Warm(f, listed) \in SUBSET Int
  BY <1>1 DEF Warm
<1>8. page # {} => Min(page) \in Int
  <2>1. page \in SUBSET Int /\ IsFiniteSet(page)
    BY <1>1, SubsetsAreFinite DEF KlineAsks
  <2> QED BY <2>1, Ends
<1>9. CASE page = {}
  <2>1. Warm(asked, listed) \subseteq asked.rows
    BY <1>1, <1>2, <1>6, <1>9 DEF PageIsWhole
  <2> QED BY <1>1, <1>2, <1>4, <1>5, <1>9, <2>1, EndOfWalkIsSound
<1>10. CASE page # {} /\ ~Rewinds(f, page)
  BY <1>1, <1>2, <1>4, <1>5, <1>10, EndOfWalkIsSound
<1>11. ASSUME page # {}, NEW d \in Warm(f, listed), Min(page) <= d
       PROVE  d \in gathered.rows
  <2>1. d \in Int
    BY <1>7
  <2>2. CASE d > f.cursor
    BY <1>1, <1>3, <2>2
  <2>3. CASE d <= f.cursor
    BY <1>3, <1>11, <2>3 DEF PageIsWhole
  <2> QED BY <1>1, <2>1, <2>2, <2>3
<1>12. CASE page # {} /\ Rewinds(f, page) /\ Min(page) <= WarmupStart(f.start)
  <2>1. WarmupStart(f.start) \in Int
    BY <1>1, KlineConstants DEF KlineAsks, WarmupStart
  <2>2. \A d \in Warm(f, listed) : Min(page) <= d
    BY <1>7, <1>8, <1>12, <2>1 DEF Warm
  <2>3. Warm(gathered, listed) \subseteq gathered.rows
    BY <1>6, <1>11, <1>12, <2>2
  <2> QED BY <1>1, <1>3, <1>4, <1>5, <1>12, <2>3, EndOfWalkIsSound
<1>13. CASE page # {} /\ Rewinds(f, page) /\ ~(Min(page) <= WarmupStart(f.start))
  <2> DEFINE z == [gathered EXCEPT !.cursor = Min(page) - 1]
  <2>1. /\ DOMAIN z = KlineFields /\ z.start = f.start /\ z.end = f.end /\ z.cursor = Min(page) - 1
        /\ z.pages = f.pages + 1 /\ z.rows = gathered.rows /\ z.bars = {} /\ z.source = "none"
        /\ z.at = "tencent"
    BY <1>1, <1>3 DEF KlineFields
  <2>2. TencentPage(f, page) = z
    BY <1>4, <1>13
  <2> HIDE DEF z
  <2>3. KlineAsks(z, listed)
    BY <1>3, <1>5, <1>8, <1>13, <2>1 DEF KlineAsks
  <2>4. Warm(z, listed) = Warm(f, listed)
    BY <2>1 DEF Warm
  <2>5. ASSUME NEW d \in Warm(z, listed), d > z.cursor PROVE d \in z.rows
    <3>1. d \in Warm(f, listed) /\ d \in Int
      BY <1>7, <2>4
    <3>2. Min(page) <= d
      BY <1>8, <1>13, <2>1, <2>5, <3>1
    <3> QED BY <1>11, <1>13, <2>1, <3>1, <3>2
  <2>6. KlineInv(z, listed)
    BY <2>1, <2>3, <2>5 DEF KlineInv, BarsAreComplete
  <2> QED BY <2>2, <2>6
<1> QED BY <1>9, <1>10, <1>12, <1>13

\* Sina's newest bars miss a day of the window only when they are fewer than the
\* window needs, and then the gap is reported.
LEMMA SinaKeeps ==
  ASSUME NEW f, NEW listed, KlineInv(f, listed), f.at = "sina"
  PROVE  KlineInv(SinaRows(f, SinaAnswers(f, listed)), listed)
<1> DEFINE needed == SinaWindow(f.start, f.end)
           n == Min({needed, SinaMax})
           rows == SinaAnswers(f, listed)
           clamped == needed > SinaMax /\ rows # {} /\ Cardinality(rows) >= SinaMax /\ Min(rows) > f.start
           g == [f EXCEPT !.warned = clamped]
           asked == {d \in listed : f.start <= d /\ d <= f.end}
<1>1. /\ KlineAsks(f, listed) /\ f.bars = {} /\ f.source = "none"
      /\ DOMAIN f = KlineFields /\ f.start \in Int /\ f.end \in Int
      /\ listed \in SUBSET Int /\ IsFiniteSet(listed) /\ Cardinality(asked) <= needed
  BY DEF KlineInv, KlineAsks
<1>2. needed \in Nat /\ needed > 0 /\ SinaMax \in Nat /\ SinaMax > 0
  <2> DEFINE span == ((f.end - f.start) * 936) \div 1000 + SinaSlack
  <2>1. span \in Int /\ SinaSlack \in Nat /\ SinaSlack > 0 /\ SinaMax \in Nat /\ SinaMax > 0
    BY <1>1, KlineConstants
  <2>2. needed = Max({SinaSlack, span})
    BY DEF SinaWindow
  <2> HIDE DEF span
  <2>3. Max({SinaSlack, span}) = IF SinaSlack >= span THEN SinaSlack ELSE span
    BY <2>1, PairEnds
  <2> HIDE DEF needed
  <2> QED BY <2>1, <2>2, <2>3
<1> HIDE DEF needed
<1>3. n = IF needed <= SinaMax THEN needed ELSE SinaMax
  <2>1. needed \in Int /\ SinaMax \in Int
    BY <1>2
  <2> QED BY <2>1, PairEnds
<1>4. n \in Nat /\ n > 0
  BY <1>2, <1>3
<1>5. rows = Newest(listed, n)
  BY DEF SinaAnswers, needed
<1>6. SinaRows(f, rows) = Accept(g, "sina", rows, "baidu")
  BY DEF SinaRows, needed
<1> HIDE DEF rows, n
<1>7. /\ rows \in SUBSET listed
      /\ \A d \in rows, e \in listed : e > d => e \in rows
      /\ listed # rows => Cardinality(rows) >= n
  BY <1>1, <1>4, <1>5, NewestAreLast
<1>8. /\ DOMAIN g = KlineFields /\ g.start = f.start /\ g.end = f.end /\ g.cursor = f.cursor
      /\ g.pages = f.pages /\ g.rows = f.rows /\ g.bars = f.bars /\ g.source = f.source
      /\ g.warned = clamped
  BY <1>1 DEF KlineFields
<1> HIDE DEF g
<1>9. KlineAsks(g, listed)
  BY <1>1, <1>8 DEF KlineAsks
<1>10. ASSUME f.end >= Max(listed), NEW b \in rows, NEW d \in asked, d \notin rows
       PROVE  clamped
  <2>1. d \in listed /\ d \in Int /\ f.start <= d /\ d <= f.end /\ asked \in SUBSET listed
    BY <1>1
  <2>2. \A e \in listed : e <= Max(listed) /\ Max(listed) \in Int
    BY <1>1, <2>1, Ends
  <2>3. rows \in SUBSET asked \ {d}
    <3> SUFFICES ASSUME NEW e \in rows PROVE f.start <= e /\ e <= f.end /\ e # d
      BY <1>7
    <3>1. e \in Int /\ e \in listed
      BY <1>1, <1>7
    <3>2. e <= f.end
      BY <1>1, <1>10, <2>2, <3>1
    <3>3. ~(d > e)
      BY <1>7, <1>10, <2>1
    <3> QED BY <1>1, <1>10, <2>1, <3>1, <3>2, <3>3
  <2>4. IsFiniteSet(asked) /\ Cardinality(asked) \in Nat
    <3> HIDE DEF asked
    <3> QED BY <1>1, <2>1, SubsetsAreFinite
  <2>5. Cardinality(asked \ {d}) = Cardinality(asked) - 1 /\ IsFiniteSet(asked \ {d})
    <3>1. d \in asked
      OBVIOUS
    <3> HIDE DEF asked
    <3> QED BY <2>4, <3>1, FS_RemoveElement
  <2>6. Cardinality(rows) <= Cardinality(asked \ {d}) /\ Cardinality(rows) \in Nat
    BY <2>3, <2>5, SubsetsAreFinite
  <2>7. Cardinality(rows) >= n
    BY <1>7, <1>10, <2>1
  <2>8. n < needed
    <3> HIDE DEF asked
    <3> QED BY <1>1, <1>2, <1>4, <2>4, <2>5, <2>6, <2>7
  <2>9. needed > SinaMax /\ n = SinaMax
    BY <1>2, <1>3, <2>8
  <2>10. Min(rows) > f.start
    <3>1. rows \in SUBSET Int /\ IsFiniteSet(rows)
      BY <1>1, <1>7, SubsetsAreFinite
    <3>2. PICK m \in rows : m = Min(rows)
      BY <3>1, Ends
    <3>3. ~(d > m) /\ m \in Int /\ m # d
      BY <1>7, <1>10, <2>1, <3>1
    <3> QED BY <1>1, <2>1, <3>2, <3>3
  <2> QED BY <2>7, <2>9, <2>10
<1>11. g.end >= Max(listed) /\ (\E d \in rows : g.start <= d /\ d <= g.end) =>
         Wanted(g, listed) \subseteq rows \/ g.warned
  <2> SUFFICES ASSUME f.end >= Max(listed), NEW b \in rows, NEW d \in asked, d \notin rows PROVE clamped
    BY <1>8 DEF Wanted
  <2> QED BY <1>10
<1>12. g.bars = {} /\ g.source = "none"
  BY <1>1, <1>8
<1>13. KlineInv(Accept(g, "sina", rows, "baidu"), listed)
  BY <1>7, <1>9, <1>11, <1>12, AcceptIsSound
<1> QED BY <1>6, <1>13 DEF rows

LEMMA FetchStepKeeps ==
  ASSUME NEW f, NEW listed, KlineInv(f, listed), NEW z \in FetchSteps(f, listed)
  PROVE  KlineInv(z, listed)
<1>1. /\ f.at \in {"tencent", "sina", "baidu"} /\ KlineAsks(f, listed) /\ f.bars = {} /\ f.source = "none"
      /\ DOMAIN f = KlineFields /\ f.cursor \in Int /\ f.start \in Int /\ listed \in SUBSET Int
  <2>1. f.at \in {"tencent", "sina", "baidu"}
    BY DEF FetchSteps
  <2> QED BY <2>1 DEF KlineInv, KlineAsks
<1>2. CASE f.at = "tencent" /\ z = StopWalk(f)
  <2>1. CASE f.cursor < WarmupStart(f.start)
    <3>1. Warm(f, listed) \subseteq f.rows
      <4> SUFFICES ASSUME NEW d \in Warm(f, listed) PROVE d \in f.rows
        OBVIOUS
      <4>1. d \in Int /\ WarmupStart(f.start) <= d /\ WarmupStart(f.start) \in Int
        BY <1>1, KlineConstants DEF Warm, WarmupStart
      <4>2. d > f.cursor
        BY <1>1, <2>1, <4>1
      <4> QED BY <1>2, <4>2 DEF KlineInv
    <3> QED BY <1>1, <1>2, <2>1, <3>1, EndOfWalkIsSound DEF StopWalk
  <2>2. CASE ~(f.cursor < WarmupStart(f.start))
    BY <1>1, <1>2, <2>2, EndOfWalkIsSound DEF StopWalk
  <2> QED BY <2>1, <2>2
<1>3. CASE \E page \in {TencentAnswers(f, listed), Newest(listed, PageSize)} :
             f.at = "tencent" /\ z = TencentPage(f, page)
  BY <1>1, <1>3, PagesAreWhole, PageKeeps
<1>4. CASE z = TencentFails(f)
  <2>1. /\ DOMAIN z = KlineFields /\ z.start = f.start /\ z.end = f.end /\ z.cursor = f.cursor
        /\ z.pages = f.pages /\ z.rows = {} /\ z.bars = f.bars /\ z.source = f.source /\ z.at = "sina"
    BY <1>1, <1>4 DEF TencentFails, KlineFields
  <2>2. KlineAsks(z, listed)
    BY <1>1, <2>1 DEF KlineAsks
  <2> QED BY <1>1, <2>1, <2>2 DEF KlineInv, BarsAreComplete
<1>5. CASE z = BudgetOver(f)
  BY <1>1, <1>5, EndOfWalkIsSound DEF BudgetOver
<1>6. CASE f.at = "sina" /\ z = SinaRows(f, SinaAnswers(f, listed))
  BY <1>6, SinaKeeps
<1>7. CASE z = SinaFails(f)
  <2>1. /\ DOMAIN z = KlineFields /\ z.start = f.start /\ z.end = f.end /\ z.cursor = f.cursor
        /\ z.pages = f.pages /\ z.rows = f.rows /\ z.bars = f.bars /\ z.source = f.source /\ z.at = "baidu"
    BY <1>1, <1>7 DEF SinaFails, KlineFields
  <2>2. KlineAsks(z, listed)
    BY <1>1, <2>1 DEF KlineAsks
  <2> QED BY <1>1, <2>1, <2>2 DEF KlineInv, BarsAreComplete
<1>8. CASE \E rows \in {BaiduAnswers(f, listed), {}} : z = BaiduRows(f, rows)
  <2>1. PICK rows \in {BaiduAnswers(f, listed), {}} : z = BaiduRows(f, rows)
    BY <1>8
  <2>2. rows \in SUBSET listed
    BY DEF BaiduAnswers
  <2> QED BY <1>1, <2>1, <2>2, AcceptIsSound DEF BaiduRows
<1>9. /\ f.at = "tencent" => \/ z = StopWalk(f) \/ z = TencentFails(f) \/ z = BudgetOver(f)
                             \/ z = TencentPage(f, TencentAnswers(f, listed))
                             \/ z = TencentPage(f, Newest(listed, PageSize))
      /\ f.at = "sina" => z = SinaRows(f, SinaAnswers(f, listed)) \/ z = SinaFails(f)
      /\ f.at = "baidu" => z = BaiduRows(f, BaiduAnswers(f, listed)) \/ z = BaiduRows(f, {})
  BY DEF FetchSteps
<1> QED BY <1>1, <1>2, <1>3, <1>4, <1>5, <1>6, <1>7, <1>8, <1>9

LEMMA NewFetchIsSound ==
  ASSUME NEW w \in Windows, NEW listed \in Histories, NEW board
  PROVE  KlineInv(NewFetch(board, w[1], w[2]), listed)
<1> DEFINE f == NewFetch(board, w[1], w[2])
<1>1. w[1] \in Int /\ w[2] \in Int /\ listed \in SUBSET Int /\ IsFiniteSet(listed)
      /\ Cardinality({d \in listed : w[1] <= d /\ d <= w[2]}) <= SinaWindow(w[1], w[2])
  BY ProcedureAssumption
<1>2. /\ DOMAIN f = KlineFields /\ f.at \in {"sina", "tencent"} /\ f.start = w[1] /\ f.end = w[2]
      /\ f.cursor = w[2] /\ f.pages = 0 /\ f.rows = {} /\ f.bars = {} /\ f.source = "none"
  BY DEF NewFetch, KlineFields
<1> SUFFICES KlineInv(f, listed)
  OBVIOUS
<1> HIDE DEF f
<1>3. KlineAsks(f, listed)
  BY <1>1, <1>2 DEF KlineAsks
<1>4. ASSUME NEW d \in Warm(f, listed) PROVE ~(d > f.cursor)
  <2>1. d \in listed /\ d <= f.end
    BY DEF Warm
  <2>2. d \in Int /\ f.end \in Int /\ f.cursor = f.end
    BY <1>1, <1>2, <2>1
  <2> QED BY <2>1, <2>2
<1> QED BY <1>2, <1>3, <1>4 DEF KlineInv, BarsAreComplete

BarsState ==
  /\ "of" \in DOMAIN work
  /\ work.of = "request" => "r" \in DOMAIN work /\ RequestInv(work.r)
  /\ work.of = "throttle" => "t" \in DOMAIN work /\ ThrottleInv(work.t)
  /\ work.of = "bars" => "f" \in DOMAIN work /\ "listed" \in DOMAIN work /\ KlineInv(work.f, work.listed)

LEMMA BarsStateBegins ==
  ASSUME Init
  PROVE  BarsState
<1>1. CASE work.of = "request"
  <2>1. PICK alternate \in BOOLEAN : work = [of |-> "request", r |-> NewRequest(alternate)]
    BY <1>1, BeginningOfItsOwn
  <2>2. work.r = NewRequest(alternate) /\ "r" \in DOMAIN work
    BY <2>1
  <2> QED BY <1>1, <2>2, InitIsNamed, NewRequestIsBounded DEF BarsState
<1>2. CASE work.of = "throttle"
  <2>1. work = [of |-> "throttle", t |-> NewThrottle]
    BY <1>2, BeginningOfItsOwn
  <2>2. work.t = NewThrottle /\ "t" \in DOMAIN work
    BY <2>1
  <2> QED BY <1>2, <2>2, InitIsNamed, NewThrottleIsSpaced DEF BarsState
<1>3. CASE work.of = "bars"
  <2>1. PICK board \in {"bj", "other"}, w \in Windows, listed \in Histories :
          work = [of |-> "bars", f |-> NewFetch(board, w[1], w[2]), listed |-> listed]
    BY <1>3, BeginningOfItsOwn
  <2>2. work.f = NewFetch(board, w[1], w[2]) /\ work.listed = listed /\ "f" \in DOMAIN work /\ "listed" \in DOMAIN work
    BY <2>1
  <2>3. KlineInv(work.f, work.listed)
    BY <2>2, NewFetchIsSound
  <2> QED BY <1>3, <2>2, <2>3, InitIsNamed DEF BarsState
<1>4. CASE work.of \notin {"request", "throttle", "bars"}
  BY <1>4, InitIsNamed DEF BarsState
<1> QED BY <1>1, <1>2, <1>3, <1>4

LEMMA BarsStateGoesOn ==
  ASSUME BarsState, [Next]_work
  PROVE  BarsState'
<1>1. "of" \in DOMAIN work /\ "of" \in DOMAIN work' /\ work'.of = work.of
  BY NextIsNamed DEF BarsState
<1>2. CASE work' = work
  BY <1>2 DEF BarsState
<1>3. CASE work' # work /\ work.of = "request"
  <2>1. "r" \in DOMAIN work /\ RequestInv(work.r)
    BY <1>3 DEF BarsState
  <2>2. PICK r \in RequestSteps(work.r) : work' = [work EXCEPT !.r = r]
    BY <1>1, <1>3, StepOfItsOwn
  <2>3. "r" \in DOMAIN work' /\ work'.r = r /\ RequestInv(r)
    BY <2>1, <2>2, RequestStepKeeps
  <2> QED BY <1>1, <1>3, <2>3 DEF BarsState
<1>4. CASE work' # work /\ work.of = "throttle"
  <2>1. "t" \in DOMAIN work /\ ThrottleInv(work.t)
    BY <1>4 DEF BarsState
  <2>2. PICK host \in Hosts, passed \in 0..Horizon : work' = [work EXCEPT !.t = Throttled(@, host, passed)]
    BY <1>1, <1>4, StepOfItsOwn
  <2>3. "t" \in DOMAIN work' /\ work'.t = Throttled(work.t, host, passed)
    BY <2>1, <2>2
  <2>4. passed \in Nat
    BY ProcedureAssumption
  <2>5. ThrottleInv(work'.t)
    BY <2>1, <2>3, <2>4, ThrottleStepKeeps
  <2> QED BY <1>1, <1>4, <2>3, <2>5 DEF BarsState
<1>5. CASE work' # work /\ work.of = "bars"
  <2>1. "f" \in DOMAIN work /\ "listed" \in DOMAIN work /\ KlineInv(work.f, work.listed)
    BY <1>5 DEF BarsState
  <2>2. PICK f \in FetchSteps(work.f, work.listed) : work' = [work EXCEPT !.f = f]
    BY <1>1, <1>5, StepOfItsOwn
  <2>3. "f" \in DOMAIN work' /\ work'.f = f /\ "listed" \in DOMAIN work' /\ work'.listed = work.listed
    BY <2>1, <2>2
  <2>4. KlineInv(f, work.listed)
    BY <2>1, <2>2, FetchStepKeeps
  <2>5. KlineInv(work'.f, work'.listed)
    BY <2>3, <2>4
  <2> QED BY <1>1, <1>5, <2>3, <2>5 DEF BarsState
<1>6. CASE work.of \notin {"request", "throttle", "bars"}
  BY <1>1, <1>6 DEF BarsState
<1> QED BY <1>2, <1>3, <1>4, <1>5, <1>6

\* http_transport.py and astock_adapter.py: a request keeps to its budget, hosts are
\* asked at their interval, and bars that are accepted without a warning are all
\* the bars of the window, whichever source failed, repeated a page or was cut short.
THEOREM BarsCorrect == Spec => []BarsComplete
<1>1. BarsState => BarsComplete
  BY DEF BarsState, BarsComplete, RequestInv, ThrottleInv, KlineInv
<1> QED BY <1>1, BarsStateBegins, BarsStateGoesOn, PTL DEF Spec
-----------------------------------------------------------------------------
(* FlowProviders: Eastmoney's matrix of variants.                           *)

MatrixInv(m) ==
  /\ m \in [at : {"asking", "capped", "payload", "unreachable", "exhausted"}, tried : 0..Combinations]
  /\ m.at = "asking" => m.tried < Combinations
  /\ MatrixIsBounded(m)

LEMMA MatrixStepKeeps ==
  ASSUME NEW m, MatrixInv(m), m.at = "asking", NEW reply
  PROVE  MatrixInv(MatrixStep(m, reply))
<1>1. MaxCombinations \in Nat /\ 4 < MaxCombinations /\ Combinations = 8 /\ PerEndpoint = 4
  BY FlowConstants, SecondEndpointHasATurn DEF Combinations, PerEndpoint
<1>2. m.tried \in 0..8 /\ m.tried < 8 /\ m.tried <= MaxCombinations
  BY <1>1 DEF MatrixInv, MatrixIsBounded
<1> DEFINE next == [m EXCEPT !.tried = @ + 1]
<1>3. /\ next \in [at : {"asking"}, tried : 0..8] /\ next.tried = m.tried + 1
      /\ next.at = "asking"
  BY <1>1, <1>2 DEF MatrixInv
<1>4. CASE m.tried >= MaxCombinations
  <2>1. MatrixStep(m, reply) = [m EXCEPT !.at = "capped"]
    BY <1>4 DEF MatrixStep
  <2> QED BY <1>1, <1>2, <1>4, <2>1 DEF MatrixInv, MatrixIsBounded
<1>5. CASE ~(m.tried >= MaxCombinations)
  <2>1. MatrixStep(m, reply) \in {[next EXCEPT !.at = "payload"], [next EXCEPT !.at = "unreachable"]}
        \/ (next.tried = 8 /\ MatrixStep(m, reply) = [next EXCEPT !.at = "exhausted"])
        \/ (next.tried # 8 /\ MatrixStep(m, reply) = next)
    BY <1>1, <1>5 DEF MatrixStep
  <2>2. next.tried <= MaxCombinations
    BY <1>1, <1>2, <1>3, <1>5
  <2> HIDE DEF next
  <2> QED BY <1>1, <1>2, <1>3, <2>1, <2>2 DEF MatrixInv, MatrixIsBounded
<1> QED BY <1>4, <1>5

LEMMA NewMatrixIsBounded == MatrixInv(NewMatrix)
BY FlowConstants, SecondEndpointHasATurn
   DEF MatrixInv, NewMatrix, MatrixIsBounded, Combinations, PerEndpoint
-----------------------------------------------------------------------------
(* FlowProviders: the walk over Baidu's history.                            *)

Walking ==
  [at : {"walking", "empty", "stopped", "malformed", "complete"}, start : Int, end : Int, cursor : Int,
   seen : SUBSET Int, rows : SUBSET Int]

InWindow(w, listed) == {d \in listed : w.start <= d /\ d <= w.end}

\* What lies behind the cursor is gathered.
WalkInv(w, listed) ==
  /\ w \in Walking /\ listed \in SUBSET Int /\ IsFiniteSet(listed)
  /\ w.rows \subseteq InWindow(w, listed) /\ w.cursor <= w.end + 3
  /\ w.at = "walking" => \A d \in InWindow(w, listed) : d > w.cursor => d \in w.rows
  /\ WalkIsComplete(w, listed)

LEMMA HistoryIsNewest ==
  ASSUME NEW listed \in SUBSET Int, IsFiniteSet(listed), NEW cursor \in Int
  PROVE  /\ BaiduHistory(listed, cursor) \in SUBSET listed
         /\ \A d \in BaiduHistory(listed, cursor) :
              /\ d <= cursor
              /\ \A e \in listed : d <= e /\ e <= cursor => e \in BaiduHistory(listed, cursor)
<1> DEFINE S == {d \in listed : d <= cursor}
<1>1. S \in SUBSET Int /\ IsFiniteSet(S) /\ BaiduPage \in Nat
  BY SubsetsAreFinite, FlowConstants
<1>2. BaiduHistory(listed, cursor) = Newest(S, BaiduPage)
  <2>1. \A d \in listed : {e \in S : e > d} = {e \in listed : d < e /\ e <= cursor}
    OBVIOUS
  <2>2. \A d \in listed : Cardinality({e \in S : e > d}) = Cardinality({e \in listed : d < e /\ e <= cursor})
    BY <2>1, Zenon
  <2> QED BY <2>2 DEF BaiduHistory, Newest
<1>3. /\ Newest(S, BaiduPage) \in SUBSET S
      /\ \A d \in Newest(S, BaiduPage), e \in S : e > d => e \in Newest(S, BaiduPage)
  BY <1>1, NewestAreLast
<1> HIDE DEF S
<1>4. S \in SUBSET listed /\ \A d \in S : d <= cursor
  BY DEF S
<1>5. ASSUME NEW d \in Newest(S, BaiduPage), NEW e \in listed, d <= e, e <= cursor
      PROVE  e \in Newest(S, BaiduPage)
  <2>1. e \in S /\ d \in Int /\ e \in Int
    BY <1>1, <1>3, <1>5 DEF S
  <2> QED BY <1>3, <1>5, <2>1
<1> QED BY <1>2, <1>3, <1>4, <1>5

LEMMA WalkStepKeeps ==
  ASSUME NEW w, NEW listed, WalkInv(w, listed), w.at = "walking", NEW cursor \in {w.cursor, w.end + 3}
  PROVE  WalkInv(WalkPage(w, BaiduHistory(listed, cursor)), listed)
<1> DEFINE page == BaiduHistory(listed, cursor)
           read == [w EXCEPT !.seen = @ \cup {w.cursor},
                             !.rows = @ \cup {d \in page : w.start <= d /\ d <= w.end}]
<1>1. w \in Walking /\ cursor \in Int /\ w.cursor <= cursor /\ cursor <= w.end + 3
      /\ w.start \in Int /\ w.end \in Int /\ w.cursor \in Int
  BY DEF WalkInv, Walking
<1>2. listed \in SUBSET Int /\ IsFiniteSet(listed) /\ w.rows \subseteq InWindow(w, listed)
      /\ \A d \in InWindow(w, listed) : d > w.cursor => d \in w.rows
  BY DEF WalkInv
<1>3. /\ page \in SUBSET listed
      /\ \A d \in page : d <= cursor /\ \A e \in listed : d <= e /\ e <= cursor => e \in page
  BY <1>1, <1>2, HistoryIsNewest
<1> HIDE DEF page
<1>4. page \in SUBSET Int /\ IsFiniteSet(page)
  BY <1>2, <1>3, SubsetsAreFinite
<1>5. /\ read \in Walking /\ read.at = "walking" /\ read.start = w.start /\ read.end = w.end
      /\ read.cursor = w.cursor /\ read.rows = w.rows \cup {d \in page : w.start <= d /\ d <= w.end}
  BY <1>1, <1>2, <1>4 DEF Walking
<1> HIDE DEF read
<1>6. InWindow(read, listed) = InWindow(w, listed) /\ read.rows \subseteq InWindow(w, listed)
  BY <1>2, <1>3, <1>5 DEF InWindow
<1>7. \A how \in {"stopped", "malformed"} : WalkInv(WalkEnds(w, how), listed) /\ WalkInv(WalkEnds(read, how), listed)
  <2>1. ASSUME NEW v, v \in Walking, v.rows \subseteq InWindow(w, listed), v.start = w.start, v.end = w.end,
               v.cursor = w.cursor, NEW how \in {"stopped", "malformed"}
        PROVE  WalkInv(WalkEnds(v, how), listed)
    <3>1. PICK at \in {"empty", "stopped", "malformed"} : WalkEnds(v, how) = [v EXCEPT !.at = at]
      BY <2>1 DEF WalkEnds
    <3> DEFINE x == [v EXCEPT !.at = at]
    <3>2. x \in Walking /\ x.at = at /\ x.start = w.start /\ x.end = w.end /\ x.cursor = w.cursor /\ x.rows = v.rows
      BY <2>1 DEF Walking
    <3> HIDE DEF x
    <3>3. WalkInv(x, listed)
      BY <1>1, <1>2, <2>1, <3>2 DEF WalkInv, WalkIsComplete, InWindow
    <3> QED BY <3>1, <3>3 DEF x
  <2> QED BY <1>1, <1>2, <1>5, <1>6, <2>1
<1>8. ASSUME page # {}
      PROVE  /\ Min(page) <= w.start => WalkInv(WalkEnds(read, "complete"), listed)
             /\ ~(Min(page) <= w.start) => WalkInv([read EXCEPT !.cursor = Min(page) - 1], listed)
  <2>1. Min(page) \in page /\ Min(page) \in Int /\ \A d \in page : Min(page) <= d
    BY <1>4, <1>8, Ends
  <2> DEFINE first == Min(page)
  <2> HIDE DEF first
  <2>2. \A d \in InWindow(w, listed) : d >= first => d \in read.rows
    <3> SUFFICES ASSUME NEW d \in InWindow(w, listed), d >= first PROVE d \in read.rows
      OBVIOUS
    <3>1. d \in listed /\ d \in Int /\ w.start <= d /\ d <= w.end
      BY <1>2 DEF InWindow
    <3>2. CASE d > cursor
      BY <1>1, <1>2, <1>5, <3>1, <3>2
    <3>3. CASE d <= cursor
      <4>1. d \in page
        BY <1>3, <2>1, <3>1, <3>3 DEF first
      <4> QED BY <1>5, <3>1, <4>1
    <3> QED BY <1>1, <3>1, <3>2, <3>3
  <2>3. ASSUME first <= w.start PROVE WalkInv(WalkEnds(read, "complete"), listed)
    <3>1. PICK at \in {"empty", "complete"} : WalkEnds(read, "complete") = [read EXCEPT !.at = at]
      BY DEF WalkEnds
    <3> DEFINE x == [read EXCEPT !.at = at]
    <3>2. x \in Walking /\ x.at = at /\ x.start = w.start /\ x.end = w.end /\ x.cursor = w.cursor /\ x.rows = read.rows
      BY <1>5 DEF Walking
    <3>3. read.rows = InWindow(w, listed)
      <4>1. \A d \in InWindow(w, listed) : d >= first
        BY <1>1, <1>2, <2>1, <2>3 DEF InWindow, first
      <4> QED BY <1>6, <2>2, <4>1
    <3> HIDE DEF x
    <3>4. WalkInv(x, listed)
      BY <1>1, <1>2, <3>2, <3>3 DEF WalkInv, WalkIsComplete, InWindow
    <3> QED BY <3>1, <3>4 DEF x
  <2>4. ASSUME ~(first <= w.start) PROVE WalkInv([read EXCEPT !.cursor = first - 1], listed)
    <3> DEFINE x == [read EXCEPT !.cursor = first - 1]
    <3>1. first \in Int /\ first <= cursor
      BY <1>3, <2>1 DEF first
    <3>2. x \in Walking /\ x.at = "walking" /\ x.start = w.start /\ x.end = w.end /\ x.cursor = first - 1
          /\ x.rows = read.rows
      BY <1>5, <3>1 DEF Walking
    <3> HIDE DEF x
    <3>3. \A d \in InWindow(w, listed) : d > first - 1 => d \in read.rows
      <4> SUFFICES ASSUME NEW d \in InWindow(w, listed), d > first - 1 PROVE d \in read.rows
        OBVIOUS
      <4>1. d \in Int
        BY <1>2 DEF InWindow
      <4> QED BY <2>2, <3>1, <4>1
    <3>4. InWindow(x, listed) = InWindow(w, listed)
      BY <3>2 DEF InWindow
    <3> QED BY <1>1, <1>2, <1>6, <3>1, <3>2, <3>3, <3>4 DEF WalkInv, WalkIsComplete, x
  <2> QED BY <2>3, <2>4 DEF first
<1> QED BY <1>7, <1>8 DEF WalkPage, page, read

LEMMA NewWalkIsComplete ==
  ASSUME NEW v \in Windows, NEW listed \in Histories
  PROVE  WalkInv(NewWalk(v[1], v[2]), listed)
<1>1. v[1] \in Int /\ v[2] \in Int /\ listed \in SUBSET Int /\ IsFiniteSet(listed)
  BY ProcedureAssumption
<1> DEFINE w == NewWalk(v[1], v[2])
<1>2. w \in Walking /\ w.at = "walking" /\ w.end = v[2] /\ w.cursor = v[2] + 3 /\ w.rows = {}
  BY <1>1 DEF NewWalk, Walking
<1>3. \A d \in InWindow(w, listed) : ~(d > w.cursor)
  <2>1. \A d \in InWindow(w, listed) : d \in Int /\ d <= v[2]
    BY <1>1, <1>2 DEF InWindow
  <2> QED BY <1>1, <1>2, <2>1
<1> HIDE DEF w
<1>4. WalkInv(w, listed)
  BY <1>1, <1>2, <1>3 DEF WalkInv, WalkIsComplete
<1> QED BY <1>4 DEF w
-----------------------------------------------------------------------------
(* FlowProviders: the capital flow of one stock.                            *)

FlowStages == {"eastmoney", "sina", "supplement", "baidu", "done", "raised"}

\* The ends of the window have their rows or a diagnostic says that they may not; and
\* nobody but an Eastmoney that was asked is said to have been out of reach.
Noted(f) ==
  \/ f.start \in f.rows /\ f.end \in f.rows
  \/ \E p \in {"none", "sina"} : Shortfall(p) \in f.diagnostics

FlowFields == {"at", "start", "end", "rows", "provider", "asked", "diagnostics", "error"}

FlowInv(f) ==
  /\ DOMAIN f = FlowFields /\ f.at \in FlowStages
  /\ f.start \in Int /\ f.end \in Int /\ f.start <= f.end
  /\ f.rows \subseteq f.start..f.end
  /\ f.at = "eastmoney" => f.asked /\ f.diagnostics = {}
  /\ ShouldSkipEastmoney(f.diagnostics) => f.asked
  /\ f.at = "supplement" => f.rows # {} /\ Noted(f)
  /\ f.at = "done" => f.rows # {} /\ Noted(f)
  /\ f.at = "done" /\ ShouldSkipEastmoney(f.diagnostics) => f.provider # "eastmoney"

\* The test of every provider finds the ends of the window among its rows.
LEMMA CoveredHasItsEnds ==
  ASSUME NEW f, f.start \in Int, f.end \in Int, NEW rows \in SUBSET (f.start..f.end), Covers(f, rows)
  PROVE  f.start \in rows /\ f.end \in rows
<1>1. rows \in SUBSET Int /\ IsFiniteSet(rows) /\ rows # {}
  <2>1. IsFiniteSet(f.start..f.end)
    BY FS_Interval
  <2>2. IsFiniteSet(rows)
    BY <2>1, FS_Subset
  <2>3. rows # {}
    BY DEF Covers
  <2> QED BY <2>2, <2>3
<1>2. Min(rows) \in rows /\ Max(rows) \in rows
  BY <1>1, Ends
<1>3. f.start <= Min(rows) /\ Max(rows) <= f.end /\ Min(rows) \in Int /\ Max(rows) \in Int
  <2>1. \A d \in rows : d \in Int /\ f.start <= d /\ d <= f.end
    OBVIOUS
  <2> QED BY <1>2, <2>1
<1>4. Min(rows) = f.start /\ Max(rows) = f.end
  BY <1>3 DEF Covers
<1> QED BY <1>2, <1>4

LEMMA SkipIsOfEastmoney ==
  ASSUME NEW D, NEW E, Failed("eastmoney", "network_error") \notin E
  PROVE  ShouldSkipEastmoney(D \cup E) => ShouldSkipEastmoney(D)
BY DEF ShouldSkipEastmoney

\* No other diagnostic is that one.
LEMMA OtherDiagnostics ==
  LET that == Failed("eastmoney", "network_error")
  IN  /\ \A p : Shortfall(p) # that
      /\ \A p : Diagnostic("provider_fallback_used", p, "none") # that
      /\ \A e : Failed("sina", e) # that /\ Failed("baidu", e) # that
<1>1. Failed("eastmoney", "network_error").code = "provider_attempt_failed"
      /\ Failed("eastmoney", "network_error").provider = "eastmoney"
  BY DEF Failed, Diagnostic
<1>2. \A p : Shortfall(p).code = "date_coverage_shortfall"
  BY DEF Shortfall, Diagnostic
<1>3. \A p : Diagnostic("provider_fallback_used", p, "none").code = "provider_fallback_used"
  BY DEF Diagnostic
<1>4. \A e : Failed("sina", e).provider = "sina" /\ Failed("baidu", e).provider = "baidu"
  BY DEF Failed, Diagnostic
<1> QED BY <1>1, <1>2, <1>3, <1>4

\* A fetch that answers with rows and adds diagnostics about them.
LEMMA AnswerIsReported ==
  ASSUME NEW f, FlowInv(f), NEW g, DOMAIN g = FlowFields, g.at \in {"supplement", "done"},
         g.start = f.start, g.end = f.end, g.asked = f.asked, NEW E, g.diagnostics = f.diagnostics \cup E,
         Failed("eastmoney", "network_error") \notin E, g.rows # {}, g.rows \subseteq f.start..f.end, Noted(g),
         g.at = "done" => g.provider # "eastmoney"
  PROVE  FlowInv(g)
<1>1. ShouldSkipEastmoney(g.diagnostics) => ShouldSkipEastmoney(f.diagnostics)
  BY SkipIsOfEastmoney
<1>2. g.at \in FlowStages
  BY DEF FlowStages
<1> QED BY <1>1, <1>2 DEF FlowInv

\* A fetch that goes on with the next provider.
LEMMA NextProviderIsAsked ==
  ASSUME NEW f, FlowInv(f), NEW g, DOMAIN g = FlowFields, g.at \in {"sina", "baidu", "raised"},
         g.start = f.start, g.end = f.end, g.asked = f.asked, g.rows = f.rows,
         ShouldSkipEastmoney(g.diagnostics) => f.asked
  PROVE  FlowInv(g)
<1>1. g.at \in FlowStages
  BY DEF FlowStages
<1> QED BY <1>1 DEF FlowInv

LEMMA FlowStepKeeps ==
  ASSUME NEW f, FlowInv(f), NEW g \in FlowSteps(f)
  PROVE  FlowInv(g)
<1> DEFINE that == Failed("eastmoney", "network_error")
<1>1. /\ DOMAIN f = FlowFields /\ f.start \in Int /\ f.end \in Int /\ f.start <= f.end
      /\ f.rows \subseteq f.start..f.end
  BY DEF FlowInv
<1>2. CASE f.at = "eastmoney"
  <2>0. FlowSteps(f) = {EastmoneyRows(f, rows) : rows \in SUBSET (f.start..f.end)}
                         \cup {EastmoneyFails(f, e) : e \in FlowErrors}
    BY <1>2 DEF FlowSteps
  <2>1. PICK rows \in SUBSET (f.start..f.end), e \in FlowErrors :
          g = EastmoneyRows(f, rows) \/ g = EastmoneyFails(f, e)
    <3>1. {} \in SUBSET (f.start..f.end) /\ "network_error" \in FlowErrors
      BY DEF FlowErrors
    <3> QED BY <2>0, <3>1, Zenon
  <2>2. CASE g = EastmoneyRows(f, rows) /\ Covers(f, rows)
    <3>1. g = [f EXCEPT !.at = "done", !.rows = rows, !.provider = "eastmoney"]
      BY <2>2 DEF EastmoneyRows
    <3>2. DOMAIN g = FlowFields /\ g.at = "done" /\ g.rows = rows /\ g.start = f.start /\ g.end = f.end
          /\ g.diagnostics = {} /\ g.asked = f.asked
      BY <1>1, <1>2, <3>1 DEF FlowFields, FlowInv
    <3>3. f.start \in rows /\ f.end \in rows
      BY <1>1, <2>2, CoveredHasItsEnds
    <3> QED BY <1>1, <1>2, <3>2, <3>3 DEF FlowInv, Noted, ShouldSkipEastmoney, FlowStages
  <2>3. CASE g = EastmoneyRows(f, rows) /\ ~Covers(f, rows)
    <3>1. g = [f EXCEPT !.at = "sina", !.diagnostics = @ \cup {Shortfall("none")}]
      BY <2>3 DEF EastmoneyRows
    <3>2. /\ DOMAIN g = FlowFields /\ g.at = "sina" /\ g.rows = f.rows /\ g.start = f.start /\ g.end = f.end
          /\ g.asked = f.asked /\ f.asked
      BY <1>1, <1>2, <3>1 DEF FlowFields, FlowInv
    <3> QED BY <3>2, NextProviderIsAsked
  <2>4. CASE g = EastmoneyFails(f, e)
    <3>1. g = [f EXCEPT !.at = "sina", !.diagnostics = @ \cup {Failed("eastmoney", e)}]
      BY <2>4 DEF EastmoneyFails
    <3>2. /\ DOMAIN g = FlowFields /\ g.at = "sina" /\ g.rows = f.rows /\ g.start = f.start /\ g.end = f.end
          /\ g.asked = f.asked /\ f.asked
      BY <1>1, <1>2, <3>1 DEF FlowFields, FlowInv
    <3> QED BY <3>2, NextProviderIsAsked
  <2> QED BY <2>1, <2>2, <2>3, <2>4
<1>3. CASE f.at = "sina"
  <2>0. FlowSteps(f) = {SinaAnswered(f, rows) : rows \in (SUBSET (f.start..f.end)) \ {{}}}
                         \cup {SinaFailed(f, e) : e \in FlowErrors}
    BY <1>3 DEF FlowSteps
  <2>1. PICK rows \in SUBSET (f.start..f.end), e \in FlowErrors :
          (rows # {} /\ g = SinaAnswered(f, rows)) \/ g = SinaFailed(f, e)
    <3>1. {} \in SUBSET (f.start..f.end) /\ "network_error" \in FlowErrors
      BY DEF FlowErrors
    <3> QED BY <2>0, <3>1, Zenon
  <2>2. CASE rows # {} /\ g = SinaAnswered(f, rows)
    <3> DEFINE E == IF Covers(f, rows) THEN {} ELSE {Shortfall("sina")}
    <3>1. g = [f EXCEPT !.at = "supplement", !.rows = rows, !.diagnostics = @ \cup E]
      BY <2>2 DEF SinaAnswered
    <3>2. that \notin E /\ (Covers(f, rows) \/ Shortfall("sina") \in E)
      BY OtherDiagnostics
    <3> HIDE DEF E
    <3>3. /\ DOMAIN g = FlowFields /\ g.at = "supplement" /\ g.rows = rows /\ g.start = f.start /\ g.end = f.end
          /\ g.asked = f.asked /\ g.diagnostics = f.diagnostics \cup E
      BY <1>1, <3>1 DEF FlowFields
    <3>4. Noted(g)
      BY <1>1, <3>2, <3>3, CoveredHasItsEnds DEF Noted
    <3> QED BY <1>1, <2>2, <3>2, <3>3, <3>4, AnswerIsReported
  <2>3. CASE g = SinaFailed(f, e)
    <3>1. g = [f EXCEPT !.at = "baidu", !.diagnostics = @ \cup {Failed("sina", e)}]
      BY <2>3 DEF SinaFailed
    <3>2. /\ DOMAIN g = FlowFields /\ g.at = "baidu" /\ g.rows = f.rows /\ g.start = f.start /\ g.end = f.end
          /\ g.asked = f.asked /\ g.diagnostics = f.diagnostics \cup {Failed("sina", e)}
      BY <1>1, <3>1 DEF FlowFields
    <3>3. ShouldSkipEastmoney(g.diagnostics) => f.asked
      <4>1. that \notin {Failed("sina", e)}
        BY OtherDiagnostics
      <4> QED BY <3>2, <4>1, SkipIsOfEastmoney DEF FlowInv
    <3> QED BY <3>2, <3>3, NextProviderIsAsked
  <2> QED BY <2>1, <2>2, <2>3
<1>4. CASE f.at = "supplement"
  <2>1. PICK filled \in SUBSET AskedHoles(f), failed \in BOOLEAN, edge \in BOOLEAN :
          g = Supplement(f, filled, failed, edge)
    BY <1>4 DEF FlowSteps
  <2> DEFINE A == IF Holes(f) # AskedHoles(f) THEN {Shortfall("baidu")} ELSE {}
             B == IF failed THEN {Failed("baidu", "network_error")} ELSE {}
             C == IF edge THEN {Shortfall("none")} ELSE {}
             U == {Diagnostic("provider_fallback_used", "sina", "none")}
             E == A \cup B \cup C \cup U
  <2>2. that \notin A /\ that \notin B /\ that \notin C /\ that \notin U
    BY OtherDiagnostics
  <2>3. g = [[f EXCEPT !.rows = @ \cup filled, !.diagnostics = @ \cup A \cup B \cup C]
               EXCEPT !.at = "done", !.provider = "sina", !.diagnostics = @ \cup U]
    BY <2>1 DEF Supplement, Used
  <2> HIDE DEF A, B, C, U
  <2>4. that \notin E
    BY <2>2
  <2>5. /\ DOMAIN g = FlowFields /\ g.at = "done" /\ g.provider = "sina" /\ g.start = f.start /\ g.end = f.end
        /\ g.rows = f.rows \cup filled /\ g.asked = f.asked
        /\ g.diagnostics = ((f.diagnostics \cup A) \cup B \cup C) \cup U
    BY <1>1, <2>3 DEF FlowFields
  <2>6. g.diagnostics = f.diagnostics \cup E
    BY <2>5
  <2> HIDE DEF E
  <2>7. filled \subseteq f.start..f.end
    <3> DEFINE from == Max({f.start, Min(f.rows)})
               to == Min({f.end, Max(f.rows)})
    <3>1. f.rows \in SUBSET Int /\ IsFiniteSet(f.rows) /\ f.rows # {}
      <4>1. IsFiniteSet(f.start..f.end)
        BY <1>1, FS_Interval
      <4> QED BY <1>1, <1>4, <4>1, FS_Subset DEF FlowInv
    <3>2. Min(f.rows) \in Int /\ Max(f.rows) \in Int
      BY <3>1, Ends
    <3>3. from \in Int /\ f.start <= from /\ to \in Int /\ to <= f.end
      <4>1. from = IF f.start >= Min(f.rows) THEN f.start ELSE Min(f.rows)
        BY <1>1, <3>2, PairEnds
      <4>2. to = IF f.end <= Max(f.rows) THEN f.end ELSE Max(f.rows)
        BY <1>1, <3>2, PairEnds
      <4> HIDE DEF from, to
      <4> QED BY <1>1, <3>2, <4>1, <4>2
    <3>4. AskedHoles(f) \subseteq from..to
      BY DEF AskedHoles, Holes
    <3> HIDE DEF from, to
    <3>5. from..to \subseteq f.start..f.end
      BY <1>1, <3>3
    <3> QED BY <3>4, <3>5
  <2>8. Noted(g)
    BY <1>4, <2>5, <2>6 DEF FlowInv, Noted
  <2>9. g.rows # {}
    BY <1>4, <2>5 DEF FlowInv
  <2> QED BY <1>1, <2>4, <2>5, <2>6, <2>7, <2>8, <2>9, AnswerIsReported
<1>5. CASE f.at = "baidu"
  <2>0. FlowSteps(f) = {BaiduAnswered(f, rows) : rows \in (SUBSET (f.start..f.end)) \ {{}}}
                         \cup {BaiduFails(f, e) : e \in FlowErrors}
    BY <1>5 DEF FlowSteps
  <2>1. PICK rows \in SUBSET (f.start..f.end) :
          (rows # {} /\ g = BaiduAnswered(f, rows)) \/ \E e \in FlowErrors : g = BaiduFails(f, e)
    BY <2>0, Zenon
  <2>2. CASE rows # {} /\ g = BaiduAnswered(f, rows)
    <3> DEFINE A == IF Covers(f, rows) THEN {} ELSE {Shortfall("none")}
               U == {Diagnostic("provider_fallback_used", "baidu", "none")}
               E == A \cup U
    <3>1. g = [[f EXCEPT !.rows = rows, !.diagnostics = @ \cup A]
                 EXCEPT !.at = "done", !.provider = "baidu", !.diagnostics = @ \cup U]
      BY <2>2 DEF BaiduAnswered, Used
    <3>2. that \notin A /\ that \notin U /\ (Covers(f, rows) \/ Shortfall("none") \in A)
      BY OtherDiagnostics
    <3> HIDE DEF A, U
    <3>3. /\ DOMAIN g = FlowFields /\ g.at = "done" /\ g.provider = "baidu" /\ g.rows = rows
          /\ g.start = f.start /\ g.end = f.end
          /\ g.asked = f.asked /\ g.diagnostics = (f.diagnostics \cup A) \cup U
      BY <1>1, <3>1 DEF FlowFields
    <3>4. Noted(g)
      BY <1>1, <3>2, <3>3, CoveredHasItsEnds DEF Noted
    <3>5. that \notin E /\ g.diagnostics = f.diagnostics \cup E
      BY <3>2, <3>3
    <3> QED BY <1>1, <2>2, <3>3, <3>4, <3>5, AnswerIsReported
  <2>3. CASE \E e \in FlowErrors : g = BaiduFails(f, e)
    <3>1. \E error : g = [f EXCEPT !.at = "raised", !.error = error, !.diagnostics = {}]
      BY <2>3 DEF BaiduFails
    <3>2. /\ DOMAIN g = FlowFields /\ g.at = "raised" /\ g.rows = f.rows /\ g.start = f.start /\ g.end = f.end
          /\ g.asked = f.asked /\ g.diagnostics = {}
      BY <1>1, <3>1 DEF FlowFields
    <3> QED BY <3>2, NextProviderIsAsked DEF ShouldSkipEastmoney
  <2> QED BY <2>1, <2>2, <2>3
<1>6. f.at \in {"eastmoney", "sina", "supplement", "baidu"}
  BY DEF FlowSteps, FlowInv, FlowStages
<1> QED BY <1>2, <1>3, <1>4, <1>5, <1>6

LEMMA NewFlowIsReported ==
  ASSUME NEW skip \in BOOLEAN
  PROVE  FlowInv(NewFlow(1, 3, skip))
<1> DEFINE f == NewFlow(1, 3, skip)
<1>1. /\ DOMAIN f = FlowFields /\ f.at \in {"sina", "eastmoney"} /\ f.start = 1 /\ f.end = 3 /\ f.rows = {}
      /\ f.diagnostics = {} /\ (f.at = "eastmoney" => f.asked)
  BY DEF NewFlow, FlowFields
<1> HIDE DEF f
<1>2. FlowInv(f)
  BY <1>1 DEF FlowInv, FlowStages, ShouldSkipEastmoney
<1> QED BY <1>2 DEF f

LEMMA ReportedFlow ==
  ASSUME NEW f, FlowInv(f)
  PROVE  FlowIsReported(f)
<1>1. Noted(f) => ({f.start, f.end} \subseteq f.rows) \/ \E p \in {"none", "sina"} : Shortfall(p) \in f.diagnostics
  BY DEF Noted
<1> QED BY <1>1 DEF FlowInv, FlowIsReported
-----------------------------------------------------------------------------
(* FlowProviders: a batch of stocks and its retry rounds.                   *)

Batching(b) ==
  /\ DOMAIN b = {"at", "codes", "skip", "waiting", "got", "failures", "withRows", "cached",
                 "retryable", "round", "asked", "last"}
  /\ b.at \in {"first", "rest", "round", "between", "done"}
  /\ b.codes \in SUBSET Int /\ IsFiniteSet(b.codes) /\ b.waiting \subseteq b.codes
  /\ b.round \in Nat /\ b.round <= RetryRounds
  /\ b.asked \in [b.codes -> Nat] /\ b.last \in [b.codes -> FetchOne \cup {"none"}]

\* The answers of stocks that were asked alone.
AnswersOf(b, C) == {<<c, b.last[c]>> : c \in C}
FailuresOf(b, C) == {p \in AnswersOf(b, C) : FailureOf(p[2])}

\* What is settled of the stocks C: their failures are those of their last answers,
\* and what is worth asking again was asked in every round.
Settles(b, C) ==
  /\ {p \in b.failures : p[1] \in C} = FailuresOf(b, C)
  /\ \A c \in C :
       /\ b.last[c] \in FetchOne
       /\ RowsOf(b.last[c]) => c \in b.withRows
       /\ b.asked[c] <= 1 + b.round
       /\ c \in b.cached => b.asked[c] = 1
       /\ FailureOf(b.last[c]) /\ c \notin b.cached => c \in b.retryable
       /\ c \in b.retryable => b.asked[c] = 1 + b.round /\ FailureOf(b.last[c]) /\ c \notin b.cached

BatchInv(b) ==
  /\ Batching(b)
  /\ b.at \in {"first", "rest"} =>
       /\ b.failures = {} /\ b.round = 0 /\ b.waiting # {}
       /\ b.got = AnswersOf(b, b.codes \ b.waiting)
       /\ \A c \in b.waiting : b.asked[c] = 0
       /\ \A c \in b.codes \ b.waiting : b.asked[c] = 1 /\ b.last[c] \in FetchOne
  /\ b.at = "round" =>
       /\ b.retryable \subseteq b.codes /\ b.waiting \subseteq b.retryable /\ b.waiting # {}
       /\ b.retryable \cap b.cached = {} /\ \A p \in b.failures : p[1] \in b.codes
       /\ b.round > 0
       /\ b.got = AnswersOf(b, b.retryable \ b.waiting)
       /\ \A c \in b.waiting : b.asked[c] = b.round
       /\ \A c \in b.retryable \ b.waiting : b.asked[c] = 1 + b.round /\ b.last[c] \in FetchOne
       /\ Settles(b, b.codes \ b.retryable)
  /\ b.at = "between" =>
       /\ b.retryable \subseteq b.codes /\ b.got = {}
       /\ \A p \in b.failures : p[1] \in b.codes
       /\ Settles(b, b.codes)
  /\ BatchIsAccounted(b)

\* An answer is among the answers of the stocks it is about.
LEMMA AnswersAreOne ==
  ASSUME NEW b, NEW C
  PROVE  /\ \A c : {p \in AnswersOf(b, C) : p[1] = c} = IF c \in C THEN {<<c, b.last[c]>>} ELSE {}
         /\ \A p \in AnswersOf(b, C) : p[1] \in C /\ p = <<p[1], b.last[p[1]]>> /\ p[2] = b.last[p[1]]
         /\ \A c \in C : <<c, b.last[c]>> \in AnswersOf(b, C)
<1>1. \A p \in AnswersOf(b, C) : p[1] \in C /\ p = <<p[1], b.last[p[1]]>> /\ p[2] = b.last[p[1]]
  <2> SUFFICES ASSUME NEW p \in AnswersOf(b, C)
               PROVE  p[1] \in C /\ p = <<p[1], b.last[p[1]]>> /\ p[2] = b.last[p[1]]
    OBVIOUS
  <2>1. PICK c \in C : p = <<c, b.last[c]>>
    BY DEF AnswersOf
  <2>2. p[1] = c /\ p[2] = b.last[c]
    BY <2>1
  <2> QED BY <2>1, <2>2
<1>2. \A c \in C : <<c, b.last[c]>> \in AnswersOf(b, C)
  BY DEF AnswersOf
<1>3. \A c : {p \in AnswersOf(b, C) : p[1] = c} = IF c \in C THEN {<<c, b.last[c]>>} ELSE {}
  <2> SUFFICES ASSUME NEW c
               PROVE  {p \in AnswersOf(b, C) : p[1] = c} = IF c \in C THEN {<<c, b.last[c]>>} ELSE {}
    OBVIOUS
  <2>1. CASE c \in C
    <3>1. \A p \in AnswersOf(b, C) : p[1] = c => p = <<c, b.last[c]>>
      BY <1>1
    <3>2. <<c, b.last[c]>>[1] = c
      OBVIOUS
    <3> QED BY <1>2, <2>1, <3>1, <3>2
  <2>2. CASE c \notin C
    BY <1>1, <2>2
  <2> QED BY <2>1, <2>2
<1> QED BY <1>1, <1>2, <1>3

\* A batch that settles all its stocks and asks none again is accounted for.
LEMMA SettledIsAccounted ==
  ASSUME NEW b, Batching(b), Settles(b, b.codes), b.retryable = {} \/ b.round = RetryRounds
  PROVE  BatchIsAccounted(b)
<1> SUFFICES ASSUME NEW c \in b.codes
             PROVE  LET mine == {p \in b.failures : p[1] = c}
                    IN  /\ mine = IF FailureOf(b.last[c]) THEN {<<c, b.last[c]>>} ELSE {}
                        /\ RowsOf(b.last[c]) => c \in b.withRows
                        /\ b.asked[c] <= 1 + RetryRounds
                        /\ mine # {} /\ c \notin b.cached => b.asked[c] = 1 + RetryRounds
                        /\ c \in b.cached => b.asked[c] = 1
  BY DEF BatchIsAccounted
<1> DEFINE mine == {p \in b.failures : p[1] = c}
<1>1. mine = {p \in FailuresOf(b, b.codes) : p[1] = c}
  BY DEF Settles
<1>2. mine = IF FailureOf(b.last[c]) THEN {<<c, b.last[c]>>} ELSE {}
  <2>1. {p \in AnswersOf(b, b.codes) : p[1] = c} = {<<c, b.last[c]>>}
    BY AnswersAreOne
  <2>2. mine = {p \in {<<c, b.last[c]>>} : FailureOf(p[2])}
    BY <1>1, <2>1 DEF FailuresOf
  <2>3. <<c, b.last[c]>>[2] = b.last[c]
    OBVIOUS
  <2> HIDE DEF mine
  <2> QED BY <2>2, <2>3
<1> HIDE DEF mine
<1>3. b.asked[c] \in Nat /\ b.round \in Nat /\ RetryRounds \in Nat /\ b.round <= RetryRounds
  BY FlowConstants DEF Batching
<1>4. mine # {} => FailureOf(b.last[c])
  BY <1>2
<1>5. /\ RowsOf(b.last[c]) => c \in b.withRows
      /\ b.asked[c] <= 1 + b.round
      /\ c \in b.cached => b.asked[c] = 1
      /\ FailureOf(b.last[c]) /\ c \notin b.cached => c \in b.retryable
      /\ c \in b.retryable => b.asked[c] = 1 + b.round
  BY DEF Settles
<1>6. b.asked[c] <= 1 + RetryRounds
  BY <1>3, <1>5
<1>7. mine # {} /\ c \notin b.cached => b.asked[c] = 1 + RetryRounds
  BY <1>4, <1>5
<1> QED BY <1>2, <1>5, <1>6, <1>7 DEF mine

LEMMA RoundStarts ==
  ASSUME NEW b, BatchInv(b), b.at = "between"
  PROVE  BatchInv(StartRound(b))
<1>1. /\ Batching(b) /\ b.retryable \subseteq b.codes /\ b.got = {} /\ Settles(b, b.codes)
      /\ \A p \in b.failures : p[1] \in b.codes
  BY DEF BatchInv
<1>2. CASE b.retryable = {} \/ b.round = RetryRounds
  <2> DEFINE x == [b EXCEPT !.at = "done"]
  <2>1. StartRound(b) = x
    BY <1>2 DEF StartRound
  <2>2. /\ DOMAIN x = DOMAIN b /\ x.at = "done" /\ x.codes = b.codes /\ x.waiting = b.waiting /\ x.round = b.round
        /\ x.asked = b.asked /\ x.last = b.last /\ x.failures = b.failures /\ x.withRows = b.withRows
        /\ x.cached = b.cached /\ x.retryable = b.retryable
    BY <1>1 DEF Batching
  <2> HIDE DEF x
  <2>3. Batching(x)
    BY <1>1, <2>2 DEF Batching
  <2>4. Settles(x, x.codes)
    BY <1>1, <2>2 DEF Settles, FailuresOf, AnswersOf
  <2>5. BatchIsAccounted(x)
    BY <1>2, <2>2, <2>3, <2>4, SettledIsAccounted
  <2> QED BY <2>1, <2>2, <2>3, <2>5 DEF BatchInv
<1>3. CASE b.retryable # {} /\ b.round # RetryRounds
  <2>1. PICK skip \in BOOLEAN : StartRound(b) = [b EXCEPT !.at = "round", !.round = @ + 1, !.waiting = b.retryable, !.skip = skip]
    <3> DEFINE network == {p[1] : p \in {q \in b.failures : NetworkOf(q[2])}}
               skip == 2 * Cardinality(network) > Cardinality(b.retryable)
    <3>1. skip \in BOOLEAN
      OBVIOUS
    <3>2. StartRound(b) = [b EXCEPT !.at = "round", !.round = @ + 1, !.waiting = b.retryable, !.skip = skip]
      BY <1>3 DEF StartRound
    <3> HIDE DEF skip
    <3> QED BY <3>1, <3>2
  <2> DEFINE x == [b EXCEPT !.at = "round", !.round = @ + 1, !.waiting = b.retryable, !.skip = skip]
  <2>2. /\ DOMAIN x = DOMAIN b /\ x.at = "round" /\ x.codes = b.codes /\ x.waiting = b.retryable /\ x.round = b.round + 1
        /\ x.asked = b.asked /\ x.last = b.last /\ x.failures = b.failures /\ x.withRows = b.withRows
        /\ x.cached = b.cached /\ x.retryable = b.retryable /\ x.got = {}
    BY <1>1 DEF Batching
  <2> HIDE DEF x
  <2>3. b.round \in Nat /\ RetryRounds \in Nat /\ b.round < RetryRounds
    BY <1>1, <1>3, FlowConstants DEF Batching
  <2>4. Batching(x)
    BY <1>1, <2>2, <2>3 DEF Batching
  <2>5. x.got = AnswersOf(x, x.retryable \ x.waiting)
    BY <2>2 DEF AnswersOf
  <2>6. \A c \in x.retryable : x.asked[c] = x.round /\ c \notin x.cached
    BY <1>1, <2>2, <2>3 DEF Settles, Batching
  <2>7. Settles(x, x.codes \ x.retryable)
    <3>1. {p \in x.failures : p[1] \in x.codes \ x.retryable} = FailuresOf(x, x.codes \ x.retryable)
      <4>1. {p \in b.failures : p[1] \in b.codes} = FailuresOf(b, b.codes)
        BY <1>1 DEF Settles
      <4>2. FailuresOf(x, x.codes \ x.retryable) = {p \in FailuresOf(b, b.codes) : p[1] \in b.codes \ b.retryable}
        <5>1. AnswersOf(x, x.codes \ x.retryable) = {p \in AnswersOf(b, b.codes) : p[1] \in b.codes \ b.retryable}
          BY <2>2 DEF AnswersOf
        <5> QED BY <5>1 DEF FailuresOf
      <4> QED BY <1>1, <2>2, <4>1, <4>2
    <3>2. \A c \in x.codes \ x.retryable :
            /\ x.last[c] \in FetchOne
            /\ RowsOf(x.last[c]) => c \in x.withRows
            /\ x.asked[c] <= 1 + x.round
            /\ c \in x.cached => x.asked[c] = 1
            /\ FailureOf(x.last[c]) /\ c \notin x.cached => c \in x.retryable
            /\ c \in x.retryable => x.asked[c] = 1 + x.round /\ FailureOf(x.last[c]) /\ c \notin x.cached
      <4>1. \A c \in b.codes : b.asked[c] \in Nat
        BY <1>1 DEF Batching
      <4> QED BY <1>1, <2>2, <2>3, <4>1 DEF Settles
    <3> QED BY <3>1, <3>2 DEF Settles
  <2>8. BatchInv(x)
    BY <1>1, <1>3, <2>2, <2>3, <2>4, <2>5, <2>6, <2>7 DEF BatchInv, BatchIsAccounted
  <2> QED BY <2>1, <2>8 DEF x
<1> QED BY <1>2, <1>3

\* What has been heard of a stock that was asked.
Heard(b, c, answer) ==
  [b EXCEPT !.waiting = @ \ {c}, !.got = @ \cup {<<c, answer>>}, !.asked[c] = @ + 1, !.last[c] = answer]

HeardFrom(b, c, answer, h) ==
  /\ DOMAIN h = DOMAIN b /\ h.at = b.at /\ h.codes = b.codes /\ h.skip = b.skip /\ h.waiting = b.waiting \ {c}
  /\ h.got = b.got \cup {<<c, answer>>} /\ h.failures = b.failures /\ h.withRows = b.withRows
  /\ h.cached = b.cached /\ h.retryable = b.retryable /\ h.round = b.round
  /\ h.asked[c] = b.asked[c] + 1 /\ h.last[c] = answer
  /\ \A e \in b.codes \ {c} : h.asked[e] = b.asked[e] /\ h.last[e] = b.last[e]

LEMMA HeardAnswers ==
  ASSUME NEW b, Batching(b), NEW c \in b.codes, NEW answer \in FetchOne
  PROVE  LET h == Heard(b, c, answer)
         IN  /\ HeardFrom(b, c, answer, h) /\ Batching(h)
             /\ \A C \in SUBSET b.codes :
                  /\ c \notin C => AnswersOf(h, C) = AnswersOf(b, C) /\ FailuresOf(h, C) = FailuresOf(b, C)
                  /\ c \in C /\ b.got = AnswersOf(b, C \ {c}) => h.got = AnswersOf(h, C)
<1> DEFINE h == Heard(b, c, answer)
<1>1. /\ DOMAIN h = DOMAIN b /\ h.at = b.at /\ h.codes = b.codes /\ h.skip = b.skip /\ h.waiting = b.waiting \ {c}
      /\ h.got = b.got \cup {<<c, answer>>} /\ h.failures = b.failures /\ h.withRows = b.withRows
      /\ h.cached = b.cached /\ h.retryable = b.retryable /\ h.round = b.round
      /\ h.asked = [b.asked EXCEPT ![c] = @ + 1] /\ h.last = [b.last EXCEPT ![c] = answer]
  BY DEF Heard, Batching
<1> HIDE DEF h
<1>2. /\ h.asked[c] = b.asked[c] + 1 /\ h.last[c] = answer
      /\ \A e \in b.codes \ {c} : h.asked[e] = b.asked[e] /\ h.last[e] = b.last[e]
      /\ h.asked \in [b.codes -> Nat] /\ h.last \in [b.codes -> FetchOne \cup {"none"}]
  BY <1>1 DEF Batching
<1>3. Batching(h)
  BY <1>1, <1>2 DEF Batching
<1>4. ASSUME NEW C \in SUBSET b.codes, c \notin C
      PROVE  AnswersOf(h, C) = AnswersOf(b, C) /\ FailuresOf(h, C) = FailuresOf(b, C)
  <2>1. \A e \in C : h.last[e] = b.last[e]
    BY <1>2, <1>4
  <2>2. AnswersOf(h, C) = AnswersOf(b, C)
    BY <2>1 DEF AnswersOf
  <2> QED BY <2>2 DEF FailuresOf
<1>5. ASSUME NEW C \in SUBSET b.codes, c \in C, b.got = AnswersOf(b, C \ {c})
      PROVE  h.got = AnswersOf(h, C)
  <2>1. AnswersOf(h, C \ {c}) = AnswersOf(b, C \ {c})
    BY <1>4
  <2>2. AnswersOf(h, C) = AnswersOf(h, C \ {c}) \cup {<<c, h.last[c]>>}
    BY <1>5 DEF AnswersOf
  <2>3. h.last[c] = answer
    BY <1>2
  <2>4. h.got = AnswersOf(b, C \ {c}) \cup {<<c, answer>>}
    BY <1>1, <1>5
  <2> QED BY <2>1, <2>2, <2>3, <2>4
<1>6. HeardFrom(b, c, answer, h)
  BY <1>1, <1>2 DEF HeardFrom
<1> QED BY <1>3, <1>4, <1>5, <1>6 DEF h

\* The stocks that are meant by some of the answers.
LEMMA StocksOfAnswers ==
  ASSUME NEW b, NEW C, NEW got, got = AnswersOf(b, C)
  PROVE  /\ {p[1] : p \in got} = C
         /\ {p[1] : p \in {q \in got : RowsOf(q[2])}} = {c \in C : RowsOf(b.last[c])}
         /\ {p[1] : p \in {q \in got : q[2] = "cached"}} = {c \in C : b.last[c] = "cached"}
         /\ {p[1] : p \in {q \in got : ~FailureOf(q[2])}} = {c \in C : ~FailureOf(b.last[c])}
         /\ {p[1] : p \in FailuresOf(b, C)} = {c \in C : FailureOf(b.last[c])}
<1>1. /\ \A p \in got : p[1] \in C /\ p[2] = b.last[p[1]]
      /\ \A c \in C : <<c, b.last[c]>> \in got /\ <<c, b.last[c]>>[1] = c /\ <<c, b.last[c]>>[2] = b.last[c]
  BY AnswersAreOne
<1>2. {p[1] : p \in got} = C
  BY <1>1
<1>3. {p[1] : p \in {q \in got : RowsOf(q[2])}} = {c \in C : RowsOf(b.last[c])}
  BY <1>1
<1>4. {p[1] : p \in {q \in got : q[2] = "cached"}} = {c \in C : b.last[c] = "cached"}
  <2>1. \A c \in C : b.last[c] = "cached" => <<c, b.last[c]>> \in {q \in got : q[2] = "cached"}
    BY <1>1
  <2>2. \A p \in {q \in got : q[2] = "cached"} : p[1] \in C /\ b.last[p[1]] = "cached"
    BY <1>1
  <2>3. \A c \in C : b.last[c] = "cached" => c \in {p[1] : p \in {q \in got : q[2] = "cached"}}
    BY <1>1, <2>1
  <2> QED BY <2>2, <2>3
<1>5. {p[1] : p \in {q \in got : ~FailureOf(q[2])}} = {c \in C : ~FailureOf(b.last[c])}
  BY <1>1
<1>6. {p[1] : p \in FailuresOf(b, C)} = {c \in C : FailureOf(b.last[c])}
  BY <1>1 DEF FailuresOf
<1> QED BY <1>2, <1>3, <1>4, <1>5, <1>6

LEMMA FirstPassSettles ==
  ASSUME NEW h, Batching(h), h.failures = {}, h.round = 0, h.waiting = {},
         h.got = AnswersOf(h, h.codes), \A c \in h.codes : h.asked[c] = 1 /\ h.last[c] \in FetchOne
  PROVE  BatchInv(FirstPassEnds(h))
<1> DEFINE fails == {p \in h.got : FailureOf(p[2])}
           rows == h.withRows \cup {p[1] : p \in {q \in h.got : RowsOf(q[2])}}
           cached == {p[1] : p \in {q \in h.got : q[2] = "cached"}}
           again == {p[1] : p \in fails} \ cached
           merged == [h EXCEPT !.failures = fails, !.withRows = rows, !.got = {}]
           x == [merged EXCEPT !.cached = cached, !.retryable = again, !.at = "between"]
<1>1. Merge(h) = merged
  <2>1. {} \cup fails = fails
    OBVIOUS
  <2> HIDE DEF fails
  <2>2. Merge(h) = [h EXCEPT !.failures = @ \cup fails, !.withRows = rows, !.got = {}]
    BY DEF Merge, fails
  <2> QED BY <2>1, <2>2
<1>2. FirstPassEnds(h) = x
  <2>1. merged.failures = fails
    BY DEF Batching
  <2> QED BY <1>1, <2>1 DEF FirstPassEnds
<1>3. /\ fails = FailuresOf(h, h.codes)
      /\ rows = h.withRows \cup {c \in h.codes : RowsOf(h.last[c])}
      /\ cached = {c \in h.codes : h.last[c] = "cached"}
      /\ again = {c \in h.codes : FailureOf(h.last[c])} \ cached
  <2>1. fails = FailuresOf(h, h.codes)
    BY DEF FailuresOf
  <2> HIDE DEF fails
  <2> QED BY <2>1, StocksOfAnswers
<1> HIDE DEF fails, rows, cached, again
<1>4. /\ DOMAIN x = DOMAIN h /\ x.at = "between" /\ x.codes = h.codes /\ x.waiting = {} /\ x.round = 0
      /\ x.asked = h.asked /\ x.last = h.last /\ x.failures = fails /\ x.withRows = rows
      /\ x.cached = cached /\ x.retryable = again /\ x.got = {}
  BY DEF Batching
<1> HIDE DEF x
<1>5. Batching(x)
  BY <1>4 DEF Batching
<1>6. \A p \in fails : p[1] \in h.codes
  BY <1>3, AnswersAreOne DEF FailuresOf
<1>7. Settles(x, x.codes)
  <2>1. {p \in x.failures : p[1] \in x.codes} = FailuresOf(x, x.codes)
    <3>1. FailuresOf(x, x.codes) = fails
      BY <1>3, <1>4 DEF FailuresOf, AnswersOf
    <3> QED BY <1>4, <1>6, <3>1
  <2>2. \A c \in x.codes :
          /\ x.last[c] \in FetchOne
          /\ RowsOf(x.last[c]) => c \in x.withRows
          /\ x.asked[c] <= 1 + x.round
          /\ c \in x.cached => x.asked[c] = 1
          /\ FailureOf(x.last[c]) /\ c \notin x.cached => c \in x.retryable
          /\ c \in x.retryable => x.asked[c] = 1 + x.round /\ FailureOf(x.last[c]) /\ c \notin x.cached
    BY <1>3, <1>4
  <2> QED BY <2>1, <2>2 DEF Settles
<1>8. x.retryable \subseteq x.codes
  BY <1>3, <1>4
<1>9. BatchInv(x)
  BY <1>4, <1>5, <1>6, <1>7, <1>8 DEF BatchInv, BatchIsAccounted
<1> QED BY <1>2, <1>9

LEMMA RoundSettles ==
  ASSUME NEW h, Batching(h), h.waiting = {}, h.retryable \subseteq h.codes, h.retryable \cap h.cached = {},
         \A p \in h.failures : p[1] \in h.codes,
         h.got = AnswersOf(h, h.retryable),
         \A c \in h.retryable : h.asked[c] = 1 + h.round /\ h.last[c] \in FetchOne,
         Settles(h, h.codes \ h.retryable)
  PROVE  BatchInv(RoundEnds(h))
<1> DEFINE R == h.retryable
           kept == {p \in h.failures : p[1] \notin {q[1] : q \in h.got}}
           fails == {p \in h.got : FailureOf(p[2])}
           rows == h.withRows \cup {p[1] : p \in {q \in h.got : RowsOf(q[2])}}
           recovered == {p[1] : p \in {q \in h.got : ~FailureOf(q[2])}}
           forgotten == [h EXCEPT !.failures = kept]
           merged == [forgotten EXCEPT !.failures = kept \cup fails, !.withRows = rows, !.got = {}]
           x == [merged EXCEPT !.retryable = R \ recovered, !.at = "between"]
<1>1. RoundEnds(h) = x
  <2>1. /\ forgotten.failures = kept /\ forgotten.got = h.got /\ forgotten.withRows = h.withRows
        /\ forgotten.retryable = h.retryable /\ DOMAIN forgotten = DOMAIN h
    BY DEF Batching
  <2>2. RoundEnds(h) = [Merge(forgotten) EXCEPT !.retryable = @ \ recovered, !.at = "between"]
    BY DEF RoundEnds
  <2> HIDE DEF forgotten
  <2>3. Merge(forgotten) = merged
    BY <2>1 DEF Merge
  <2>4. merged.retryable = R
    BY <2>1 DEF Batching
  <2> HIDE DEF merged, recovered
  <2> QED BY <2>2, <2>3, <2>4
<1>2. /\ kept = {p \in h.failures : p[1] \notin R}
      /\ fails = FailuresOf(h, R)
      /\ rows = h.withRows \cup {c \in R : RowsOf(h.last[c])}
      /\ recovered = {c \in R : ~FailureOf(h.last[c])}
  <2>1. {q[1] : q \in h.got} = R
    BY StocksOfAnswers
  <2>2. fails = FailuresOf(h, R)
    BY DEF FailuresOf
  <2> HIDE DEF fails
  <2> QED BY <2>1, <2>2, StocksOfAnswers
<1> HIDE DEF kept, fails, rows, recovered
<1>3. /\ DOMAIN x = DOMAIN h /\ x.at = "between" /\ x.codes = h.codes /\ x.waiting = {} /\ x.round = h.round
      /\ x.asked = h.asked /\ x.last = h.last /\ x.failures = kept \cup fails /\ x.withRows = rows
      /\ x.cached = h.cached /\ x.retryable = R \ recovered /\ x.got = {}
  BY DEF Batching
<1> HIDE DEF x
<1>4. Batching(x)
  BY <1>3 DEF Batching
<1>5. \A p \in fails : p[1] \in R
  BY <1>2, AnswersAreOne DEF FailuresOf
<1>6. \A p \in x.failures : p[1] \in x.codes
  BY <1>2, <1>3, <1>5
<1>7. kept = FailuresOf(h, h.codes \ R)
  BY <1>2 DEF Settles
<1>8. kept \cup fails = FailuresOf(x, x.codes)
  <2>1. AnswersOf(h, h.codes) = AnswersOf(h, h.codes \ R) \cup AnswersOf(h, R)
    BY DEF AnswersOf
  <2>2. FailuresOf(h, h.codes) = kept \cup fails
    BY <1>2, <1>7, <2>1 DEF FailuresOf
  <2> QED BY <1>3, <2>2 DEF FailuresOf, AnswersOf
<1>9. Settles(x, x.codes)
  <2>1. {p \in x.failures : p[1] \in x.codes} = FailuresOf(x, x.codes)
    BY <1>3, <1>6, <1>8
  <2>2. ASSUME NEW c \in x.codes
        PROVE  /\ x.last[c] \in FetchOne
               /\ RowsOf(x.last[c]) => c \in x.withRows
               /\ x.asked[c] <= 1 + x.round
               /\ c \in x.cached => x.asked[c] = 1
               /\ FailureOf(x.last[c]) /\ c \notin x.cached => c \in x.retryable
               /\ c \in x.retryable => x.asked[c] = 1 + x.round /\ FailureOf(x.last[c]) /\ c \notin x.cached
    <3>1. h.asked[c] \in Nat /\ h.round \in Nat
      BY <1>3 DEF Batching
    <3>2. CASE c \in R
      BY <1>2, <1>3, <3>1, <3>2
    <3>3. CASE c \notin R
      BY <1>2, <1>3, <3>1, <3>3 DEF Settles
    <3> QED BY <3>2, <3>3
  <2> QED BY <2>1, <2>2 DEF Settles
<1>10. x.retryable \subseteq x.codes
  BY <1>3
<1>11. BatchInv(x)
  BY <1>3, <1>4, <1>6, <1>9, <1>10 DEF BatchInv, BatchIsAccounted
<1> QED BY <1>1, <1>11

LEMMA BatchAnswerKeeps ==
  ASSUME NEW b, BatchInv(b), b.at \in {"first", "rest", "round"}, NEW c \in b.waiting, NEW answer \in FetchOne
  PROVE  BatchInv(Answer(b, c, answer))
<1> DEFINE h == Heard(b, c, answer)
<1>1. Batching(b) /\ c \in b.codes /\ b.waiting \subseteq b.codes
  BY DEF BatchInv, Batching
<1>2. /\ HeardFrom(b, c, answer, h) /\ Batching(h)
      /\ \A C \in SUBSET b.codes :
           /\ c \notin C => AnswersOf(h, C) = AnswersOf(b, C) /\ FailuresOf(h, C) = FailuresOf(b, C)
           /\ c \in C /\ b.got = AnswersOf(b, C \ {c}) => h.got = AnswersOf(h, C)
  BY <1>1, HeardAnswers
<1>3. Answer(b, c, answer) =
        CASE b.at = "first" /\ h.waiting # {} ->
                [h EXCEPT !.at = "rest", !.skip = @ \/ UnreachableOf(answer)]
          [] b.at \in {"first", "rest"} /\ h.waiting = {} -> FirstPassEnds(h)
          [] b.at = "round" /\ h.waiting = {} -> RoundEnds(h)
          [] OTHER -> h
  BY DEF Answer, Heard
<1> HIDE DEF h
<1>6. /\ DOMAIN h = DOMAIN b /\ h.at = b.at /\ h.codes = b.codes /\ h.waiting = b.waiting \ {c}
      /\ h.failures = b.failures /\ h.cached = b.cached /\ h.withRows = b.withRows
      /\ h.retryable = b.retryable /\ h.round = b.round
  BY <1>2 DEF HeardFrom
<1>7. /\ h.asked[c] = b.asked[c] + 1 /\ h.last[c] = answer
      /\ \A e \in b.codes \ {c} : h.asked[e] = b.asked[e] /\ h.last[e] = b.last[e]
  BY <1>2 DEF HeardFrom
<1>4. CASE b.at \in {"first", "rest"}
  <2>1. /\ b.failures = {} /\ b.round = 0 /\ b.got = AnswersOf(b, b.codes \ b.waiting)
        /\ \A e \in b.waiting : b.asked[e] = 0
        /\ \A e \in b.codes \ b.waiting : b.asked[e] = 1 /\ b.last[e] \in FetchOne
    BY <1>4 DEF BatchInv
  <2>2. h.got = AnswersOf(h, h.codes \ h.waiting)
    <3>1. (b.codes \ h.waiting) \ {c} = b.codes \ b.waiting /\ c \in b.codes \ h.waiting
      BY <1>1, <1>6
    <3> QED BY <1>2, <1>6, <2>1, <3>1
  <2>3. /\ \A e \in h.waiting : h.asked[e] = 0
        /\ \A e \in h.codes \ h.waiting : h.asked[e] = 1 /\ h.last[e] \in FetchOne
    BY <1>1, <1>6, <1>7, <2>1
  <2>4. CASE h.waiting = {}
    <3>1. Answer(b, c, answer) = FirstPassEnds(h)
      BY <1>3, <1>4, <2>4
    <3>2. BatchInv(FirstPassEnds(h))
      <4>1. h.codes \ h.waiting = h.codes
        BY <2>4
      <4>2. h.failures = {} /\ h.round = 0
        BY <1>6, <2>1
      <4> QED BY <1>2, <2>2, <2>3, <2>4, <4>1, <4>2, FirstPassSettles
    <3> QED BY <3>1, <3>2
  <2>5. CASE h.waiting # {}
    <3> DEFINE x == [h EXCEPT !.at = "rest", !.skip = @ \/ UnreachableOf(answer)]
    <3>1. Answer(b, c, answer) \in {h, x}
      BY <1>3, <1>4, <2>5
    <3>2. BatchInv(h)
      BY <1>2, <1>4, <1>6, <2>1, <2>2, <2>3, <2>5 DEF BatchInv, BatchIsAccounted
    <3>3. BatchInv(x)
      <4>1. /\ DOMAIN x = DOMAIN h /\ x.at = "rest" /\ x.codes = h.codes /\ x.waiting = h.waiting /\ x.round = h.round
            /\ x.asked = h.asked /\ x.last = h.last /\ x.failures = h.failures /\ x.got = h.got
        BY <1>2 DEF Batching
      <4> HIDE DEF x
      <4>2. Batching(x)
        BY <1>2, <4>1 DEF Batching
      <4>3. x.got = AnswersOf(x, x.codes \ x.waiting)
        BY <2>2, <4>1 DEF AnswersOf
      <4> QED BY <1>6, <2>1, <2>3, <2>5, <4>1, <4>2, <4>3 DEF BatchInv, BatchIsAccounted
    <3> QED BY <3>1, <3>2, <3>3
  <2> QED BY <2>4, <2>5
<1>5. CASE b.at = "round"
  <2>1. /\ b.retryable \subseteq b.codes /\ b.waiting \subseteq b.retryable
        /\ b.retryable \cap b.cached = {} /\ \A p \in b.failures : p[1] \in b.codes
        /\ b.round > 0
        /\ b.got = AnswersOf(b, b.retryable \ b.waiting)
        /\ \A e \in b.waiting : b.asked[e] = b.round
        /\ \A e \in b.retryable \ b.waiting : b.asked[e] = 1 + b.round /\ b.last[e] \in FetchOne
        /\ Settles(b, b.codes \ b.retryable)
    BY <1>5 DEF BatchInv
  <2>2. h.got = AnswersOf(h, h.retryable \ h.waiting)
    <3>1. (b.retryable \ h.waiting) \ {c} = b.retryable \ b.waiting /\ c \in b.retryable \ h.waiting
      BY <1>6, <2>1
    <3> QED BY <1>2, <1>6, <2>1, <3>1
  <2>3. /\ \A e \in h.waiting : h.asked[e] = h.round
        /\ \A e \in h.retryable \ h.waiting : h.asked[e] = 1 + h.round /\ h.last[e] \in FetchOne
    BY <1>1, <1>6, <1>7, <2>1 DEF Batching
  <2>4. Settles(h, h.codes \ h.retryable)
    <3>1. c \notin b.codes \ b.retryable
      BY <2>1
    <3>2. FailuresOf(h, b.codes \ b.retryable) = FailuresOf(b, b.codes \ b.retryable)
      BY <1>2, <3>1
    <3>3. \A e \in b.codes \ b.retryable : h.asked[e] = b.asked[e] /\ h.last[e] = b.last[e]
      BY <1>7, <3>1
    <3> QED BY <1>6, <2>1, <3>2, <3>3 DEF Settles
  <2>5. CASE h.waiting = {}
    <3>1. Answer(b, c, answer) = RoundEnds(h)
      BY <1>3, <1>5, <2>5
    <3>2. h.retryable \ h.waiting = h.retryable
      BY <2>5
    <3>3. h.retryable \subseteq h.codes /\ h.retryable \cap h.cached = {} /\ \A p \in h.failures : p[1] \in h.codes
      BY <1>6, <2>1
    <3>4. h.got = AnswersOf(h, h.retryable)
          /\ \A e \in h.retryable : h.asked[e] = 1 + h.round /\ h.last[e] \in FetchOne
      BY <2>2, <2>3, <3>2
    <3>5. BatchInv(RoundEnds(h))
      BY <1>2, <2>4, <2>5, <3>3, <3>4, RoundSettles
    <3> QED BY <3>1, <3>5
  <2>6. CASE h.waiting # {}
    <3>1. Answer(b, c, answer) = h
      BY <1>3, <1>5, <2>6
    <3>2. h.retryable \subseteq h.codes /\ h.waiting \subseteq h.retryable /\ h.at = "round" /\ h.round > 0
          /\ h.retryable \cap h.cached = {} /\ \A p \in h.failures : p[1] \in h.codes
      BY <1>5, <1>6, <2>1
    <3>3. BatchInv(h)
      BY <1>2, <2>2, <2>3, <2>4, <2>6, <3>2 DEF BatchInv, BatchIsAccounted
    <3> QED BY <3>1, <3>3
  <2> QED BY <2>5, <2>6
<1> QED BY <1>4, <1>5

LEMMA BatchStepKeeps ==
  ASSUME NEW b, BatchInv(b), NEW x \in BatchSteps(b)
  PROVE  BatchInv(x)
<1>1. b.at \in {"first", "rest", "round", "between", "done"} /\ b.waiting \in SUBSET Int /\ IsFiniteSet(b.waiting)
  BY FS_Subset DEF BatchInv, Batching
<1>2. CASE b.at = "first"
  <2>1. Min(b.waiting) \in b.waiting
    BY <1>1, <1>2, Ends DEF BatchInv
  <2>2. PICK answer \in FetchOne : x = Answer(b, Min(b.waiting), answer)
    BY <1>2 DEF BatchSteps
  <2> QED BY <1>2, <2>1, <2>2, BatchAnswerKeeps
<1>3. CASE b.at \in {"rest", "round"}
  <2>1. PICK c \in b.waiting, answer \in FetchOne : x = Answer(b, c, answer)
    BY <1>3 DEF BatchSteps
  <2> QED BY <1>3, <2>1, BatchAnswerKeeps
<1>4. CASE b.at = "between"
  <2>1. x = StartRound(b)
    BY <1>4 DEF BatchSteps
  <2> QED BY <1>4, <2>1, RoundStarts
<1>5. CASE b.at = "done"
  BY <1>5 DEF BatchSteps
<1> QED BY <1>1, <1>2, <1>3, <1>4, <1>5

LEMMA NewBatchIsAccounted ==
  ASSUME NEW skip \in BOOLEAN
  PROVE  BatchInv(NewBatch(Codes, skip))
<1> DEFINE b == NewBatch(Codes, skip)
<1>1. Codes \in SUBSET Int /\ IsFiniteSet(Codes) /\ RetryRounds \in Nat
  BY ProcedureAssumption, FlowConstants
<1>2. /\ DOMAIN b = {"at", "codes", "skip", "waiting", "got", "failures", "withRows", "cached",
                     "retryable", "round", "asked", "last"}
      /\ b.at = IF Codes = {} THEN "done" ELSE "first"
      /\ b.codes = Codes /\ b.waiting = Codes /\ b.got = {} /\ b.failures = {} /\ b.round = 0
      /\ b.asked = [c \in Codes |-> 0] /\ b.last = [c \in Codes |-> "none"]
  BY DEF NewBatch
<1> HIDE DEF b
<1>3. Batching(b)
  BY <1>1, <1>2 DEF Batching
<1>4. b.got = AnswersOf(b, b.codes \ b.waiting)
  BY <1>2 DEF AnswersOf
<1>5. BatchInv(b)
  BY <1>2, <1>3, <1>4 DEF BatchInv, BatchIsAccounted
<1> QED BY <1>5 DEF b
-----------------------------------------------------------------------------
(* FlowProviders: the recent-success cache.                                 *)

Places(history, c) == {i \in 1..Len(history) : history[i] = c}
LastAt(history, c) == Max(Places(history, c))
SeenIn(history) == {history[i] : i \in 1..Len(history)}

\* Stocks in the order of their last successes, above every stock left out.
InOrder(history, kept) ==
  /\ history \in Seq(Codes) /\ kept \in Seq(Codes)
  /\ SeenIn(kept) \subseteq SeenIn(history)
  /\ \A i, j \in 1..Len(kept) : i < j => LastAt(history, kept[i]) < LastAt(history, kept[j])
  /\ \A e \in SeenIn(history) \ SeenIn(kept), c \in SeenIn(kept) : LastAt(history, e) < LastAt(history, c)

\* The cache is in order, and full unless it holds every stock that succeeded.
KeptInv(history, kept) ==
  /\ InOrder(history, kept) /\ Len(kept) <= KeptMax
  /\ Len(kept) = KeptMax \/ SeenIn(kept) = SeenIn(history)

LEMMA LastPlace ==
  ASSUME NEW history \in Seq(Codes), NEW c \in SeenIn(history)
  PROVE  /\ LastAt(history, c) \in 1..Len(history) /\ history[LastAt(history, c)] = c
         /\ \A i \in 1..Len(history) : history[i] = c => i <= LastAt(history, c)
<1> DEFINE S == Places(history, c)
<1>1. Len(history) \in Nat
  OBVIOUS
<1>2. S \in SUBSET (1..Len(history)) /\ S # {}
  BY DEF SeenIn, Places
<1>3. S \in SUBSET Int /\ IsFiniteSet(S)
  <2>1. IsFiniteSet(1..Len(history))
    BY <1>1, FS_Interval
  <2> QED BY <1>2, <2>1, FS_Subset
<1>4. Max(S) \in S /\ \A y \in S : y <= Max(S)
  BY <1>2, <1>3, Ends
<1> QED BY <1>4 DEF LastAt, Places

LEMMA LastPlaceGrows ==
  ASSUME NEW history \in Seq(Codes), NEW c \in Codes
  PROVE  LET more == Append(history, c)
         IN  /\ more \in Seq(Codes) /\ SeenIn(more) = SeenIn(history) \cup {c}
             /\ LastAt(more, c) = Len(history) + 1
             /\ \A e \in SeenIn(history) \ {c} : LastAt(more, e) = LastAt(history, e)
<1> DEFINE more == Append(history, c)
<1>1. /\ more \in Seq(Codes) /\ Len(history) \in Nat /\ Len(more) = Len(history) + 1
      /\ more[Len(history) + 1] = c /\ \A i \in 1..Len(history) : more[i] = history[i]
  BY AppendProperties
<1> HIDE DEF more
<1>2. SeenIn(more) = SeenIn(history) \cup {c}
  <2>1. \A i \in 1..Len(more) : i \in 1..Len(history) \/ i = Len(history) + 1
    BY <1>1
  <2>2. 1..Len(history) \subseteq 1..Len(more) /\ Len(history) + 1 \in 1..Len(more)
    BY <1>1
  <2> QED BY <1>1, <2>1, <2>2 DEF SeenIn
<1>3. LastAt(more, c) = Len(history) + 1
  <2>1. c \in SeenIn(more)
    BY <1>2
  <2>2. LastAt(more, c) \in 1..Len(more) /\ Len(history) + 1 <= LastAt(more, c)
    <3>1. Len(history) + 1 \in 1..Len(more)
      BY <1>1
    <3> QED BY <1>1, <2>1, <3>1, LastPlace
  <2> QED BY <1>1, <2>2
<1>4. ASSUME NEW e \in SeenIn(history) \ {c} PROVE LastAt(more, e) = LastAt(history, e)
  <2>1. Places(more, e) = Places(history, e)
    <3>1. \A i \in 1..Len(more) : i \in 1..Len(history) \/ i = Len(history) + 1
      BY <1>1
    <3>2. 1..Len(history) \subseteq 1..Len(more)
      BY <1>1
    <3> QED BY <1>1, <3>1, <3>2 DEF Places
  <2> QED BY <2>1 DEF LastAt
<1> QED BY <1>1, <1>2, <1>3, <1>4 DEF more

\* A sequence without one of its places.
LEMMA WithoutAPlace ==
  ASSUME NEW kept \in Seq(Codes), NEW k \in 1..Len(kept)
  PROVE  LET others == SubSeq(kept, 1, k - 1) \o SubSeq(kept, k + 1, Len(kept))
         IN  /\ others \in Seq(Codes) /\ Len(others) = Len(kept) - 1
             /\ \A i \in 1..(Len(kept) - 1) : others[i] = kept[IF i < k THEN i ELSE i + 1]
<1> DEFINE n == Len(kept)
           a == SubSeq(kept, 1, k - 1)
           b == SubSeq(kept, k + 1, n)
<1>1. n \in Nat /\ k \in Nat /\ 1 <= k /\ k <= n /\ \A i \in 1..n : kept[i] \in Codes
  OBVIOUS
<1>2. a \in Seq(Codes) /\ Len(a) = k - 1 /\ \A i \in 1..(k - 1) : a[i] = kept[i]
  <2>1. \A i \in 1..(k - 1) : kept[i] \in Codes
    BY <1>1
  <2>2. /\ a \in Seq(Codes) /\ Len(a) = IF 1 <= k - 1 THEN k - 1 - 1 + 1 ELSE 0
        /\ \A i \in 1..(k - 1 - 1 + 1) : a[i] = kept[1 + i - 1]
    <3>1. 1 \in Int /\ k - 1 \in Int
      BY <1>1
    <3> HIDE DEF n
    <3> QED BY <2>1, <3>1, SubSeqProperties
  <2> HIDE DEF a
  <2> QED BY <1>1, <2>2
<1>3. b \in Seq(Codes) /\ Len(b) = n - k /\ \A i \in 1..(n - k) : b[i] = kept[k + i]
  <2>1. \A i \in (k + 1)..n : kept[i] \in Codes
    BY <1>1
  <2>2. /\ b \in Seq(Codes) /\ Len(b) = IF k + 1 <= n THEN n - (k + 1) + 1 ELSE 0
        /\ \A i \in 1..(n - (k + 1) + 1) : b[i] = kept[k + 1 + i - 1]
    <3>1. k + 1 \in Int /\ n \in Int
      BY <1>1
    <3> HIDE DEF n
    <3> QED BY <2>1, <3>1, SubSeqProperties
  <2> HIDE DEF b, n
  <2> QED BY <1>1, <2>2
<1> HIDE DEF a, b, n
<1>4. /\ a \o b \in Seq(Codes) /\ Len(a \o b) = Len(a) + Len(b)
      /\ \A i \in 1..(Len(a) + Len(b)) : (a \o b)[i] = IF i <= Len(a) THEN a[i] ELSE b[i - Len(a)]
  BY <1>2, <1>3, ConcatProperties
<1>5. ASSUME NEW i \in 1..(n - 1) PROVE (a \o b)[i] = kept[IF i < k THEN i ELSE i + 1]
  <2>1. Len(a) + Len(b) = n - 1
    BY <1>1, <1>2, <1>3
  <2>2. CASE i < k
    BY <1>1, <1>2, <1>4, <2>1, <2>2
  <2>3. CASE ~(i < k)
    <3>1. (a \o b)[i] = b[i - (k - 1)] /\ i - (k - 1) \in 1..(n - k)
      BY <1>1, <1>2, <1>4, <2>1, <2>3
    <3>2. k + (i - (k - 1)) = i + 1
      BY <1>1
    <3> QED BY <1>3, <2>3, <3>1, <3>2
  <2> QED BY <2>2, <2>3
<1>6. Len(a \o b) = n - 1
  BY <1>1, <1>2, <1>3, <1>4
<1>7. /\ a \o b \in Seq(Codes) /\ Len(a \o b) = n - 1
      /\ \A i \in 1..(n - 1) : (a \o b)[i] = kept[IF i < k THEN i ELSE i + 1]
  BY <1>4, <1>5, <1>6
<1> QED BY <1>7, Zenon DEF a, b, n

\* The cache without the stock that succeeds again.
Others(kept, c) ==
  LET at == {i \in 1..Len(kept) : kept[i] = c}
  IN  IF at = {} THEN kept ELSE SubSeq(kept, 1, Min(at) - 1) \o SubSeq(kept, Min(at) + 1, Len(kept))

LEMMA OthersAreInOrder ==
  ASSUME NEW history, NEW kept, InOrder(history, kept), NEW c \in Codes
  PROVE  LET others == Others(kept, c)
         IN  /\ others \in Seq(Codes) /\ SeenIn(others) = SeenIn(kept) \ {c}
             /\ Len(others) \in {Len(kept) - 1, Len(kept)}
             /\ \A i, j \in 1..Len(others) :
                  i < j => LastAt(history, others[i]) < LastAt(history, others[j])
<1> DEFINE at == {i \in 1..Len(kept) : kept[i] = c}
           others == Others(kept, c)
<1>1. /\ history \in Seq(Codes) /\ kept \in Seq(Codes) /\ Len(kept) \in Nat
      /\ \A i, j \in 1..Len(kept) : i < j => LastAt(history, kept[i]) < LastAt(history, kept[j])
  BY DEF InOrder
<1>2. CASE at = {}
  <2>1. others = kept
    BY <1>2 DEF Others
  <2>2. SeenIn(kept) \ {c} = SeenIn(kept)
    BY <1>2 DEF SeenIn
  <2> QED BY <1>1, <2>1, <2>2
<1>3. CASE at # {}
  <2> DEFINE k == Min(at)
             shift(i) == IF i < k THEN i ELSE i + 1
  <2>1. k \in 1..Len(kept) /\ kept[k] = c
    <3>1. at \in SUBSET Int /\ IsFiniteSet(at)
      <4>1. IsFiniteSet(1..Len(kept))
        BY <1>1, FS_Interval
      <4> QED BY <4>1, FS_Subset
    <3>2. k \in at
      <4> HIDE DEF at
      <4> QED BY <1>3, <3>1, Ends
    <3> QED BY <3>2
  <2>2. others = SubSeq(kept, 1, k - 1) \o SubSeq(kept, k + 1, Len(kept))
    BY <1>3 DEF Others
  <2> HIDE DEF k, others, at
  <2>3. /\ others \in Seq(Codes) /\ Len(others) = Len(kept) - 1
        /\ \A i \in 1..(Len(kept) - 1) : others[i] = kept[shift(i)]
    BY <1>1, <2>1, <2>2, WithoutAPlace
  <2>4. \A i \in 1..Len(kept) : kept[i] = c => i = k
    <3> SUFFICES ASSUME NEW i \in 1..Len(kept), kept[i] = c, i # k PROVE FALSE
      OBVIOUS
    <3>1. LastAt(history, c) \in Int
      <4>1. c \in SeenIn(history)
        BY <2>1 DEF InOrder, SeenIn
      <4> QED BY <1>1, <4>1, LastPlace
    <3>2. i < k \/ k < i
      BY <2>1
    <3> QED BY <1>1, <2>1, <3>1, <3>2
  <2>5. \A i \in 1..Len(others) : shift(i) \in 1..Len(kept) /\ shift(i) # k
    BY <1>1, <2>1, <2>3
  <2>6. SeenIn(others) = SeenIn(kept) \ {c}
    <3>1. ASSUME NEW e \in SeenIn(others) PROVE e \in SeenIn(kept) \ {c}
      <4>1. PICK i \in 1..Len(others) : others[i] = e
        BY DEF SeenIn
      <4>2. e = kept[shift(i)]
        BY <2>3, <4>1
      <4> HIDE DEF shift
      <4> QED BY <2>4, <2>5, <4>2 DEF SeenIn
    <3>2. ASSUME NEW e \in SeenIn(kept) \ {c} PROVE e \in SeenIn(others)
      <4>1. PICK i \in 1..Len(kept) : kept[i] = e
        BY DEF SeenIn
      <4>2. i # k
        BY <2>1, <4>1
      <4>3. CASE i < k
        <5>1. i \in 1..Len(others) /\ shift(i) = i
          BY <1>1, <2>1, <2>3, <4>3
        <5> QED BY <2>3, <4>1, <5>1 DEF SeenIn
      <4>4. CASE k < i
        <5>1. i - 1 \in 1..Len(others) /\ shift(i - 1) = i
          BY <1>1, <2>1, <2>3, <4>4
        <5> QED BY <2>3, <4>1, <5>1 DEF SeenIn
      <4> QED BY <2>1, <4>2, <4>3, <4>4
    <3> QED BY <3>1, <3>2
  <2>7. ASSUME NEW i \in 1..Len(others), NEW j \in 1..Len(others), i < j
        PROVE  LastAt(history, others[i]) < LastAt(history, others[j])
    <3>1. shift(i) < shift(j)
      BY <2>1, <2>7
    <3>2. others[i] = kept[shift(i)] /\ others[j] = kept[shift(j)]
      BY <2>3
    <3> HIDE DEF shift
    <3> QED BY <1>1, <2>5, <3>1, <3>2
  <2>8. Len(others) \in {Len(kept) - 1, Len(kept)}
    BY <2>3
  <2>9. \A i, j \in 1..Len(others) : i < j => LastAt(history, others[i]) < LastAt(history, others[j])
    BY <2>7
  <2> QED BY <2>3, <2>6, <2>8, <2>9, Zenon DEF others
<1> QED BY <1>2, <1>3

\* The stock that succeeds goes to the end: the order holds of the longer history.
LEMMA RenewedIsInOrder ==
  ASSUME NEW history, NEW kept, InOrder(history, kept), NEW c \in Codes
  PROVE  LET more    == Append(history, c)
             renewed == Append(Others(kept, c), c)
         IN  /\ InOrder(more, renewed) /\ Len(renewed) \in {Len(kept), Len(kept) + 1}
             /\ SeenIn(more) = SeenIn(history) \cup {c}
             /\ SeenIn(renewed) = SeenIn(kept) \cup {c}
<1> DEFINE more == Append(history, c)
           others == Others(kept, c)
           renewed == Append(others, c)
<1>1. /\ history \in Seq(Codes) /\ kept \in Seq(Codes) /\ Len(kept) \in Nat /\ Len(history) \in Nat
      /\ SeenIn(kept) \subseteq SeenIn(history)
      /\ \A e \in SeenIn(history) \ SeenIn(kept), d \in SeenIn(kept) : LastAt(history, e) < LastAt(history, d)
  BY DEF InOrder
<1>2. /\ others \in Seq(Codes) /\ SeenIn(others) = SeenIn(kept) \ {c}
      /\ Len(others) \in {Len(kept) - 1, Len(kept)}
      /\ \A i, j \in 1..Len(others) :
           i < j => LastAt(history, others[i]) < LastAt(history, others[j])
  BY OthersAreInOrder
<1>3. /\ more \in Seq(Codes) /\ SeenIn(more) = SeenIn(history) \cup {c}
      /\ LastAt(more, c) = Len(history) + 1
      /\ \A e \in SeenIn(history) \ {c} : LastAt(more, e) = LastAt(history, e)
  BY <1>1, LastPlaceGrows
<1> HIDE DEF others, more
<1>4. /\ renewed \in Seq(Codes) /\ Len(renewed) = Len(others) + 1 /\ Len(others) \in Nat
      /\ renewed[Len(others) + 1] = c /\ \A i \in 1..Len(others) : renewed[i] = others[i]
  BY <1>2, AppendProperties
<1> HIDE DEF renewed
<1>5. SeenIn(renewed) = SeenIn(kept) \cup {c}
  <2>1. \A i \in 1..Len(renewed) : i \in 1..Len(others) \/ i = Len(others) + 1
    BY <1>4
  <2>2. 1..Len(others) \subseteq 1..Len(renewed) /\ Len(others) + 1 \in 1..Len(renewed)
    BY <1>4
  <2>3. SeenIn(renewed) = SeenIn(others) \cup {c}
    BY <1>4, <2>1, <2>2 DEF SeenIn
  <2> QED BY <1>2, <2>3
<1>6. \A e \in SeenIn(history) \ {c} : LastAt(more, e) \in 1..Len(history)
  BY <1>1, <1>3, LastPlace
<1>7. ASSUME NEW i \in 1..Len(renewed), NEW j \in 1..Len(renewed), i < j
      PROVE  LastAt(more, renewed[i]) < LastAt(more, renewed[j])
  <2>1. i \in 1..Len(others) /\ renewed[i] = others[i]
    BY <1>4, <1>7
  <2>2. others[i] \in SeenIn(history) \ {c}
    BY <1>1, <1>2, <2>1 DEF SeenIn
  <2>3. CASE j \in 1..Len(others)
    <3>1. others[j] \in SeenIn(history) \ {c} /\ renewed[j] = others[j]
      BY <1>1, <1>2, <1>4, <2>3 DEF SeenIn
    <3> QED BY <1>2, <1>3, <1>7, <2>1, <2>2, <2>3, <3>1
  <2>4. CASE j = Len(others) + 1
    <3>1. renewed[j] = c
      BY <1>4, <2>4
    <3>2. LastAt(more, others[i]) \in 1..Len(history)
      BY <1>6, <2>2
    <3> QED BY <1>1, <1>3, <2>1, <3>1, <3>2
  <2> QED BY <1>4, <2>3, <2>4
<1>8. ASSUME NEW e \in SeenIn(more) \ SeenIn(renewed), NEW d \in SeenIn(renewed)
      PROVE  LastAt(more, e) < LastAt(more, d)
  <2>1. e \in SeenIn(history) \ SeenIn(kept) /\ e # c
    BY <1>3, <1>5
  <2>2. LastAt(more, e) = LastAt(history, e) /\ LastAt(more, e) \in 1..Len(history)
    BY <1>3, <1>6, <2>1
  <2>3. CASE d = c
    BY <1>1, <1>3, <2>2, <2>3
  <2>4. CASE d # c
    <3>1. d \in SeenIn(kept) /\ d \in SeenIn(history) \ {c}
      BY <1>1, <1>5, <2>4
    <3> QED BY <1>1, <1>3, <2>1, <2>2, <3>1
  <2> QED BY <2>3, <2>4
<1>9. SeenIn(renewed) \subseteq SeenIn(more)
  BY <1>1, <1>3, <1>5
<1>10. InOrder(more, renewed)
  BY <1>3, <1>4, <1>7, <1>8, <1>9 DEF InOrder
<1>11. Len(renewed) \in {Len(kept), Len(kept) + 1}
  BY <1>1, <1>2, <1>4
<1> QED BY <1>3, <1>5, <1>10, <1>11, Zenon DEF more, renewed, others

\* Dropping the first stock keeps the order.
LEMMA RestIsInOrder ==
  ASSUME NEW history, NEW kept, InOrder(history, kept), Len(kept) >= 1
  PROVE  LET rest == SubSeq(kept, 2, Len(kept))
         IN  InOrder(history, rest) /\ Len(rest) = Len(kept) - 1
<1> DEFINE rest == SubSeq(kept, 2, Len(kept))
           n == Len(kept)
<1>1. /\ history \in Seq(Codes) /\ kept \in Seq(Codes) /\ n \in Nat /\ n >= 1
      /\ SeenIn(kept) \subseteq SeenIn(history)
      /\ \A i, j \in 1..n : i < j => LastAt(history, kept[i]) < LastAt(history, kept[j])
      /\ \A e \in SeenIn(history) \ SeenIn(kept), d \in SeenIn(kept) : LastAt(history, e) < LastAt(history, d)
  BY DEF InOrder
<1>2. rest \in Seq(Codes) /\ Len(rest) = n - 1 /\ \A i \in 1..(n - 1) : rest[i] = kept[i + 1]
  <2>1. \A i \in 2..n : kept[i] \in Codes
    BY <1>1
  <2>2. /\ rest \in Seq(Codes) /\ Len(rest) = IF 2 <= n THEN n - 2 + 1 ELSE 0
        /\ \A i \in 1..(n - 2 + 1) : rest[i] = kept[2 + i - 1]
    <3>1. 2 \in Int /\ n \in Int
      BY <1>1
    <3>2. rest = SubSeq(kept, 2, n)
      OBVIOUS
    <3> HIDE DEF n, rest
    <3> QED BY <2>1, <3>1, <3>2, SubSeqProperties
  <2> HIDE DEF rest, n
  <2> QED BY <1>1, <2>2
<1> HIDE DEF rest
<1>3. SeenIn(rest) \subseteq SeenIn(kept)
  <2>1. \A i \in 1..Len(rest) : i + 1 \in 1..n /\ rest[i] = kept[i + 1]
    BY <1>1, <1>2
  <2> QED BY <2>1 DEF SeenIn
<1>4. ASSUME NEW i \in 1..Len(rest), NEW j \in 1..Len(rest), i < j
      PROVE  LastAt(history, rest[i]) < LastAt(history, rest[j])
  <2>1. i + 1 \in 1..n /\ j + 1 \in 1..n /\ i + 1 < j + 1 /\ rest[i] = kept[i + 1] /\ rest[j] = kept[j + 1]
    BY <1>1, <1>2, <1>4
  <2> QED BY <1>1, <2>1
<1>5. ASSUME NEW e \in SeenIn(history) \ SeenIn(rest), NEW d \in SeenIn(rest)
      PROVE  LastAt(history, e) < LastAt(history, d)
  <2>1. CASE e \notin SeenIn(kept)
    BY <1>1, <1>3, <2>1
  <2>2. CASE e \in SeenIn(kept)
    <3>1. PICK i \in 1..n : kept[i] = e
      BY <2>2 DEF SeenIn
    <3>2. i = 1
      <4> SUFFICES ASSUME i # 1 PROVE FALSE
        OBVIOUS
      <4>1. i - 1 \in 1..Len(rest) /\ rest[i - 1] = e
        BY <1>1, <1>2, <3>1
      <4> QED BY <4>1 DEF SeenIn
    <3>3. PICK j \in 1..Len(rest) : rest[j] = d
      BY DEF SeenIn
    <3>4. j + 1 \in 1..n /\ 1 \in 1..n /\ 1 < j + 1 /\ kept[j + 1] = d
      BY <1>1, <1>2, <3>3
    <3> QED BY <1>1, <3>1, <3>2, <3>4
  <2> QED BY <2>1, <2>2
<1>6. InOrder(history, rest)
  BY <1>1, <1>2, <1>3, <1>4, <1>5 DEF InOrder
<1> QED BY <1>2, <1>6 DEF rest

LEMMA KeptStepKeeps ==
  ASSUME NEW history, NEW kept, KeptInv(history, kept), NEW c \in Codes
  PROVE  KeptInv(Append(history, c), Remember(kept, c, KeptMax))
<1> DEFINE more == Append(history, c)
           renewed == Append(Others(kept, c), c)
           kept2 == Remember(kept, c, KeptMax)
<1>1. /\ InOrder(history, kept) /\ Len(kept) <= KeptMax
      /\ Len(kept) = KeptMax \/ SeenIn(kept) = SeenIn(history)
  BY DEF KeptInv
<1>2. /\ InOrder(more, renewed) /\ Len(renewed) \in {Len(kept), Len(kept) + 1}
      /\ SeenIn(more) = SeenIn(history) \cup {c}
      /\ SeenIn(renewed) = SeenIn(kept) \cup {c}
  BY <1>1, RenewedIsInOrder
<1>3. kept2 = IF Len(renewed) > KeptMax THEN SubSeq(renewed, Len(renewed) - KeptMax + 1, Len(renewed))
              ELSE renewed
  BY DEF Remember, Others
<1>4. Len(kept) \in Nat /\ KeptMax \in Nat /\ Len(renewed) \in Nat
  BY <1>1, <1>2, ProcedureAssumption DEF InOrder
<1> HIDE DEF more, renewed, kept2
<1>5. CASE Len(renewed) > KeptMax
  <2>1. Len(kept) = KeptMax /\ Len(renewed) = KeptMax + 1
    BY <1>1, <1>2, <1>4, <1>5
  <2>2. kept2 = SubSeq(renewed, 2, Len(renewed))
    <3>1. Len(renewed) - KeptMax + 1 = 2
      BY <1>4, <2>1
    <3> QED BY <1>3, <1>5, <3>1
  <2>3. InOrder(more, kept2) /\ Len(kept2) = KeptMax
    <3>1. Len(renewed) >= 1
      BY <1>4, <2>1
    <3>2. InOrder(more, kept2) /\ Len(kept2) = Len(renewed) - 1
      BY <1>2, <2>2, <3>1, RestIsInOrder
    <3> QED BY <1>4, <2>1, <3>2
  <2> QED BY <1>4, <2>3 DEF KeptInv, more, kept2
<1>6. CASE ~(Len(renewed) > KeptMax)
  <2>1. kept2 = renewed /\ Len(renewed) <= KeptMax
    BY <1>3, <1>4, <1>6
  <2>2. Len(renewed) = KeptMax \/ SeenIn(renewed) = SeenIn(more)
    BY <1>1, <1>2, <1>4, <2>1
  <2>3. KeptInv(more, kept2)
    BY <1>2, <2>1, <2>2 DEF KeptInv
  <2> QED BY <2>3 DEF more, kept2
<1> QED BY <1>5, <1>6

LEMMA NewCacheIsKept == KeptInv(<<>>, <<>>)
<1>1. <<>> \in Seq(Codes) /\ Len(<<>>) = 0 /\ SeenIn(<<>>) = {}
  BY DEF SeenIn
<1>2. InOrder(<<>>, <<>>)
  BY <1>1 DEF InOrder
<1> QED BY <1>1, <1>2, ProcedureAssumption DEF KeptInv

\* Fewer than the maximum have succeeded since a stock that is held, and all that
\* are held, which are the maximum, since a stock that is not.
LEMMA KeptIsRecent ==
  ASSUME NEW history, NEW kept, KeptInv(history, kept)
  PROVE  CacheIsRecent(history, kept, KeptMax)
<1> DEFINE held == SeenIn(kept)
           seen == SeenIn(history)
           since(c) == {e \in seen : LastAt(history, e) > LastAt(history, c)}
<1>1. /\ InOrder(history, kept) /\ Len(kept) <= KeptMax /\ Len(kept) \in Nat /\ KeptMax \in Nat
      /\ Len(kept) = KeptMax \/ held = seen
  BY ProcedureAssumption DEF KeptInv, InOrder
<1>2. /\ history \in Seq(Codes) /\ kept \in Seq(Codes) /\ held \subseteq seen
      /\ \A i, j \in 1..Len(kept) : i < j => LastAt(history, kept[i]) < LastAt(history, kept[j])
      /\ \A e \in seen \ held, d \in held : LastAt(history, e) < LastAt(history, d)
  BY <1>1 DEF InOrder
<1>3. \A e \in seen : LastAt(history, e) \in Int
  BY <1>2, LastPlace
<1>0. Len(kept) \in Nat /\ 1 \in Int /\ Len(kept) \in Int
  BY <1>1
<1>4. IsFiniteSet(held) /\ Cardinality(held) = Len(kept)
  <2> DEFINE P == 1..Len(kept)
             f == [i \in P |-> kept[i]]
  <2>1. IsFiniteSet(P) /\ Cardinality(P) = Len(kept)
    <3>1. /\ IsFiniteSet(1..Len(kept))
          /\ Cardinality(1..Len(kept)) = IF 1 > Len(kept) THEN 0 ELSE Len(kept) - 1 + 1
      BY <1>0, FS_Interval
    <3> QED BY <1>0, <3>1
  <2>2. f \in Surjection(P, held)
    BY DEF Surjection, SeenIn
  <2>3. f \in Injection(P, held)
    <3>1. ASSUME NEW i \in P, NEW j \in P, kept[i] = kept[j] PROVE i = j
      <4>1. LastAt(history, kept[i]) \in Int
        BY <1>2, <1>3 DEF SeenIn
      <4>2. ~(i < j) /\ ~(j < i)
        BY <1>2, <3>1, <4>1
      <4> QED BY <4>2
    <3>2. f \in [P -> held]
      BY DEF SeenIn
    <3> QED BY <3>1, <3>2 DEF Injection, IsInjective
  <2> HIDE DEF P, f, held
  <2> QED BY <2>1, <2>2, <2>3, FS_Surjection
<1>5. IsFiniteSet(seen)
  <2> DEFINE P == 1..Len(history)
             f == [i \in P |-> history[i]]
  <2>1. IsFiniteSet(P)
    BY <1>2, FS_Interval
  <2>2. f \in Surjection(P, seen)
    BY DEF Surjection, SeenIn
  <2> HIDE DEF P, f, seen
  <2> QED BY <2>1, <2>2, FS_Surjection
<1>6. ASSUME NEW c \in held PROVE Cardinality(since(c)) < KeptMax
  <2>1. since(c) \subseteq held \ {c}
    <3>1. ASSUME NEW e \in since(c) PROVE e \in held \ {c}
      <4>1. e \in seen /\ c \in seen /\ LastAt(history, e) > LastAt(history, c)
        BY <1>2
      <4>2. LastAt(history, e) \in Int /\ LastAt(history, c) \in Int
        BY <1>3, <4>1
      <4> HIDE DEF held, seen
      <4> QED BY <1>2, <4>1, <4>2
    <3> QED BY <3>1
  <2> HIDE DEF held, seen, since
  <2>2. Cardinality(since(c)) <= Cardinality(held \ {c}) /\ IsFiniteSet(held \ {c})
    <3>1. IsFiniteSet(held \ {c})
      BY <1>4, FS_Subset
    <3> QED BY <2>1, <3>1, FS_Subset
  <2>3. Cardinality(held \ {c}) = Len(kept) - 1
    BY <1>4, FS_RemoveElement
  <2>4. Cardinality(since(c)) \in Nat
    BY <2>1, <2>2, FS_Subset, FS_CardinalityType
  <2> QED BY <1>1, <2>2, <2>3, <2>4
<1>7. ASSUME NEW c \in seen \ held PROVE ~(Cardinality(since(c)) < KeptMax)
  <2>1. held \subseteq since(c)
    <3>1. ASSUME NEW d \in held PROVE d \in since(c)
      <4>1. d \in seen /\ LastAt(history, c) < LastAt(history, d)
        BY <1>2
      <4>2. LastAt(history, c) \in Int /\ LastAt(history, d) \in Int
        BY <1>3, <4>1
      <4> QED BY <4>1, <4>2
    <3> QED BY <3>1
  <2>2. IsFiniteSet(since(c))
    BY <1>5, FS_Subset
  <2>3. Len(kept) = KeptMax
    BY <1>1
  <2> HIDE DEF held, seen, since
  <2>4. Cardinality(held) <= Cardinality(since(c)) /\ Cardinality(since(c)) \in Nat
    BY <2>1, <2>2, FS_Subset, FS_CardinalityType
  <2> QED BY <1>1, <1>4, <2>3, <2>4
<1>8. held = {c \in seen : Cardinality(since(c)) < KeptMax}
  <2>1. held \subseteq seen
    BY <1>2
  <2> HIDE DEF held, seen, since
  <2> QED BY <1>6, <1>7, <2>1
<1> QED BY <1>8, Zenon DEF CacheIsRecent, LastAt, Places, SeenIn
-----------------------------------------------------------------------------
(* The capital-flow crawler's procedures as parts of the specification.     *)

LEMMA StepOfTheFlow ==
  ASSUME "of" \in DOMAIN work, [Next]_work, work' # work
  PROVE  /\ work.of = "matrix" =>
              work.m.at = "asking" /\ \E reply \in Combined : work' = [work EXCEPT !.m = MatrixStep(@, reply)]
         /\ work.of = "history" =>
              /\ work.w.at = "walking"
              /\ \E cursor \in {work.w.cursor, work.w.end + 3} :
                   work' = [work EXCEPT !.w = WalkPage(@, BaiduHistory(work.listed, cursor))]
         /\ work.of = "flow" => \E f \in FlowSteps(work.f) : work' = [work EXCEPT !.f = f]
         /\ work.of = "batch" => \E b \in BatchSteps(work.b) : work' = [work EXCEPT !.b = b]
         /\ work.of = "kept" =>
              \E c \in Codes : work' = [work EXCEPT !.history = Append(@, c), !.kept = Remember(@, c, KeptMax)]
BY DEF Next, SendRequest, AskForSlot, FetchBars, TryCombination, ReadPage, FetchFlow, FetchBatch,
       KeepRows, WriteRow, AppendRow, AskForBreadth, AskForSectors, RefreshPool, ReadLocal,
       WriteMemory, TakeTurn, SyncMarket, FetchDaily, LiveOn, FillFlow, Launch

LEMMA BeginningOfTheFlow ==
  ASSUME Init
  PROVE  /\ work.of = "matrix" => work = [of |-> "matrix", m |-> NewMatrix]
         /\ work.of = "history" => \E w \in Windows, listed \in Histories :
              work = [of |-> "history", w |-> NewWalk(w[1], w[2]), listed |-> listed]
         /\ work.of = "flow" => \E skip \in BOOLEAN : work = [of |-> "flow", f |-> NewFlow(1, 3, skip)]
         /\ work.of = "batch" => \E skip \in BOOLEAN : work = [of |-> "batch", b |-> NewBatch(Codes, skip)]
         /\ work.of = "kept" => work = [of |-> "kept", history |-> <<>>, kept |-> <<>>]
<1>1. ASSUME SyncBegins PROVE work.of = "sync"
  BY <1>1 DEF SyncBegins
<1>2. ASSUME DailyBegins PROVE work.of = "daily"
  BY <1>2 DEF DailyBegins
<1>3. CASE FetchBegins
  BY <1>3 DEF FetchBegins
<1>4. CASE DataBegins
  BY <1>1, <1>2, <1>4 DEF DataBegins
<1>5. CASE MarketBegins
  BY <1>5 DEF MarketBegins
<1>6. CASE TextBegins
  BY <1>6 DEF TextBegins
<1>7. CASE \E overlap \in BOOLEAN : work = [of |-> "launch", n |-> NewLaunch(overlap)]
  BY <1>7
<1> QED BY <1>3, <1>4, <1>5, <1>6, <1>7 DEF Init

FlowWork == {"matrix", "history", "flow", "batch", "kept"}

FlowState ==
  /\ "of" \in DOMAIN work
  /\ work.of = "matrix" => "m" \in DOMAIN work /\ MatrixInv(work.m)
  /\ work.of = "history" => "w" \in DOMAIN work /\ "listed" \in DOMAIN work /\ WalkInv(work.w, work.listed)
  /\ work.of = "flow" => "f" \in DOMAIN work /\ FlowInv(work.f)
  /\ work.of = "batch" => "b" \in DOMAIN work /\ BatchInv(work.b)
  /\ work.of = "kept" => "history" \in DOMAIN work /\ "kept" \in DOMAIN work /\ KeptInv(work.history, work.kept)

LEMMA FlowStateBegins ==
  ASSUME Init
  PROVE  FlowState
<1>1. CASE work.of = "matrix"
  <2>1. work = [of |-> "matrix", m |-> NewMatrix]
    BY <1>1, BeginningOfTheFlow
  <2>2. work.m = NewMatrix /\ "m" \in DOMAIN work
    BY <2>1
  <2> QED BY <1>1, <2>2, InitIsNamed, NewMatrixIsBounded DEF FlowState
<1>2. CASE work.of = "history"
  <2>1. PICK w \in Windows, listed \in Histories :
          work = [of |-> "history", w |-> NewWalk(w[1], w[2]), listed |-> listed]
    BY <1>2, BeginningOfTheFlow
  <2>2. work.w = NewWalk(w[1], w[2]) /\ work.listed = listed /\ "w" \in DOMAIN work /\ "listed" \in DOMAIN work
    BY <2>1
  <2>3. WalkInv(work.w, work.listed)
    BY <2>2, NewWalkIsComplete
  <2> QED BY <1>2, <2>2, <2>3, InitIsNamed DEF FlowState
<1>3. CASE work.of = "flow"
  <2>1. PICK skip \in BOOLEAN : work = [of |-> "flow", f |-> NewFlow(1, 3, skip)]
    BY <1>3, BeginningOfTheFlow
  <2>2. work.f = NewFlow(1, 3, skip) /\ "f" \in DOMAIN work
    BY <2>1
  <2>3. FlowInv(work.f)
    BY <2>2, NewFlowIsReported
  <2> QED BY <1>3, <2>2, <2>3, InitIsNamed DEF FlowState
<1>4. CASE work.of = "batch"
  <2>1. PICK skip \in BOOLEAN : work = [of |-> "batch", b |-> NewBatch(Codes, skip)]
    BY <1>4, BeginningOfTheFlow
  <2>2. work.b = NewBatch(Codes, skip) /\ "b" \in DOMAIN work
    BY <2>1
  <2>3. BatchInv(work.b)
    BY <2>2, NewBatchIsAccounted
  <2> QED BY <1>4, <2>2, <2>3, InitIsNamed DEF FlowState
<1>5. CASE work.of = "kept"
  <2>1. work = [of |-> "kept", history |-> <<>>, kept |-> <<>>]
    BY <1>5, BeginningOfTheFlow
  <2>2. work.history = <<>> /\ work.kept = <<>> /\ "history" \in DOMAIN work /\ "kept" \in DOMAIN work
    BY <2>1
  <2> QED BY <1>5, <2>2, InitIsNamed, NewCacheIsKept DEF FlowState
<1>6. CASE work.of \notin FlowWork
  BY <1>6, InitIsNamed DEF FlowState, FlowWork
<1> QED BY <1>1, <1>2, <1>3, <1>4, <1>5, <1>6 DEF FlowWork

LEMMA FlowStateGoesOn ==
  ASSUME FlowState, [Next]_work
  PROVE  FlowState'
<1>1. "of" \in DOMAIN work /\ "of" \in DOMAIN work' /\ work'.of = work.of
  BY NextIsNamed DEF FlowState
<1>2. CASE work' = work
  BY <1>2 DEF FlowState
<1>3. CASE work' # work /\ work.of = "matrix"
  <2>1. "m" \in DOMAIN work /\ MatrixInv(work.m)
    BY <1>3 DEF FlowState
  <2>2. work.m.at = "asking"
    BY <1>1, <1>3, StepOfTheFlow
  <2>3. PICK reply \in Combined : work' = [work EXCEPT !.m = MatrixStep(@, reply)]
    BY <1>1, <1>3, StepOfTheFlow
  <2>4. "m" \in DOMAIN work' /\ work'.m = MatrixStep(work.m, reply)
    BY <2>1, <2>3
  <2>5. MatrixInv(work'.m)
    BY <2>1, <2>2, <2>4, MatrixStepKeeps
  <2> QED BY <1>1, <1>3, <2>4, <2>5 DEF FlowState
<1>4. CASE work' # work /\ work.of = "history"
  <2>1. "w" \in DOMAIN work /\ "listed" \in DOMAIN work /\ WalkInv(work.w, work.listed)
    BY <1>4 DEF FlowState
  <2>2. work.w.at = "walking"
    BY <1>1, <1>4, StepOfTheFlow
  <2>3. PICK cursor \in {work.w.cursor, work.w.end + 3} :
          work' = [work EXCEPT !.w = WalkPage(@, BaiduHistory(work.listed, cursor))]
    BY <1>1, <1>4, StepOfTheFlow
  <2>4. /\ "w" \in DOMAIN work' /\ work'.w = WalkPage(work.w, BaiduHistory(work.listed, cursor))
        /\ "listed" \in DOMAIN work' /\ work'.listed = work.listed
    BY <2>1, <2>3
  <2>5. WalkInv(WalkPage(work.w, BaiduHistory(work.listed, cursor)), work.listed)
    BY <2>1, <2>2, WalkStepKeeps
  <2>6. WalkInv(work'.w, work'.listed)
    BY <2>4, <2>5
  <2> QED BY <1>1, <1>4, <2>4, <2>6 DEF FlowState
<1>5. CASE work' # work /\ work.of = "flow"
  <2>1. "f" \in DOMAIN work /\ FlowInv(work.f)
    BY <1>5 DEF FlowState
  <2>2. PICK f \in FlowSteps(work.f) : work' = [work EXCEPT !.f = f]
    BY <1>1, <1>5, StepOfTheFlow
  <2>3. "f" \in DOMAIN work' /\ work'.f = f /\ FlowInv(f)
    BY <2>1, <2>2, FlowStepKeeps
  <2> QED BY <1>1, <1>5, <2>3 DEF FlowState
<1>6. CASE work' # work /\ work.of = "batch"
  <2>1. "b" \in DOMAIN work /\ BatchInv(work.b)
    BY <1>6 DEF FlowState
  <2>2. PICK b \in BatchSteps(work.b) : work' = [work EXCEPT !.b = b]
    BY <1>1, <1>6, StepOfTheFlow
  <2>3. "b" \in DOMAIN work' /\ work'.b = b /\ BatchInv(b)
    BY <2>1, <2>2, BatchStepKeeps
  <2> QED BY <1>1, <1>6, <2>3 DEF FlowState
<1>7. CASE work' # work /\ work.of = "kept"
  <2>1. "history" \in DOMAIN work /\ "kept" \in DOMAIN work /\ KeptInv(work.history, work.kept)
    BY <1>7 DEF FlowState
  <2>2. PICK c \in Codes : work' = [work EXCEPT !.history = Append(@, c), !.kept = Remember(@, c, KeptMax)]
    BY <1>1, <1>7, StepOfTheFlow
  <2>3. /\ "history" \in DOMAIN work' /\ work'.history = Append(work.history, c)
        /\ "kept" \in DOMAIN work' /\ work'.kept = Remember(work.kept, c, KeptMax)
    BY <2>1, <2>2
  <2>4. KeptInv(work'.history, work'.kept)
    BY <2>1, <2>3, KeptStepKeeps
  <2> QED BY <1>1, <1>7, <2>3, <2>4 DEF FlowState
<1>8. CASE work.of \notin FlowWork
  BY <1>1, <1>8 DEF FlowState, FlowWork
<1> QED BY <1>2, <1>3, <1>4, <1>5, <1>6, <1>7, <1>8 DEF FlowWork

\* capital_flow_crawler.py: the combinations tried are capped after both endpoints had
\* a turn, a walk that ends has every day of its window that is listed, a flow that is
\* answered says what it lacks and who failed, a batch accounts for every stock by its
\* last answer, and the cache holds the stocks that succeeded last.
THEOREM FlowCorrect == Spec => []FlowReported
<1>1. FlowState => FlowReported
  <2> SUFFICES ASSUME FlowState PROVE FlowReported
    OBVIOUS
  <2>1. work.of = "matrix" => MatrixIsBounded(work.m)
    BY DEF FlowState, MatrixInv
  <2>2. work.of = "history" => WalkIsComplete(work.w, work.listed)
    BY DEF FlowState, WalkInv
  <2>3. work.of = "flow" => FlowIsReported(work.f)
    BY ReportedFlow DEF FlowState
  <2>4. work.of = "batch" => BatchIsAccounted(work.b)
    BY DEF FlowState, BatchInv
  <2>5. work.of = "kept" => CacheIsRecent(work.history, work.kept, KeptMax)
    BY KeptIsRecent DEF FlowState
  <2> QED BY <2>1, <2>2, <2>3, <2>4, <2>5 DEF FlowReported
<1> QED BY <1>1, FlowStateBegins, FlowStateGoesOn, PTL DEF Spec
=============================================================================
