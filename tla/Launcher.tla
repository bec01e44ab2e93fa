------------------------------ MODULE Launcher ------------------------------
(***************************************************************************)
(* The desktop shell starts the data service of a cache directory, or      *)
(* finds the one that runs (src-tauri/src/service_manager.rs,              *)
(* ensure_running).  A service outlives the shell that started it; a lock  *)
(* file beside the cache says at which port it is.  A service is known by  *)
(* its port: an answer of any other process is not taken for it.  A        *)
(* service that is up answers within the time a probe is given.            *)
(***************************************************************************)
EXTENDS Integers, FiniteSets

CONSTANTS Shells, MaxPorts, MaxExits     \* bounds: services started, shells that end

ASSUME LauncherConstants == MaxPorts \in Nat \ {0} /\ MaxExits \in Nat

Ports == 1..MaxPorts

\* overlap: shells may be in ensure_running at the same time.  lock is {} or one
\* payload, whose port is 0 until it has been written.
NewLaunch(overlap) ==
    [overlap |-> overlap, lock |-> {}, service |-> [p \in Ports |-> "none"], used |-> 0, exits |-> 0,
     at |-> [i \in Shells |-> "idle"], port |-> [i \in Shells |-> 0],
     child |-> [i \in Shells |-> 0], told |-> [i \in Shells |-> 0]]

Alive(n) == {p \in Ports : n.service[p] \in {"starting", "up"}}
IsUp(n, p) == p \in Ports /\ n.service[p] = "up"

\* A payload that can be read names a port.
LockedPorts(n) == {payload.port : payload \in n.lock} \ {0}

Go(n, i, step) == [n EXCEPT !.at[i] = step]
Tell(n, i, p) == [n EXCEPT !.at[i] = "idle", !.told[i] = p]
Kill(n, p) == IF p = 0 THEN n ELSE [n EXCEPT !.service[p] = "dead"]
RemoveLock(n) == [n EXCEPT !.lock = {}]

-----------------------------------------------------------------------------
(* ensure_running, one step per access to the file or to a process          *)

MayCall(n) ==
    n.overlap \/ (/\ \A i \in Shells : n.at[i] = "idle"
                  /\ \A p \in Ports : n.service[p] # "starting")

\* The child of this shell, if it answers; otherwise it is killed and a port chosen.
BeginLaunch(n, i) ==
    IF n.child[i] # 0 /\ IsUp(n, n.child[i]) THEN {Tell(n, i, n.child[i])}
    ELSE IF n.used = MaxPorts THEN {}
    ELSE {[Kill(n, n.child[i]) EXCEPT !.child[i] = 0, !.used = @ + 1, !.port[i] = n.used + 1, !.at[i] = "look"]}

\* Mutant: what the lock file says is not read.
LookAway(n, i) == Go(n, i, "create")

LookAtLock(n, i) ==
    IF LockedPorts(n) = {} THEN Go(n, i, "create")
    ELSE IF \E p \in LockedPorts(n) : IsUp(n, p) THEN Tell(n, i, CHOOSE p \in LockedPorts(n) : TRUE)
    ELSE Go(n, i, "remove")

\* create_new, then the payload.
CreateLock(n, i, otherwise) ==
    IF n.lock = {} THEN [n EXCEPT !.lock = {[by |-> i, port |-> 0]}, !.at[i] = "fill"]
    ELSE Go(n, i, otherwise)

FillLock(n, i) ==
    [n EXCEPT !.lock = IF n.lock = {[by |-> i, port |-> 0]} THEN {[by |-> i, port |-> n.port[i]]} ELSE @,
              !.at[i] = "spawn"]

\* wait_for_locked_service, until its deadline.
WaitForLocked(n, i) ==
    {Go(n, i, "removeLate")} \cup {Tell(n, i, p) : p \in {q \in LockedPorts(n) : IsUp(n, q)}}

\* Mutant: a child that did not become healthy is left to itself.
GiveUpAlone(n, i) == Go(n, i, "idle")

\* stop_child_after_start_failure
GiveUp(n, i) == Go(Kill(n, n.port[i]), i, "idle")

LaunchSteps(n, i) ==
    CASE n.at[i] = "idle" -> IF MayCall(n) THEN BeginLaunch(n, i) ELSE {}
      [] n.at[i] = "look" -> {LookAtLock(n, i)}
      [] n.at[i] = "remove" -> {Go(RemoveLock(n), i, "create")}
      [] n.at[i] = "create" -> {CreateLock(n, i, "wait")}
      [] n.at[i] = "wait" -> WaitForLocked(n, i)
      [] n.at[i] = "removeLate" -> {Go(RemoveLock(n), i, "recreate")}
      [] n.at[i] = "recreate" -> {CreateLock(n, i, "idle")}      \* another is starting: an error
      [] n.at[i] = "fill" -> {FillLock(n, i)}
      [] n.at[i] = "spawn" -> {Go(n, i, "idle"),                 \* it cannot be started
                               [n EXCEPT !.service[n.port[i]] = "starting", !.at[i] = "health"]}
      [] n.at[i] = "health" -> {Go(RemoveLock(n), i, "stop")}    \* the deadline
                               \cup (IF IsUp(n, n.port[i]) THEN {Go(n, i, "inspect")} ELSE {})
      [] n.at[i] = "stop" -> {GiveUp(n, i)}
      [] n.at[i] = "inspect" -> {IF IsUp(n, n.port[i]) THEN Go(n, i, "write") ELSE Go(RemoveLock(n), i, "idle")}
      [] n.at[i] = "write" -> {[Tell(n, i, n.port[i]) EXCEPT !.lock = {[by |-> i, port |-> n.port[i]]},
                                                             !.child[i] = n.port[i]]}
      [] OTHER -> {}

\* A service comes up, or ends; a shell ends and leaves its service running.
ServiceSteps(n) ==
    {[n EXCEPT !.service[p] = "up"] : p \in {q \in Ports : n.service[q] = "starting"}}
    \cup {[n EXCEPT !.service[p] = "dead"] : p \in Alive(n)}

ShellEnds(n) ==
    {[n EXCEPT !.exits = @ + 1, !.at[i] = "idle", !.child[i] = 0, !.told[i] = 0] :
        i \in IF n.exits = MaxExits THEN {} ELSE {j \in Shells : n.overlap \/ n.at[j] # "stop"}}

AllLaunchSteps(n) ==
    (UNION {LaunchSteps(n, i) : i \in Shells}) \cup ServiceSteps(n) \cup ShellEnds(n)

-----------------------------------------------------------------------------
(* What the lock file is for *)

\* One service per cache directory: shells that call one after the other, when no
\* service is just starting, never leave two of them alive, whenever a service
\* dies, a start fails or a shell ends (other than between giving a start up and
\* killing the child); and once no call is under way the lock file names the
\* service that is up, so that the next shell finds it.
LaunchesAreSingle(n) ==
    ~n.overlap =>
        /\ Cardinality(Alive(n)) <= 1
        /\ (\A i \in Shells : n.at[i] = "idle") => \A p \in Alive(n) : LockedPorts(n) = {p}

\* service_manager.rs:893, a launcher does not go on without owning the lock: so it is
\* when calls overlap.  It is not (see the README, section 5): a launcher removes
\* the lock of another that is still starting its service.
OneServicePerCache(n) == Cardinality(Alive(n)) <= 1
=============================================================================
