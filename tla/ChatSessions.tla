---------------------------- MODULE ChatSessions ----------------------------
(***************************************************************************)
(* Chat turns of the AI service (ai/facade.py, AiService.chat_stream) over *)
(* the session files (ai/sessions.py): one lock per session in a bounded,  *)
(* reference-counted table, a turn registry for the stop button, and the   *)
(* automatic clean-up after every save.  A request runs in the handler's   *)
(* thread until its worker starts and in the worker's from then on; one    *)
(* action is one critical section or one file operation.                   *)
(*                                                                         *)
(* A request is used once, and an entry of the lock table is named after   *)
(* the request that created it.  A session's content is the set of turns   *)
(* saved in it.                                                            *)
(***************************************************************************)
EXTENDS Naturals, FiniteSets

CONSTANTS
  Requests,      \* chat requests, each one turn
  Deleters,      \* delete requests
  Ids,           \* session ids (uuid4)
  Old,           \* the sessions stored when the service starts
  None,          \* no id, entry, owner or token
  MaxLocks,      \* AI_MAX_SESSION_LOCKS
  MaxSessions    \* MAX_SESSIONS

ASSUME RequestAssumption == IsFiniteSet(Requests) /\ None \notin Requests
ASSUME IdAssumption      == Old \subseteq Ids /\ None \notin Ids
ASSUME LimitAssumption   == MaxLocks \in Nat \ {0} /\ MaxSessions \in Nat \ {0}

VARIABLES
  table,         \* table[i]: the entry of _session_locks under the id i
  refs,          \* refs[e]: references to the entry e
  owner,         \* owner[e]: the request that holds the lock of e
  store,         \* the ids of the session files
  turns,         \* turns[i]: the turns saved in the file of i
  issued,        \* history: the ids that ever named a file
  token,         \* token[i]: the turn registered under i (TurnRegistry)
  found,         \* the turns a stop has looked up and is about to set the token of
  stopped,       \* the turns whose cancel token is set
  req,           \* req[r]: the chat request r
  del            \* del[d]: the delete request d

locking == <<table, refs, owner>>
files   == <<store, turns, issued>>
vars    == <<table, refs, owner, store, turns, issued, token, found, stopped, req, del>>

Stages == {"idle", "retain", "acquire", "load", "trim", "newRetain", "newAcquire",
           "announce", "run", "scan", "unlink", "unregister", "unlock", "unref", "done"}

Request == [at : Stages,
            want : Ids \cup {None},        \* request.session_id
            sid : Ids \cup {None},         \* the session it works on
            entry : Requests \cup {None},  \* session_lock, the entry it retained
            held : BOOLEAN,                \* lock_held
            copy : SUBSET Requests,        \* the turns in the session it loaded
            victims : SUBSET Ids]          \* files its clean-up is about to unlink

Deleter == [at : {"idle", "unlink", "done"}, id : Ids \cup {None}]

Blank == [at |-> "idle", want |-> None, sid |-> None, entry |-> None,
          held |-> FALSE, copy |-> {}, victims |-> {}]

Init == /\ table = [i \in Ids |-> None]
        /\ refs = [e \in Requests |-> 0]
        /\ owner = [e \in Requests |-> None]
        /\ store = Old /\ issued = Old
        /\ turns = [i \in Ids |-> {}]
        /\ token = [i \in Ids |-> None]
        /\ found = {} /\ stopped = {}
        /\ req = [r \in Requests |-> Blank]
        /\ del = [d \in Deleters |-> [at |-> "idle", id |-> None]]

-----------------------------------------------------------------------------
(* The lock table.                                                         *)

Cached == {i \in Ids : table[i] # None}

EvictUnlocked(i) == owner[table[i]] = None    \* mutant: tests the lock, not the references
Evictable(i) == refs[table[i]] = 0

\* The sets of ids that making room for one more entry may evict: idle entries,
\* until the table is below its limit or no idle entry is left.
Evictions ==
  LET idle == {i \in Cached : Evictable(i)}
      over == Cardinality(Cached) + 1 - MaxLocks       \* 0 and below: there is room
  IN {out \in SUBSET idle : \/ Cardinality(Cached) < MaxLocks /\ out = {}
                            \/ Cardinality(Cached) >= MaxLocks /\ Cardinality(out) = over
                            \/ Cardinality(idle) < over /\ out = idle}

\* _session_lock(i) for the request r, which then goes to the stage st.
Retain(r, i, st) ==
  IF table[i] # None
    THEN /\ refs' = [refs EXCEPT ![table[i]] = @ + 1]
         /\ req' = [req EXCEPT ![r].entry = table[i], ![r].at = st]
         /\ UNCHANGED <<table, owner>>
    ELSE /\ \E out \in Evictions :
              table' = [k \in Ids |-> IF k = i THEN r ELSE IF k \in out THEN None ELSE table[k]]
         /\ refs' = [refs EXCEPT ![r] = 1]
         /\ req' = [req EXCEPT ![r].entry = r, ![r].at = st]
         /\ UNCHANGED owner

Acquire(r, st) ==
  /\ owner[req[r].entry] = None
  /\ owner' = [owner EXCEPT ![req[r].entry] = r]
  /\ req' = [req EXCEPT ![r].held = TRUE, ![r].at = st]
  /\ UNCHANGED <<table, refs>>

\* The one test of "this session is working", for clean-up and deletion.
BusyLocked(i) ==                 \* mutant: a waiting request does not count
  table[i] # None /\ owner[table[i]] # None
Busy(i) == table[i] # None /\ (refs[table[i]] > 0 \/ owner[table[i]] # None)

-----------------------------------------------------------------------------
(* A chat request until its worker starts.                                 *)

\* The client names a session it has seen, or none.
Arrive(r) ==
  /\ req[r].at = "idle"
  /\ \E i \in issued \cup {None} :
       req' = [req EXCEPT ![r].want = i, ![r].at = IF i = None THEN "load" ELSE "retain"]
  /\ UNCHANGED <<locking, files, token, found, stopped, del>>

RetainWanted(r) ==
  /\ req[r].at = "retain"
  /\ Retain(r, req[r].want, "acquire")
  /\ UNCHANGED <<files, token, found, stopped, del>>

AcquireWanted(r) ==
  /\ req[r].at = "acquire"
  /\ Acquire(r, "load")
  /\ UNCHANGED <<files, token, found, stopped, del>>

\* 90 s behind another turn: AiSessionBusy, and only the reference is returned.
TimeOut(r) ==
  /\ req[r].at = "acquire" /\ owner[req[r].entry] # None
  /\ req' = [req EXCEPT ![r].at = "unref"]
  /\ UNCHANGED <<locking, files, token, found, stopped, del>>

\* The session is read, or (none was named, or its file is gone) a new one is
\* created and saved, clean-up included.
LoadFound(r) ==
  /\ req[r].at = "load" /\ req[r].want \in store
  /\ req' = [req EXCEPT ![r].sid = req[r].want, ![r].copy = turns[req[r].want],
                        ![r].at = "announce"]
  /\ UNCHANGED <<locking, files, token, found, stopped, del>>

Reclaimable(r, i) ==             \* the files the clean-up of r may remove
  LET idle == {k \in store : k # i /\ ~Busy(k)}
  IN {out \in SUBSET idle : Cardinality(idle \ out) <= MaxSessions}

LoadCreated(r) ==
  /\ req[r].at = "load" /\ req[r].want \notin store
  /\ \E i \in Ids \ issued, out \in SUBSET store :
       /\ out \in Reclaimable(r, i)
       /\ store' = store \cup {i} /\ issued' = issued \cup {i}
       /\ req' = [req EXCEPT ![r].sid = i, ![r].victims = out, ![r].at = "trim"]
  /\ UNCHANGED <<locking, turns, token, found, stopped, del>>

\* The new session cannot be saved: the request fails, and gives back what it has.
LoadFails(r) ==
  /\ req[r].at = "load" /\ req[r].want \notin store
  /\ req' = [req EXCEPT ![r].at = IF req[r].entry = None THEN "done" ELSE "unlock"]
  /\ UNCHANGED <<locking, files, token, found, stopped, del>>

\* The files chosen by the clean-up are unlinked one by one; nothing is locked.
Unlink(r, st) ==
  /\ store' = store \ req[r].victims
  /\ turns' = [i \in Ids |-> IF i \in req[r].victims THEN {} ELSE turns[i]]
  /\ req' = [req EXCEPT ![r].victims = {}, ![r].at = st]

Trim(r) ==
  /\ req[r].at = "trim"
  /\ Unlink(r, IF req[r].entry = None THEN "newRetain" ELSE "announce")
  /\ UNCHANGED <<locking, issued, token, found, stopped, del>>

RetainNew(r) ==
  /\ req[r].at = "newRetain"
  /\ Retain(r, req[r].sid, "newAcquire")
  /\ UNCHANGED <<files, token, found, stopped, del>>

AcquireNew(r) ==
  /\ req[r].at = "newAcquire"
  /\ Acquire(r, "announce")
  /\ UNCHANGED <<files, token, found, stopped, del>>

\* The client may go away at the first event, before there is a worker.
Disconnect(r) ==
  /\ req[r].at = "announce"
  /\ req' = [req EXCEPT ![r].at = "unlock"]
  /\ UNCHANGED <<locking, files, token, found, stopped, del>>

Register(r) ==
  /\ req[r].at = "announce"
  /\ token' = [token EXCEPT ![req[r].sid] = r]
  /\ req' = [req EXCEPT ![r].at = "run"]
  /\ UNCHANGED <<locking, files, found, stopped, del>>

-----------------------------------------------------------------------------
(* Its worker.  The turn may end, fail or be stopped: it is saved anyway.  *)

SaveUnregisters(r) ==            \* mutant: the turn leaves the registry before its save
  /\ req[r].at = "run"
  /\ store' = store \cup {req[r].sid}
  /\ turns' = [turns EXCEPT ![req[r].sid] = req[r].copy \cup {r}]
  /\ token' = [token EXCEPT ![req[r].sid] = IF @ = r THEN None ELSE @]
  /\ req' = [req EXCEPT ![r].at = "scan", ![r].copy = {}]
  /\ UNCHANGED <<locking, issued, found, stopped, del>>

Save(r) ==
  /\ req[r].at = "run"
  /\ store' = store \cup {req[r].sid}
  /\ turns' = [turns EXCEPT ![req[r].sid] = req[r].copy \cup {r}]
  /\ req' = [req EXCEPT ![r].at = "scan", ![r].copy = {}]
  /\ UNCHANGED <<locking, issued, token, found, stopped, del>>

SaveFails(r) ==
  /\ req[r].at = "run"
  /\ req' = [req EXCEPT ![r].at = "unregister"]
  /\ UNCHANGED <<locking, files, token, found, stopped, del>>

Scan(r) ==
  /\ req[r].at = "scan"
  /\ \E out \in Reclaimable(r, req[r].sid) :
       req' = [req EXCEPT ![r].victims = out, ![r].at = "unlink"]
  /\ UNCHANGED <<locking, files, token, found, stopped, del>>

Remove(r) ==
  /\ req[r].at = "unlink"
  /\ Unlink(r, "unregister")
  /\ UNCHANGED <<locking, issued, token, found, stopped, del>>

UnregisterNone(r) ==             \* mutant: the token stays when the turn has ended
  /\ req[r].at = "unregister"
  /\ req' = [req EXCEPT ![r].at = "unlock"]
  /\ UNCHANGED <<locking, files, token, found, stopped, del>>

Unregister(r) ==
  /\ req[r].at = "unregister"
  /\ token' = [token EXCEPT ![req[r].sid] = IF @ = r THEN None ELSE @]
  /\ req' = [req EXCEPT ![r].at = "unlock"]
  /\ UNCHANGED <<locking, files, found, stopped, del>>

UnlockLeaks(r) ==                \* mutant: the lock stays taken
  /\ req[r].at = "unlock"
  /\ req' = [req EXCEPT ![r].held = FALSE, ![r].at = "unref"]
  /\ UNCHANGED <<locking, files, token, found, stopped, del>>

Unlock(r) ==
  /\ req[r].at = "unlock"
  /\ owner' = [owner EXCEPT ![req[r].entry] = None]
  /\ req' = [req EXCEPT ![r].held = FALSE, ![r].at = "unref"]
  /\ UNCHANGED <<table, refs, files, token, found, stopped, del>>

UnrefForgets(r) ==               \* mutant: the reference is never returned
  /\ req[r].at = "unref"
  /\ req' = [req EXCEPT ![r].at = "done", ![r].entry = None]
  /\ UNCHANGED <<locking, files, token, found, stopped, del>>

Unref(r) ==
  /\ req[r].at = "unref"
  /\ refs' = [refs EXCEPT ![req[r].entry] = IF @ > 0 THEN @ - 1 ELSE 0]
  /\ req' = [req EXCEPT ![r].at = "done", ![r].entry = None]
  /\ UNCHANGED <<table, owner, files, token, found, stopped, del>>

-----------------------------------------------------------------------------
(* The other routes.                                                       *)

\* TurnRegistry.cancel reads the token under the registry's lock (a stop of a turn that
\* is stopped already changes nothing) ...
CancelTurn(i) ==
  /\ token[i] # None /\ token[i] \notin stopped
  /\ found' = found \cup {token[i]}
  /\ UNCHANGED <<locking, files, token, stopped, req, del>>

\* ... and sets it, and acknowledges the stop, after the lock is released.
SetToken(r) ==
  /\ r \in found
  /\ found' = found \ {r} /\ stopped' = stopped \cup {r}
  /\ UNCHANGED <<locking, files, token, req, del>>

DeleteCheck(d) ==                \* delete_session, busy test; then the unlink
  /\ del[d].at = "idle"
  /\ \E i \in issued :
       del' = [del EXCEPT ![d] = IF Busy(i) THEN [at |-> "done", id |-> i]
                                            ELSE [at |-> "unlink", id |-> i]]
  /\ UNCHANGED <<locking, files, token, found, stopped, req>>

DeleteUnlink(d) ==
  /\ del[d].at = "unlink"
  /\ store' = store \ {del[d].id}
  /\ turns' = [turns EXCEPT ![del[d].id] = {}]
  /\ del' = [del EXCEPT ![d].at = "done"]
  /\ UNCHANGED <<locking, issued, token, found, stopped, req>>

Step(r) == \/ RetainWanted(r) \/ AcquireWanted(r) \/ TimeOut(r) \/ LoadFound(r)
           \/ LoadCreated(r) \/ LoadFails(r) \/ Trim(r) \/ RetainNew(r) \/ AcquireNew(r)
           \/ Disconnect(r) \/ Register(r) \/ Save(r) \/ SaveFails(r) \/ Scan(r)
           \/ Remove(r) \/ Unregister(r) \/ Unlock(r) \/ Unref(r)

Next == \/ \E r \in Requests : Arrive(r) \/ Step(r)
        \/ \E i \in Ids : CancelTurn(i)
        \/ \E r \in Requests : SetToken(r)
        \/ \E d \in Deleters : DeleteCheck(d) \/ DeleteUnlink(d)

Spec     == Init /\ [][Next]_vars
-----------------------------------------------------------------------------
(* Properties                                                              *)

TypeOK == /\ table \in [Ids -> Requests \cup {None}]
          /\ refs \in [Requests -> Nat]
          /\ owner \in [Requests -> Requests \cup {None}]
          /\ store \in SUBSET Ids
          /\ turns \in [Ids -> SUBSET Requests]
          /\ issued \in SUBSET Ids
          /\ token \in [Ids -> Requests \cup {None}]
          /\ found \in SUBSET Requests /\ stopped \in SUBSET Requests
          /\ req \in [Requests -> Request]
          /\ del \in [Deleters -> Deleter]

\* r works on its session, from the read to the save.
InTurn(r)  == req[r].at \in {"announce", "run", "scan", "unlink", "unregister", "unlock"}
\* r is registered, or may be: its worker is between the registration and its end.
InFlight   == {"run", "scan", "unlink", "unregister"}
\* It locked the id it works on: it found the session it asked for, or made a new one.
OwnLock(r) == req[r].want \in {None, req[r].sid}

\* Whatever the table evicts, two turns that locked the same session exclude each
\* other (facade.py:273-274: an entry someone is about to acquire is never evicted).
LocksExclude ==
  \A r, q \in Requests : r # q /\ InTurn(r) /\ InTurn(q) /\ OwnLock(r) /\ OwnLock(q)
                           => req[r].sid # req[q].sid

\* When no request is at work, nothing is held, referenced or registered: a session
\* can be used, deleted and evicted again.  Until then a lock is held by a request
\* that works, never by one that waits or is over: the stages of a request only go
\* forward, so whoever waits for a lock, with or without a time-out, gets it.
NothingLeaks ==
  /\ (\A r \in Requests : req[r].at \in {"idle", "done"}) =>
       /\ \A e \in Requests : refs[e] = 0 /\ owner[e] = None
       /\ \A i \in Ids : token[i] = None
  /\ \A e \in Requests : owner[e] # None =>
       /\ req[owner[e]].entry = e /\ refs[e] > 0
       /\ req[owner[e]].at \in {"load", "trim", "unlock"} \/ InTurn(owner[e])

\* What a stop finds registered for a session is a turn in flight of that session,
\* and what it stops is that turn or nothing: never one that starts later, although
\* the token is set after the registry's lock is released.  Where every turn of a
\* session locked it, its turn can be found from its registration until after its
\* save (facade.py:409-410).
StopHitsItsTurn ==
  /\ \A i \in Ids : token[i] # None =>
       req[token[i]].sid = i /\ req[token[i]].at \in InFlight
  /\ \A r \in found \cup stopped : req[r].at \in InFlight \cup {"unlock", "unref", "done"}
  /\ \A r \in Requests :
       /\ req[r].at \in {"run", "scan", "unlink"}
       /\ \A q \in Requests : req[q].sid = req[r].sid => OwnLock(q)
       => token[req[r].sid] = r

\* facade.py:456, "cancelling is true only when a turn in flight was really hit": the
\* token that is set is that of a turn that is not over.
AcknowledgedIsInFlight ==
  [][\A r \in stopped' \ stopped : req[r].at \in InFlight]_vars

\* r has a reference to the lock of i: it works on it, or is about to.
Claims(r, i) ==
  req[r].entry # None /\ i = (IF req[r].want = None THEN req[r].sid ELSE req[r].want)

Condemned(i) == \/ \E r \in Requests : i \in req'[r].victims \ req[r].victims
                \/ \E d \in Deleters : del[d].at = "idle" /\ del'[d] = [at |-> "unlink", id |-> i]

\* No clean-up and no delete chooses a session that a request has claimed, not
\* even one that still waits for the lock (facade.py:561-565).
ClaimedIsSpared ==
  [][\A i \in Ids : Condemned(i) => \A r \in Requests : ~Claims(r, i)]_vars

\* facade.py:291-293, two workers that write one session at the same time
\* overwrite each other, so a turn waits for the one before: a saved turn is
\* never overwritten by a later save.
SavedTurnsStay ==
  [][\A i \in Ids : i \in store /\ i \in store' => turns[i] \subseteq turns'[i]]_vars

=============================================================================
