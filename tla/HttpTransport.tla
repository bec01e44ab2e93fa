--------------------------- MODULE HttpTransport ---------------------------
(***************************************************************************)
(* data/http_transport.py: one outbound request with its retry and its     *)
(* alternate transport (resilient_get), and the slots HostThrottle hands   *)
(* out.  A request and a throttle are records; every operator gives the    *)
(* record after one step of the code.  Time is in whole units.             *)
(***************************************************************************)
EXTENDS Integers, Sequences, FiniteSetsExt

CONSTANTS Retries,        \* PUBLIC_XHR_RETRIES
          Timeout,        \* of one attempt, and the budget of the request (_public_budget)
          HostInterval    \* HOST_MIN_REQUEST_INTERVAL; 0 switches the throttle off

ASSUME TransportConstants == Retries \in Nat /\ Timeout \in Nat \ {0} /\ HostInterval \in Nat

Failures == {"transient", "fatal"}      \* as _is_transient tells them apart
Replies == {"ok"} \cup Failures

\* alternate: allow_alternate; log: what each attempt went over and how it ended.
NewRequest(alternate) ==
    [at |-> "primary", attempt |-> 1, spent |-> 0, alternate |-> alternate, log |-> <<>>]

\* Mutant: each attempt gets the whole time-out.
FullTimeout(r) == Timeout

\* _attempt_timeout: nothing is sent when the budget is used up; that is a
\* TimeoutError, which counts as transient.
AttemptTimeout(r) == Timeout - r.spent
Exhausted(r) == AttemptTimeout(r) <= 0

Attempted(r, over, reply, took) ==
    [r EXCEPT !.spent = @ + took,
              !.log = Append(@, [over |-> over, reply |-> reply, sent |-> ~Exhausted(r)])]

\* The loop over the attempts: a fatal error or the last attempt leaves it.
PrimaryAttempt(r, reply, took) ==
    LET tried == Attempted(r, "primary", reply, took)
    IN  IF reply = "ok" THEN [tried EXCEPT !.at = "answered"]
        ELSE IF reply = "transient" /\ r.attempt < Retries + 1
             THEN [tried EXCEPT !.attempt = @ + 1]
        ELSE [tried EXCEPT !.at = IF r.alternate THEN "alternate" ELSE "raised"]

AlternateAttempt(r, reply, took) ==
    [Attempted(r, "alternate", reply, took) EXCEPT
        !.at = IF reply = "ok" THEN "answered" ELSE "raised"]

\* One attempt with any reply the network may give: none when the budget is used
\* up, and none that comes after the time-out of the attempt.
RequestSteps(r) ==
    LET possible == IF Exhausted(r) THEN {<<"transient", 0>>}
                    ELSE Replies \X (0..AttemptTimeout(r))
    IN  CASE r.at = "primary"   -> {PrimaryAttempt(r, p[1], p[2]) : p \in possible}
          [] r.at = "alternate" -> {AlternateAttempt(r, p[1], p[2]) : p \in possible}
          [] OTHER -> {}

-----------------------------------------------------------------------------
\* HostThrottle.wait: the slot of a caller of `host` at time `now`; slots are
\* reserved under the lock and slept for outside it.
Slot(nextAllowed, host, now) ==
    IF HostInterval = 0 \/ host \notin DOMAIN nextAllowed THEN now
    ELSE Max({now, nextAllowed[host]})

\* Mutant: the next slot is counted from the call and not from the slot it got.
ReserveFromNow(nextAllowed, host, now) ==
    [h \in DOMAIN nextAllowed \cup {host} |->
        IF h = host THEN now + HostInterval ELSE nextAllowed[h]]

Reserve(nextAllowed, host, now) ==
    IF HostInterval = 0 THEN nextAllowed
    ELSE [h \in DOMAIN nextAllowed \cup {host} |->
            IF h = host THEN Slot(nextAllowed, host, now) + HostInterval ELSE nextAllowed[h]]

\* sent: the requests so far, with the time they asked and the time they went out.
NewThrottle == [nextAllowed |-> <<>>, now |-> 0, sent |-> <<>>]

\* A thread asks for `host` after `passed` units of time.
Throttled(t, host, passed) ==
    LET now == t.now + passed
    IN  [nextAllowed |-> Reserve(t.nextAllowed, host, now), now |-> now,
         sent |-> Append(t.sent, [host |-> host, asked |-> now,
                                  out |-> Slot(t.nextAllowed, host, now)])]

-----------------------------------------------------------------------------
(* What they promise *)

\* A request ends within its budget and after at most one alternate attempt,
\* however slow or broken the host is; a fatal answer is not asked for again
\* over the same transport.
RequestIsBounded(r) ==
    /\ r.spent <= Timeout
    /\ Len(r.log) <= Retries + 2
    /\ \A i \in 1..Len(r.log) - 1 :
        /\ r.log[i].reply # "ok"
        /\ r.log[i].reply = "fatal" => r.log[i + 1].over = "alternate"
    /\ r.at = "raised" /\ r.alternate => r.log[Len(r.log)].over = "alternate"

\* Requests to one host go out at least the interval apart, in the order they
\* asked, and none waits longer than the ones before it make necessary; a
\* request of another host is never in its way.
SlotsAreSpaced(t) ==
    \A j \in 1..Len(t.sent) :
        LET before == {i \in 1..j - 1 : t.sent[i].host = t.sent[j].host}
        IN  IF before = {} \/ HostInterval = 0 THEN t.sent[j].out = t.sent[j].asked
            ELSE t.sent[j].out = Max({t.sent[j].asked, t.sent[Max(before)].out + HostInterval})
============================================================================
