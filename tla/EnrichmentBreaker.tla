------------------------- MODULE EnrichmentBreaker -------------------------
(***************************************************************************)
(* The circuit breaker in front of the two optional Eastmoney calls of     *)
(* data/astock_adapter.py.  All its methods run under one lock, so each is *)
(* one operator from a breaker to the next breaker.  The code compares the *)
(* time since it opened with the cooldown: `cooling` is what is left  *)
(* of it.                                                                  *)
(***************************************************************************)
EXTENDS Naturals

CONSTANTS FailureLimit,  \* EASTMONEY_ENRICHMENT_FAILURE_LIMIT
          Cooldown       \* EASTMONEY_ENRICHMENT_COOLDOWN_SECONDS, in clock units

ASSUME BreakerConstants == FailureLimit \in Nat \ {0} /\ Cooldown \in Nat \ {0}

BreakerStates == {"closed", "open", "half_open"}
Breaker == [state : BreakerStates, failures : 0..FailureLimit, cooling : 0..Cooldown, probing : BOOLEAN]

NewBreaker == [state |-> "closed", failures |-> 0, cooling |-> 0, probing |-> FALSE]

Cooling(b) == b.state = "open" /\ b.cooling > 0

\* One unit of time later.
Cooler(b) == [b EXCEPT !.cooling = IF @ > 0 THEN @ - 1 ELSE 0]

\* Mutant: several probes at a time.
AllowsProbes(b) == ~Cooling(b)

\* allow(): what it answers, and the breaker it leaves.
Allows(b) == ~Cooling(b) /\ ~(b.state # "closed" /\ b.probing)

AfterAllow(b) ==
    IF b.state = "closed" \/ Cooling(b)
    THEN b
    ELSE [b EXCEPT !.state = "half_open", !.probing = TRUE]

RecordSuccess(b) ==
    [b EXCEPT !.state = "closed", !.failures = 0, !.probing = FALSE, !.cooling = 0]

Opened(b) == [b EXCEPT !.state = "open", !.failures = 0, !.cooling = Cooldown]

\* Mutant: the probe's failure leaves the probing mark.
StickyFailure(b) == Opened(b)

\* A failure of a half-open breaker reopens it; any other counts, in the
\* open state as well (the answer of a call let through before it opened).
RecordFailure(b) ==
    LET ended == [b EXCEPT !.probing = FALSE]
    IN  IF b.state = "half_open" \/ b.failures + 1 >= FailureLimit
        THEN Opened(ended)
        ELSE [ended EXCEPT !.failures = @ + 1]
============================================================================
