--------------------------- MODULE FlowProviders ---------------------------
(***************************************************************************)
(* data/capital_flow_crawler.py: how the capital flow of one stock is      *)
(* fetched (Eastmoney's matrix of variants, then Sina with Baidu's         *)
(* supplement, then Baidu alone), and how a batch of stocks is (the first  *)
(* alone, the others in parallel, then the retry rounds).  Days are trade  *)
(* days, numbered; the state of one fetch or batch is a record.            *)
(***************************************************************************)
EXTENDS Integers, FiniteSetsExt, Sequences

CONSTANTS MaxCombinations,   \* EASTMONEY_VARIANT_MAX_COMBINATIONS
          SupplementMax,     \* BAIDU_SUPPLEMENT_MAX_MISSING_DATES
          BaiduPage,         \* rn, the rows of a page of Baidu's history
          BaiduPages,        \* the 500 pages of a walk
          RetryRounds        \* FAILED_SYMBOL_RETRY_ROUNDS

ASSUME FlowConstants ==
    /\ MaxCombinations \in Nat \ {0} /\ SupplementMax \in Nat \ {0}
    /\ BaiduPage \in Nat \ {0} /\ BaiduPages \in Nat \ {0} /\ RetryRounds \in Nat

-----------------------------------------------------------------------------
(* Eastmoney: 2 endpoints, each with 2 sets of parameters and 2 headers.    *)
(* What all transports of one combination came to:                          *)
Combined == {"payload",       \* one of them answered
             "disconnect",    \* none, and the remote end hung up on one
             "network",       \* all failed below HTTP
             "refused"}       \* otherwise (403, 429, ...)

PerEndpoint == 4
Combinations == 2 * PerEndpoint

NewMatrix == [at |-> "asking", tried |-> 0]

\* The cap leaves the second endpoint a turn (capital_flow_crawler.py:388).
ASSUME SecondEndpointHasATurn == PerEndpoint < MaxCombinations

IsBase(n) == n % PerEndpoint = 0     \* no extra parameters, first header

\* Mutant: the cap counts the attempts of the first endpoint only.
MatrixStepOneEndpoint(m, reply) ==
    IF m.tried >= PerEndpoint THEN [m EXCEPT !.at = "capped"]
    ELSE [m EXCEPT !.tried = @ + 1, !.at = IF reply = "payload" THEN "payload" ELSE "asking"]

MatrixStep(m, reply) ==
    LET next == [m EXCEPT !.tried = @ + 1]
    IN  IF m.tried >= MaxCombinations THEN [m EXCEPT !.at = "capped"]
        ELSE IF reply = "payload" THEN [next EXCEPT !.at = "payload"]
        ELSE IF reply = "disconnect" \/ (reply = "network" /\ IsBase(m.tried))
             THEN [next EXCEPT !.at = "unreachable"]
        ELSE IF next.tried = Combinations THEN [next EXCEPT !.at = "exhausted"]
        ELSE next

\* The matrix never sends more than its cap, and gives up without a turn of the
\* second endpoint only when the first one cannot be reached at all.
MatrixIsBounded(m) ==
    /\ m.tried <= MaxCombinations
    /\ m.at \in {"capped", "exhausted"} => m.tried > PerEndpoint

-----------------------------------------------------------------------------
(* Baidu's history, walked backwards page by page.                          *)

\* The walk starts three days after the window.
NewWalk(start, end) ==
    [at |-> "walking", start |-> start, end |-> end, cursor |-> end + 3,
     seen |-> {}, rows |-> {}]

WalkEnds(w, how) == [w EXCEPT !.at = IF w.rows = {} THEN "empty" ELSE how]

\* Mutant: the walk skips the day before the last one it saw.
WalkPageSkips(w, page) ==
    LET read == [w EXCEPT !.seen = @ \cup {w.cursor},
                          !.rows = @ \cup {d \in page : w.start <= d /\ d <= w.end}]
    IN  IF page = {} THEN WalkEnds(read, "malformed")
        ELSE IF Min(page) <= w.start THEN WalkEnds(read, "complete")
        ELSE [read EXCEPT !.cursor = Min(page) - 2]

WalkPage(w, page) ==
    LET read == [w EXCEPT !.seen = @ \cup {w.cursor},
                          !.rows = @ \cup {d \in page : w.start <= d /\ d <= w.end}]
    IN  IF w.cursor \in w.seen \/ Cardinality(w.seen) >= BaiduPages THEN WalkEnds(w, "stopped")
        ELSE IF page = {} THEN WalkEnds(read, "malformed")
        ELSE IF Min(page) <= w.start THEN WalkEnds(read, "complete")
        ELSE [read EXCEPT !.cursor = Min(page) - 1]

\* The host: the newest rows up to the cursor, or (`stuck`) the newest of all.
BaiduHistory(listed, cursor) ==
    {d \in listed : d <= cursor /\ Cardinality({e \in listed : d < e /\ e <= cursor}) < BaiduPage}

\* A walk that reaches the start of the window has every row of it.
WalkIsComplete(w, listed) ==
    w.at = "complete" => w.rows = {d \in listed : w.start <= d /\ d <= w.end}

-----------------------------------------------------------------------------
(* One stock.                                                               *)

\* A diagnostic, as far as anything is decided by it; error is its error_code.
Diagnostic(code, provider, error) == [code |-> code, provider |-> provider, error |-> error]
Shortfall(provider) == Diagnostic("date_coverage_shortfall", provider, "none")
Failed(provider, error) == Diagnostic("provider_attempt_failed", provider, error)

\* rows: the days with a row; asked: Eastmoney was asked; error: of the exception.
NewFlow(start, end, skip) ==
    [at |-> IF skip THEN "sina" ELSE "eastmoney", start |-> start, end |-> end,
     rows |-> {}, provider |-> "none", asked |-> ~skip, diagnostics |-> {}, error |-> "none"]

\* The test of every provider: it looks at the first and the last row only.
Covers(f, rows) == rows # {} /\ Min(rows) <= f.start /\ Max(rows) >= f.end

EastmoneyRows(f, rows) ==
    IF Covers(f, rows)
    THEN [f EXCEPT !.at = "done", !.rows = rows, !.provider = "eastmoney"]
    ELSE [f EXCEPT !.at = "sina", !.diagnostics = @ \cup {Shortfall("none")}]

EastmoneyFails(f, error) ==
    [f EXCEPT !.at = "sina", !.diagnostics = @ \cup {Failed("eastmoney", error)}]

SinaAnswered(f, rows) ==
    [f EXCEPT !.at = "supplement", !.rows = rows,
              !.diagnostics = @ \cup (IF Covers(f, rows) THEN {} ELSE {Shortfall("sina")})]

SinaFailed(f, error) ==
    [f EXCEPT !.at = "baidu", !.diagnostics = @ \cup {Failed("sina", error)}]

\* The days Sina has a gap at; Baidu is asked for the newest of them only.
Holes(f) == (Max({f.start, Min(f.rows)})..Min({f.end, Max(f.rows)})) \ f.rows
AskedHoles(f) == {d \in Holes(f) : Cardinality({e \in Holes(f) : e > d}) < SupplementMax}

Used(f, provider) ==
    [f EXCEPT !.at = "done", !.provider = provider,
              !.diagnostics = @ \cup {Diagnostic("provider_fallback_used", provider, "none")}]

\* filled: the holes Baidu had a value for; failed: whether a request for one of
\* them failed; edge: whether the little window of one of them was under-covered.
Supplement(f, filled, failed, edge) ==
    Used([f EXCEPT !.rows = @ \cup filled,
            !.diagnostics = @
                \cup (IF Holes(f) # AskedHoles(f) THEN {Shortfall("baidu")} ELSE {})
                \cup (IF failed THEN {Failed("baidu", "network_error")} ELSE {})
                \cup (IF edge THEN {Shortfall("none")} ELSE {})], "sina")

BaiduAnswered(f, rows) ==
    Used([f EXCEPT !.rows = rows,
            !.diagnostics = @ \cup (IF Covers(f, rows) THEN {} ELSE {Shortfall("none")})], "baidu")

FlowErrors == {"network_error", "empty_klines"}

\* Behind an Eastmoney that was asked, a failing fallback is a network error of the
\* stock; where it was skipped, Baidu's error keeps its code.
BaiduFails(f, error) ==
    [f EXCEPT !.at = "raised", !.error = IF f.asked THEN "network_error" ELSE error, !.diagnostics = {}]

FlowSteps(f) ==
    LET window == f.start..f.end
    IN  CASE f.at = "eastmoney" ->
                {EastmoneyRows(f, rows) : rows \in SUBSET window}
                \cup {EastmoneyFails(f, e) : e \in FlowErrors}
          [] f.at = "sina" ->
                {SinaAnswered(f, rows) : rows \in (SUBSET window) \ {{}}}
                \cup {SinaFailed(f, e) : e \in FlowErrors}
          [] f.at = "supplement" ->
                {Supplement(f, filled, failed, edge) :
                    filled \in SUBSET AskedHoles(f), failed \in BOOLEAN, edge \in BOOLEAN}
          [] f.at = "baidu" ->
                {BaiduAnswered(f, rows) : rows \in (SUBSET window) \ {{}}}
                \cup {BaiduFails(f, e) : e \in FlowErrors}
          [] OTHER -> {}

\* Mutant: any failed provider turns the switch.
ShouldSkipOnAny(diagnostics) == \E d \in diagnostics : d.error = "network_error"

\* diagnostics_should_skip_eastmoney
ShouldSkipEastmoney(diagnostics) ==
    Failed("eastmoney", "network_error") \in diagnostics

\* An end of the window without a row is in the diagnostics, whoever answered; and
\* the switch that spares the rest of the job its Eastmoney requests is turned
\* only by an Eastmoney that was asked and could not be reached, not by the
\* failure of a source behind it.
FlowIsReported(f) ==
    f.at = "done" =>
        /\ f.rows # {}
        /\ ({f.start, f.end} \subseteq f.rows) \/ \E p \in {"none", "sina"} : Shortfall(p) \in f.diagnostics
        /\ ShouldSkipEastmoney(f.diagnostics) => f.asked /\ f.provider # "eastmoney"

-----------------------------------------------------------------------------
(* A batch of stocks: fetch_many_fund_flows.                                *)

\* What fetch_one may come to: rows, rows of a source behind an Eastmoney that
\* could not be reached, and the errors; "cached" is a network error with rows
\* of the recent-success cache.
FetchOne == {"rows", "rows_behind", "network_error", "cached", "parse_error"}
RowsOf(answer) == answer \in {"rows", "rows_behind", "cached"}
FailureOf(answer) == answer \in {"network_error", "cached", "parse_error"}
UnreachableOf(answer) == answer \in {"rows_behind", "network_error", "cached"}
NetworkOf(answer) == answer \in {"network_error", "cached"}

\* asked: how often each stock was; got: the answers of the pass that is going
\* on; last: the last answer; failures: <<stock, answer>>; skip: of the pass.
NewBatch(codes, skip) ==
    [at |-> IF codes = {} THEN "done" ELSE "first", codes |-> codes, skip |-> skip,
     waiting |-> codes, got |-> {}, failures |-> {}, withRows |-> {}, cached |-> {},
     retryable |-> {}, round |-> 0, asked |-> [c \in codes |-> 0], last |-> [c \in codes |-> "none"]]

\* The answers of a pass are merged when the last one is in.
Merge(b) ==
    [b EXCEPT !.failures = @ \cup {p \in b.got : FailureOf(p[2])},
              !.withRows = @ \cup {p[1] : p \in {q \in b.got : RowsOf(q[2])}}, !.got = {}]

FirstPassEnds(b) ==
    LET merged == Merge(b)
        cached == {p[1] : p \in {q \in b.got : q[2] = "cached"}}
    IN  [merged EXCEPT !.cached = cached,
            !.retryable = {p[1] : p \in merged.failures} \ cached, !.at = "between"]

\* Mutant: the old failures stay beside the new ones.
RoundEndsKeeping(b) ==
    LET recovered == {p[1] : p \in {q \in b.got : ~FailureOf(q[2])}}
    IN  [Merge(b) EXCEPT !.retryable = @ \ recovered, !.at = "between"]

\* A round forgets what the stocks it asked again had failed with.
RoundEnds(b) ==
    LET retried   == {p[1] : p \in b.got}
        forgotten == [b EXCEPT !.failures = {p \in @ : p[1] \notin retried}]
        recovered == {p[1] : p \in {q \in b.got : ~FailureOf(q[2])}}
    IN  [Merge(forgotten) EXCEPT !.retryable = @ \ recovered, !.at = "between"]

Answer(b, c, answer) ==
    LET heard == [b EXCEPT !.waiting = @ \ {c}, !.got = @ \cup {<<c, answer>>},
                           !.asked[c] = @ + 1, !.last[c] = answer]
    IN  CASE b.at = "first" /\ heard.waiting # {} ->     \* the first stock decides for the rest
                [heard EXCEPT !.at = "rest", !.skip = @ \/ UnreachableOf(answer)]
          [] b.at \in {"first", "rest"} /\ heard.waiting = {} -> FirstPassEnds(heard)
          [] b.at = "round" /\ heard.waiting = {} -> RoundEnds(heard)
          [] OTHER -> heard

\* Eastmoney is left out of a round when most stocks failed for the network; the
\* failures of stocks that are not asked again count too.
StartRound(b) ==
    LET network == {p[1] : p \in {q \in b.failures : NetworkOf(q[2])}}
    IN  IF b.retryable = {} \/ b.round = RetryRounds THEN [b EXCEPT !.at = "done"]
        ELSE [b EXCEPT !.at = "round", !.round = @ + 1, !.waiting = b.retryable,
                       !.skip = 2 * Cardinality(network) > Cardinality(b.retryable)]

\* The stocks of the first pass are asked for in the order of the request.
BatchSteps(b) ==
    CASE b.at = "first" -> {Answer(b, Min(b.waiting), a) :
                              a \in FetchOne \ (IF b.skip THEN {"rows_behind"} ELSE {})}
      [] b.at \in {"rest", "round"} ->
            {Answer(b, c, a) : c \in b.waiting,
                               a \in FetchOne \ (IF b.skip THEN {"rows_behind"} ELSE {})}
      [] b.at = "between" -> {StartRound(b)}
      [] OTHER -> {}

\* A batch accounts for every stock by its last answer: it is a failure, once,
\* exactly if that answer was; one that is not has rows; a failure is final only
\* after every round, or with the rows of the cache; nothing that succeeded is
\* asked again.
BatchIsAccounted(b) ==
    b.at = "done" => \A c \in b.codes :
        LET mine == {p \in b.failures : p[1] = c}
        IN  /\ mine = IF FailureOf(b.last[c]) THEN {<<c, b.last[c]>>} ELSE {}
            /\ RowsOf(b.last[c]) => c \in b.withRows
            /\ b.asked[c] <= 1 + RetryRounds
            /\ mine # {} /\ c \notin b.cached => b.asked[c] = 1 + RetryRounds
            /\ c \in b.cached => b.asked[c] = 1

-----------------------------------------------------------------------------
(* The recent-success cache: a sequence of stocks, the one renewed last at   *)
(* the end.                                                                 *)

\* Mutant: a stock that is renewed keeps its old place.
RememberInPlace(kept, code, max) ==
    IF \E i \in 1..Len(kept) : kept[i] = code THEN kept
    ELSE LET renewed == Append(kept, code)
         IN  IF Len(renewed) > max THEN Tail(renewed) ELSE renewed

Remember(kept, code, max) ==
    LET at      == {i \in 1..Len(kept) : kept[i] = code}
        others  == IF at = {} THEN kept
                   ELSE SubSeq(kept, 1, Min(at) - 1) \o SubSeq(kept, Min(at) + 1, Len(kept))
        renewed == Append(others, code)
    IN  IF Len(renewed) > max THEN SubSeq(renewed, Len(renewed) - max + 1, Len(renewed))
        ELSE renewed

\* The cache holds the stocks that succeeded last, whatever the order was: after
\* any history it is its last `max` different stocks.
CacheIsRecent(history, kept, max) ==
    LET lastAt(c) == Max({i \in 1..Len(history) : history[i] = c})
        seen      == {history[i] : i \in 1..Len(history)}
        held      == {kept[i] : i \in 1..Len(kept)}
    IN  held = {c \in seen : Cardinality({e \in seen : lastAt(e) > lastAt(c)}) < max}
============================================================================
