---------------------------- MODULE CoverageProofs ----------------------------
(***************************************************************************)
(* What the service shows as covered, and what the script that fills the   *)
(* capital flow up calls covered: the refresh of the coverage snapshot     *)
(* (service.py), for any number of writers, refresh threads and writes,    *)
(* and the back-fill (scripts/run-capital-flow-backfill.py), for any       *)
(* stocks, days, batches, crashes and writes of the service.               *)
(***************************************************************************)
EXTENDS CoverageRefresh, FlowBackfill, TLAPS

-----------------------------------------------------------------------------
(* The coverage snapshot.                                                   *)

\* The values the actions give a thread, a writer and a version.
LEMMA Versions ==
  ASSUME NEW a \in Version, NEW b \in Version
  PROVE  /\ Newer(a, b) \in Version
         /\ \A v \in a .. b : v \in Version
  BY BoundAssumption DEF Version, Newer

\* A refresh thread whose stage or versions change stays a thread.
LEMMA ThreadStage ==
  ASSUME NEW t \in [Refreshers -> Thread], NEW r \in Refreshers,
         NEW st \in {"idle", "round", "reading", "publish", "finally"}
  PROVE  [t EXCEPT ![r].at = st] \in [Refreshers -> Thread]
  BY DEF Thread

LEMMA ThreadType ==
  ASSUME NEW t \in [Refreshers -> Thread], NEW r \in Refreshers,
         NEW st \in {"idle", "round", "reading", "publish", "finally"}, NEW v \in Version
  PROVE  /\ [t EXCEPT ![r].at = st, ![r].from = v] \in [Refreshers -> Thread]
         /\ [t EXCEPT ![r].at = st, ![r].got = v] \in [Refreshers -> Thread]
  BY DEF Thread

\* Likewise a writer.
LEMMA WriterType ==
  ASSUME NEW t \in [Writers -> Writer], NEW w \in Writers,
         NEW st \in {"idle", "written", "adopt", "force"}, NEW v \in Version
  PROVE  /\ [t EXCEPT ![w].at = st] \in [Writers -> Writer]
         /\ [t EXCEPT ![w].own = v, ![w].at = st] \in [Writers -> Writer]
         /\ [t EXCEPT ![w].at = st, ![w].got = v] \in [Writers -> Writer]
  BY DEF Writer

\* Starting a thread keeps them threads.
LEMMA BeginType ==
  ASSUME thread \in [Refreshers -> Thread], Begin
  PROVE  thread' \in [Refreshers -> Thread]
<1>1. PICK r \in Refreshers : thread' = [thread EXCEPT ![r].at = "round"]
  BY DEF Begin
<1> QED BY <1>1, ThreadStage

\* Type correctness (service.py:109-130, the fields of DataServiceState).
THEOREM CoverageTypeCorrect == CoverageSpec => []CoverageTypeOK
<1>0. 0 \in Version
  BY BoundAssumption DEF Version
<1>1. CoverageInit => CoverageTypeOK
  <2> SUFFICES ASSUME CoverageInit PROVE CoverageTypeOK
    OBVIOUS
  <2>1. thread \in [Refreshers -> Thread]
    BY <1>0 DEF CoverageInit, Thread
  <2>2. writer \in [Writers -> Writer]
    BY <1>0 DEF CoverageInit, Writer
  <2> QED BY <1>0, <2>1, <2>2 DEF CoverageInit, CoverageTypeOK
<1>2. CoverageTypeOK /\ [CoverageNext]_coverageVars => CoverageTypeOK'
  <2> SUFFICES ASSUME CoverageTypeOK, [CoverageNext]_coverageVars PROVE CoverageTypeOK'
    OBVIOUS
  <2> USE <1>0 DEF CoverageTypeOK
  <2>1. ASSUME NEW w \in Writers, Write(w) PROVE CoverageTypeOK'
    <3>1. disk + 1 \in Version
      BY <2>1, BoundAssumption DEF Write, Version
    <3>2. CASE w \in AiWriters
      BY <2>1, <3>1, <3>2, WriterType DEF Write
    <3>3. CASE w \notin AiWriters
      BY <2>1, <3>1, <3>3, WriterType DEF Write
    <3> QED BY <3>2, <3>3
  <2>12. ASSUME NEW w \in Writers, WriteRaises(w) PROVE CoverageTypeOK'
    BY <2>12, BoundAssumption DEF WriteRaises, Version
  <2>2. ASSUME NEW w \in Writers, ComputeCoverage(w) PROVE CoverageTypeOK'
    <3>1. writer[w].own \in Version
      BY DEF Writer
    <3>2. PICK v \in (writer[w].own .. disk) \cup {0} :
            writer' = [writer EXCEPT ![w].at = "adopt", ![w].got = v]
      BY <2>2 DEF ComputeCoverage
    <3>3. v \in Version
      BY <1>0, <3>1, <3>2, Versions
    <3>4. writer' \in [Writers -> Writer]
      BY <3>2, <3>3, WriterType
    <3> QED BY <2>2, <3>4 DEF ComputeCoverage
  <2>3. ASSUME NEW w \in Writers, SetCoverageSnapshot(w) PROVE CoverageTypeOK'
    <3>1. writer' \in [Writers -> Writer]
      BY <2>3, WriterType DEF SetCoverageSnapshot
    <3> QED BY <2>3, <3>1 DEF SetCoverageSnapshot, Writer
  <2>4. ASSUME NEW w \in Writers, ForceRefresh(w) PROVE CoverageTypeOK'
    <3>1. writer' \in [Writers -> Writer]
      BY <2>4, WriterType DEF ForceRefresh
    <3>2. forced' \in Version
      BY <2>4, Versions DEF ForceRefresh, Writer
    <3>3. thread' \in [Refreshers -> Thread]
      BY <2>4, BeginType DEF ForceRefresh
    <3> QED BY <2>4, <3>1, <3>2, <3>3 DEF ForceRefresh, Begin
  <2>5. ASSUME Health PROVE CoverageTypeOK'
    <3>1. thread' \in [Refreshers -> Thread]
      BY <2>5, BeginType DEF Health
    <3> QED BY <2>5, <3>1 DEF Health, Begin
  <2>6. ASSUME Expire PROVE CoverageTypeOK'
    BY <2>6 DEF Expire
  <2>7. ASSUME NEW r \in Refreshers, StartRead(r) PROVE CoverageTypeOK'
    <3>1. thread' \in [Refreshers -> Thread]
      BY <2>7, ThreadType DEF StartRead
    <3> QED BY <2>7, <3>1 DEF StartRead
  <2>8. ASSUME NEW r \in Refreshers, EndRead(r) PROVE CoverageTypeOK'
    <3>1. thread[r].from \in Version
      BY DEF Thread
    <3>2. PICK v \in (thread[r].from .. disk) \cup {0} :
            thread' = [thread EXCEPT ![r].at = "publish", ![r].got = v]
      BY <2>8 DEF EndRead
    <3>3. v \in Version
      BY <1>0, <3>1, <3>2, Versions
    <3>4. thread' \in [Refreshers -> Thread]
      BY <3>2, <3>3, ThreadType
    <3> QED BY <2>8, <3>4 DEF EndRead
  <2>9. ASSUME NEW r \in Refreshers, Publish(r) PROVE CoverageTypeOK'
    <3>1. thread' \in [Refreshers -> Thread]
      <4>1. PICK st \in {"round", "finally"} : thread' = [thread EXCEPT ![r].at = st]
        BY <2>9 DEF Publish
      <4> QED BY <4>1, ThreadStage
    <3>2. best' \in Version
      BY <2>9, Versions DEF Publish, Thread
    <3>3. snapshot' \in Version
      BY <2>9 DEF Publish, Thread
    <3> QED BY <2>9, <3>1, <3>2, <3>3 DEF Publish
  <2>10. ASSUME NEW r \in Refreshers, Finally(r) PROVE CoverageTypeOK'
    <3>1. thread' \in [Refreshers -> Thread]
      BY <2>10 DEF Finally, Thread
    <3> QED BY <2>10, <3>1 DEF Finally
  <2>11. CASE UNCHANGED coverageVars
    BY <2>11 DEF coverageVars
  <2> HIDE DEF CoverageTypeOK
  <2> QED BY <2>1, <2>2, <2>3, <2>4, <2>5, <2>6, <2>7, <2>8, <2>9, <2>10, <2>11, <2>12
          DEF CoverageNext, Request, Step, Finished
<1> QED BY <1>1, <1>2, PTL DEF CoverageSpec

\* A refresh thread that will still publish.
Active == \E r \in Refreshers : thread[r].at \notin {"idle", "finally"}

\* A raised flag, or a dirty mark, always has a thread that will see to it
\* (service.py:318-320: lowering the flag and deciding that no round is due
\* happen under one lock).
THEOREM FlagCorrect == CoverageSpec => []FlagHasThread
<1>1. CoverageInit => FlagHasThread
  BY DEF CoverageInit, FlagHasThread
<1>2. CoverageTypeOK /\ FlagHasThread /\ [CoverageNext]_coverageVars => FlagHasThread'
  <2> SUFFICES ASSUME CoverageTypeOK, FlagHasThread, [CoverageNext]_coverageVars PROVE FlagHasThread'
    OBVIOUS
  <2>1. thread \in [Refreshers -> Thread]
    BY DEF CoverageTypeOK
  <2>2. ASSUME Begin PROVE Active'
    BY <2>1, <2>2 DEF Begin, Active, Thread
  <2>3. ASSUME NEW w \in Writers, ForceRefresh(w) PROVE FlagHasThread'
    <3>1. CASE Begin
      BY <2>2, <3>1 DEF Active, FlagHasThread
    <3>2. CASE refreshing /\ dirty' = TRUE /\ UNCHANGED <<refreshing, thread>>
      BY <3>2 DEF FlagHasThread
    <3> QED BY <2>3, <3>1, <3>2 DEF ForceRefresh
  <2>4. ASSUME Health PROVE FlagHasThread'
    BY <2>2, <2>4 DEF Health, Active, FlagHasThread
  <2>5. ASSUME NEW r \in Refreshers, StartRead(r) \/ EndRead(r) PROVE FlagHasThread'
    <3>1. thread'[r].at \in {"reading", "publish"}
      BY <2>1, <2>5 DEF StartRead, EndRead, Thread
    <3> QED BY <3>1 DEF FlagHasThread
  <2>6. ASSUME NEW r \in Refreshers, Publish(r) PROVE FlagHasThread'
    <3>1. CASE dirty
      <4>1. thread'[r].at = "round"
        BY <2>1, <2>6, <3>1 DEF Publish, Thread
      <4> QED BY <4>1 DEF FlagHasThread
    <3>2. CASE ~dirty
      BY <2>6, <3>2 DEF Publish, FlagHasThread
    <3> QED BY <3>1, <3>2
  <2>7. ASSUME NEW r \in Refreshers, Finally(r) PROVE FlagHasThread'
    <3>1. thread[r].at = "finally"
      BY <2>7 DEF Finally
    <3>2. \A q \in Refreshers : q # r => thread'[q] = thread[q]
      BY <2>1, <2>7 DEF Finally
    <3> QED BY <2>7, <3>1, <3>2 DEF Finally, FlagHasThread
  <2>8. CASE UNCHANGED <<refreshing, dirty, thread>>
    BY <2>8 DEF FlagHasThread
  <2> QED BY <2>3, <2>4, <2>5, <2>6, <2>7, <2>8
          DEF CoverageNext, Request, Step, Finished, coverageVars, Write, WriteRaises, ComputeCoverage,
              SetCoverageSnapshot, Expire
<1> QED BY <1>1, <1>2, CoverageTypeCorrect, PTL DEF CoverageSpec

-----------------------------------------------------------------------------
(* The files of the back-fill.                                              *)

Filled(f) == {c \in Cells : f[c] \in Values}

\* Neither combine_first loses a value, and both take every value that is new.
LEMMA WrittenFills ==
  ASSUME NEW file, NEW new
  PROVE  Filled(file) \cup Filled(new) \subseteq Filled(Written(file, new))
<1>1. \A c \in Cells : Written(file, new)[c] =
        IF new[c] \in Values \/ file[c] = "none" THEN new[c] ELSE file[c]
  BY DEF Written
<1>2. "none" \notin Values
  BY DEF Values
<1> QED BY <1>1, <1>2 DEF Filled

\* No step of the script, of the service or of the machine empties a cell.
LEMMA StepFills ==
  ASSUME [Next]_vars
  PROVE  /\ Filled(warehouse) \subseteq Filled(warehouse')
         /\ Filled(cache) \subseteq Filled(cache')
<1>1. CASE WriteCache
  BY <1>1, WrittenFills DEF WriteCache, Filled
<1>2. CASE WriteWarehouse
  BY <1>2, WrittenFills DEF WriteWarehouse, Filled
<1>3. CASE Other
  <2>1. PICK new : warehouse' = Written(warehouse, new)
    BY <1>3 DEF Other
  <2>2. cache' = cache
    BY <1>3 DEF Other
  <2> QED BY <2>1, <2>2, WrittenFills DEF Filled
<1>4. CASE \/ Choose \/ ReadBatch \/ Fetch \/ WriteFails \/ Report \/ Finish \/ Restart
           \/ Crash \/ UNCHANGED vars
  <2>1. warehouse' = warehouse /\ cache' = cache
    BY <1>4 DEF Choose, ReadBatch, Fetch, WriteFails, Report, Finish, Restart, Crash, files, vars
  <2> QED BY <2>1 DEF Filled
<1> QED BY <1>1, <1>2, <1>3, <1>4 DEF Next, Script

\* A value that is in the warehouse or in the cache stays one, whatever was read
\* before it came and written after (the merges of data/operations.py, cache.py and
\* warehouse.py).
THEOREM FilledCorrect == Spec => FilledStaysFilled
<1>1. [Next]_vars => [\A c \in Cells : /\ warehouse[c] \in Values => warehouse'[c] \in Values
                                       /\ cache[c] \in Values => cache'[c] \in Values]_vars
  BY StepFills DEF Filled
<1>2. Spec => [][\A c \in Cells : /\ warehouse[c] \in Values => warehouse'[c] \in Values
                                  /\ cache[c] \in Values => cache'[c] \in Values]_vars
  BY <1>1, PTL DEF Spec
<1> QED BY <1>2 DEF FilledStaysFilled

-----------------------------------------------------------------------------
(* The progress lines                                                       *)

\* What a line of the stock s is to mean, with its kind and its cells.
Covered(s) ==
  \A d \in Days \ KnownGaps : \/ warehouse[<<s, d>>] \in Values
                              \/ cache[<<s, d>>] \in Values
                              \/ s \in LateStart

True(s, kind, cells) ==
  /\ kind # "failed" => \A c \in cells : warehouse[c] \in Values /\ cache[c] \in Values
  /\ kind = "already_complete" => Covered(s)

\* The same of an outcome that waits for its writes: its cells are filled in the
\* frame, and in the cache as soon as that is written.
Promised(s) ==
  /\ outcome[s].cells \subseteq Filled(frame)
  /\ main = "storing" => outcome[s].cells \subseteq Filled(cache)
  /\ outcome[s].kind = "already_complete" => Covered(s)

LinesFollow ==
  /\ todo \subseteq Symbols /\ batch \subseteq Symbols
  /\ \A line \in progress : /\ line.symbol \in Symbols /\ line.cells \subseteq Cells
                             /\ True(line.symbol, line.kind, line.cells)
  /\ main = "fetching" => Filled(frame) \subseteq Filled(warehouse) \cup Filled(cache)
  /\ main \in {"caching", "storing"} => \A s \in batch : Promised(s)
  /\ main = "reporting" =>
        \A s \in batch : /\ outcome[s].cells \subseteq Cells
                         /\ True(s, outcome[s].kind, outcome[s].cells)

\* Files only fill up, so what is true stays so.
LEMMA TrueStays ==
  ASSUME [Next]_vars, NEW s \in Symbols, NEW kind, NEW cells \in SUBSET Cells
  PROVE  /\ Covered(s) => Covered(s)'
         /\ True(s, kind, cells) => True(s, kind, cells)'
<1>1. \A c \in Cells : /\ warehouse[c] \in Values => warehouse'[c] \in Values
                       /\ cache[c] \in Values => cache'[c] \in Values
  BY StepFills DEF Filled
<1>2. ASSUME Covered(s) PROVE Covered(s)'
  BY <1>1, <1>2 DEF Covered, Cells
<1> QED BY <1>1, <1>2 DEF True

\* The cells of a complete stock are filled.
LEMMA CompleteCovers ==
  ASSUME NEW s \in Symbols, NEW f, IsComplete(f, s),
         Filled(f) \subseteq Filled(warehouse) \cup Filled(cache)
  PROVE  Covered(s)
<1> SUFFICES ASSUME s \notin LateStart, NEW d \in Days \ KnownGaps
             PROVE  warehouse[<<s, d>>] \in Values \/ cache[<<s, d>>] \in Values
  BY DEF Covered
<1>1. d \in FlowDays(f, s)
  BY DEF IsComplete, Expected
<1>2. <<s, d>> \in Filled(f)
  BY <1>1 DEF FlowDays, Filled, Cells
<1> QED BY <1>2 DEF Filled

\* What Fetch imports is filled in the frame, and only fetched stocks get anything.
LEMMA ImportedFills ==
  ASSUME NEW f, NEW said, NEW s
  PROVE  /\ Imported(f, said, s) \subseteq Filled(WithStandalone(f, said))
         /\ Imported(f, said, s) \subseteq Cells
         /\ s \notin DOMAIN said => Imported(f, said, s) = {}
<1>1. ASSUME NEW c \in Imported(f, said, s)
      PROVE  c \in Cells /\ WithStandalone(f, said)[c] = "ours" /\ s \in DOMAIN said
  BY <1>1 DEF Imported, WithStandalone, Merged
<1> QED BY <1>1 DEF Filled, Values

LEMMA InitLines == Init => LinesFollow
BY DEF Init, LinesFollow

\* The lines that are there stay true; a step that adds none is done with them.
LEMMA OldLines ==
  ASSUME LinesFollow, [Next]_vars
  PROVE  \A line \in progress : /\ line.symbol \in Symbols /\ line.cells \subseteq Cells
                                /\ True(line.symbol, line.kind, line.cells)'
<1>1. \A c \in Cells : /\ warehouse[c] \in Values => warehouse'[c] \in Values
                       /\ cache[c] \in Values => cache'[c] \in Values
  BY StepFills DEF Filled
<1>2. ASSUME NEW line \in progress
      PROVE  True(line.symbol, line.kind, line.cells) => True(line.symbol, line.kind, line.cells)'
  <2>1. line.symbol \in Symbols /\ line.cells \subseteq Cells
    BY DEF LinesFollow
  <2>2. Covered(line.symbol) => Covered(line.symbol)'
    BY <2>1, TrueStays
  <2> QED BY <1>1, <2>1, <2>2 DEF True
<1> QED BY <1>2 DEF LinesFollow

LEMMA ReadLines ==
  ASSUME LinesFollow, ReadBatch
  PROVE  LinesFollow'
<1> [Next]_vars
  BY DEF Next, Script
<1>1. PICK stocks \in SUBSET todo :
        batch' = stocks /\ todo' = todo \ stocks /\ frame' = Existing(stocks)
  BY DEF ReadBatch
<1>2. progress' = progress /\ warehouse' = warehouse /\ cache' = cache
  BY DEF ReadBatch, files
<1>3. Filled(frame') \subseteq Filled(warehouse) \cup Filled(cache)
  BY <1>1 DEF Filled, Existing, Values
<1>4. todo' \subseteq Symbols /\ batch' \subseteq Symbols
  BY <1>1 DEF LinesFollow
<1>5. CASE main' = "fetching"
  BY <1>2, <1>3, <1>4, <1>5, OldLines DEF LinesFollow, Filled
<1>6. CASE \A s \in batch' : IsComplete(frame', s)
  <2>1. main' = "reporting" /\ outcome' = [s \in batch' |-> [kind |-> "already_complete", cells |-> {}]]
    BY <1>6 DEF ReadBatch
  <2>2. ASSUME NEW s \in batch'
        PROVE  outcome'[s].cells \subseteq Cells /\ True(s, outcome[s].kind, outcome[s].cells)'
    <3>1. Covered(s)
      BY <1>3, <1>4, <1>6, CompleteCovers
    <3>2. Covered(s)'
      BY <1>2, <3>1 DEF Covered
    <3>3. [kind |-> "already_complete", cells |-> {}].cells = {}
      OBVIOUS
    <3> QED BY <2>1, <3>2, <3>3 DEF True
  <2> QED BY <1>2, <1>4, <2>1, <2>2, OldLines DEF LinesFollow
<1> QED BY <1>5, <1>6 DEF ReadBatch

LEMMA FetchLines ==
  ASSUME LinesFollow, Fetch
  PROVE  LinesFollow'
<1> [Next]_vars
  BY DEF Next, Script
<1>1. PICK said \in [{s \in batch : ~IsComplete(frame, s)} -> Answers] :
        /\ frame' = WithStandalone(frame, said)
        /\ outcome' = [s \in batch |-> [kind |-> Kind(frame, said, s), cells |-> Imported(frame, said, s)]]
        /\ main' = IF \A s \in DOMAIN said : Imported(frame, said, s) = {}
                   THEN "reporting" ELSE "caching"
  BY DEF Fetch
<1>2. main = "fetching" /\ UNCHANGED <<warehouse, cache, progress, todo, batch>>
  BY DEF Fetch, files
<1>3. ASSUME NEW s \in batch
      PROVE  /\ outcome'[s].kind = Kind(frame, said, s)
             /\ outcome'[s].cells = Imported(frame, said, s)
             /\ outcome'[s].kind = "already_complete" => Covered(s)'
  <2>1. /\ [kind |-> Kind(frame, said, s), cells |-> Imported(frame, said, s)].kind = Kind(frame, said, s)
        /\ [kind |-> Kind(frame, said, s), cells |-> Imported(frame, said, s)].cells = Imported(frame, said, s)
    OBVIOUS
  <2>2. outcome'[s] = [kind |-> Kind(frame, said, s), cells |-> Imported(frame, said, s)]
    BY <1>1
  <2>3. ASSUME Kind(frame, said, s) = "already_complete" PROVE Covered(s)'
    <3>1. s \notin DOMAIN said
      BY <2>3 DEF Kind
    <3>2. IsComplete(frame, s)
      BY <1>1, <3>1
    <3>3. s \in Symbols /\ Filled(frame) \subseteq Filled(warehouse) \cup Filled(cache)
      BY <1>2 DEF LinesFollow
    <3>4. Covered(s)
      BY <3>2, <3>3, CompleteCovers
    <3> QED BY <1>2, <3>4 DEF Covered
  <2> QED BY <2>1, <2>2, <2>3
<1>4. CASE main' = "caching"
  <2>1. ASSUME NEW s \in batch' PROVE Promised(s)'
    <3>1. outcome'[s].cells \subseteq Filled(frame')
      BY <1>1, <1>2, <1>3, ImportedFills
    <3>2. Filled(frame)' = Filled(frame')
      BY DEF Filled
    <3> QED BY <1>2, <1>3, <1>4, <3>1, <3>2 DEF Promised
  <2> QED BY <1>2, <1>4, <2>1, OldLines DEF LinesFollow
<1>5. CASE \A s \in DOMAIN said : Imported(frame, said, s) = {}
  <2>1. ASSUME NEW s \in batch'
        PROVE  outcome'[s].cells \subseteq Cells /\ True(s, outcome[s].kind, outcome[s].cells)'
    <3>1. outcome'[s].cells = {}
      BY <1>2, <1>3, <1>5, ImportedFills
    <3> QED BY <1>2, <1>3, <3>1 DEF True
  <2> QED BY <1>1, <1>2, <1>5, <2>1, OldLines DEF LinesFollow
<1> QED BY <1>1, <1>4, <1>5

LEMMA WriteLines ==
  ASSUME LinesFollow, WriteCache \/ WriteWarehouse
  PROVE  LinesFollow'
<1> [Next]_vars
  BY DEF Next, Script
<1>1. UNCHANGED <<progress, todo, batch, frame, outcome>>
  BY DEF WriteCache, WriteWarehouse
<1>2. ASSUME NEW s \in batch PROVE (Covered(s) => Covered(s)') /\ Promised(s)
  BY <1>2, TrueStays DEF LinesFollow, WriteCache, WriteWarehouse
<1>3. CASE WriteCache
  <2>1. Filled(frame) \subseteq Filled(cache') /\ main' = "storing"
    BY <1>3, WrittenFills DEF WriteCache
  <2>2. ASSUME NEW s \in batch PROVE Promised(s)'
    BY <1>1, <1>2, <2>1 DEF Promised, Filled
  <2> QED BY <1>1, <2>1, <2>2, OldLines DEF LinesFollow
<1>4. CASE WriteWarehouse
  <2>1. /\ Filled(frame) \subseteq Filled(warehouse') /\ main = "storing" /\ main' = "reporting"
        /\ cache' = cache
    BY <1>4, WrittenFills DEF WriteWarehouse
  <2>2. ASSUME NEW s \in batch
        PROVE  outcome[s].cells \subseteq Cells /\ True(s, outcome[s].kind, outcome[s].cells)'
    BY <1>1, <1>2, <2>1 DEF Promised, Filled, True
  <2> QED BY <1>1, <2>1, <2>2, OldLines DEF LinesFollow
<1> QED BY <1>3, <1>4

LEMMA ReportLines ==
  ASSUME LinesFollow, Report
  PROVE  LinesFollow'
<1> [Next]_vars
  BY DEF Next, Script
<1>1. PICK s \in batch :
        /\ progress' = progress \cup {[symbol |-> s, kind |-> outcome[s].kind, cells |-> outcome[s].cells]}
        /\ batch' = batch \ {s}
  BY DEF Report
<1>2. /\ UNCHANGED <<warehouse, cache, todo>> /\ main = "reporting"
      /\ main' \in {"stopped", "ready", "reporting"}
      /\ outcome' = IF batch' = {} THEN Nothing ELSE outcome
  BY DEF Report, files
<1>3. \A q \in batch : /\ outcome[q].cells \subseteq Cells
                      /\ True(q, outcome[q].kind, outcome[q].cells)
  BY <1>2 DEF LinesFollow
<1>4. ASSUME NEW line \in progress'
      PROVE  /\ line.symbol \in Symbols /\ line.cells \subseteq Cells
             /\ True(line.symbol, line.kind, line.cells)'
  <2>1. CASE line \in progress
    BY <2>1, OldLines
  <2>2. CASE line = [symbol |-> s, kind |-> outcome[s].kind, cells |-> outcome[s].cells]
    <3>1. line.symbol = s /\ line.kind = outcome[s].kind /\ line.cells = outcome[s].cells
      BY <2>2
    <3>2. line.symbol \in Symbols /\ line.cells \subseteq Cells /\ True(line.symbol, line.kind, line.cells)
      BY <1>3, <3>1 DEF LinesFollow
    <3> QED BY <1>2, <3>2 DEF True, Covered
  <2> QED BY <1>1, <1>4, <2>1, <2>2
<1>5. ASSUME NEW q \in batch'
      PROVE  /\ outcome'[q].cells \subseteq Cells
             /\ True(q, outcome[q].kind, outcome[q].cells)'
  BY <1>1, <1>2, <1>3 DEF True, Covered
<1> QED BY <1>1, <1>2, <1>4, <1>5 DEF LinesFollow

\* The service may write at any point of the script.
LEMMA OtherLines ==
  ASSUME LinesFollow, Other
  PROVE  LinesFollow'
<1> [Next]_vars
  BY DEF Next
<1>1. UNCHANGED <<cache, progress, main, todo, batch, frame, outcome>>
  BY DEF Other
<1>2. /\ Filled(warehouse) \subseteq Filled(warehouse')
      /\ \A c \in Cells : warehouse[c] \in Values => warehouse'[c] \in Values
  BY StepFills DEF Filled
<1>3. ASSUME NEW s \in batch PROVE Covered(s) => Covered(s)'
  BY <1>3, TrueStays DEF LinesFollow
<1>4. ASSUME NEW s \in batch, Promised(s) PROVE Promised(s)'
  BY <1>1, <1>3, <1>4 DEF Promised, Filled
<1>5. ASSUME NEW s \in batch, outcome[s].cells \subseteq Cells, True(s, outcome[s].kind, outcome[s].cells)
      PROVE  True(s, outcome[s].kind, outcome[s].cells)'
  BY <1>1, <1>2, <1>3, <1>5 DEF True
<1>6. main = "fetching" => Filled(frame)' \subseteq Filled(warehouse)' \cup Filled(cache)'
  BY <1>1, <1>2 DEF LinesFollow, Filled
<1> QED BY <1>1, <1>4, <1>5, <1>6, OldLines DEF LinesFollow

LEMMA StepLines ==
  ASSUME LinesFollow, [Next]_vars
  PROVE  LinesFollow'
<1>1. CASE Choose
  <2>1. todo' \subseteq Symbols
    BY <1>1 DEF Choose, Selections, Missing
  <2> QED BY <1>1, <2>1, OldLines DEF LinesFollow, Choose, files
<1>2. CASE WriteFails
  <2>1. /\ UNCHANGED <<warehouse, cache, progress, todo, batch>> /\ main' = "reporting"
        /\ outcome' = [s \in batch |-> [kind |-> "failed", cells |-> {}]]
    BY <1>2 DEF WriteFails, files
  <2>2. ASSUME NEW s \in batch'
        PROVE  outcome'[s].cells \subseteq Cells /\ True(s, outcome[s].kind, outcome[s].cells)'
    <3>1. [kind |-> "failed", cells |-> {}].kind = "failed" /\ [kind |-> "failed", cells |-> {}].cells = {}
      OBVIOUS
    <3>2. outcome'[s].kind = "failed" /\ outcome'[s].cells = {}
      BY <2>1, <3>1
    <3> QED BY <3>2 DEF True
  <2> QED BY <2>1, <2>2, OldLines DEF LinesFollow
<1>3. CASE Finish \/ Crash \/ Restart
  <2>1. /\ UNCHANGED progress /\ main' \in {"finished", "dead", "choosing"}
        /\ todo' \in {todo, {}} /\ batch' \in {batch, {}}
    BY <1>3 DEF Finish, Crash, Restart, files
  <2> QED BY <2>1, OldLines DEF LinesFollow
<1>4. CASE UNCHANGED vars
  BY <1>4 DEF LinesFollow, Filled, Promised, True, Covered, vars, files
<1> QED BY <1>1, <1>2, <1>3, <1>4, ReadLines, FetchLines, WriteLines, ReportLines, OtherLines
        DEF Next, Script

\* Whatever the script had read, whoever else wrote and wherever it died: what a line
\* calls imported is in both files, and a stock it calls complete, which --resume
\* leaves out from then on, has a flow for every day its source has one.
THEOREM LinesCorrect == Spec => []LinesAreTrue
<1>1. LinesFollow => LinesAreTrue
  BY DEF LinesFollow, True, Covered, LinesAreTrue, ImportedIsWritten, CompleteIsCovered
<1> QED BY <1>1, InitLines, StepLines, PTL DEF Spec
===============================================================================
