------------------------------- MODULE Memory -------------------------------
(***************************************************************************)
(* The long-term memory of the assistant (ai/memory.py): records the user  *)
(* edits in a panel, the model through a tool, and an extraction thread    *)
(* after each turn, which plans its operations on a listing it read before *)
(* the call of the model.  Every write reads the file again under the lock *)
(* and replaces it whole, so each is one step.                             *)
(***************************************************************************)
EXTENDS Integers, Sequences, FiniteSets, SequencesExt

CONSTANTS Contents,       \* what a record may say: [says, codes, market]
          MaxRecords,     \* MAX_RECORDS
          MaxHits,        \* MAX_HITS_FOR_RECALL
          HitBoost,       \* per cent a hit adds to the score of a record
          StrategyLines, ProfileLimit, FactsLimit,    \* what a recall may inject
          MaxWrites, MaxTurns     \* bounds: writes among whatever else; writes among turns

\* memory.py:45: hits at their cap lift the lowest weight to less than the highest.
ASSUME MemoryAssumption ==
    MaxRecords \in Nat /\ MaxHits \in Nat /\ HitBoost \in Nat /\ HitBoost * MaxHits < 200

Categories == {"strategy", "holding", "fact"}
ProfileCategories == {"holding"}

\* `meant` is the category last named for the record, `by` who wrote it last.
MemoryRecord(id, content, category, weight, at, by) ==
    [id |-> id, content |-> content, category |-> category, weight |-> weight,
     hits |-> 0, at |-> at, by |-> by, meant |-> category]

NewMemory ==
    [records |-> <<>>, now |-> 1, plan |-> {}, recalled |-> {},
     written |-> <<>>,       \* when each record was last written, by its id
     deleted |-> {}]         \* ids a deletion has named

HasId(records, id) == \E i \in DOMAIN records : records[i].id = id
Named(records, id) == CHOOSE i \in DOMAIN records : records[i].id = id
Without(records, id) == IF HasId(records, id) THEN RemoveAt(records, Named(records, id)) ELSE records

\* The newest first; what is over the limit is dropped from the end.
Newer(records, i) == {j \in DOMAIN records : records[j].at > records[i].at}
Trimmed(records) ==
    [k \in 1..Min({Len(records), MaxRecords}) |->
       records[CHOOSE i \in DOMAIN records : Cardinality(Newer(records, i)) = k - 1]]

\* An older record of the same category that mentions every stock of the new one.
SameSubject(records, category, content) ==
    {i \in DOMAIN records :
       /\ records[i].category = category
       /\ content.codes # {} /\ content.codes \subseteq records[i].content.codes}
First(set) == CHOOSE i \in set : \A j \in set : i <= j

\* An operation names what it changes; a category or a weight it leaves out is
\* {}, and `named` is the category the model itself gave.  A market number is no lasting fact but in the user's profile.
Op(kind, id, content, category, weight) ==
    [kind |-> kind, id |-> id, content |-> content, category |-> category, weight |-> weight,
     named |-> category]
OrElse(optional, default) == IF optional = {} THEN default ELSE CHOOSE x \in optional : TRUE

Rejected(category, content) == category \notin ProfileCategories /\ content.market

\* Mutant: the listing the plan was made on is trusted, not the records.
AddUnchecked(records, op, id, at) ==
    LET category == OrElse(op.category, "fact")
    IN  IF Rejected(category, op.content) THEN records
        ELSE Append(records, MemoryRecord(id, op.content, category, OrElse(op.weight, 1), at, "added"))

\* One of the model's operations on the records as they are; `id` is a new one.
AddRecord(records, op, id, at) ==
    LET category == OrElse(op.category, "fact")
        same == SameSubject(records, category, op.content)
        weight == OrElse(op.weight, 1)
    IN  IF Rejected(category, op.content)
           \/ \E i \in DOMAIN records : records[i].content.says = op.content.says
        THEN records
        ELSE IF same # {}
        THEN [records EXCEPT ![First(same)] =
                [@ EXCEPT !.content = op.content, !.weight = weight, !.at = at, !.by = "added"]]
        ELSE Append(records, MemoryRecord(id, op.content, category, weight, at, "added"))

UpdateRecord(records, op, at) ==
    LET i == Named(records, op.id)
        r == records[i]
        new == [r EXCEPT !.content = op.content, !.category = OrElse(op.category, r.category),
                         !.weight = OrElse(op.weight, r.weight), !.at = at, !.by = "updated",
                         !.meant = OrElse(op.named, r.meant)]
    IN  IF ~HasId(records, op.id) \/ Rejected(r.category, op.content) THEN records
        ELSE [records EXCEPT ![i] = new]

Applied(records, op, id, at) ==
    CASE op.kind = "add" -> AddRecord(records, op, id, at)
      [] op.kind = "update" -> UpdateRecord(records, op, at)
      [] OTHER -> Without(records, op.id)

\* What the file holds after a write, and what becomes of the books.
Stored(m, records, ops) ==
    LET kept == Trimmed(records)
    IN  [m EXCEPT !.records = kept, !.now = @ + 1,
                  !.written = [id \in 1..m.now |->
                     IF HasId(records, id) THEN records[Named(records, id)].at
                     ELSE IF id < m.now THEN m.written[id] ELSE 0],
                  !.deleted = @ \cup {op.id : op \in {o \in ops : o.kind = "delete"}}]

-----------------------------------------------------------------------------
\* The extraction reads the listing and asks the model, which may name the
\* records of the listing; what it leaves out is given a category and a weight.
AnyContent == CHOOSE c \in Contents : TRUE    \* a deletion has none
Proposed(m) ==
    LET ids == {m.records[i].id : i \in DOMAIN m.records}
    IN  {Op("add", 0, c, {k}, {}) : c \in Contents, k \in Categories}
          \cup {Op("update", id, c, k, {}) : id \in ids, c \in Contents, k \in {{}, {"strategy"}}}
          \cup {Op("delete", id, AnyContent, {}, {}) : id \in ids}
Complemented(op) ==
    [op EXCEPT !.category = {OrElse(op.category, "fact")}, !.weight = {OrElse(op.weight, 1)}]
PlanOps(m) == {[m EXCEPT !.plan = {Complemented(op)}] : op \in Proposed(m)}

ApplyPlan(m, op) ==
    [Stored(m, Applied(m.records, op, m.now, m.now), {op}) EXCEPT !.plan = {}]

\* The model's tool checks the content first, by the category it was given, and
\* passes on what it was given only.
ToolOps(m) ==
    LET ids == {m.records[i].id : i \in DOMAIN m.records}
        proposed == {Op("add", 0, c, {k}, {3}) : c \in Contents, k \in Categories}
                      \cup {Op("update", id, c, k, {}) : id \in ids, c \in Contents, k \in {{}, {"holding"}}}
    IN  {o \in proposed : ~Rejected(OrElse(o.category, "none"), o.content)}

ManageMemory(m, op) == Stored(m, Applied(m.records, op, m.now, m.now), {op})

\* The user's panel: what is created is created, what is edited keeps the
\* category it is not given, and the trim is that of the next write.
CreateRecord(m, content, category) ==
    Stored(m, Append(m.records, MemoryRecord(m.now, content, category, 2, m.now, "user")), {})
EditRecord(m, i, content) ==
    Stored(m, [m.records EXCEPT ![i] = [@ EXCEPT !.content = content, !.at = m.now, !.by = "user"]], {})
DeleteRecord(m, id) ==
    Stored(m, Without(m.records, id), {[kind |-> "delete", id |-> id]})

-----------------------------------------------------------------------------
\* A turn is given the records that rank highest, those of the user's strategies
\* first and apart, and then counts a hit for each of them that is still there.
\* Four fifths of a score fade, by half in every unit of time.
Decay(age) == LET faded[t \in 0..age] == IF t = 0 THEN 80 ELSE faded[t - 1] \div 2 IN 20 + faded[age]
\* Mutant: the more a record was recalled, the higher it ranks, without end.
ScoreUncapped(r, now) == r.weight * (100 + HitBoost * r.hits) * Decay(now - r.at)

Score(r, now) ==
    r.weight * (100 + HitBoost * (IF r.hits > MaxHits THEN MaxHits ELSE r.hits)) * Decay(now - r.at)

Recalled(records, now) ==
    LET ranked == SortSeq(records, LAMBDA r, s : Score(r, now) > Score(s, now))
        Of(set, limit) ==
          LET those == SelectSeq(ranked, LAMBDA r : r.category \in set)
          IN  {those[i].id : i \in {j \in DOMAIN those : j <= limit}}
    IN  Of({"strategy"}, StrategyLines) \cup Of(ProfileCategories, ProfileLimit)
          \cup Of(Categories \ (ProfileCategories \cup {"strategy"}), FactsLimit)

Recall(m) == [m EXCEPT !.recalled = Recalled(m.records, m.now)]
BumpHits(m) ==
    LET Hit(r) == IF r.id \in m.recalled THEN [r EXCEPT !.hits = @ + 1] ELSE r
    IN  [m EXCEPT !.recalled = {}, !.now = @ + 1, !.written = Append(@, 0),
                  !.records = [i \in DOMAIN @ |-> Hit(@[i])]]

RecallSteps(m) ==
    IF m.records = <<>> THEN {} ELSE IF m.recalled = {} THEN {Recall(m)} ELSE {BumpHits(m)}

MemorySteps(m) ==
    IF m.now > MaxWrites THEN {}
    ELSE (IF m.plan = {} THEN PlanOps(m) ELSE {ApplyPlan(m, op) : op \in m.plan})
           \cup {ManageMemory(m, op) : op \in ToolOps(m)}
           \cup {CreateRecord(m, c, k) : c \in Contents, k \in Categories}
           \cup {EditRecord(m, i, c) : i \in DOMAIN m.records, c \in Contents}
           \cup {DeleteRecord(m, m.records[i].id) : i \in DOMAIN m.records}
           \cup RecallSteps(m)

\* Turn after turn, the model noting what the user says in passing or stresses.
TurnSteps(m) ==
    IF m.now > MaxTurns THEN {}
    ELSE RecallSteps(m)
           \cup {ManageMemory(m, Op("add", 0, c, {"fact"}, {w})) : c \in Contents, w \in {1, 3}}

-----------------------------------------------------------------------------
\* Whatever was planned on an older listing: two records the model added say two
\* things, it added no market number but to the profile, and a record is gone
\* only when a deletion named it or enough others were written after it.
MemoryIsKept(m) ==
    LET r == m.records
    IN  /\ \A i, j \in DOMAIN r : i # j /\ r[i].by = "added" /\ r[j].by = "added"
                                    => r[i].content.says # r[j].content.says
        /\ \A i \in DOMAIN r : r[i].by = "added" => ~Rejected(r[i].category, r[i].content)
        /\ \A id \in DOMAIN m.written : m.written[id] # 0 /\ ~HasId(r, id) /\ id \notin m.deleted =>
             Cardinality({i \in DOMAIN m.written : m.written[i] > m.written[id]}) >= MaxRecords

\* A record the user stressed, written now, is recalled before any he mentioned
\* in passing, however often that one was recalled.
StressedComesFirst(m) ==
    \A i, j \in DOMAIN m.records : LET r == m.records[i] s == m.records[j] IN
      r.weight = 3 /\ s.weight = 1 /\ r.at >= s.at => Score(r, m.now) > Score(s, m.now)

\* A record keeps the category that was named for it.
KeepsItsCategory(m) == \A i \in DOMAIN m.records : m.records[i].category = m.records[i].meant
=============================================================================
