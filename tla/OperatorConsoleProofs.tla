------------------------ MODULE OperatorConsoleProofs ------------------------
(***************************************************************************)
(* The console, for any databases, lines, calls and failures.  First the   *)
(* SQLite repositories: whatever a call, a clean-up or a deletion does, a  *)
(* whole database stays whole.  Then the steps of a command, one after the *)
(* other, and what they make of the files.  Then what a command that       *)
(* ended, or failed, leaves behind.  Last, what the words of a line are    *)
(* read as, and that a command loses only what its line gave up.           *)
(***************************************************************************)
EXTENDS OperatorConsole, SequenceTheorems, NaturalsInduction, WellFoundedInduction, TLAPS

-----------------------------------------------------------------------------
(* Rows. *)

LEMMA Erased ==
  ASSUME NEW db, Shaped(db), NEW names
  PROVE  /\ Shaped(Erase(db, names))
         /\ \A k \in RowNames : Erase(db, names).rows[k] = IF k \in names THEN Absent ELSE db.rows[k]
BY DEF Shaped, Erase

LEMMA WasSet ==
  ASSUME NEW db, Shaped(db), NEW k, NEW row
  PROVE  /\ Shaped(Set(db, k, row))
         /\ \A j \in RowNames : Set(db, k, row).rows[j] = IF j = k THEN row ELSE db.rows[j]
BY DEF Shaped, Set

LEMMA KeyParts ==
  ASSUME NEW b, NEW s, NEW i
  PROVE  /\ BlockKey(b)[1] = "time_blocks" /\ BlockKey(b)[2] = b[1] /\ BlockKey(b)[3] = b[2]
         /\ <<"schedule_plans", s, i>>[1] = "schedule_plans"
         /\ <<"schedule_plans", s, i>>[2] = s /\ <<"schedule_plans", s, i>>[3] = i
BY DEF BlockKey

\* The two halves of Whole, for one plan and for one row of a block.
PlanHasRows(db, p) ==
    /\ IsPlan(db.rows[p], p[2])
    /\ \A b \in DOMAIN db.rows[p].blocks :
          db.rows[BlockKey(b)] = [plan |-> p[3], value |-> db.rows[p].blocks[b]]
PlanOf(db, k) == <<"schedule_plans", k[2], db.rows[k].plan>>
RowHasPlan(db, k) ==
    PlanOf(db, k) \in RowNames /\ Present(db, PlanOf(db, k))
    /\ <<k[2], k[3]>> \in DOMAIN db.rows[PlanOf(db, k)].blocks

LEMMA WholeParts ==
  ASSUME NEW db
  PROVE  Whole(db) <=>
            /\ Shaped(db)
            /\ \A p \in RowNames : p[1] = "schedule_plans" /\ Present(db, p) => PlanHasRows(db, p)
            /\ \A k \in RowNames : k[1] = "time_blocks" /\ Present(db, k) => RowHasPlan(db, k)
BY DEF Whole, Shaped, PlanHasRows, RowHasPlan, PlanOf

\* A change of other tables.
LEMMA OthersKeep ==
  ASSUME NEW db, Whole(db), NEW new, Shaped(new),
         \A k \in RowNames : k[1] \in {"schedule_plans", "time_blocks"} => new.rows[k] = db.rows[k]
  PROVE  Whole(new)
<1>1. \A p \in RowNames : p[1] = "schedule_plans" /\ Present(new, p) => PlanHasRows(new, p)
  <2>. SUFFICES ASSUME NEW p \in RowNames, p[1] = "schedule_plans", Present(new, p)
                PROVE  PlanHasRows(new, p)
    OBVIOUS
  <2>1. PlanHasRows(db, p) /\ new.rows[p] = db.rows[p]
    BY WholeParts DEF Present
  <2>2. \A b \in DOMAIN db.rows[p].blocks : new.rows[BlockKey(b)] = db.rows[BlockKey(b)]
    BY <2>1, KeyParts DEF PlanHasRows, IsPlan
  <2>. QED
    BY <2>1, <2>2 DEF PlanHasRows
<1>2. \A k \in RowNames : k[1] = "time_blocks" /\ Present(new, k) => RowHasPlan(new, k)
  <2>. SUFFICES ASSUME NEW k \in RowNames, k[1] = "time_blocks", Present(new, k)
                PROVE  RowHasPlan(new, k)
    OBVIOUS
  <2>1. RowHasPlan(db, k) /\ new.rows[k] = db.rows[k]
    BY WholeParts DEF Present
  <2>2. PlanOf(new, k) = PlanOf(db, k) /\ new.rows[PlanOf(db, k)] = db.rows[PlanOf(db, k)]
    BY <2>1, KeyParts DEF PlanOf, RowHasPlan
  <2>. QED
    BY <2>1, <2>2 DEF RowHasPlan, Present
<1>. QED
  BY <1>1, <1>2, WholeParts

\* What is erased takes a plan and the rows of its blocks together.
LEMMA EraseKeeps ==
  ASSUME NEW db, Whole(db), NEW names,
         \A k \in RowNames : k[1] = "time_blocks" /\ Present(db, k) => (k \in names <=> PlanOf(db, k) \in names)
  PROVE  Whole(Erase(db, names))
<1>. DEFINE new == Erase(db, names)
<1>1. Shaped(new) /\ Shaped(db)
      /\ \A k \in RowNames : new.rows[k] = IF k \in names THEN Absent ELSE db.rows[k]
  BY Erased, WholeParts
<1>. HIDE DEF new
<1>2. \A p \in RowNames : p[1] = "schedule_plans" /\ Present(new, p) => PlanHasRows(new, p)
  <2>. SUFFICES ASSUME NEW p \in RowNames, p[1] = "schedule_plans", Present(new, p)
                PROVE  PlanHasRows(new, p)
    OBVIOUS
  <2>1. PlanHasRows(db, p) /\ new.rows[p] = db.rows[p] /\ p \notin names
    BY <1>1, WholeParts DEF Present
  <2>2. ASSUME NEW b \in DOMAIN db.rows[p].blocks
        PROVE  new.rows[BlockKey(b)] = db.rows[BlockKey(b)]
    <3>1. BlockKey(b) \in RowNames /\ b = <<p[2], b[2]>>
          /\ db.rows[BlockKey(b)] = [plan |-> p[3], value |-> db.rows[p].blocks[b]]
      BY <2>1 DEF PlanHasRows, IsPlan
    <3>2. Present(db, BlockKey(b))
      BY <3>1 DEF Present, Absent
    <3>3. PlanOf(db, BlockKey(b)) = p
      BY <3>1, KeyParts, NamesAssumption DEF PlanOf
    <3>. QED
      BY <3>1, <3>2, <3>3, <2>1, <1>1, KeyParts
  <2>. QED
    BY <2>1, <2>2 DEF PlanHasRows
<1>3. \A k \in RowNames : k[1] = "time_blocks" /\ Present(new, k) => RowHasPlan(new, k)
  <2>. SUFFICES ASSUME NEW k \in RowNames, k[1] = "time_blocks", Present(new, k)
                PROVE  RowHasPlan(new, k)
    OBVIOUS
  <2>1. RowHasPlan(db, k) /\ new.rows[k] = db.rows[k] /\ k \notin names /\ Present(db, k)
    BY <1>1, WholeParts DEF Present
  <2>2. PlanOf(new, k) = PlanOf(db, k) /\ new.rows[PlanOf(db, k)] = db.rows[PlanOf(db, k)]
    BY <1>1, <2>1 DEF PlanOf, RowHasPlan
  <2>. QED
    BY <2>1, <2>2 DEF RowHasPlan, Present
<1>. QED
  BY <1>1, <1>2, <1>3, WholeParts DEF new

LEMMA UpsertShaped ==
  ASSUME NEW db, Shaped(db), NEW plan
  PROVE  Shaped(UpsertPlan(db, plan).db)
<1>. DEFINE rest == Erase(db, BlockRows(db, plan.scope, plan.id))
            block == [k \in {BlockKey(b) : b \in DOMAIN plan.row.blocks} |-> plan.row.blocks[<<k[2], k[3]>>]]
            new == [rest EXCEPT !.rows =
                       [k \in RowNames |-> IF k = PlanKey(plan) THEN plan.row
                                           ELSE IF k \in DOMAIN block THEN [plan |-> plan.id, value |-> block[k]]
                                           ELSE @[k]]]
<1>1. UpsertPlan(db, plan).db = db \/ UpsertPlan(db, plan).db = new
  BY DEF UpsertPlan, NotDone, Done
<1>2. Shaped(rest)
  BY Erased
<1>. HIDE DEF rest, block
<1>3. Shaped(new)
  BY <1>2 DEF Shaped
<1>. QED
  BY <1>1, <1>3

\* A plan that is stored takes its old rows away and brings its new ones, none of
\* which another plan has.
LEMMA UpsertKeeps ==
  ASSUME NEW db, Whole(db), NEW plan, PlanKey(plan) \in RowNames, IsPlan(plan.row, plan.scope)
  PROVE  Whole(UpsertPlan(db, plan).db)
<1>. DEFINE P == PlanKey(plan)
            old == BlockRows(db, plan.scope, plan.id)
            rest == Erase(db, old)
            keys == {BlockKey(b) : b \in DOMAIN plan.row.blocks}
            block == [k \in keys |-> plan.row.blocks[<<k[2], k[3]>>]]
            new == [rest EXCEPT !.rows =
                       [k \in RowNames |-> IF k = P THEN plan.row
                                           ELSE IF k \in DOMAIN block THEN [plan |-> plan.id, value |-> block[k]]
                                           ELSE @[k]]]
<1>1. UpsertPlan(db, plan).db = IF plan.twice \/ \E k \in keys : Present(rest, k) THEN db ELSE new
  BY DEF UpsertPlan, NotDone, Done
<1>2. CASE plan.twice \/ \E k \in keys : Present(rest, k)
  BY <1>1, <1>2
<1>3. CASE ~(\E k \in keys : Present(rest, k))
  <2>1. Shaped(db) /\ Shaped(rest)
        /\ \A k \in RowNames : rest.rows[k] = IF k \in old THEN Absent ELSE db.rows[k]
    BY Erased, WholeParts
  <2>2. \A k \in keys : block[k] = plan.row.blocks[<<k[2], k[3]>>]
    OBVIOUS
  <2>3. Shaped(new)
        /\ \A k \in RowNames : new.rows[k] = IF k = P THEN plan.row
                                             ELSE IF k \in keys THEN [plan |-> plan.id, value |-> block[k]]
                                             ELSE rest.rows[k]
    <3>1. DOMAIN block = keys
      OBVIOUS
    <3>. HIDE DEF P, old, rest, keys, block
    <3>. QED
      BY <2>1, <3>1 DEF Shaped
  <2>4. P[1] = "schedule_plans" /\ P[2] = plan.scope /\ P[3] = plan.id /\ P \in RowNames
    BY DEF PlanKey
  <2>5. \A k \in old : k \in RowNames /\ k[1] = "time_blocks" /\ k[2] = plan.scope /\ db.rows[k].plan = plan.id
    BY DEF BlockRows, In
  <2>6. \A k \in RowNames : k[1] = "time_blocks" /\ k[2] = plan.scope /\ Present(db, k)
                               /\ db.rows[k].plan = plan.id => k \in old
    BY DEF BlockRows, In
  <2>7. \A b \in DOMAIN plan.row.blocks :
           /\ b = <<plan.scope, b[2]>> /\ BlockKey(b) \in keys /\ BlockKey(b) \in RowNames
           /\ BlockKey(b)[1] = "time_blocks" /\ BlockKey(b)[2] = plan.scope
           /\ <<BlockKey(b)[2], BlockKey(b)[3]>> = b
    <3>. SUFFICES ASSUME NEW b \in DOMAIN plan.row.blocks
                  PROVE  /\ b = <<plan.scope, b[2]>> /\ BlockKey(b) \in keys /\ BlockKey(b) \in RowNames
                         /\ BlockKey(b)[1] = "time_blocks" /\ BlockKey(b)[2] = plan.scope
                         /\ <<BlockKey(b)[2], BlockKey(b)[3]>> = b
      OBVIOUS
    <3>1. b = <<plan.scope, b[2]>> /\ BlockKey(b) \in RowNames /\ BlockKey(b) \in keys
      BY DEF IsPlan
    <3>2. b[1] = plan.scope
      BY <3>1
    <3>. QED
      BY <3>1, <3>2, KeyParts
  <2>. HIDE DEF old, rest, block, new, P
  <2>8. ASSUME NEW k \in keys
        PROVE  /\ k \in RowNames /\ k[1] = "time_blocks" /\ k[2] = plan.scope
               /\ <<k[2], k[3]>> \in DOMAIN plan.row.blocks /\ ~Present(rest, k) /\ k # P
    BY <2>7, <2>4, <1>3
  <2>. HIDE DEF keys
  <2>9. \A p \in RowNames : p[1] = "schedule_plans" /\ Present(new, p) => PlanHasRows(new, p)
    <3>. SUFFICES ASSUME NEW p \in RowNames, p[1] = "schedule_plans", Present(new, p)
                  PROVE  PlanHasRows(new, p)
      OBVIOUS
    <3>1. CASE p = P
      <4>1. new.rows[p] = plan.row
        BY <3>1, <2>3
      <4>2. ASSUME NEW b \in DOMAIN plan.row.blocks
            PROVE  new.rows[BlockKey(b)] = [plan |-> p[3], value |-> plan.row.blocks[b]]
        BY <2>2, <2>3, <2>4, <2>7, <2>8, <3>1
      <4>. QED
        BY <4>1, <4>2, <3>1, <2>4 DEF PlanHasRows
    <3>2. CASE p # P
      <4>1. p \notin keys /\ p \notin old
        BY <2>8, <2>5
      <4>2. new.rows[p] = db.rows[p] /\ PlanHasRows(db, p)
        BY <4>1, <3>2, <2>1, <2>3, WholeParts DEF Present
      <4>3. ASSUME NEW b \in DOMAIN db.rows[p].blocks
            PROVE  new.rows[BlockKey(b)] = db.rows[BlockKey(b)]
        <5>1. BlockKey(b) \in RowNames /\ b = <<p[2], b[2]>>
              /\ db.rows[BlockKey(b)] = [plan |-> p[3], value |-> db.rows[p].blocks[b]]
          BY <4>2 DEF PlanHasRows, IsPlan
        <5>2. Present(db, BlockKey(b)) /\ BlockKey(b)[2] = p[2] /\ db.rows[BlockKey(b)].plan = p[3]
              /\ BlockKey(b)[1] = "time_blocks"
          <6>1. b[1] = p[2]
            BY <5>1
          <6>. QED
            BY <5>1, <6>1, KeyParts DEF Present, Absent
        <5>3. BlockKey(b) \notin old
          <6>1. BlockKey(b) \in old => p = P
            BY <5>2, <2>5, <2>4, NamesAssumption DEF P, PlanKey
          <6>. QED
            BY <6>1, <3>2
        <5>4. Present(rest, BlockKey(b))
          BY <5>1, <5>2, <5>3, <2>1 DEF Present
        <5>. QED
          BY <5>1, <5>2, <5>3, <5>4, <2>1, <2>3, <2>4, <2>8
      <4>. QED
        BY <4>2, <4>3 DEF PlanHasRows
    <3>. QED
      BY <3>1, <3>2
  <2>10. \A k \in RowNames : k[1] = "time_blocks" /\ Present(new, k) => RowHasPlan(new, k)
    <3>. SUFFICES ASSUME NEW k \in RowNames, k[1] = "time_blocks", Present(new, k)
                  PROVE  RowHasPlan(new, k)
      OBVIOUS
    <3>0. k # P
      BY <2>4
    <3>1. CASE k \in keys
      <4>1. new.rows[k].plan = plan.id
        <5>1. new.rows[k] = [plan |-> plan.id, value |-> block[k]]
          BY <3>1, <3>0, <2>3
        <5>. QED
          BY <5>1
      <4>2. PlanOf(new, k) = P
        BY <4>1, <3>1, <2>8 DEF PlanOf, P, PlanKey
      <4>3. new.rows[P] = plan.row
        BY <2>3, <2>4
      <4>4. Present(new, P)
        BY <4>3 DEF IsPlan, Present, Absent
      <4>. QED
        BY <4>2, <4>3, <4>4, <3>1, <2>8, <2>4 DEF RowHasPlan
    <3>2. CASE k \notin keys
      <4>1. new.rows[k] = db.rows[k] /\ k \notin old /\ Present(db, k)
        BY <3>0, <3>2, <2>1, <2>3 DEF Present
      <4>2. RowHasPlan(db, k) /\ PlanOf(new, k) = PlanOf(db, k)
        BY <4>1, WholeParts DEF PlanOf
      <4>. DEFINE q == PlanOf(db, k)
      <4>3. q # P
        <5>1. q[2] = k[2] /\ q[3] = db.rows[k].plan
          BY DEF PlanOf
        <5>. QED
          BY <5>1, <4>1, <2>4, <2>6
      <4>4. q[1] = "schedule_plans" /\ q \in RowNames
        BY <4>2 DEF PlanOf, RowHasPlan
      <4>. HIDE DEF q
      <4>5. new.rows[q] = db.rows[q]
        BY <4>3, <4>4, <2>1, <2>3, <2>5, <2>8
      <4>. QED
        BY <4>2, <4>5 DEF RowHasPlan, Present, q
    <3>. QED
      BY <3>1, <3>2
  <2>. QED
    BY <2>3, <2>9, <2>10, WholeParts, <1>1 DEF keys
<1>. QED
  BY <1>2, <1>3

\* What the code makes of a database is a database, and whole when that one was.
Follows(db, new) == Shaped(new) /\ (Whole(db) => Whole(new))

LEMMA UpsertFollows ==
  ASSUME NEW db, Shaped(db), NEW plan, PlanKey(plan) \in RowNames, IsPlan(plan.row, plan.scope)
  PROVE  Follows(db, UpsertPlan(db, plan).db)
<1>1. Shaped(UpsertPlan(db, plan).db)
  BY UpsertShaped
<1>. QED
  BY <1>1, UpsertKeeps DEF Follows

\* Changes of one row of another table.
Other(call) == call.table \notin {"schedule_plans", "time_blocks"}
LEMMA SetOther ==
  ASSUME NEW db, Shaped(db), NEW call, Other(call), NEW row
  PROVE  Follows(db, Set(db, Key(call), row))
<1>1. Key(call)[1] = call.table
  BY DEF Key
<1>. QED
  BY <1>1, WasSet, OthersKeep DEF Other, Follows

LEMMA EraseOther ==
  ASSUME NEW db, Shaped(db), NEW names, \A k \in names : k[1] \notin {"schedule_plans", "time_blocks"}
  PROVE  Follows(db, Erase(db, names))
BY Erased, OthersKeep DEF Follows

LEMMA Answers ==
  ASSUME NEW db
  PROVE  /\ Done(db).db = db /\ NotDone(db).db = db
         /\ Shaped(db) => Follows(db, Done(db).db) /\ Follows(db, NotDone(db).db)
BY DEF Done, NotDone, Follows

LEMMA OneRowFollows ==
  ASSUME NEW db, Shaped(db), NEW call, Other(call), NEW columns
  PROVE  /\ Follows(db, Put(db, call).db) /\ Follows(db, Find(db, call).db) /\ Follows(db, Delete(db, call).db)
         /\ Follows(db, PutKeeping(db, call, columns).db) /\ Follows(db, PutUnique(db, call).db)
         /\ Follows(db, Close(db, call).db)
<1>1. \A k \in {Key(call)} : k[1] \notin {"schedule_plans", "time_blocks"}
  BY DEF Other, Key
<1>2. Follows(db, Erase(db, {Key(call)}))
  BY <1>1, EraseOther
<1>3. Follows(db, Put(db, call).db) /\ Follows(db, Find(db, call).db) /\ Follows(db, Delete(db, call).db)
  BY <1>2, SetOther, Answers DEF Put, Find, Delete
<1>4. Follows(db, PutKeeping(db, call, columns).db) /\ Follows(db, PutUnique(db, call).db)
  BY <1>3, SetOther, Answers DEF PutKeeping, PutUnique
<1>5. Follows(db, Close(db, call).db)
  BY SetOther, Answers DEF Close
<1>. QED
  BY <1>3, <1>4, <1>5

LEMMA PlanCallsFollow ==
  ASSUME NEW db, Shaped(db), NEW call, Offered(call), call.table = "schedule_plans",
         NEW outcome \in SchedulePlans(db, call)
  PROVE  Follows(db, outcome.db)
<1>1. call.op \in {"upsert", "get", "list"}
  BY DEF Offered, Methods
<1>2. CASE call.op = "upsert"
  <2>1. outcome = UpsertPlan(db, call)
    BY <1>2 DEF SchedulePlans
  <2>2. PlanKey(call) = Key(call)
    BY DEF PlanKey, Key
  <2>. QED
    BY <2>1, <2>2, <1>2, UpsertFollows DEF Offered
<1>3. CASE call.op \in {"get", "list"}
  BY <1>3, Answers DEF SchedulePlans
<1>. QED
  BY <1>1, <1>2, <1>3

LEMMA PlanChanged ==
  ASSUME NEW row, row = [c \in DOMAIN row |-> row[c]], "blocks" \in DOMAIN row, NEW others, NEW new,
         new = [row EXCEPT !.blocks = others]
  PROVE  new.blocks = others /\ DOMAIN new = DOMAIN row /\ new = [c \in DOMAIN new |-> new[c]]
<1>1. new = [c \in DOMAIN row |-> IF c = "blocks" THEN others ELSE row[c]]
  OBVIOUS
<1>. QED
  BY <1>1

LEMMA PlanFrom ==
  ASSUME NEW row, row = [c \in DOMAIN row |-> row[c]], "blocks" \in DOMAIN row, NEW others,
         row.blocks = others, others = [b \in DOMAIN others |-> others[b]], NEW scope,
         \A b \in DOMAIN others : b = <<scope, b[2]>> /\ BlockKey(b) \in RowNames
  PROVE  IsPlan(row, scope)
BY DEF IsPlan

\* A block is changed in the plan that its row names.  When that plan was found in another
\* scope, its block of the same id would become a row that is there already.
LEMMA StoreKeeps ==
  ASSUME NEW db, Whole(db), NEW call,
         NEW b \in RowNames, b[1] = "time_blocks", Present(db, b),
         NEW p \in RowNames, p[1] = "schedule_plans", p[3] = db.rows[b].plan, Present(db, p)
  PROVE  Whole(StoreChanged(db, call, b, p).db)
<1>. DEFINE blocks == db.rows[p].blocks
            mine == <<b[2], b[3]>>
            others == Replaced(blocks, mine, call.value)
            plan == [scope |-> p[2], id |-> p[3], twice |-> FALSE, row |-> [db.rows[p] EXCEPT !.blocks = others]]
<1>1. StoreChanged(db, call, b, p) = UpsertPlan(db, plan)
  BY DEF StoreChanged
<1>2. PlanHasRows(db, p) /\ RowHasPlan(db, b) /\ Shaped(db)
  BY WholeParts
<1>3. /\ db.rows[p] = [c \in DOMAIN db.rows[p] |-> db.rows[p][c]] /\ "blocks" \in DOMAIN db.rows[p]
      /\ blocks = [c \in DOMAIN blocks |-> blocks[c]]
      /\ \A c \in DOMAIN blocks : c = <<p[2], c[2]>> /\ BlockKey(c) \in RowNames
  BY <1>2 DEF PlanHasRows, IsPlan
<1>4. /\ plan.row.blocks = others /\ DOMAIN plan.row = DOMAIN db.rows[p]
      /\ plan.row = [c \in DOMAIN plan.row |-> plan.row[c]]
      /\ plan.scope = p[2] /\ plan.id = p[3] /\ plan.twice = FALSE
  <2>1. plan.row = [db.rows[p] EXCEPT !.blocks = others]
        /\ plan.scope = p[2] /\ plan.id = p[3] /\ plan.twice = FALSE
    OBVIOUS
  <2>. HIDE DEF plan, others
  <2>. QED
    BY <2>1, <1>3, PlanChanged
<1>5. PlanKey(plan) = p
  BY <1>4, NamesAssumption DEF PlanKey
<1>6. DOMAIN others = {IF c[2] = b[3] THEN mine ELSE c : c \in DOMAIN blocks}
      /\ others = [c \in DOMAIN others |-> others[c]]
  BY DEF Replaced
<1>7. BlockKey(mine) = b
  BY NamesAssumption DEF BlockKey
<1>. HIDE DEF plan, others, mine
<1>8. CASE b[2] = p[2]
  <2>1. ASSUME NEW c \in DOMAIN others
        PROVE  c = <<p[2], c[2]>> /\ BlockKey(c) \in RowNames
    <3>1. PICK d \in DOMAIN blocks : c = IF d[2] = b[3] THEN mine ELSE d
      BY <1>6
    <3>2. CASE d[2] = b[3]
      <4>1. c = mine /\ mine = <<p[2], b[3]>>
        BY <3>1, <3>2, <1>8 DEF mine
      <4>. QED
        BY <4>1, <1>7
    <3>3. CASE d[2] # b[3]
      BY <3>1, <3>3, <1>3
    <3>. QED
      BY <3>2, <3>3
  <2>2. IsPlan(plan.row, plan.scope)
    <3>1. \A c \in DOMAIN others : c = <<plan.scope, c[2]>> /\ BlockKey(c) \in RowNames
      BY <2>1, <1>3, <1>4
    <3>2. "blocks" \in DOMAIN plan.row
      BY <1>3, <1>4
    <3>. QED
      BY <3>1, <3>2, <1>4, <1>6, PlanFrom
  <2>. QED
    BY <1>1, <1>5, <2>2, UpsertKeeps
<1>9. CASE b[2] # p[2] /\ \E c \in DOMAIN blocks : c[2] = b[3]
  <2>1. mine \in DOMAIN others
    BY <1>6, <1>9
  <2>. DEFINE rest == Erase(db, BlockRows(db, plan.scope, plan.id))
              block == [k \in {BlockKey(c) : c \in DOMAIN plan.row.blocks} |-> plan.row.blocks[<<k[2], k[3]>>]]
  <2>2. b \in DOMAIN block
    BY <2>1, <1>4, <1>7
  <2>3. b \notin BlockRows(db, plan.scope, plan.id)
    BY <1>4, <1>9 DEF BlockRows, In
  <2>4. Present(rest, b)
    BY <2>3, <1>2, Erased DEF Present
  <2>5. UpsertPlan(db, plan) = NotDone(db)
    BY <2>2, <2>4 DEF UpsertPlan
  <2>. QED
    BY <2>5, <1>1, Answers
<1>10. CASE b[2] # p[2] /\ ~(\E c \in DOMAIN blocks : c[2] = b[3])
  <2>1. DOMAIN others = DOMAIN blocks
    BY <1>6, <1>10
  <2>2. IsPlan(plan.row, plan.scope)
    <3>1. \A c \in DOMAIN others : c = <<plan.scope, c[2]>> /\ BlockKey(c) \in RowNames
      BY <2>1, <1>3, <1>4
    <3>2. "blocks" \in DOMAIN plan.row
      BY <1>3, <1>4
    <3>. QED
      BY <3>1, <3>2, <1>4, <1>6, PlanFrom
  <2>. QED
    BY <1>1, <1>5, <2>2, UpsertKeeps
<1>. QED
  BY <1>8, <1>9, <1>10

\* In a torn database a block's plan may be that of another, or any row may not be a plan.
LEMMA StoreShaped ==
  ASSUME NEW db, Shaped(db), NEW call, NEW b, NEW p
  PROVE  Shaped(StoreChanged(db, call, b, p).db)
BY UpsertShaped DEF StoreChanged

LEMMA BlockCallsFollow ==
  ASSUME NEW db, Shaped(db), NEW call, NEW outcome \in TimeBlocks(db, call)
  PROVE  Follows(db, outcome.db)
<1>. DEFINE found    == SelectScopedOrForbidden(db, call.actor, "time_blocks", call.id)
            plans(b) == SelectScopedOrForbidden(db, call.actor, "schedule_plans", db.rows[b].plan)
<1>1. \/ outcome \in {NotDone(db), Done(db)}
      \/ \E b \in found : \E p \in plans(b) : outcome = StoreChanged(db, call, b, p)
  BY DEF TimeBlocks
<1>2. CASE outcome \in {NotDone(db), Done(db)}
  BY <1>2, Answers
<1>3. CASE \E b \in found : \E p \in plans(b) : outcome = StoreChanged(db, call, b, p)
  <2>0. PICK b \in found : \E p \in plans(b) : outcome = StoreChanged(db, call, b, p)
    BY <1>3
  <2>1. PICK p \in plans(b) : outcome = StoreChanged(db, call, b, p)
    BY <2>0
  <2>2. /\ b \in RowNames /\ b[1] = "time_blocks" /\ Present(db, b)
        /\ p \in RowNames /\ p[1] = "schedule_plans" /\ p[3] = db.rows[b].plan /\ Present(db, p)
    BY DEF SelectScopedOrForbidden
  <2>. QED
    BY <2>1, <2>2, StoreKeeps, StoreShaped DEF Follows
<1>. QED
  BY <1>1, <1>2, <1>3

LEMMA OtherCallsFollow ==
  ASSUME NEW db, Shaped(db), NEW call, Offered(call), Other(call), NEW outcome \in Outcomes(db, call)
  PROVE  Follows(db, outcome.db)
<1>. USE Answers, OneRowFollows
<1>1. CASE ~CanAccess(call.actor, call.scope)
  BY <1>1 DEF Outcomes
<1>2. CASE CanAccess(call.actor, call.scope)
  <2>. USE <1>2
  <2>1. CASE call.table = "tasks"
    <3>1. outcome = Tasks(db, call) /\ call.op \in {"upsert", "get", "list", "delete"}
      BY <2>1 DEF Outcomes, Offered, Methods
    <3>. QED
      BY <3>1 DEF Tasks
  <2>2. CASE call.table = "calendar_events"
    <3>1. outcome = Tasks(db, call) /\ call.op \in {"upsert", "get", "list", "delete"}
      BY <2>2 DEF Outcomes, Offered, Methods, CalendarEvents
    <3>. QED
      BY <3>1 DEF Tasks
  <2>3. CASE call.table = "working_hours"
    <3>1. outcome = WorkingHours(db, call)
      BY <2>3 DEF Outcomes
    <3>. QED
      BY <3>1 DEF WorkingHours
  <2>4. CASE call.table = "audit_events"
    <3>1. outcome = AuditEvents(db, call)
      BY <2>4 DEF Outcomes
    <3>. QED
      BY <3>1 DEF AuditEvents
  <2>5. CASE call.table = "idempotency_keys"
    <3>1. outcome = Idempotency(db, call) /\ call.op \in {"reserve", "get", "complete"}
      BY <2>5 DEF Outcomes, Offered, Methods
    <3>. QED
      BY <3>1 DEF Idempotency
  <2>6. CASE call.table = "integration_states"
    <3>1. outcome = IntegrationStates(db, call) /\ call.op \in {"upsert", "get", "list"}
      BY <2>6 DEF Outcomes, Offered, Methods
    <3>. QED
      BY <3>1 DEF IntegrationStates
  <2>7. CASE call.table \in {"import_throttles", "request_throttles"}
    <3>1. outcome = Consume(db, call)
      BY <2>7 DEF Outcomes
    <3>. QED
      BY <3>1, SetOther DEF Consume
  <2>8. CASE call.table = "auth_users"
    <3>1. outcome = Users(db, call)
      BY <2>8 DEF Outcomes
    <3>. QED
      BY <3>1 DEF Users
  <2>9. CASE call.table = "workspace_memberships"
    <3>1. outcome = Memberships(db, call)
      BY <2>9 DEF Outcomes
    <3>. QED
      BY <3>1 DEF Memberships
  <2>10. CASE call.table = "auth_sessions"
    <3>1. outcome = Sessions(db, call) /\ call.op \in {"upsert", "revoke", "get"}
      BY <2>10 DEF Outcomes, Offered, Methods
    <3>. QED
      BY <3>1 DEF Sessions
  <2>11. CASE call.table = "auth_password_reset_tokens"
    <3>1. outcome = PasswordResetTokens(db, call) /\ call.op \in {"upsert", "use", "get"}
      BY <2>11 DEF Outcomes, Offered, Methods
    <3>. QED
      BY <3>1 DEF PasswordResetTokens
  <2>12. CASE call.table = "auth_login_attempt_windows"
    <3>1. outcome = LoginAttemptWindows(db, call) /\ call.op \in {"upsert", "clear", "get"}
      BY <2>12 DEF Outcomes, Offered, Methods
    <3>2. Follows(db, Erase(db, In(db, call.table, call.scope)))
      BY EraseOther DEF In, Other
    <3>. QED
      BY <3>1, <3>2 DEF LoginAttemptWindows
  <2>. QED
    BY <2>1, <2>2, <2>3, <2>4, <2>5, <2>6, <2>7, <2>8, <2>9, <2>10, <2>11, <2>12 DEF Offered, Methods, Other
<1>. QED
  BY <1>1, <1>2

\* Every method of every repository.
LEMMA OutcomesFollow ==
  ASSUME NEW db, Shaped(db), NEW call, Offered(call), NEW outcome \in Outcomes(db, call)
  PROVE  Follows(db, outcome.db)
<1>1. CASE call.table = "schedule_plans"
  <2>1. outcome = NotDone(db) \/ outcome \in SchedulePlans(db, call)
    BY <1>1 DEF Outcomes
  <2>. QED
    BY <2>1, <1>1, PlanCallsFollow, Answers
<1>2. CASE call.table = "time_blocks"
  <2>1. outcome = NotDone(db) \/ outcome \in TimeBlocks(db, call)
    BY <1>2 DEF Outcomes
  <2>. QED
    BY <2>1, BlockCallsFollow, Answers
<1>. QED
  BY <1>1, <1>2, OtherCallsFollow DEF Other

-----------------------------------------------------------------------------
(* Migrations, deletion and clean-up. *)

LEMMA MigrationsFollow ==
  ASSUME NEW db, Shaped(db)
  PROVE  Follows(db, ApplyMigrations(db)) /\ ApplyMigrations(db).rows = db.rows
<1>1. Shaped(ApplyMigrations(db)) /\ ApplyMigrations(db).rows = db.rows
  BY DEF Shaped, ApplyMigrations
<1>. QED
  BY <1>1, OthersKeep DEF Follows

LEMMA DeletionKeeps ==
  ASSUME NEW db, Whole(db), NEW scope
  PROVE  Whole(DeleteWorkspace(db, scope))
<1>. DEFINE names == UNION {In(db, t, scope) : t \in WorkspaceTables}
<1>1. ASSUME NEW k \in RowNames, k[1] = "time_blocks", Present(db, k)
      PROVE  k \in names <=> PlanOf(db, k) \in names
  <2>1. RowHasPlan(db, k)
    BY <1>1, WholeParts
  <2>2. PlanOf(db, k)[1] = "schedule_plans" /\ PlanOf(db, k)[2] = k[2]
    BY DEF PlanOf
  <2>3. k \in names <=> k[2] = scope
    BY <1>1 DEF In, WorkspaceTables
  <2>4. PlanOf(db, k) \in names <=> k[2] = scope
    BY <2>1, <2>2 DEF In, WorkspaceTables, RowHasPlan
  <2>. QED
    BY <2>3, <2>4
<1>2. DeleteWorkspace(db, scope) = Erase(db, names)
  BY DEF DeleteWorkspace
<1>. HIDE DEF names
<1>. QED
  BY <1>1, <1>2, EraseKeeps

LEMMA CleanupKeeps ==
  ASSUME NEW db, Whole(db), NEW scope, NEW asOf
  PROVE  Whole(CleanupRetention(db, scope, asOf))
<1>. DEFINE plans == Expired(db, "schedule_plans", scope, asOf)
            names == plans \cup UNION {BlockRows(db, scope, k[3]) : k \in plans}
            less  == Erase(db, names)
<1>1. \A p \in plans : p \in RowNames /\ p[1] = "schedule_plans" /\ p[2] = scope
  BY DEF Expired, In
<1>2. ASSUME NEW k \in RowNames, k[1] = "time_blocks", Present(db, k)
      PROVE  k \in names <=> PlanOf(db, k) \in names
  <2>1. RowHasPlan(db, k)
    BY <1>2, WholeParts
  <2>2. /\ PlanOf(db, k)[1] = "schedule_plans" /\ PlanOf(db, k)[2] = k[2]
        /\ PlanOf(db, k)[3] = db.rows[k].plan
    BY DEF PlanOf
  <2>3. PlanOf(db, k) \in names => PlanOf(db, k) \in plans
    BY <2>2 DEF BlockRows, In
  <2>4. PlanOf(db, k) \in plans => k[2] = scope /\ k \in BlockRows(db, scope, PlanOf(db, k)[3])
    BY <1>1, <1>2, <2>2 DEF BlockRows, In
  <2>5. k \in names => PlanOf(db, k) \in plans
    <3>1. ASSUME k \in names
          PROVE  PlanOf(db, k) \in plans
      <4>1. k \notin plans
        BY <1>1, <1>2
      <4>2. PICK p \in plans : k \in BlockRows(db, scope, p[3])
        BY <3>1, <4>1
      <4>3. k[2] = scope /\ db.rows[k].plan = p[3]
        BY <4>2 DEF BlockRows, In
      <4>4. p = <<"schedule_plans", scope, p[3]>>
        BY <1>1, NamesAssumption
      <4>. QED
        BY <4>3, <4>4 DEF PlanOf
    <3>. QED
      BY <3>1
  <2>. QED
    BY <2>3, <2>4, <2>5
<1>3. DeleteExpiredSchedulePlans(db, scope, asOf) = less
  BY DEF DeleteExpiredSchedulePlans
<1>. HIDE DEF names
<1>4. Whole(less) /\ Shaped(db) /\ \A k \in RowNames : less.rows[k] = IF k \in names THEN Absent ELSE db.rows[k]
  BY <1>2, EraseKeeps, Erased, WholeParts
<1>. HIDE DEF less, plans
<1>5. ASSUME NEW k \in Eligible(db, scope, asOf)
      PROVE  k[1] # "time_blocks" /\ (k[1] = "schedule_plans" => k \in plans /\ k \in RowNames)
  <2>1. PICK t \in DOMAIN RetentionDays : k \in Expired(db, t, scope, asOf)
    BY DEF Eligible
  <2>2. t # "time_blocks" /\ k[1] = t
    BY <2>1 DEF RetentionDays, Expired, In
  <2>3. t = "schedule_plans" => k \in plans /\ k \in RowNames
    BY <2>1, <1>1 DEF plans
  <2>. QED
    BY <2>2, <2>3
<1>6. ASSUME NEW k \in RowNames, k[1] = "time_blocks", Present(less, k)
      PROVE  k \in Eligible(db, scope, asOf) <=> PlanOf(less, k) \in Eligible(db, scope, asOf)
  <2>1. k \notin Eligible(db, scope, asOf)
    BY <1>5, <1>6
  <2>2. RowHasPlan(less, k)
    BY <1>4, <1>6, WholeParts
  <2>3. PlanOf(less, k)[1] = "schedule_plans"
    BY DEF PlanOf
  <2>4. PlanOf(less, k) \notin plans
    BY <2>2, <1>4 DEF names, RowHasPlan, Present
  <2>. QED
    BY <2>1, <2>3, <2>4, <1>5
<1>. QED
  BY <1>3, <1>4, <1>6, EraseKeeps DEF CleanupRetention

LEMMA DeletionFollows ==
  ASSUME NEW db, Shaped(db), NEW scope
  PROVE  Follows(db, DeleteWorkspace(db, scope))
<1>1. Shaped(DeleteWorkspace(db, scope))
  BY Erased DEF DeleteWorkspace
<1>. QED
  BY <1>1, DeletionKeeps DEF Follows

LEMMA CleanupFollows ==
  ASSUME NEW db, Shaped(db), NEW scope, NEW asOf
  PROVE  Follows(db, CleanupRetention(db, scope, asOf))
<1>1. Shaped(CleanupRetention(db, scope, asOf))
  BY Erased DEF CleanupRetention, DeleteExpiredSchedulePlans
<1>. QED
  BY <1>1, CleanupKeeps DEF Follows

LEMMA EmptyIsWhole == Whole([versions |-> {}, rows |-> [k \in RowNames |-> Absent]])
BY DEF Whole, Shaped, Present

-----------------------------------------------------------------------------
(* Files. *)

FileAt(f, path) == IF path \in Paths THEN f[path] ELSE NoFile
FilesFit(f)     == f = [p \in Paths |-> f[p]] /\ \A p \in Paths : Sound(f[p])

LEMMA Kinds ==
  ASSUME NEW db, NEW p, NEW file, NEW rows
  PROVE  /\ NoFile.kind = "none" /\ Damaged.kind = "damaged" /\ Export(rows).kind = "export"
         /\ Database(db).kind = "database" /\ Database(db).db = db
         /\ Torn(db).kind = "torn" /\ Torn(db).db = db
         /\ Sealed(p, file).kind = "sealed" /\ Sealed(p, file).content = file
BY DEF NoFile, Damaged, Export, Database, Torn, Sealed

LEMMA SoundFiles ==
  ASSUME NEW db, NEW rows
  PROVE  /\ Sound(NoFile) /\ Sound(Damaged) /\ Sound(Export(rows))
         /\ Whole(db) => Sound(Database(db))
         /\ Shaped(db) => Sound(Torn(db))
BY Kinds DEF Sound, Readable

LEMMA SealedIsSound ==
  ASSUME NEW p, NEW file, Sound(file), file.kind # "sealed"
  PROVE  Sound(Sealed(p, file))
<1>. DEFINE sealed == Sealed(p, file)
<1>1. sealed.kind = "sealed" /\ sealed.content = file
  BY Kinds
<1>. HIDE DEF sealed
<1>2. Readable(sealed)
  BY <1>1 DEF Readable
<1>3. Readable(file)
  BY DEF Sound
<1>4. sealed.content.kind # "sealed" /\ Readable(sealed.content)
  BY Zenon, <1>1, <1>3
<1>5. Sound(sealed)
  BY Zenon, <1>2, <1>4 DEF Sound
<1>. QED
  BY <1>5 DEF sealed

LEMMA FileAtSound ==
  ASSUME NEW f, FilesFit(f), NEW path
  PROVE  Sound(FileAt(f, path))
BY SoundFiles DEF FileAt, FilesFit

\* One file is replaced.
Replaces(f, g, path, file) ==
    \A q : FileAt(g, q) = IF q = path /\ path \in Paths THEN file ELSE FileAt(f, q)
LEMMA Rewritten ==
  ASSUME NEW f, FilesFit(f), NEW path, NEW file, Sound(file), NEW g, g = [f EXCEPT ![path] = file]
  PROVE  FilesFit(g) /\ Replaces(f, g, path, file)
BY DEF FilesFit, FileAt, Replaces

LEMMA OpenedFits ==
  ASSUME NEW file, Sound(file), Opens(file)
  PROVE  Shaped(Opened(file)) /\ (file.kind # "torn" => Whole(Opened(file)))
<1>1. CASE file.kind = "none"
  BY <1>1, EmptyIsWhole, WholeParts DEF Opened
<1>2. CASE file.kind \in {"database", "torn"}
  BY <1>2, WholeParts DEF Opened, Sound, Readable
<1>. QED
  BY <1>1, <1>2 DEF Opens, IsDatabase

LEMMA ChangedFits ==
  ASSUME NEW file, NEW db, Shaped(db), file.kind # "torn" => Whole(db)
  PROVE  Sound(Changed(file, db)) /\ IsDatabase(Changed(file, db)) /\ Changed(file, db).db = db
BY SoundFiles, Kinds DEF Changed, IsDatabase

-----------------------------------------------------------------------------
(* Commands. *)

Steps == {"checkpoint", "copy", "seal", "remove", "look", "fill", "migrate", "export",
          "write", "delete", "count", "clean", "load", "connect", "run", "end"}
Encrypts(c) == "--encrypt-key-env" \in DOMAIN c.parsed.values

\* Where a step may stand: what is before it, unless that is done, and what must follow.
After(c, i, s)  == i > 1 => c.todo[i - 1] = s
Before(c, i, s) == i + 1 \in 1 .. Len(c.todo) /\ c.todo[i + 1] = s
StepFits(c, i) ==
    /\ c.todo[i] \in {"checkpoint", "copy", "seal", "remove"} => c.name = "sqlite:backup"
    /\ c.todo[i] \in {"seal", "remove"} => Encrypts(c)
    /\ c.todo[i] \in {"look", "fill"} => c.name = "sqlite:restore"
    /\ c.todo[i] \in {"migrate", "delete", "clean"} =>
          c.name \in {"sqlite:restore", "sqlite:export", "sqlite:delete-workspace", "retention:sqlite-cleanup"}
    /\ c.todo[i] = "delete" => c.name = "sqlite:delete-workspace"
    /\ c.todo[i] = "clean"  => c.name = "retention:sqlite-cleanup" /\ "--apply" \in c.parsed.flags
    /\ c.todo[i] = "write"  => c.name = "sqlite:export" /\ "--output" \in DOMAIN c.parsed.values
    /\ c.todo[i] = "fill"   => After(c, i, "look")
    /\ c.todo[i] = "copy"    => After(c, i, "checkpoint") /\ (Encrypts(c) => Before(c, i, "seal"))
    /\ c.todo[i] = "seal"    => After(c, i, "copy") /\ Before(c, i, "remove")
    /\ c.todo[i] = "connect" => Before(c, i, "run")
    /\ c.todo[i] = "run"     => After(c, i, "connect") /\ Before(c, i, "end")
    /\ c.todo[i] = "end"     => After(c, i, "run")
Fits(c) == c.todo \in Seq(Steps) /\ \A i \in 1 .. Len(c.todo) : StepFits(c, i)

LEMMA ProgramFits ==
  ASSUME NEW c, c.todo = Program(c.name, c.parsed)
  PROVE  Fits(c)
<1>1. CASE c.name = "sqlite:backup"
  <2>1. CASE Encrypts(c)
    <3>0. c.todo = <<"checkpoint", "copy", "seal", "remove">>
      BY <1>1, <2>1 DEF Program, Encrypts
    <3>1. c.todo \in Seq(Steps)
      BY <3>0 DEF Steps
    <3>2. /\ Len(c.todo) = 4 /\ c.todo[1] = "checkpoint" /\ c.todo[2] = "copy"
          /\ c.todo[3] = "seal" /\ c.todo[4] = "remove"
      BY <3>0
    <3>3. StepFits(c, 1) /\ StepFits(c, 2) /\ StepFits(c, 3) /\ StepFits(c, 4)
      BY <3>2, <1>1, <2>1 DEF StepFits, After, Before
    <3>4. \A i \in 1 .. 4 : StepFits(c, i)
      BY <3>3
    <3>. QED
      BY <3>1, <3>2, <3>4 DEF Fits
  <2>2. CASE ~Encrypts(c)
    <3>0. c.todo = <<"checkpoint", "copy">>
      BY <1>1, <2>2 DEF Program, Encrypts
    <3>1. c.todo \in Seq(Steps)
      BY <3>0 DEF Steps
    <3>2. Len(c.todo) = 2 /\ c.todo[1] = "checkpoint" /\ c.todo[2] = "copy"
      BY <3>0
    <3>3. StepFits(c, 1) /\ StepFits(c, 2)
      BY <3>2, <1>1, <2>2 DEF StepFits, After, Before
    <3>4. \A i \in 1 .. 2 : StepFits(c, i)
      BY <3>3
    <3>. QED
      BY <3>1, <3>2, <3>4 DEF Fits
  <2>. QED
    BY <2>1, <2>2
<1>2. CASE c.name = "sqlite:restore"
  <2>0. c.todo = <<"look", "fill", "migrate", "export">>
    BY <1>2 DEF Program
  <2>1. c.todo \in Seq(Steps)
    BY <2>0 DEF Steps
  <2>2. /\ Len(c.todo) = 4 /\ c.todo[1] = "look" /\ c.todo[2] = "fill"
        /\ c.todo[3] = "migrate" /\ c.todo[4] = "export"
    BY <2>0
  <2>3. StepFits(c, 1) /\ StepFits(c, 2) /\ StepFits(c, 3) /\ StepFits(c, 4)
    BY <2>2, <1>2 DEF StepFits, After, Before
  <2>4. \A i \in 1 .. 4 : StepFits(c, i)
    BY <2>3
  <2>. QED
    BY <2>1, <2>2, <2>4 DEF Fits
<1>3. CASE c.name = "sqlite:export"
  <2>0. \/ c.todo = <<"migrate", "export", "write">> /\ "--output" \in DOMAIN c.parsed.values
        \/ c.todo = <<"migrate", "export">>
    BY <1>3 DEF Program
  <2>1. CASE c.todo = <<"migrate", "export", "write">> /\ "--output" \in DOMAIN c.parsed.values
    <3>1. c.todo \in Seq(Steps)
      BY <2>1 DEF Steps
    <3>2. Len(c.todo) = 3 /\ c.todo[1] = "migrate" /\ c.todo[2] = "export" /\ c.todo[3] = "write"
      BY <2>1
    <3>3. StepFits(c, 1) /\ StepFits(c, 2) /\ StepFits(c, 3)
      BY <3>2, <1>3, <2>1 DEF StepFits, After, Before
    <3>4. \A i \in 1 .. 3 : StepFits(c, i)
      BY <3>3
    <3>. QED
      BY <3>1, <3>2, <3>4 DEF Fits
  <2>2. CASE c.todo = <<"migrate", "export">>
    <3>1. c.todo \in Seq(Steps)
      BY <2>2 DEF Steps
    <3>2. Len(c.todo) = 2 /\ c.todo[1] = "migrate" /\ c.todo[2] = "export"
      BY <2>2
    <3>3. StepFits(c, 1) /\ StepFits(c, 2)
      BY <3>2, <1>3 DEF StepFits, After, Before
    <3>4. \A i \in 1 .. 2 : StepFits(c, i)
      BY <3>3
    <3>. QED
      BY <3>1, <3>2, <3>4 DEF Fits
  <2>. QED
    BY <2>0, <2>1, <2>2
<1>4. CASE c.name = "sqlite:delete-workspace"
  <2>0. c.todo = <<"migrate", "delete">>
    BY <1>4 DEF Program
  <2>1. c.todo \in Seq(Steps)
    BY <2>0 DEF Steps
  <2>2. Len(c.todo) = 2 /\ c.todo[1] = "migrate" /\ c.todo[2] = "delete"
    BY <2>0
  <2>3. StepFits(c, 1) /\ StepFits(c, 2)
    BY <2>2, <1>4 DEF StepFits, After, Before
  <2>4. \A i \in 1 .. 2 : StepFits(c, i)
    BY <2>3
  <2>. QED
    BY <2>1, <2>2, <2>4 DEF Fits
<1>5. CASE c.name = "retention:sqlite-cleanup"
  <2>0. \/ c.todo = <<"migrate", "count", "clean">> /\ "--apply" \in c.parsed.flags
        \/ c.todo = <<"migrate", "count">>
    BY <1>5 DEF Program
  <2>1. CASE c.todo = <<"migrate", "count", "clean">> /\ "--apply" \in c.parsed.flags
    <3>1. c.todo \in Seq(Steps)
      BY <2>1 DEF Steps
    <3>2. Len(c.todo) = 3 /\ c.todo[1] = "migrate" /\ c.todo[2] = "count" /\ c.todo[3] = "clean"
      BY <2>1
    <3>3. StepFits(c, 1) /\ StepFits(c, 2) /\ StepFits(c, 3)
      BY <3>2, <1>5, <2>1 DEF StepFits, After, Before
    <3>4. \A i \in 1 .. 3 : StepFits(c, i)
      BY <3>3
    <3>. QED
      BY <3>1, <3>2, <3>4 DEF Fits
  <2>2. CASE c.todo = <<"migrate", "count">>
    <3>1. c.todo \in Seq(Steps)
      BY <2>2 DEF Steps
    <3>2. Len(c.todo) = 2 /\ c.todo[1] = "migrate" /\ c.todo[2] = "count"
      BY <2>2
    <3>3. StepFits(c, 1) /\ StepFits(c, 2)
      BY <3>2, <1>5 DEF StepFits, After, Before
    <3>4. \A i \in 1 .. 2 : StepFits(c, i)
      BY <3>3
    <3>. QED
      BY <3>1, <3>2, <3>4 DEF Fits
  <2>. QED
    BY <2>0, <2>1, <2>2
<1>6. CASE c.name = "retention:postgres-cleanup"
  <2>0. c.todo = <<"connect", "run", "end">>
    BY <1>6 DEF Program
  <2>1. c.todo \in Seq(Steps)
    BY <2>0 DEF Steps
  <2>2. Len(c.todo) = 3 /\ c.todo[1] = "connect" /\ c.todo[2] = "run" /\ c.todo[3] = "end"
    BY <2>0
  <2>3. StepFits(c, 1) /\ StepFits(c, 2) /\ StepFits(c, 3)
    BY <2>2 DEF StepFits, After, Before
  <2>4. \A i \in 1 .. 3 : StepFits(c, i)
    BY <2>3
  <2>. QED
    BY <2>1, <2>2, <2>4 DEF Fits
<1>7. CASE c.name = "postgres:migrate"
  <2>0. c.todo = <<"load">> \/ c.todo = <<"load", "connect", "run", "end">>
    BY <1>7 DEF Program
  <2>1. CASE c.todo = <<"load">>
    <3>1. c.todo \in Seq(Steps)
      BY <2>1 DEF Steps
    <3>2. Len(c.todo) = 1 /\ c.todo[1] = "load"
      BY <2>1
    <3>3. StepFits(c, 1)
      BY <3>2 DEF StepFits, After, Before
    <3>4. \A i \in 1 .. 1 : StepFits(c, i)
      BY <3>3
    <3>. QED
      BY <3>1, <3>2, <3>4 DEF Fits
  <2>2. CASE c.todo = <<"load", "connect", "run", "end">>
    <3>1. c.todo \in Seq(Steps)
      BY <2>2 DEF Steps
    <3>2. /\ Len(c.todo) = 4 /\ c.todo[1] = "load" /\ c.todo[2] = "connect"
          /\ c.todo[3] = "run" /\ c.todo[4] = "end"
      BY <2>2
    <3>3. StepFits(c, 1) /\ StepFits(c, 2) /\ StepFits(c, 3) /\ StepFits(c, 4)
      BY <3>2 DEF StepFits, After, Before
    <3>4. \A i \in 1 .. 4 : StepFits(c, i)
      BY <3>3
    <3>. QED
      BY <3>1, <3>2, <3>4 DEF Fits
  <2>. QED
    BY <2>0, <2>1, <2>2
<1>8. CASE c.name \notin {"sqlite:backup", "sqlite:restore", "sqlite:export", "sqlite:delete-workspace",
                          "retention:sqlite-cleanup", "retention:postgres-cleanup", "postgres:migrate"}
  <2>1. c.todo = << >>
    BY <1>8 DEF Program
  <2>. QED
    BY <2>1 DEF Fits
<1>. QED
  BY <1>1, <1>2, <1>3, <1>4, <1>5, <1>6, <1>7, <1>8

\* A command record, and what is left of its steps after the first.
Built(c) == c = [name |-> c.name, parsed |-> c.parsed, todo |-> c.todo, failed |-> c.failed]

LEMMA TailFits ==
  ASSUME NEW c, Fits(c), c.todo # << >>, NEW d, d.todo = Tail(c.todo), d.name = c.name, d.parsed = c.parsed
  PROVE  Fits(d)
<1>1. /\ c.todo \in Seq(Steps) /\ Len(c.todo) \in Nat \ {0} /\ d.todo \in Seq(Steps)
      /\ Len(d.todo) = Len(c.todo) - 1 /\ \A i \in 1 .. Len(d.todo) : d.todo[i] = c.todo[i + 1]
  <2>1. c.todo \in Seq(Steps) /\ Len(c.todo) \in Nat \ {0}
    BY EmptySeq, LenProperties DEF Fits
  <2>. QED
    BY <2>1, HeadTailProperties
<1>2. ASSUME NEW i \in 1 .. Len(d.todo)
      PROVE  StepFits(d, i)
  <2>1. i + 1 \in 1 .. Len(c.todo) /\ d.todo[i] = c.todo[i + 1] /\ StepFits(c, i + 1)
    BY <1>1 DEF Fits
  <2>2. i > 1 => i - 1 \in 1 .. Len(d.todo) /\ d.todo[i - 1] = c.todo[i] /\ (i + 1) - 1 = i /\ i + 1 > 1
    BY <1>1
  <2>3. (i + 1) + 1 \in 1 .. Len(c.todo)
           => i + 1 \in 1 .. Len(d.todo) /\ d.todo[i + 1] = c.todo[(i + 1) + 1]
    BY <1>1
  <2>4. Encrypts(d) <=> Encrypts(c)
    BY DEF Encrypts
  <2>. QED
    BY <2>1, <2>2, <2>3, <2>4 DEF StepFits, After, Before
<1>. QED
  BY <1>1, <1>2 DEF Fits

LEMMA FinallyFits ==
  ASSUME NEW c, NEW step, c.todo = Finally(step, c.parsed),
         step \in {"copy", "seal"} => c.name = "sqlite:backup"
  PROVE  Fits(c)
<1>1. \/ c.todo = << >>
      \/ c.todo = <<"end">>
      \/ c.todo = <<"remove">> /\ Encrypts(c) /\ c.name = "sqlite:backup"
  BY DEF Finally, Encrypts
<1>2. CASE c.todo = << >>
  BY <1>2 DEF Fits
<1>3. CASE c.todo = <<"end">>
  <2>1. c.todo \in Seq(Steps)
    BY <1>3 DEF Steps
  <2>2. Len(c.todo) = 1 /\ c.todo[1] = "end"
    BY <1>3
  <2>3. StepFits(c, 1)
    BY <2>2 DEF StepFits, After, Before
  <2>4. \A i \in 1 .. 1 : StepFits(c, i)
    BY <2>3
  <2>. QED
    BY <2>1, <2>2, <2>4 DEF Fits
<1>4. CASE c.todo = <<"remove">> /\ Encrypts(c) /\ c.name = "sqlite:backup"
  <2>1. c.todo \in Seq(Steps)
    BY <1>4 DEF Steps
  <2>2. Len(c.todo) = 1 /\ c.todo[1] = "remove"
    BY <1>4
  <2>3. StepFits(c, 1)
    BY <2>2, <1>4 DEF StepFits, After, Before
  <2>4. \A i \in 1 .. 1 : StepFits(c, i)
    BY <2>3
  <2>. QED
    BY <2>1, <2>2, <2>4 DEF Fits
<1>. QED
  BY <1>1, <1>2, <1>3, <1>4

LEMMA ProgramStarts ==
  ASSUME NEW name, NEW parsed, Program(name, parsed) # << >>
  PROVE  Program(name, parsed)[1] \in {"checkpoint", "look", "migrate", "connect", "load"}
<1>1. CASE name = "sqlite:backup"
  BY <1>1 DEF Program
<1>2. CASE name \in {"sqlite:restore", "sqlite:export", "sqlite:delete-workspace"}
  BY <1>2 DEF Program
<1>3. CASE name \in {"retention:sqlite-cleanup", "retention:postgres-cleanup", "postgres:migrate"}
  BY <1>3 DEF Program
<1>4. CASE name \notin {"sqlite:backup", "sqlite:restore", "sqlite:export", "sqlite:delete-workspace",
                        "retention:sqlite-cleanup", "retention:postgres-cleanup", "postgres:migrate"}
  BY <1>4 DEF Program
<1>. QED
  BY <1>1, <1>2, <1>3, <1>4

-----------------------------------------------------------------------------
(* The invariant: every file is sound, a backup that is under way copies and *)
(* seals a database, or what is left of one, and what the application had    *)
(* beside a copy are databases.                                              *)

SourceOf(c) == Source(c.parsed.values)
Plain(c)    == Aside(c.parsed.values["--backup"])
CopyFits(f, c) ==
    /\ c.todo[1] = "copy" => FileAt(f, SourceOf(c)).kind # "sealed"
    /\ c.todo[1] = "seal" => FileAt(f, Plain(c)).kind # "sealed"
CommandFits(f, c) == Built(c) /\ c.todo # << >> /\ Fits(c) /\ CopyFits(f, c)
BesideFits == \A f \in beside : IsDatabase(f) /\ Sound(f)
ConsoleInv == FilesFit(files) /\ (command # Idle => CommandFits(files, command)) /\ BesideFits

LEMMA AtIsFileAt == \A path : At(path) = FileAt(files, path)
BY DEF At, FileAt

LEMMA First ==
  ASSUME NEW c, Fits(c), c.todo # << >>
  PROVE  /\ c.todo[1] \in Steps /\ StepFits(c, 1) /\ Head(c.todo) = c.todo[1]
         /\ Len(c.todo) \in Nat \ {0}
<1>1. c.todo \in Seq(Steps) /\ Len(c.todo) \in Nat \ {0}
  BY EmptySeq, LenProperties DEF Fits
<1>2. 1 \in 1 .. Len(c.todo)
  BY <1>1
<1>. QED
  BY <1>1, <1>2, HeadTailProperties DEF Fits

LEMMA WrittenFits ==
  ASSUME FilesFit(files), NEW path, NEW file, Sound(file)
  PROVE  FilesFit(Written(path, file))
BY Rewritten DEF Written

\* The file that a step opens as a database.
LEMMA StoredFits ==
  ASSUME FilesFit(files), NEW path, Opens(At(path)), NEW db, Follows(Opened(At(path)), db)
  PROVE  FilesFit(Stored(path, db)) /\ Sound(Changed(At(path), db))
<1>1. Shaped(db) /\ (At(path).kind # "torn" => Whole(db))
  BY OpenedFits, FileAtSound, AtIsFileAt DEF Follows
<1>2. Sound(Changed(At(path), db))
  BY <1>1, ChangedFits
<1>. QED
  BY <1>2, WrittenFits DEF Stored

\* What becomes of a copy, also beside a writer.
LEMMA MixturesShaped ==
  ASSUME NEW content, Shaped(content.db), NEW db \in Mixtures(content)
  PROVE  Shaped(db)
BY DEF Mixtures, Shaped

LEMMA CopyIsSound ==
  ASSUME BesideFits, NEW content, Sound(content), NEW c, NEW file \in Copies(c, content)
  PROVE  Sound(file) /\ (content.kind # "sealed" => file.kind # "sealed")
<1>1. CASE file \in {content, Damaged}
  BY <1>1, SoundFiles, Kinds
<1>2. CASE file \in beside
  BY <1>2 DEF BesideFits, IsDatabase
<1>3. CASE IsDatabase(content) /\ \E db \in Mixtures(content) : file = Torn(db)
  <2>1. PICK db \in Mixtures(content) : file = Torn(db)
    BY <1>3
  <2>2. Shaped(content.db)
    BY <1>3, WholeParts DEF IsDatabase, Sound, Readable
  <2>. QED
    BY <2>1, <2>2, MixturesShaped, SoundFiles, Kinds
<1>. QED
  BY <1>1, <1>2, <1>3 DEF Copies, Sources

LEMMA OutcomeFits ==
  ASSUME FilesFit(files), BesideFits, CommandFits(files, command),
         NEW f \in Outcome(command, command.todo[1])
  PROVE  FilesFit(f)
<1>. DEFINE step == command.todo[1]
            v == command.parsed.values
            path == OpenedBy(command)
            opened == At(path)
<1>0. step \in Steps /\ StepFits(command, 1) /\ CopyFits(files, command)
  BY First DEF CommandFits
<1>1. Opens(opened) => Shaped(Opened(opened)) /\ Follows(Opened(opened), Opened(opened))
  BY OpenedFits, FileAtSound, AtIsFileAt DEF Follows
<1>. HIDE DEF step
<1>2. CASE step = "checkpoint"
  <2>1. f = Stored(path, Opened(opened)) /\ Opens(opened)
    BY <1>2 DEF Outcome, step
  <2>. QED
    BY <2>1, <1>1, StoredFits
<1>3. CASE step = "copy"
  <2>1. PICK file \in Copies(command, At(Source(v))) : f = Written(Target(command), file)
    BY <1>3 DEF Outcome, step
  <2>2. Sound(file)
    BY CopyIsSound, FileAtSound, AtIsFileAt
  <2>. QED
    BY <2>1, <2>2, WrittenFits
<1>5. CASE step = "seal"
  <2>1. PICK p : f = Written(v["--backup"], Sealed(p, At(Aside(v["--backup"]))))
    BY <1>5 DEF Outcome, step
  <2>2. At(Aside(v["--backup"])).kind # "sealed" /\ Sound(At(Aside(v["--backup"])))
    BY <1>0, <1>5, AtIsFileAt, FileAtSound DEF CopyFits, Plain, step
  <2>3. Sound(Sealed(p, At(Aside(v["--backup"]))))
    BY <2>2, SealedIsSound
  <2>. QED
    BY <2>1, <2>3, WrittenFits
<1>6. CASE step = "remove"
  <2>1. f = Written(Aside(v["--backup"]), NoFile)
    BY <1>6 DEF Outcome, step
  <2>. QED
    BY <2>1, WrittenFits, SoundFiles
<1>7. CASE step = "look"
  BY <1>7 DEF Outcome, step
<1>8. CASE step = "fill"
  <2>1. PICK content \in Fillings(v) : \E file \in Copies(command, content) : f = Written(Target(command), file)
    BY <1>8 DEF Outcome, step
  <2>2. PICK file \in Copies(command, content) : f = Written(Target(command), file)
    BY <2>1
  <2>3. Sound(At(v["--backup"]))
    BY FileAtSound, AtIsFileAt
  <2>4. Sound(content)
    BY <2>3 DEF Fillings, Unsealed, Sound
  <2>. QED
    BY <2>2, <2>4, CopyIsSound, WrittenFits
<1>9. CASE step = "migrate"
  <2>1. f = Stored(path, ApplyMigrations(Opened(opened))) /\ Opens(opened)
    BY <1>9 DEF Outcome, step
  <2>. QED
    BY <2>1, <1>1, StoredFits, MigrationsFollow
<1>10. CASE step = "write"
  <2>1. f = Written(Target(command), Export(Exported(opened.db, ScopeOf(v))))
    BY <1>10 DEF Outcome, step
  <2>. QED
    BY <2>1, WrittenFits, SoundFiles
<1>11. CASE step = "delete"
  <2>1. f = Stored(path, DeleteWorkspace(Opened(opened), ScopeOf(v))) /\ Opens(opened)
    BY <1>11 DEF Outcome, step
  <2>. QED
    BY <2>1, <1>1, StoredFits, DeletionFollows
<1>12. CASE step = "clean"
  <2>1. f = Stored(path, CleanupRetention(Opened(opened), ScopeOf(v), AsOf(v))) /\ Opens(opened)
    BY <1>12 DEF Outcome, step
  <2>. QED
    BY <2>1, <1>1, StoredFits, CleanupFollows
<1>13. CASE step = "connect"
  BY <1>13 DEF Outcome, step
<1>14. CASE step \in {"export", "count", "load", "run", "end"}
  BY <1>14 DEF Outcome, step
<1>. QED
  BY <1>0, <1>2, <1>3, <1>5, <1>6, <1>7, <1>8, <1>9, <1>10, <1>11, <1>12, <1>13, <1>14 DEF Steps

LEMMA BrokenFits ==
  ASSUME FilesFit(files), NEW step, NEW f \in Broken(command, step)
  PROVE  FilesFit(f)
<1>1. f = files \/ \E path : f = Written(path, Damaged)
  BY DEF Broken
<1>. QED
  BY <1>1, WrittenFits, SoundFiles

\* What the next step of a backup finds.
LEMMA CopiesAreOpen ==
  ASSUME FilesFit(files), BesideFits, CommandFits(files, command), NEW f \in Outcome(command, command.todo[1])
  PROVE  /\ command.todo[1] = "checkpoint" => FileAt(f, SourceOf(command)).kind # "sealed"
         /\ command.todo[1] = "copy" /\ Encrypts(command) => FileAt(f, Plain(command)).kind # "sealed"
<1>. DEFINE v == command.parsed.values
            opened == At(OpenedBy(command))
<1>0. StepFits(command, 1) /\ CopyFits(files, command)
  BY First DEF CommandFits
<1>1. ASSUME command.todo[1] = "checkpoint"
      PROVE  FileAt(f, SourceOf(command)).kind # "sealed"
  <2>1. OpenedBy(command) = SourceOf(command)
    BY <1>0, <1>1 DEF StepFits, OpenedBy, SourceOf
  <2>. DEFINE file == Changed(opened, Opened(opened))
  <2>2. f = Written(SourceOf(command), file) /\ Opens(opened)
    BY <1>1, <2>1 DEF Outcome, Stored
  <2>3. Sound(file) /\ IsDatabase(file)
    BY <2>2, OpenedFits, ChangedFits, FileAtSound, AtIsFileAt
  <2>. HIDE DEF file
  <2>4. FileAt(f, SourceOf(command)) \in {file, NoFile}
    <3>1. Replaces(files, f, SourceOf(command), file)
      BY <2>2, <2>3, Rewritten DEF Written
    <3>. QED
      BY <3>1 DEF Replaces, FileAt
  <2>. QED
    BY <2>3, <2>4, Kinds DEF IsDatabase
<1>2. ASSUME command.todo[1] = "copy", Encrypts(command)
      PROVE  FileAt(f, Plain(command)).kind # "sealed"
  <2>1. PICK file \in Copies(command, At(Source(v))) : f = Written(Target(command), file)
    BY <1>2 DEF Outcome
  <2>2. Target(command) = Plain(command)
    BY <1>0, <1>2 DEF StepFits, Target, Plain, Encrypts
  <2>3. Sound(file) /\ file.kind # "sealed"
    BY <1>0, <1>2, CopyIsSound, FileAtSound, AtIsFileAt DEF CopyFits, SourceOf
  <2>4. FileAt(f, Plain(command)) \in {file, NoFile}
    <3>1. f = [files EXCEPT ![Plain(command)] = file]
      BY <2>1, <2>2 DEF Written
    <3>2. Replaces(files, f, Plain(command), file)
      BY <3>1, <2>3, Rewritten
    <3>. QED
      BY <3>2 DEF Replaces, FileAt
  <2>. QED
    BY <2>3, <2>4, Kinds
<1>. QED
  BY <1>1, <1>2

LEMMA Continued ==
  ASSUME Built(command), NEW todo, NEW failed, Continue(todo, failed)
  PROVE  /\ todo = << >> => command' = Idle
         /\ todo # << >> =>
              /\ command' # Idle /\ Built(command') /\ command'.todo = todo
              /\ command'.name = command.name /\ command'.parsed = command.parsed
<1>1. CASE todo = << >>
  BY <1>1 DEF Continue
<1>2. CASE todo # << >>
  <2>1. command' = [name |-> command.name, parsed |-> command.parsed, todo |-> todo, failed |-> failed]
    BY <1>2 DEF Continue, Built
  <2>2. Idle.todo = << >>
    BY DEF Idle
  <2>3. command'.todo = todo /\ command'.name = command.name /\ command'.parsed = command.parsed
        /\ Built(command')
    BY <2>1 DEF Built
  <2>. QED
    BY <2>2, <2>3, <1>2
<1>. QED
  BY <1>1, <1>2

\* A command that begins.
LEMMA Begun ==
  ASSUME Type
  PROVE  /\ UNCHANGED <<files, client, beside>>
         /\ \/ command' = Idle
            \/ /\ Built(command') /\ Fits(command') /\ command' # Idle /\ command'.todo # << >>
               /\ command'.todo[1] \in {"checkpoint", "look", "migrate", "connect", "load"}
               /\ \E line \in FirstLines \cup Lines \cup result.commands : command'.parsed = Parse(line)
<1>1. UNCHANGED <<files, client, beside>>
  BY DEF Type
<1>2. CASE command' = Idle
  BY <1>1, <1>2
<1>3. CASE command' # Idle
  <2>1. PICK line \in FirstLines \cup Lines \cup result.commands :
           command' = IF Program(line[1], Parse(line)) = << >> THEN Idle
                      ELSE [Idle EXCEPT !.name = line[1], !.parsed = Parse(line),
                                        !.todo = Program(line[1], Parse(line))]
    BY <1>3 DEF Type
  <2>. DEFINE todo == Program(line[1], Parse(line))
  <2>2. todo # << >>
    BY <2>1, <1>3
  <2>3. command' = [name |-> line[1], parsed |-> Parse(line), todo |-> todo, failed |-> FALSE]
    BY <2>1, <2>2 DEF Idle
  <2>4. command'.name = line[1] /\ command'.parsed = Parse(line) /\ command'.todo = todo /\ Built(command')
    <3>. HIDE DEF todo
    <3>. QED
      BY <2>3 DEF Built
  <2>5. Fits(command')
    BY <2>4, ProgramFits
  <2>6. todo[1] \in {"checkpoint", "look", "migrate", "connect", "load"}
    BY <2>2, ProgramStarts
  <2>. QED
    BY <1>1, <1>3, <2>2, <2>4, <2>5, <2>6
<1>. QED
  BY <1>2, <1>3

\* The rest of a command, after a step that went well.
LEMMA RestFits ==
  ASSUME CommandFits(files, command), NEW failed, Continue(Tail(command.todo), failed), command' # Idle
  PROVE  /\ Built(command') /\ command'.todo # << >> /\ Fits(command')
         /\ command'.name = command.name /\ command'.parsed = command.parsed
         /\ 2 \in 1 .. Len(command.todo) /\ StepFits(command, 2)
         /\ command'.todo[1] = command.todo[2]
<1>. DEFINE todo == Tail(command.todo)
<1>1. Built(command) /\ Fits(command) /\ command.todo # << >> /\ command.todo \in Seq(Steps)
      /\ Len(command.todo) \in Nat \ {0} /\ Head(command.todo) = command.todo[1]
  BY First DEF CommandFits, Fits
<1>2. todo # << >>
  BY <1>1, Continued
<1>. HIDE DEF todo
<1>3. /\ Built(command') /\ command'.todo = todo
      /\ command'.name = command.name /\ command'.parsed = command.parsed
  BY <1>1, <1>2, Continued DEF todo
<1>4. Fits(command')
  BY <1>1, <1>3, TailFits DEF todo
<1>5. todo \in Seq(Steps) /\ Len(todo) = Len(command.todo) - 1
      /\ \A i \in 1 .. Len(todo) : todo[i] = command.todo[i + 1]
  BY <1>1, HeadTailProperties DEF todo
<1>6. Len(todo) \in Nat \ {0}
  BY <1>2, <1>5, EmptySeq, LenProperties
<1>7. 2 \in 1 .. Len(command.todo) /\ todo[1] = command.todo[2]
  <2>1. 1 \in 1 .. Len(todo) /\ 1 + 1 = 2
    BY <1>6
  <2>2. todo[1] = command.todo[1 + 1]
    BY <2>1, <1>5
  <2>. QED
    BY <2>1, <2>2, <1>5, <1>6, <1>1
<1>. QED
  BY <1>1, <1>2, <1>3, <1>4, <1>7 DEF Fits

LEMMA StepKeeps ==
  ASSUME ConsoleInv, Step
  PROVE  ConsoleInv'
<1>. DEFINE step == command.todo[1]
<1>1. CommandFits(files, command) /\ FilesFit(files) /\ BesideFits
  BY DEF ConsoleInv, Step
<1>2. Head(command.todo) = step
  BY <1>1, First DEF CommandFits
<1>3. files' \in Outcome(command, step) /\ Continue(Tail(command.todo), command.failed)
  BY <1>2 DEF Step
<1>4. FilesFit(files')
  BY <1>1, <1>3, OutcomeFits
<1>5. ASSUME command' # Idle
      PROVE  CommandFits(files', command')
  <2>1. /\ Built(command') /\ command'.todo # << >> /\ Fits(command')
        /\ command'.name = command.name /\ command'.parsed = command.parsed
        /\ StepFits(command, 2)
        /\ command'.todo[1] = command.todo[2]
    BY <1>1, <1>3, <1>5, RestFits
  <2>2. /\ command.todo[2] = "copy" => step = "checkpoint"
        /\ command.todo[2] = "seal" => step = "copy" /\ Encrypts(command)
    BY <2>1 DEF StepFits, After
  <2>3. SourceOf(command') = SourceOf(command) /\ Plain(command') = Plain(command)
    BY <2>1 DEF SourceOf, Plain
  <2>4. /\ step = "checkpoint" => FileAt(files', SourceOf(command)).kind # "sealed"
        /\ step = "copy" /\ Encrypts(command) => FileAt(files', Plain(command)).kind # "sealed"
    BY <1>1, <1>3, CopiesAreOpen
  <2>. HIDE DEF step
  <2>6. CopyFits(files', command')
    BY <2>1, <2>2, <2>3, <2>4 DEF CopyFits
  <2>. QED
    BY <2>1, <2>6 DEF CommandFits
<1>6. BesideFits'
  BY <1>3 DEF Continue, BesideFits
<1>. QED
  BY <1>4, <1>5, <1>6 DEF ConsoleInv

\* What comes after a failed step copies and seals nothing.
LEMMA FailureFits ==
  ASSUME CommandFits(files, command), NEW step, step = command.todo[1],
         Continue(Finally(step, command.parsed), TRUE), command' # Idle
  PROVE  /\ Built(command') /\ command'.todo # << >> /\ Fits(command')
         /\ command'.parsed = command.parsed /\ command'.name = command.name
         /\ command'.todo = Finally(step, command.parsed)
         /\ \/ step = "run" /\ command'.todo[1] = "end"
            \/ step \in {"copy", "seal"} /\ Encrypts(command) /\ command'.todo[1] = "remove"
<1>. DEFINE todo == Finally(step, command.parsed)
<1>1. Built(command) /\ StepFits(command, 1)
  BY First DEF CommandFits
<1>2. todo # << >>
  BY <1>1, Continued
<1>3. /\ Built(command') /\ command'.todo = todo
      /\ command'.name = command.name /\ command'.parsed = command.parsed
  <2>. HIDE DEF todo
  <2>. QED
    BY <1>1, <1>2, Continued DEF todo
<1>4. command'.todo = Finally(step, command'.parsed)
  BY <1>3
<1>5. step \in {"copy", "seal"} => command'.name = "sqlite:backup"
  BY <1>1, <1>3 DEF StepFits
<1>6. Fits(command')
  BY <1>4, <1>5, FinallyFits
<1>7. \/ step = "run" /\ todo = <<"end">>
      \/ step \in {"copy", "seal"} /\ Encrypts(command) /\ todo = <<"remove">>
  BY <1>2 DEF Finally, Encrypts
<1>. QED
  BY <1>2, <1>3, <1>6, <1>7

LEMMA FailureKeeps ==
  ASSUME ConsoleInv, command # Idle, FilesFit(files'),
         Continue(Finally(Head(command.todo), command.parsed), TRUE)
  PROVE  ConsoleInv'
<1>1. CommandFits(files, command)
  BY DEF ConsoleInv
<1>2. Head(command.todo) = command.todo[1]
  BY <1>1, First DEF CommandFits
<1>3. ASSUME command' # Idle
      PROVE  CommandFits(files', command')
  <2>1. /\ Built(command') /\ command'.todo # << >> /\ Fits(command')
        /\ command'.todo[1] \in {"end", "remove"}
    BY <1>1, <1>2, <1>3, FailureFits
  <2>. QED
    BY <2>1 DEF CommandFits, CopyFits
<1>4. BesideFits'
  BY DEF Continue, BesideFits
<1>. QED
  BY <1>3, <1>4 DEF ConsoleInv

\* A call changes the application's database, which stays what it is.
LEMMA CallStores ==
  ASSUME FilesFit(files), Call
  PROVE  /\ FileAt(files, Live) = files[Live] /\ IsDatabase(files[Live])
         /\ \E file : files' = Written(Live, file) /\ Sound(file) /\ IsDatabase(file) /\ FileAt(files', Live) = file
<1>. DEFINE db == files[Live].db
<1>1. FileAt(files, Live) = files[Live] /\ At(Live) = files[Live] /\ IsDatabase(files[Live])
  BY LiveAssumption DEF FileAt, At, Call
<1>2. Opens(At(Live)) /\ Opened(At(Live)) = db
  BY <1>1 DEF Opens, Opened, IsDatabase
<1>3. Shaped(db)
  BY <1>1, <1>2, OpenedFits, FileAtSound
<1>4. PICK call \in Calls : \E outcome \in Outcomes(db, call) : files' = Stored(Live, outcome.db)
  BY DEF Call
<1>5. PICK outcome \in Outcomes(db, call) : files' = Stored(Live, outcome.db)
  BY <1>4
<1>6. Follows(db, outcome.db)
  BY <1>3, OutcomesFollow, CallsAssumption
<1>. HIDE DEF db
<1>. DEFINE file == Changed(At(Live), outcome.db)
<1>7. files' = Written(Live, file)
  BY <1>5 DEF Stored
<1>8. Sound(file) /\ IsDatabase(file)
  BY <1>2, <1>6, StoredFits, ChangedFits DEF Changed, Database, Torn, IsDatabase
<1>. HIDE DEF file
<1>9. FileAt(files', Live) = file
  BY <1>7, <1>8, Rewritten, LiveAssumption DEF Replaces, Written
<1>. QED
  BY <1>1, <1>7, <1>8, <1>9

LEMMA CallKeeps ==
  ASSUME ConsoleInv, Call
  PROVE  ConsoleInv'
<1>0. FilesFit(files) /\ BesideFits
  BY DEF ConsoleInv
<1>1. PICK file : /\ files' = Written(Live, file) /\ Sound(file) /\ IsDatabase(file)
                  /\ FileAt(files', Live) = file
  BY <1>0, CallStores
<1>2. FileAt(files, Live) = files[Live] /\ IsDatabase(files[Live]) /\ Sound(files[Live])
  BY <1>0, CallStores, FileAtSound
<1>3. FilesFit(files') /\ \A q : FileAt(files', q) \in {FileAt(files, q), file}
  <2>1. FilesFit(files') /\ Replaces(files, files', Live, file)
    BY <1>0, <1>1, Rewritten DEF Written
  <2>. QED
    BY <2>1 DEF Replaces
<1>4. command' = command
  BY DEF Call
<1>5. command # Idle => CopyFits(files', command)
  BY <1>1, <1>3 DEF ConsoleInv, CommandFits, CopyFits, IsDatabase
<1>6. BesideFits'
  <2>1. files'[Live] = file
    BY <1>1, LiveAssumption DEF FileAt
  <2>2. \A f \in beside' : f \in beside \/ f = files[Live] \/ f = file
    BY <2>1 DEF Call
  <2>. QED
    BY <2>2, <1>0, <1>1, <1>2 DEF BesideFits
<1>. QED
  BY <1>3, <1>4, <1>5, <1>6 DEF ConsoleInv, CommandFits

LEMMA ConsoleStep == ConsoleInv /\ [Next]_vars => ConsoleInv'
<1>. SUFFICES ASSUME ConsoleInv, [Next]_vars
              PROVE  ConsoleInv'
  OBVIOUS
<1>1. CASE Type
  <2>1. UNCHANGED <<files, beside>> /\ (command' # Idle => Built(command') /\ Fits(command') /\ command'.todo # << >>
           /\ command'.todo[1] \in {"checkpoint", "look", "migrate", "connect", "load"})
    BY <1>1, Begun
  <2>. QED
    BY <2>1 DEF ConsoleInv, CommandFits, CopyFits, BesideFits
<1>2. CASE Step
  BY <1>2, StepKeeps
<1>3. CASE StepFails
  BY <1>3, FailureKeeps DEF StepFails, ConsoleInv
<1>4. CASE Disturbed
  <2>1. FilesFit(files')
    BY <1>4, BrokenFits DEF Disturbed, ConsoleInv
  <2>. QED
    BY <1>4, <2>1, FailureKeeps DEF Disturbed
<1>5. CASE Call
  BY <1>5, CallKeeps
<1>6. CASE UNCHANGED vars
  BY <1>6 DEF ConsoleInv, BesideFits, vars
<1>. QED
  BY <1>1, <1>2, <1>3, <1>4, <1>5, <1>6 DEF Next

\* Every file stays sound, whatever is typed, called and disturbed.
THEOREM ConsoleInvariance == Spec => []ConsoleInv
<1>1. Init => ConsoleInv
  BY FilesAssumption DEF Init, ConsoleInv, FilesFit, BesideFits
<1>. QED
  BY <1>1, ConsoleStep, PTL DEF Spec

\* A whole database lists the blocks of its plans as its rows do.
LEMMA WholeAgrees ==
  ASSUME NEW db, Whole(db)
  PROVE  Agree(db)
<1>. DEFINE plans == {k \in RowNames : k[1] = "schedule_plans" /\ Present(db, k)}
            blocks == {k \in RowNames : k[1] = "time_blocks" /\ Present(db, k)}
            rows == {<<k, db.rows[k].plan, db.rows[k].value>> : k \in blocks}
            of(p) == {<<BlockKey(b), p[3], db.rows[p].blocks[b]>> : b \in DOMAIN db.rows[p].blocks}
            data == UNION {of(p) : p \in plans}
<1>1. ASSUME NEW d \in data
      PROVE  d \in rows
  <2>1. PICK p \in plans : d \in of(p)
    OBVIOUS
  <2>2. PICK b \in DOMAIN db.rows[p].blocks : d = <<BlockKey(b), p[3], db.rows[p].blocks[b]>>
    BY <2>1
  <2>3. BlockKey(b) \in RowNames /\ db.rows[BlockKey(b)] = [plan |-> p[3], value |-> db.rows[p].blocks[b]]
    BY WholeParts DEF PlanHasRows, IsPlan
  <2>4. BlockKey(b) \in blocks
    BY <2>3, KeyParts DEF Present, Absent
  <2>5. db.rows[BlockKey(b)].plan = p[3] /\ db.rows[BlockKey(b)].value = db.rows[p].blocks[b]
    BY <2>3
  <2>. QED
    BY <2>2, <2>4, <2>5
<1>2. ASSUME NEW r \in rows
      PROVE  r \in data
  <2>1. PICK k \in blocks : r = <<k, db.rows[k].plan, db.rows[k].value>>
    OBVIOUS
  <2>. DEFINE p == PlanOf(db, k)
              b == <<k[2], k[3]>>
  <2>2. p \in plans /\ b \in DOMAIN db.rows[p].blocks /\ p[3] = db.rows[k].plan
    BY WholeParts DEF RowHasPlan, PlanOf
  <2>3. BlockKey(b) = k
    BY NamesAssumption DEF BlockKey
  <2>4. db.rows[k] = [plan |-> p[3], value |-> db.rows[p].blocks[b]]
    BY <2>2, <2>3, WholeParts DEF PlanHasRows
  <2>5. db.rows[k].value = db.rows[p].blocks[b]
    <3>. HIDE DEF p, b
    <3>. QED
      BY <2>4
  <2>6. r \in of(p)
    BY <2>1, <2>2, <2>3, <2>5
  <2>. QED
    BY <2>2, <2>6
<1>3. data = rows
  BY <1>1, <1>2
<1>. QED
  BY <1>3 DEF Agree

\* Whatever lines are typed and calls made, and whatever fails: in every database the rows
\* of blocks are the blocks in the data of the plans they name (upsertPlan in sqlite.ts,
\* deleteExpiredSchedulePlans, deleteSqliteWorkspace, backups and restores), unless it was
\* torn when it, or the database it was made of, was copied beside a writer.
THEOREM PlanRowsAgreeHolds == Spec => []PlanRowsAgree
<1>1. ConsoleInv => PlanRowsAgree
  BY WholeAgrees DEF ConsoleInv, FilesFit, Sound, Readable, PlanRowsAgree, Databases
<1>. QED
  BY <1>1, ConsoleInvariance, PTL

-----------------------------------------------------------------------------
(* What a command leaves behind.  No line that can be typed names the plain  *)
(* copy of a backup, so only the steps of an encrypted backup write one.     *)

LEMMA ReadInFull ==
  ASSUME NEW args, NEW words, ParseNamedArgs(args, words).ok
  PROVE  args.required \subseteq DOMAIN ParseNamedArgs(args, words).values
<1>1. PICK read : ParseNamedArgs(args, words) = IF read.ok /\ read.option = "" /\ args.required \subseteq DOMAIN read.values
                                                THEN read ELSE Refused
  BY Zenon DEF ParseNamedArgs
<1>2. ~Refused.ok
  BY DEF Refused
<1>. QED
  BY <1>1, <1>2

\* The options that an accepted line of these commands has.
LEMMA OptionsGiven ==
  ASSUME NEW line, Parse(line).ok
  PROVE  /\ line[1] = "sqlite:backup" => {"--database", "--backup"} \subseteq DOMAIN Parse(line).values
         /\ line[1] = "sqlite:restore" => {"--restore"} \cup Scope \subseteq DOMAIN Parse(line).values
         /\ line[1] \in {"sqlite:export", "sqlite:delete-workspace", "retention:sqlite-cleanup"}
               => "--database" \in DOMAIN Parse(line).values
         /\ line[1] = "retention:sqlite-cleanup" => "--as-of" \in DOMAIN Parse(line).values
<1>1. ASSUME line[1] \in DOMAIN Effects
      PROVE  Effects[line[1]].required \subseteq DOMAIN Parse(line).values
  <2>. DEFINE read == ParseNamedArgs(Effects[line[1]], Tail(line))
  <2>1. line[1] # "postgres:migrate"
    BY <1>1 DEF Effects
  <2>2. Parse(line) = Checked(line[1], read)
    BY <1>1, <2>1 DEF Parse
  <2>. HIDE DEF read
  <2>3. Parse(line) = read /\ read.ok
    <3>1. (Parse(line) = read /\ read.ok) \/ Parse(line) = Refused
      BY Zenon, <2>2 DEF Checked
    <3>2. ~Refused.ok
      BY DEF Refused
    <3>. QED
      BY Zenon, <3>1, <3>2
  <2>. QED
    BY <2>3, ReadInFull DEF read
<1>2. ASSUME line[1] = "sqlite:backup"
      PROVE  {"--database", "--backup"} \subseteq DOMAIN Parse(line).values
  <2>1. line[1] \in DOMAIN Effects /\ Effects[line[1]] = SqliteBackupArgs
    BY <1>2 DEF Effects
  <2>. QED
    BY <2>1, <1>1 DEF SqliteBackupArgs, Args
<1>3. ASSUME line[1] = "sqlite:restore"
      PROVE  {"--restore"} \cup Scope \subseteq DOMAIN Parse(line).values
  <2>1. line[1] \in DOMAIN Effects /\ Effects[line[1]] = SqliteRestoreArgs
    BY <1>3 DEF Effects
  <2>. QED
    BY <2>1, <1>1 DEF SqliteRestoreArgs, Args
<1>4. ASSUME line[1] \in {"sqlite:export", "sqlite:delete-workspace", "retention:sqlite-cleanup"}
      PROVE  "--database" \in DOMAIN Parse(line).values
  <2>1. line[1] \in DOMAIN Effects /\ Effects[line[1]] \in {SqliteExportArgs, SqliteDeleteWorkspaceArgs, RetentionSqliteCleanupArgs}
    BY <1>4 DEF Effects
  <2>2. "--database" \in Effects[line[1]].required
    BY <2>1 DEF SqliteExportArgs, SqliteDeleteWorkspaceArgs, RetentionSqliteCleanupArgs, Args
  <2>. QED
    BY <2>1, <2>2, <1>1
<1>5. ASSUME line[1] = "retention:sqlite-cleanup"
      PROVE  "--as-of" \in DOMAIN Parse(line).values
  <2>1. line[1] \in DOMAIN Effects /\ Effects[line[1]] = RetentionSqliteCleanupArgs
    BY <1>5 DEF Effects
  <2>. QED
    BY <2>1, <1>1 DEF RetentionSqliteCleanupArgs, Args
<1>. QED
  BY <1>2, <1>3, <1>4, <1>5

\* The files that a command writes are no plain copies, but for its own.
PathsFit(c) ==
    /\ c.name \in {"sqlite:backup", "sqlite:export", "sqlite:delete-workspace", "retention:sqlite-cleanup"}
          => ~IsAside(SourceOf(c))
    /\ c.name = "sqlite:backup" => ~IsAside(c.parsed.values["--backup"])
    /\ c.name = "sqlite:restore" => ~IsAside(c.parsed.values["--restore"])
    /\ c.name = "sqlite:export" /\ "--output" \in DOMAIN c.parsed.values => ~IsAside(c.parsed.values["--output"])

LEMMA PathsOfLine ==
  ASSUME NEW line, Parse(line).ok, NamesNoAside(line), NEW c, c.name = line[1], c.parsed = Parse(line)
  PROVE  PathsFit(c)
<1>. DEFINE v == Parse(line).values
<1>1. \A o \in {"--database", "--backup", "--restore", "--output"} : o \in DOMAIN v => ~IsAside(v[o])
  BY DEF NamesNoAside
<1>2. /\ c.name = "sqlite:backup" => "--database" \in DOMAIN v /\ "--backup" \in DOMAIN v
      /\ c.name = "sqlite:restore" => "--restore" \in DOMAIN v
      /\ c.name \in {"sqlite:export", "sqlite:delete-workspace", "retention:sqlite-cleanup"} => "--database" \in DOMAIN v
  BY OptionsGiven
<1>3. "--database" \in DOMAIN v => SourceOf(c) = v["--database"]
  BY DEF SourceOf, Source
<1>4. c.parsed.values = v
  OBVIOUS
<1>. HIDE DEF v
<1>. QED
  BY <1>1, <1>2, <1>3, <1>4 DEF PathsFit

-----------------------------------------------------------------------------
ResultFits(typed) ==
    /\ result = [line |-> result.line, exit |-> result.exit, shown |-> result.shown, commands |-> result.commands]
    /\ result.commands \subseteq typed
ClientFits == client = "none" \/ (client = "open" /\ command # Idle /\ command.todo[1] \in {"run", "end"})
Making(c, q) ==
    /\ c # Idle /\ c.name = "sqlite:backup" /\ Encrypts(c) /\ q = Plain(c)
    /\ c.todo[1] \in {"seal", "remove"}
AsidesFit == \A q : IsAside(q) => FileAt(files, q) = NoFile \/ Making(command, q)
TidyInv(typed) ==
    /\ ConsoleInv
    /\ ResultFits(typed)
    /\ command # Idle => PathsFit(command)
    /\ ClientFits
    /\ AsidesFit

\* The command that runs is what the line said, which was accepted and approved.
Ordered(c, line) ==
    /\ line \in Seq(STRING) \ {<< >>} /\ Parse(line).ok
    /\ c.name = line[1] /\ c.parsed = Parse(line) /\ Approved(c.name, c.parsed)

LEMMA OrderedByLine ==
  ASSUME NEW CONSTANT typed, Typable(typed), ResultFits(typed), Type
  PROVE  /\ ResultFits(typed)'
         /\ command' = Idle \/ (Ordered(command', result'.line) /\ result'.line \in typed)
<1>1. PICK line \in FirstLines \cup Lines \cup result.commands :
         IF ~Parse(line).ok THEN command' = Idle /\ result' = Came(line, 1)
         ELSE IF line[1] \in DOMAIN Packets THEN
             /\ command' = Idle
             /\ result' = [line |-> line, exit |-> 0, shown |-> Shown(line[1], Parse(line)),
                           commands |-> Printed(line[1], Parse(line))]
         ELSE IF ~Approved(line[1], Parse(line)) THEN command' = Idle /\ result' = Came(line, 1)
         ELSE /\ result' = Came(line, 0)
              /\ command' = IF Program(line[1], Parse(line)) = << >> THEN Idle
                            ELSE [Idle EXCEPT !.name = line[1], !.parsed = Parse(line),
                                              !.todo = Program(line[1], Parse(line))]
  BY DEF Type
<1>2. line \in typed
  BY DEF Typable, ResultFits
<1>3. ResultFits(typed)'
  <2>1. CASE Parse(line).ok /\ line[1] \in DOMAIN Packets
    <3>. DEFINE printed == Printed(line[1], Parse(line))
                shown == Shown(line[1], Parse(line))
    <3>1. printed \subseteq typed
      BY <1>2, <2>1 DEF Typable
    <3>2. result' = [line |-> line, exit |-> 0, shown |-> shown, commands |-> printed]
      BY <1>1, <2>1
    <3>. HIDE DEF printed, shown
    <3>. QED
      BY <3>1, <3>2 DEF ResultFits
  <2>2. CASE ~(Parse(line).ok /\ line[1] \in DOMAIN Packets)
    <3>1. result' \in {Came(line, 0), Came(line, 1)}
      BY <1>1, <2>2
    <3>. QED
      BY <3>1 DEF ResultFits, Came
  <2>. QED
    BY <2>1, <2>2
<1>4. ASSUME command' # Idle
      PROVE  Ordered(command', result'.line) /\ result'.line = line
  <2>. DEFINE parsed == Parse(line)
              todo == Program(line[1], Parse(line))
  <2>1. /\ parsed.ok /\ Approved(line[1], parsed) /\ result' = Came(line, 0)
        /\ command' = [Idle EXCEPT !.name = line[1], !.parsed = parsed, !.todo = todo]
    BY <1>1, <1>4
  <2>2. command'.name = line[1] /\ command'.parsed = parsed
    <3>. HIDE DEF parsed, todo
    <3>. QED
      BY <2>1 DEF Idle
  <2>3. result'.line = line
    BY <2>1 DEF Came
  <2>. QED
    BY <1>2, <2>1, <2>2, <2>3 DEF Ordered, Typable
<1>. QED
  BY <1>2, <1>3, <1>4

LEMMA ResultOfLine ==
  ASSUME NEW CONSTANT typed, AsidesSpared(typed), ResultFits(typed), Type
  PROVE  /\ ResultFits(typed)'
         /\ command' = Idle \/ PathsFit(command')
<1>1. ResultFits(typed)' /\ (command' = Idle \/ (Ordered(command', result'.line) /\ result'.line \in typed))
  BY OrderedByLine DEF AsidesSpared
<1>. QED
  BY <1>1, PathsOfLine DEF AsidesSpared, Ordered

-----------------------------------------------------------------------------
\* What a write does to the plain copies.
LEMMA SparesOthers ==
  ASSUME FilesFit(files), NEW path, NEW file, Sound(file), NEW q, q # path
  PROVE  FileAt(Written(path, file), q) = FileAt(files, q)
BY Rewritten DEF Written, Replaces, FileAt

LEMMA StoresElsewhere ==
  ASSUME FilesFit(files), NEW path, ~IsAside(path), Opens(At(path)),
         NEW db, Follows(Opened(At(path)), db), NEW q, IsAside(q)
  PROVE  FileAt(Stored(path, db), q) = FileAt(files, q)
<1>1. Stored(path, db) = Written(path, Changed(At(path), db)) /\ q # path
  BY DEF Stored
<1>. QED
  BY <1>1, SparesOthers, StoredFits

\* Which file a command opens, and which it writes.
LEMMA OpensNoAside ==
  ASSUME PathsFit(command),
         command.name \in {"sqlite:backup", "sqlite:restore", "sqlite:export", "sqlite:delete-workspace",
                           "retention:sqlite-cleanup"}
  PROVE  ~IsAside(OpenedBy(command))
<1>1. CASE command.name = "sqlite:restore"
  <2>1. OpenedBy(command) = command.parsed.values["--restore"]
    BY <1>1 DEF OpenedBy, Target
  <2>. QED
    BY <1>1, <2>1 DEF PathsFit
<1>2. CASE command.name # "sqlite:restore"
  <2>1. OpenedBy(command) = SourceOf(command)
    BY <1>2 DEF OpenedBy, SourceOf
  <2>. QED
    BY <1>2, <2>1 DEF PathsFit
<1>. QED
  BY <1>1, <1>2

LEMMA WritesNoAside ==
  ASSUME PathsFit(command)
  PROVE  /\ command.name = "sqlite:restore" => ~IsAside(Target(command))
         /\ command.name = "sqlite:export" /\ "--output" \in DOMAIN command.parsed.values => ~IsAside(Target(command))
         /\ command.name = "sqlite:backup" =>
               /\ ~IsAside(command.parsed.values["--backup"])
               /\ IF Encrypts(command) THEN Target(command) = Plain(command) ELSE ~IsAside(Target(command))
<1>1. CASE command.name = "sqlite:restore"
  BY <1>1 DEF PathsFit, Target
<1>2. CASE command.name = "sqlite:export"
  BY <1>2 DEF PathsFit, Target
<1>3. CASE command.name = "sqlite:backup"
  BY <1>3 DEF PathsFit, Target, Encrypts, Plain
<1>. QED
  BY <1>1, <1>2, <1>3

LEMMA OutcomeSpares ==
  ASSUME FilesFit(files), BesideFits, CommandFits(files, command), PathsFit(command),
         NEW f \in Outcome(command, command.todo[1]), NEW q, IsAside(q),
         ~(command.todo[1] \in {"copy", "remove"} /\ Encrypts(command) /\ q = Plain(command))
  PROVE  FileAt(f, q) = FileAt(files, q)
<1>. DEFINE step == command.todo[1]
            v == command.parsed.values
            path == OpenedBy(command)
            opened == At(path)
<1>0. step \in Steps /\ StepFits(command, 1) /\ CopyFits(files, command)
  BY First DEF CommandFits
<1>1. Opens(opened) => Shaped(Opened(opened)) /\ Follows(Opened(opened), Opened(opened))
  BY OpenedFits, FileAtSound, AtIsFileAt DEF Follows
<1>. HIDE DEF step
<1>2. CASE step = "checkpoint"
  <2>1. f = Stored(path, Opened(opened)) /\ Opens(opened)
    BY <1>2 DEF Outcome, step
  <2>2. ~IsAside(path)
    BY <1>0, <1>2, OpensNoAside DEF StepFits, step
  <2>. QED
    BY <2>1, <2>2, <1>1, StoresElsewhere
<1>3. CASE step = "copy"
  <2>1. PICK file \in Copies(command, At(Source(v))) : f = Written(Target(command), file)
    BY <1>3 DEF Outcome, step
  <2>4. Sound(file)
    BY CopyIsSound, FileAtSound, AtIsFileAt
  <2>2. command.name = "sqlite:backup"
    BY <1>0, <1>3 DEF StepFits, step
  <2>3. q # Target(command)
    BY <1>3, <2>2, WritesNoAside DEF step
  <2>. QED
    BY <2>1, <2>3, <2>4, SparesOthers
<1>4. CASE step = "seal"
  <2>1. PICK p : f = Written(v["--backup"], Sealed(p, At(Aside(v["--backup"]))))
    BY <1>4 DEF Outcome, step
  <2>2. At(Aside(v["--backup"])).kind # "sealed" /\ Sound(At(Aside(v["--backup"])))
    BY <1>0, <1>4, AtIsFileAt, FileAtSound DEF CopyFits, Plain, step
  <2>3. Sound(Sealed(p, At(Aside(v["--backup"]))))
    BY <2>2, SealedIsSound
  <2>4. q # v["--backup"]
    BY <1>0, <1>4, WritesNoAside DEF StepFits, step
  <2>. QED
    BY <2>1, <2>3, <2>4, SparesOthers
<1>5. CASE step = "remove"
  <2>1. f = Written(Plain(command), NoFile)
    BY <1>5 DEF Outcome, Plain, step
  <2>2. q # Plain(command)
    BY <1>0, <1>5 DEF StepFits, step
  <2>. QED
    BY <2>1, <2>2, SparesOthers, SoundFiles
<1>6. CASE step = "fill"
  <2>1. PICK content \in Fillings(v) : \E file \in Copies(command, content) : f = Written(Target(command), file)
    BY <1>6 DEF Outcome, step
  <2>2. PICK file \in Copies(command, content) : f = Written(Target(command), file)
    BY <2>1
  <2>5. Sound(At(v["--backup"]))
    BY FileAtSound, AtIsFileAt
  <2>6. Sound(content)
    BY <2>5 DEF Fillings, Unsealed, Sound
  <2>3. Sound(file)
    BY <2>6, CopyIsSound
  <2>4. ~IsAside(Target(command))
    BY <1>0, <1>6, WritesNoAside DEF StepFits, step
  <2>. QED
    BY <2>2, <2>3, <2>4, SparesOthers
<1>7. CASE step \in {"migrate", "delete", "clean"}
  <2>1. ~IsAside(path)
    BY <1>0, <1>7, OpensNoAside DEF StepFits, step
  <2>2. CASE step = "migrate"
    <3>1. f = Stored(path, ApplyMigrations(Opened(opened))) /\ Opens(opened)
      BY <2>2 DEF Outcome, step
    <3>. QED
      BY <3>1, <2>1, <1>1, MigrationsFollow, StoresElsewhere
  <2>3. CASE step = "delete"
    <3>1. f = Stored(path, DeleteWorkspace(Opened(opened), ScopeOf(v))) /\ Opens(opened)
      BY <2>3 DEF Outcome, step
    <3>. QED
      BY <3>1, <2>1, <1>1, DeletionFollows, StoresElsewhere
  <2>4. CASE step = "clean"
    <3>1. f = Stored(path, CleanupRetention(Opened(opened), ScopeOf(v), AsOf(v))) /\ Opens(opened)
      BY <2>4 DEF Outcome, step
    <3>. QED
      BY <3>1, <2>1, <1>1, CleanupFollows, StoresElsewhere
  <2>. QED
    BY <1>7, <2>2, <2>3, <2>4
<1>8. CASE step = "write"
  <2>1. f = Written(Target(command), Export(Exported(opened.db, ScopeOf(v))))
    BY <1>8 DEF Outcome, step
  <2>2. ~IsAside(Target(command))
    BY <1>0, <1>8, WritesNoAside DEF StepFits, step
  <2>. QED
    BY <2>1, <2>2, SparesOthers, SoundFiles
<1>9. CASE step \in {"look", "connect"}
  BY <1>9 DEF Outcome, step
<1>10. CASE step \in {"export", "count", "load", "run", "end"}
  BY <1>10 DEF Outcome, step
<1>. QED
  BY <1>0, <1>2, <1>3, <1>4, <1>5, <1>6, <1>7, <1>8, <1>9, <1>10 DEF Steps

\* The plain copy is gone once it is removed, which cannot fail.
LEMMA RemoveRemoves ==
  ASSUME FilesFit(files), command.todo[1] = "remove", NEW f \in Outcome(command, "remove")
  PROVE  FileAt(f, Plain(command)) = NoFile
<1>1. f = [files EXCEPT ![Plain(command)] = NoFile]
  BY DEF Outcome, Plain, Written
<1>2. Sound(NoFile)
  BY SoundFiles
<1>3. Replaces(files, f, Plain(command), NoFile)
  BY <1>1, <1>2, Rewritten
<1>. QED
  BY <1>3 DEF Replaces, FileAt

LEMMA LastStepsWork == Outcome(command, "remove") # {} /\ Outcome(command, "end") # {}
BY DEF Outcome

LEMMA BrokenSpares ==
  ASSUME FilesFit(files), CommandFits(files, command), PathsFit(command),
         NEW f \in Broken(command, command.todo[1]), NEW q, IsAside(q),
         ~(command.todo[1] = "copy" /\ Encrypts(command) /\ q = Plain(command))
  PROVE  FileAt(f, q) = FileAt(files, q)
<1>. DEFINE step == command.todo[1]
<1>0. step \in Steps /\ StepFits(command, 1)
  BY First DEF CommandFits
<1>. HIDE DEF step
<1>1. CASE f = files
  BY <1>1
<1>2. CASE f # files /\ step \in {"copy", "fill", "write"}
  <2>1. f = Written(Target(command), Damaged)
    BY <1>2 DEF Broken, step
  <2>2. q # Target(command)
    BY <1>0, <1>2, WritesNoAside DEF StepFits, step
  <2>. QED
    BY <2>1, <2>2, SparesOthers, SoundFiles
<1>3. CASE f # files /\ step = "seal"
  <2>1. f = Written(command.parsed.values["--backup"], Damaged)
    BY <1>3 DEF Broken, step
  <2>2. q # command.parsed.values["--backup"]
    BY <1>0, <1>3, WritesNoAside DEF StepFits, step
  <2>. QED
    BY <2>1, <2>2, SparesOthers, SoundFiles
<1>4. CASE f # files /\ step \notin {"copy", "fill", "write", "seal"}
  BY <1>4 DEF Broken, step
<1>. QED
  BY <1>1, <1>2, <1>3, <1>4

-----------------------------------------------------------------------------
\* The step that Program puts after one that went well.
LEMMA ComesNext ==
  ASSUME CommandFits(files, command), NEW failed, Continue(Tail(command.todo), failed), NEW s, Before(command, 1, s)
  PROVE  command' # Idle /\ command'.todo[1] = s
<1>1. 2 \in 1 .. Len(command.todo) /\ command.todo[2] = s
  BY DEF Before
<1>2. command' # Idle
  <2>1. command.todo # << >> /\ command.todo \in Seq(Steps) /\ Built(command)
    BY DEF CommandFits, Fits
  <2>2. Len(Tail(command.todo)) = Len(command.todo) - 1 /\ Len(command.todo) \in Nat
    BY <2>1, HeadTailProperties, LenProperties
  <2>3. Len(Tail(command.todo)) # 0
    BY <1>1, <2>2
  <2>4. Tail(command.todo) # << >>
    <3>1. Len(<< >>) = 0
      OBVIOUS
    <3>. QED
      BY <2>3, <3>1
  <2>. QED
    BY <2>1, <2>4, Continued
<1>. QED
  BY <1>1, <1>2, RestFits

LEMMA ResultContinues ==
  ASSUME NEW typed, ResultFits(typed), NEW todo, NEW failed, Continue(todo, failed)
  PROVE  ResultFits(typed)'
<1>. DEFINE exit == IF failed THEN 1 ELSE 0
<1>1. result' = [result EXCEPT !.exit = exit]
  BY DEF Continue
<1>. HIDE DEF exit
<1>2. result' = [line |-> result.line, exit |-> exit, shown |-> result.shown, commands |-> result.commands]
  BY <1>1 DEF ResultFits
<1>. QED
  BY <1>2 DEF ResultFits

LEMMA TidyStep ==
  ASSUME NEW CONSTANT typed, TidyInv(typed), Step
  PROVE  TidyInv(typed)'
<1>. DEFINE step == command.todo[1]
<1>0. /\ command # Idle /\ CommandFits(files, command) /\ FilesFit(files) /\ BesideFits
      /\ PathsFit(command) /\ ClientFits /\ AsidesFit
  BY DEF TidyInv, ConsoleInv, Step
<1>1. Head(command.todo) = step /\ StepFits(command, 1)
  BY <1>0, First DEF CommandFits
<1>2. /\ files' \in Outcome(command, step) /\ Continue(Tail(command.todo), command.failed)
      /\ client' = CASE step = "connect" -> "open" [] step = "end" -> "none" [] OTHER -> client
  BY <1>1 DEF Step
<1>3. ConsoleInv' /\ ResultFits(typed)'
  BY StepKeeps, ResultContinues, <1>2 DEF TidyInv
<1>4. command' # Idle => command'.name = command.name /\ command'.parsed = command.parsed
  BY <1>0, <1>2, RestFits
<1>5. command' # Idle => PathsFit(command')
  BY <1>0, <1>4 DEF PathsFit, SourceOf
<1>6. \A s : Before(command, 1, s) => command' # Idle /\ command'.todo[1] = s
  BY <1>0, <1>2, ComesNext
<1>. HIDE DEF step
<1>7. ClientFits'
  <2>1. CASE step = "connect"
    BY <2>1, <1>1, <1>2, <1>6 DEF ClientFits, StepFits, step
  <2>2. CASE step = "run"
    BY <2>2, <1>0, <1>1, <1>2, <1>6 DEF ClientFits, StepFits, step
  <2>3. CASE step = "end"
    BY <2>3, <1>2 DEF ClientFits
  <2>4. CASE step \notin {"connect", "run", "end"}
    BY <2>4, <1>0, <1>2 DEF ClientFits, step
  <2>. QED
    BY <2>1, <2>2, <2>3, <2>4
<1>8. AsidesFit'
  <2>. SUFFICES ASSUME NEW q, IsAside(q)
                PROVE  FileAt(files', q) = NoFile \/ Making(command', q)
    BY DEF AsidesFit
  <2>1. FileAt(files, q) = NoFile \/ Making(command, q)
    BY <1>0 DEF AsidesFit
  <2>2. CASE step \in {"copy", "remove"} /\ Encrypts(command) /\ q = Plain(command)
    <3>1. command.name = "sqlite:backup"
      BY <2>2, <1>1 DEF StepFits, step
    <3>2. CASE step = "remove"
      BY <2>2, <3>2, <1>0, <1>2, RemoveRemoves DEF step
    <3>3. CASE step = "copy"
      <4>1. command' # Idle /\ command'.todo[1] = "seal"
        BY <2>2, <3>3, <1>1, <1>6 DEF StepFits, step
      <4>. QED
        BY <4>1, <1>4, <2>2, <3>1 DEF Making, Encrypts, Plain
    <3>. QED
      BY <2>2, <3>2, <3>3
  <2>3. CASE ~(step \in {"copy", "remove"} /\ Encrypts(command) /\ q = Plain(command))
    <3>1. FileAt(files', q) = FileAt(files, q)
      BY <2>3, <1>0, <1>2, OutcomeSpares DEF step
    <3>2. CASE FileAt(files, q) = NoFile
      BY <3>1, <3>2
    <3>3. CASE Making(command, q)
      <4>1. step = "seal" /\ command.name = "sqlite:backup" /\ Encrypts(command) /\ q = Plain(command)
        BY <3>3, <2>3 DEF Making, step
      <4>2. command' # Idle /\ command'.todo[1] = "remove"
        BY <4>1, <1>1, <1>6 DEF StepFits, step
      <4>. QED
        BY <4>1, <4>2, <1>4 DEF Making, Encrypts, Plain
    <3>. QED
      BY <2>1, <3>2, <3>3
  <2>. QED
    BY <2>2, <2>3
<1>. QED
  BY <1>3, <1>5, <1>7, <1>8 DEF TidyInv

\* After a failure the client is ended, and a plain copy removed.
LEMMA FinallyComes ==
  ASSUME CommandFits(files, command), NEW step, step = command.todo[1],
         Continue(Finally(step, command.parsed), TRUE)
  PROVE  /\ step = "run" => command' # Idle /\ command'.todo[1] = "end"
         /\ step \in {"copy", "seal"} /\ Encrypts(command) => command' # Idle /\ command'.todo[1] = "remove"
<1>. DEFINE todo == Finally(step, command.parsed)
<1>0. Built(command)
  BY DEF CommandFits
<1>1. ASSUME step = "run"
      PROVE  command' # Idle /\ command'.todo[1] = "end"
  <2>1. todo = <<"end">>
    BY <1>1 DEF Finally
  <2>2. todo # << >> /\ todo[1] = "end"
    BY <2>1
  <2>. HIDE DEF todo
  <2>. QED
    BY <2>2, <1>0, Continued DEF todo
<1>2. ASSUME step \in {"copy", "seal"}, Encrypts(command)
      PROVE  command' # Idle /\ command'.todo[1] = "remove"
  <2>1. todo = <<"remove">>
    BY <1>2 DEF Finally, Encrypts
  <2>2. todo # << >> /\ todo[1] = "remove"
    BY <2>1
  <2>. HIDE DEF todo
  <2>. QED
    BY <2>2, <1>0, Continued DEF todo
<1>. QED
  BY <1>1, <1>2

LEMMA TidyFailure ==
  ASSUME NEW CONSTANT typed, TidyInv(typed), ConsoleInv', command # Idle, UNCHANGED client,
         command.todo[1] \notin {"remove", "end"},
         files' = files \/ files' \in Broken(command, command.todo[1]),
         Continue(Finally(command.todo[1], command.parsed), TRUE)
  PROVE  TidyInv(typed)'
<1>. DEFINE step == command.todo[1]
<1>0. CommandFits(files, command) /\ FilesFit(files) /\ PathsFit(command) /\ ClientFits /\ AsidesFit
  BY DEF TidyInv, ConsoleInv
<1>1. StepFits(command, 1)
  BY <1>0, First DEF CommandFits
<1>2. ResultFits(typed)'
  BY ResultContinues DEF TidyInv
<1>3. /\ step = "run" => command' # Idle /\ command'.todo[1] = "end"
      /\ step \in {"copy", "seal"} /\ Encrypts(command) => command' # Idle /\ command'.todo[1] = "remove"
  BY <1>0, FinallyComes
<1>4. command' # Idle => command'.name = command.name /\ command'.parsed = command.parsed
  BY <1>0, FailureFits
<1>5. command' # Idle => PathsFit(command')
  BY <1>0, <1>4 DEF PathsFit, SourceOf
<1>6. ClientFits'
  BY <1>0, <1>3 DEF ClientFits
<1>7. AsidesFit'
  <2>. SUFFICES ASSUME NEW q, IsAside(q)
                PROVE  FileAt(files', q) = NoFile \/ Making(command', q)
    BY DEF AsidesFit
  <2>1. CASE step \in {"copy", "seal"} /\ Encrypts(command) /\ q = Plain(command)
    <3>1. command.name = "sqlite:backup"
      BY <2>1, <1>1 DEF StepFits
    <3>. QED
      BY <2>1, <3>1, <1>3, <1>4 DEF Making, Encrypts, Plain
  <2>2. CASE ~(step \in {"copy", "seal"} /\ Encrypts(command) /\ q = Plain(command))
    <3>1. FileAt(files', q) = FileAt(files, q)
      BY <2>2, <1>0, BrokenSpares
    <3>2. FileAt(files, q) = NoFile
      BY <2>2, <1>0 DEF AsidesFit, Making
    <3>. QED
      BY <3>1, <3>2
  <2>. QED
    BY <2>1, <2>2
<1>. QED
  BY <1>2, <1>5, <1>6, <1>7 DEF TidyInv

LEMMA TidyCall ==
  ASSUME NEW CONSTANT typed, AsidesSpared(typed), TidyInv(typed), Call
  PROVE  TidyInv(typed)'
<1>1. ConsoleInv' /\ UNCHANGED <<command, result, client>> /\ FilesFit(files)
  BY CallKeeps DEF TidyInv, ConsoleInv, Call
<1>2. \E file : files' = Written(Live, file) /\ Sound(file)
  BY <1>1, CallStores
<1>3. ASSUME NEW q, IsAside(q)
      PROVE  FileAt(files', q) = FileAt(files, q)
  BY <1>1, <1>2, <1>3, SparesOthers DEF AsidesSpared
<1>4. AsidesFit'
  BY <1>1, <1>3 DEF TidyInv, AsidesFit
<1>. QED
  BY <1>1, <1>4 DEF TidyInv, ResultFits, ClientFits

\* Where no line that can be typed names the plain copy of a backup: when a command has
\* ended, also by an error, its plain copy is gone and its client is ended
\* (backupSqliteDatabase with its finally, runPostgresMigrateCommand and
\* runRetentionPostgresCleanupCommand with theirs).
THEOREM NothingLeftBehindHolds ==
  ASSUME NEW CONSTANT typed, AsidesSpared(typed)
  PROVE  Spec => []NothingLeftBehind
<1>1. Init => TidyInv(typed)
  <2>. SUFFICES ASSUME Init
                PROVE  TidyInv(typed)
    OBVIOUS
  <2>1. ConsoleInv /\ command = Idle /\ client = "none" /\ files \in Files
    BY FilesAssumption DEF Init, ConsoleInv, FilesFit, BesideFits
  <2>2. result = [line |-> << >>, exit |-> 0, shown |-> << >>, commands |-> {}]
    BY DEF Init, Came
  <2>3. AsidesFit
    BY <2>1 DEF AsidesFit, AsidesSpared, FileAt
  <2>. QED
    BY <2>1, <2>2, <2>3 DEF TidyInv, ResultFits, ClientFits
<1>2. TidyInv(typed) /\ [Next]_vars => TidyInv(typed)'
  <2>. SUFFICES ASSUME TidyInv(typed), [Next]_vars
                PROVE  TidyInv(typed)'
    OBVIOUS
  <2>0. ConsoleInv'
    BY ConsoleStep DEF TidyInv
  <2>1. CASE Type
    <3>1. command = Idle /\ UNCHANGED <<files, client>> /\ (command' = Idle \/ command'.todo # << >>)
      BY <2>1, Begun DEF Type
    <3>2. ResultFits(typed)' /\ (command' # Idle => PathsFit(command'))
      BY <2>1, ResultOfLine DEF TidyInv
    <3>3. ClientFits' /\ AsidesFit'
      BY <3>1 DEF TidyInv, ClientFits, AsidesFit, Making
    <3>. QED
      BY <2>0, <3>2, <3>3 DEF TidyInv
  <2>2. CASE Step
    BY <2>2, TidyStep
  <2>3. CASE StepFails
    <3>1. command # Idle /\ Head(command.todo) = command.todo[1]
      BY <2>3, First DEF StepFails, TidyInv, ConsoleInv, CommandFits
    <3>2. command.todo[1] \notin {"remove", "end"}
      BY <2>3, <3>1, LastStepsWork DEF StepFails
    <3>. QED
      BY <2>0, <2>3, <3>1, <3>2, TidyFailure DEF StepFails
  <2>4. CASE Disturbed
    <3>1. command # Idle /\ Head(command.todo) = command.todo[1]
      BY <2>4, First DEF Disturbed, TidyInv, ConsoleInv, CommandFits
    <3>. QED
      BY <2>0, <2>4, <3>1, TidyFailure DEF Disturbed
  <2>5. CASE Call
    BY <2>5, TidyCall
  <2>6. CASE UNCHANGED vars
    BY <2>0, <2>6 DEF TidyInv, ResultFits, ClientFits, AsidesFit, vars
  <2>. QED
    BY <2>1, <2>2, <2>3, <2>4, <2>5, <2>6 DEF Next
<1>3. TidyInv(typed) => NothingLeftBehind
  BY DEF TidyInv, ClientFits, AsidesFit, Making, IsAside, FileAt, NothingLeftBehind
<1>. QED
  BY <1>1, <1>2, <1>3, PTL DEF Spec

-----------------------------------------------------------------------------
(* What was read of a line.  The reading is a recursion over the words: that *)
(* there is such a function, and what its values are, is shown by the least  *)
(* number of words for which it would not hold.                              *)

Reads(f, args, words, n) ==
    f = [i \in 0 .. n |-> IF i = 0 THEN Accepting("", << >>, {}) ELSE Read(args, f[i - 1], words[i])]

LEMMA ParsedIsRead ==
  ASSUME NEW args, NEW words
  PROVE  LET read == (CHOOSE f : Reads(f, args, words, Len(words)))[Len(words)]
         IN  ParseNamedArgs(args, words) =
                IF read.ok /\ read.option = "" /\ args.required \subseteq DOMAIN read.values THEN read ELSE Refused
BY Zenon DEF ParseNamedArgs, Reads

LEMMA LeastOf ==
  ASSUME NEW S \in SUBSET Nat, S # {}
  PROVE  \E n \in S : \A m \in S : n <= m
<1>. DEFINE R == {p \in Nat \X Nat : p[1] < p[2]}
<1>1. IsWellFoundedOn(R, Nat)
  BY NatLessThanWellFounded DEF OpToRel
<1>. HIDE DEF R
<1>2. PICK n \in S : \A m \in S : <<m, n>> \notin R
  BY <1>1, WFMin
<1>3. ASSUME NEW m \in S
      PROVE  n <= m
  <2>1. m < n => <<m, n>> \in R
    BY DEF R
  <2>. QED
    BY <1>2, <2>1
<1>. QED
  BY <1>3

LEMMA ReadingExists ==
  ASSUME NEW args, NEW words, NEW n \in Nat
  PROVE  \E f : Reads(f, args, words, n)
<1>. DEFINE S == {m \in Nat : ~\E f : Reads(f, args, words, m)}
<1>. SUFFICES ASSUME S # {}
              PROVE  FALSE
  OBVIOUS
<1>1. PICK m \in S : \A l \in S : m <= l
  <2>1. S \in SUBSET Nat
    OBVIOUS
  <2>. HIDE DEF S
  <2>. QED
    BY <2>1, LeastOf
<1>2. CASE m = 0
  <2>. DEFINE f == [i \in 0 .. 0 |-> Accepting("", << >>, {})]
  <2>1. \A i \in 0 .. 0 : i = 0
    OBVIOUS
  <2>2. Reads(f, args, words, 0)
    BY Zenon, <2>1 DEF Reads
  <2>. QED
    BY <1>1, <1>2, <2>2
<1>3. CASE m # 0
  <2>1. m - 1 \in Nat /\ m - 1 \notin S
    BY <1>1, <1>3
  <2>2. PICK f : Reads(f, args, words, m - 1)
    BY <2>1
  <2>. DEFINE g == [i \in 0 .. m |-> IF i = m THEN Read(args, f[m - 1], words[m]) ELSE f[i]]
  <2>3. ASSUME NEW i \in 0 .. m
        PROVE  g[i] = IF i = 0 THEN Accepting("", << >>, {}) ELSE Read(args, g[i - 1], words[i])
    <3>1. CASE i = m
      BY <1>1, <1>3, <3>1
    <3>2. CASE i # m
      <4>1. i \in 0 .. (m - 1) /\ g[i] = f[i]
        BY <1>1, <3>2
      <4>2. f[i] = IF i = 0 THEN Accepting("", << >>, {}) ELSE Read(args, f[i - 1], words[i])
        BY <2>2, <4>1 DEF Reads
      <4>3. i # 0 => g[i - 1] = f[i - 1]
        BY <1>1, <3>2
      <4>. QED
        BY <4>1, <4>2, <4>3
    <3>. QED
      BY <3>1, <3>2
  <2>4. g = [i \in 0 .. m |-> IF i = 0 THEN Accepting("", << >>, {}) ELSE Read(args, g[i - 1], words[i])]
    <3>1. \A i \in 0 .. m : g[i] = IF i = 0 THEN Accepting("", << >>, {}) ELSE Read(args, g[i - 1], words[i])
      BY <2>3
    <3>. QED
      BY <3>1
  <2>. QED
    BY <1>1, <2>4 DEF Reads
<1>. QED
  BY <1>2, <1>3

\* An option is the word before, and the value of an option the word after it.
Held(values, words, i) == \A o \in DOMAIN values : \E j \in 2 .. i : words[j - 1] = o /\ words[j] = values[o]
Sourced(read, words, i) ==
    /\ Held(read.values, words, i)
    /\ read.option # "" => i >= 1 /\ words[i] = read.option

LEMMA HeldOn ==
  ASSUME NEW values, NEW words, NEW i \in Nat \ {0}, Held(values, words, i - 1)
  PROVE  Held(values, words, i)
<1>1. ASSUME NEW o \in DOMAIN values
      PROVE  \E j \in 2 .. i : words[j - 1] = o /\ words[j] = values[o]
  <2>1. PICK j \in 2 .. (i - 1) : words[j - 1] = o /\ words[j] = values[o]
    BY DEF Held
  <2>2. j \in 2 .. i
    OBVIOUS
  <2>. QED
    BY <2>1, <2>2
<1>. QED
  BY <1>1 DEF Held

LEMMA HeldValue ==
  ASSUME NEW values, NEW words, NEW i \in Nat \ {0}, Held(values, words, i - 1), i - 1 >= 1
  PROVE  Held([o \in DOMAIN values \cup {words[i - 1]} |-> IF o = words[i - 1] THEN words[i] ELSE values[o]], words, i)
<1>. DEFINE all == [o \in DOMAIN values \cup {words[i - 1]} |-> IF o = words[i - 1] THEN words[i] ELSE values[o]]
<1>1. Held(values, words, i)
  BY HeldOn
<1>2. ASSUME NEW o \in DOMAIN all
      PROVE  \E j \in 2 .. i : words[j - 1] = o /\ words[j] = all[o]
  <2>1. CASE o = words[i - 1]
    <3>1. i \in 2 .. i /\ all[o] = words[i]
      BY <2>1
    <3>. QED
      BY <2>1, <3>1
  <2>2. CASE o # words[i - 1]
    <3>1. o \in DOMAIN values /\ all[o] = values[o]
      BY <2>2
    <3>2. PICK j \in 2 .. i : words[j - 1] = o /\ words[j] = values[o]
      BY <1>1, <3>1 DEF Held
    <3>. QED
      BY <3>1, <3>2
  <2>. QED
    BY <2>1, <2>2
<1>. HIDE DEF all
<1>3. Held(all, words, i)
  BY <1>2 DEF Held
<1>. QED
  BY <1>3 DEF all

LEMMA HeldNone ==
  ASSUME NEW words, NEW i
  PROVE  Held(<< >>, words, i)
<1>1. DOMAIN << >> = {}
  OBVIOUS
<1>. QED
  BY <1>1 DEF Held

LEMMA AcceptingSourced ==
  ASSUME NEW option, NEW values, NEW flags, NEW words, NEW i, Held(values, words, i),
         option # "" => i >= 1 /\ words[i] = option
  PROVE  Sourced(Accepting(option, values, flags), words, i)
<1>1. Accepting(option, values, flags).values = values /\ Accepting(option, values, flags).option = option
  BY DEF Accepting
<1>. QED
  BY Zenon, <1>1 DEF Sourced

LEMMA RefusedSourced ==
  ASSUME NEW words, NEW i
  PROVE  Sourced(Refused, words, i)
<1>1. Refused.values = << >> /\ Refused.option = ""
  BY DEF Refused
<1>2. Held(<< >>, words, i)
  BY HeldNone
<1>. QED
  BY Zenon, <1>1, <1>2 DEF Sourced

\* What one word makes of what was read.
LEMMA OneWord ==
  ASSUME NEW args, NEW far, NEW word
  PROVE  \/ Read(args, far, word) = Refused
         \/ /\ far.option # ""
            /\ Read(args, far, word) = Accepting("", [o \in DOMAIN far.values \cup {far.option} |->
                                              IF o = far.option THEN word ELSE far.values[o]], far.flags)
         \/ far.option = "" /\ Read(args, far, word) = far
         \/ Read(args, far, word) = Accepting("", far.values, far.flags \cup {word})
         \/ Read(args, far, word) = Accepting(word, far.values, far.flags)
BY Zenon DEF Read

LEMMA WordIsSourced ==
  ASSUME NEW args, NEW words, NEW i \in Nat \ {0}, NEW far, Sourced(far, words, i - 1)
  PROVE  Sourced(Read(args, far, words[i]), words, i)
<1>. DEFINE word == words[i]
            values == [o \in DOMAIN far.values \cup {far.option} |-> IF o = far.option THEN word ELSE far.values[o]]
<1>1. Held(far.values, words, i - 1) /\ Held(far.values, words, i)
  BY HeldOn DEF Sourced
<1>2. CASE Read(args, far, word) = Refused
  BY Zenon, <1>2, RefusedSourced
<1>3. CASE far.option # "" /\ Read(args, far, word) = Accepting("", values, far.flags)
  <2>1. i - 1 >= 1 /\ words[i - 1] = far.option
    BY <1>3 DEF Sourced
  <2>2. Held([o \in DOMAIN far.values \cup {words[i - 1]} |-> IF o = words[i - 1] THEN words[i] ELSE far.values[o]], words, i)
    BY <1>1, <2>1, HeldValue
  <2>3. Held(values, words, i)
    BY Zenon, <2>1, <2>2
  <2>. HIDE DEF values
  <2>4. Sourced(Accepting("", values, far.flags), words, i)
    BY <2>3, AcceptingSourced
  <2>. QED
    BY Zenon, <1>3, <2>4
<1>4. CASE far.option = "" /\ Read(args, far, word) = far
  BY <1>1, <1>4 DEF Sourced
<1>5. CASE Read(args, far, word) = Accepting("", far.values, far.flags \cup {word})
  <2>1. Sourced(Accepting("", far.values, far.flags \cup {word}), words, i)
    BY <1>1, AcceptingSourced
  <2>. QED
    BY Zenon, <1>5, <2>1
<1>6. CASE Read(args, far, word) = Accepting(word, far.values, far.flags)
  <2>0. i >= 1 /\ words[i] = word
    OBVIOUS
  <2>1. Sourced(Accepting(word, far.values, far.flags), words, i)
    <3>. HIDE DEF word
    <3>. QED
      BY <1>1, <2>0, AcceptingSourced
  <2>. QED
    BY Zenon, <1>6, <2>1
<1>. QED
  BY <1>2, <1>3, <1>4, <1>5, <1>6, OneWord

LEMMA ReadingIsSourced ==
  ASSUME NEW args, NEW words, NEW n \in Nat, NEW f, Reads(f, args, words, n)
  PROVE  Sourced(f[n], words, n)
<1>. DEFINE S == {m \in 0 .. n : ~Sourced(f[m], words, m)}
<1>. SUFFICES ASSUME S # {}
              PROVE  FALSE
  OBVIOUS
<1>1. PICK m \in S : \A l \in S : m <= l
  <2>1. S \in SUBSET Nat
    OBVIOUS
  <2>. HIDE DEF S
  <2>. QED
    BY <2>1, LeastOf
<1>2. CASE m = 0
  <2>1. f[0] = Accepting("", << >>, {})
    <3>1. 0 \in 0 .. n
      OBVIOUS
    <3>. QED
      BY Zenon, <3>1 DEF Reads
  <2>2. Sourced(Accepting("", << >>, {}), words, 0)
    BY HeldNone, AcceptingSourced
  <2>. QED
    BY <1>1, <1>2, <2>1, <2>2
<1>3. CASE m # 0
  <2>1. m \in Nat \ {0} /\ m - 1 \in 0 .. n /\ m \in 0 .. n
    BY <1>1, <1>3
  <2>2. Sourced(f[m - 1], words, m - 1)
    BY <1>1, <2>1
  <2>3. f[m] = Read(args, f[m - 1], words[m])
    BY <1>3, <2>1 DEF Reads
  <2>. QED
    BY <1>1, <2>1, <2>2, <2>3, WordIsSourced
<1>. QED
  BY <1>2, <1>3

\* What a line of the commands with effects was read as is what it gives.
LEMMA ValuesAreGiven ==
  ASSUME NEW line \in Seq(STRING) \ {<< >>}, Parse(line).ok, line[1] \in DOMAIN Effects,
         NEW o \in DOMAIN Parse(line).values
  PROVE  Gives(line, o, Parse(line).values[o])
<1>. DEFINE words == Tail(line)
            n == Len(words)
            args == Effects[line[1]]
            read == (CHOOSE f : Reads(f, args, words, n))[n]
<1>1. n \in Nat /\ n = Len(line) - 1 /\ \A j \in 1 .. n : words[j] = line[j + 1]
  BY HeadTailProperties, LenProperties
<1>2. Sourced(read, words, n)
  <2>. HIDE DEF args, words, n
  <2>1. \E f : Reads(f, args, words, n)
    BY <1>1, ReadingExists
  <2>2. Reads(CHOOSE f : Reads(f, args, words, n), args, words, n)
    BY <2>1
  <2>. QED
    BY <1>1, <2>2, ReadingIsSourced
<1>3. Parse(line) = read
  <2>1. line[1] # "postgres:migrate"
    BY DEF Effects
  <2>2. Parse(line) = Checked(line[1], ParseNamedArgs(args, words))
    BY <2>1 DEF Parse
  <2>3. ParseNamedArgs(args, words) \in {read, Refused}
    BY ParsedIsRead
  <2>4. Parse(line) \in {read, Refused}
    BY Zenon, <2>2, <2>3 DEF Checked
  <2>5. ~Refused.ok
    BY DEF Refused
  <2>. QED
    BY Zenon, <2>4, <2>5
<1>. HIDE DEF read
<1>4. PICK j \in 2 .. n : words[j - 1] = o /\ words[j] = Parse(line).values[o]
  BY <1>2, <1>3 DEF Sourced, Held
<1>5. j + 1 \in 2 .. Len(line) /\ line[(j + 1) - 1] = o /\ line[j + 1] = Parse(line).values[o]
  <2>1. j \in 1 .. n /\ j - 1 \in 1 .. n
    BY <1>1, <1>4
  <2>2. words[j] = line[j + 1] /\ words[j - 1] = line[(j - 1) + 1]
    BY <1>1, <2>1
  <2>3. (j - 1) + 1 = (j + 1) - 1
    BY <1>1, <1>4
  <2>. QED
    BY <1>1, <1>4, <2>2, <2>3
<1>. QED
  BY <1>5 DEF Gives

-----------------------------------------------------------------------------
(* What is lost.  The command that runs is what the last line ordered, and a *)
(* restore over a file that is there was confirmed before it began.          *)

OnFiles == {"sqlite:backup", "sqlite:restore", "sqlite:export", "sqlite:delete-workspace", "retention:sqlite-cleanup"}

LEMMA GivenByLine ==
  ASSUME NEW line, NEW c, Ordered(c, line), c.name \in OnFiles, NEW o \in DOMAIN c.parsed.values
  PROVE  Gives(line, o, c.parsed.values[o]) /\ c.parsed.values[o] \in Words(line)
<1>1. line[1] \in DOMAIN Effects
  BY DEF Ordered, OnFiles, Effects
<1>2. Gives(line, o, Parse(line).values[o])
  BY <1>1, ValuesAreGiven DEF Ordered
<1>3. PICK i \in 2 .. Len(line) : line[i - 1] = o /\ line[i] = Parse(line).values[o]
  BY <1>2 DEF Gives
<1>4. i \in 1 .. Len(line)
  BY <1>3, LenProperties DEF Ordered
<1>. QED
  BY <1>2, <1>3, <1>4 DEF Ordered, Words

LEMMA ConfirmedByLine ==
  ASSUME NEW line, NEW c, Ordered(c, line), c.name \in OnFiles, NEW text, Confirms(c.parsed, text)
  PROVE  Confirmed(line, text)
BY GivenByLine DEF Confirms, Confirmed

\* The time of a clean-up can be read.
LEMMA TimeIsRead ==
  ASSUME NEW line, NEW c, Ordered(c, line), c.name = "retention:sqlite-cleanup"
  PROVE  Instant[c.parsed.values["--as-of"]] \in DOMAIN IsoText
<1>. DEFINE v == Parse(line).values
            read == ParseNamedArgs(Effects[line[1]], Tail(line))
<1>1. line[1] \in DOMAIN Effects /\ line[1] # "postgres:migrate"
  BY DEF Ordered, Effects
<1>2. "--as-of" \in DOMAIN v
  BY OptionsGiven DEF Ordered
<1>3. Parse(line) = Checked(line[1], read)
  BY <1>1 DEF Parse
<1>. HIDE DEF read
<1>4. Parse(line) = read /\ \A o \in DOMAIN read.values : Valid(o, read.values[o])
  <2>1. (Parse(line) = read /\ \A o \in DOMAIN read.values : Valid(o, read.values[o])) \/ Parse(line) = Refused
    BY Zenon, <1>3 DEF Checked
  <2>2. ~Refused.ok
    BY DEF Refused
  <2>. QED
    BY Zenon, <2>1, <2>2 DEF Ordered
<1>5. Valid("--as-of", v["--as-of"])
  BY <1>2, <1>4
<1>6. v["--as-of"] \in DOMAIN Instant
  BY <1>5 DEF Valid, Free, Scope, Dates
<1>. QED
  BY <1>6, InstantAssumption DEF Ordered

-----------------------------------------------------------------------------
LosesTo(f, p, k) ==
    /\ IsDatabase(files[p]) /\ Present(files[p].db, k)
    /\ ~IsDatabase(f[p]) \/ f[p].db.rows[k] = Absent

LEMMA LossByWrite ==
  ASSUME FilesFit(files), NEW path, NEW file, NEW p \in Paths, NEW k, LosesTo(Written(path, file), p, k)
  PROVE  p = path /\ IsDatabase(files[p]) /\ Present(files[p].db, k) /\ FileAt(files, path) = files[p]
         /\ (~IsDatabase(file) \/ file.db.rows[k] = Absent)
BY DEF FilesFit, Written, LosesTo, FileAt, Present

LEMMA LossByStore ==
  ASSUME FilesFit(files), NEW path, NEW db, NEW p \in Paths, NEW k, LosesTo(Stored(path, db), p, k)
  PROVE  p = path /\ Present(files[p].db, k) /\ db.rows[k] = Absent /\ Opened(At(path)) = files[p].db
<1>. DEFINE file == Changed(At(path), db)
<1>1. Stored(path, db) = Written(path, file)
  BY DEF Stored
<1>2. IsDatabase(file) /\ file.db = db
  BY Kinds DEF Changed, IsDatabase
<1>. HIDE DEF file
<1>3. p = path /\ IsDatabase(files[p]) /\ Present(files[p].db, k) /\ FileAt(files, path) = files[p]
      /\ db.rows[k] = Absent
  BY <1>1, <1>2, LossByWrite
<1>. QED
  BY <1>3, AtIsFileAt DEF Opened, IsDatabase

-----------------------------------------------------------------------------
(* What each kind of step takes away. *)

LEMMA DeletionTakes ==
  ASSUME NEW db, Shaped(db), NEW scope, NEW k \in RowNames, Present(db, k),
         DeleteWorkspace(db, scope).rows[k] = Absent
  PROVE  k[2] = scope
<1>. DEFINE names == UNION {In(db, t, scope) : t \in WorkspaceTables}
<1>2. k \in names
  <2>. HIDE DEF names
  <2>. QED
    BY Erased DEF DeleteWorkspace, Present, names
<1>. QED
  BY <1>2 DEF In

LEMMA CleanupTakes ==
  ASSUME NEW db, Shaped(db), NEW scope, NEW day, NEW k \in RowNames, Present(db, k),
         CleanupRetention(db, scope, day).rows[k] = Absent
  PROVE  k[2] = scope /\ Over(db, k, day)
<1>. DEFINE plans == Expired(db, "schedule_plans", scope, day)
            blocks == UNION {BlockRows(db, scope, p[3]) : p \in plans}
            rest == DeleteExpiredSchedulePlans(db, scope, day)
<1>2. k \in plans \cup blocks \/ k \in Eligible(db, scope, day)
  <2>. DEFINE names == plans \cup blocks
  <2>1. rest = Erase(db, names)
    BY DEF DeleteExpiredSchedulePlans
  <2>. HIDE DEF names, rest
  <2>2. Shaped(rest) /\ (k \notin names => rest.rows[k] = db.rows[k])
    BY <2>1, Erased
  <2>3. k \notin Eligible(db, scope, day) => rest.rows[k] = Absent
    BY <2>2, Erased DEF CleanupRetention, rest
  <2>. QED
    BY <2>2, <2>3 DEF Present, names
<1>3. ASSUME NEW t \in DOMAIN RetentionDays, k \in Expired(db, t, scope, day)
      PROVE  k[2] = scope /\ Over(db, k, day)
  <2>1. k[1] = t /\ k[2] = scope /\ Start(db.rows[k]) < day - RetentionDays[t]
    BY <1>3 DEF Expired, In
  <2>2. t # "time_blocks"
    BY DEF RetentionDays
  <2>. QED
    BY <2>1, <2>2 DEF Over
<1>4. CASE k \in plans
  <2>1. "schedule_plans" \in DOMAIN RetentionDays
    BY DEF RetentionDays
  <2>. QED
    BY <2>1, <1>3, <1>4
<1>5. CASE k \in Eligible(db, scope, day)
  BY <1>3, <1>5 DEF Eligible
<1>6. CASE k \in blocks
  <2>1. PICK p \in plans : k \in BlockRows(db, scope, p[3])
    BY <1>6
  <2>2. k[1] = "time_blocks" /\ k[2] = scope /\ db.rows[k].plan = p[3]
    BY <2>1 DEF BlockRows, In
  <2>3. p \in RowNames /\ p[1] = "schedule_plans" /\ p[2] = scope
        /\ Start(db.rows[p]) < day - RetentionDays["schedule_plans"]
    BY DEF Expired, In
  <2>4. p = <<"schedule_plans", k[2], db.rows[k].plan>>
    BY <2>2, <2>3, NamesAssumption
  <2>5. p[1] \in DOMAIN RetentionDays
    BY <2>3 DEF RetentionDays
  <2>. QED
    BY Zenon, <2>2, <2>3, <2>4, <2>5 DEF Over
<1>. QED
  BY <1>2, <1>4, <1>5, <1>6

-----------------------------------------------------------------------------
\* A restore writes over a file only when that was asked for and confirmed.
LookFits(f, c) == c.todo[1] = "fill" => "--overwrite" \in c.parsed.flags \/ FileAt(f, Target(c)) = NoFile

LEMMA TargetsAreGiven ==
  ASSUME NEW line, NEW c, Ordered(c, line)
  PROVE  /\ c.name = "sqlite:backup" =>
               LET word == c.parsed.values["--backup"]
               IN  Gives(line, "--backup", word) /\ word \in Words(line) /\ Target(c) \in {word, Aside(word)}
         /\ c.name = "sqlite:export" /\ "--output" \in DOMAIN c.parsed.values => Gives(line, "--output", Target(c))
<1>1. ASSUME c.name = "sqlite:backup"
      PROVE  LET word == c.parsed.values["--backup"]
             IN  Gives(line, "--backup", word) /\ word \in Words(line) /\ Target(c) \in {word, Aside(word)}
  <2>1. "--backup" \in DOMAIN c.parsed.values
    BY <1>1, OptionsGiven DEF Ordered
  <2>2. Gives(line, "--backup", c.parsed.values["--backup"]) /\ c.parsed.values["--backup"] \in Words(line)
    BY <1>1, <2>1, GivenByLine DEF OnFiles
  <2>. QED
    BY <1>1, <2>2 DEF Target
<1>2. ASSUME c.name = "sqlite:export", "--output" \in DOMAIN c.parsed.values
      PROVE  Gives(line, "--output", Target(c))
  BY <1>2, GivenByLine DEF OnFiles, Target
<1>. QED
  BY <1>1, <1>2

LEMMA BackupMayLose ==
  ASSUME NEW line, NEW c, Ordered(c, line), c.name = "sqlite:backup",
         NEW p, p \in {c.parsed.values["--backup"], Aside(c.parsed.values["--backup"])}, NEW k
  PROVE  MayLose(line, p, k)
<1>. DEFINE word == c.parsed.values["--backup"]
<1>1. Gives(line, "--backup", word) /\ word \in Words(line)
  BY TargetsAreGiven
<1>2. line[1] = "sqlite:backup"
  BY DEF Ordered
<1>. HIDE DEF word
<1>3. p \in {word, Aside(word)}
  BY DEF word
<1>. QED
  BY <1>1, <1>2, <1>3 DEF MayLose

LEMMA ExportMayLose ==
  ASSUME NEW line, NEW c, Ordered(c, line), c.name = "sqlite:export", "--output" \in DOMAIN c.parsed.values, NEW k
  PROVE  MayLose(line, Target(c), k)
BY TargetsAreGiven DEF MayLose, Ordered

LEMMA RestoreMayLose ==
  ASSUME NEW line, NEW c, Ordered(c, line), c.name = "sqlite:restore", "--overwrite" \in c.parsed.flags, NEW k
  PROVE  MayLose(line, Target(c), k)
<1>. DEFINE v == c.parsed.values
            t == v["--tenant-id"]
            w == v["--workspace-id"]
            i == v["--user-id"]
<1>1. {"--restore", "--tenant-id", "--workspace-id", "--user-id"} \subseteq DOMAIN v
  BY OptionsGiven DEF Ordered, Scope
<1>2. /\ Gives(line, "--tenant-id", t) /\ Gives(line, "--workspace-id", w) /\ Gives(line, "--user-id", i)
      /\ t \in Words(line) /\ w \in Words(line) /\ i \in Words(line)
  BY <1>1, GivenByLine DEF OnFiles
<1>3. Confirms(c.parsed, RestoreOverwriteConfirmation(v))
  BY DEF Ordered, Approved
<1>4. Confirmed(line, RestoreOverwriteConfirmation(v))
  BY <1>3, ConfirmedByLine DEF OnFiles
<1>5. Target(c) = v["--restore"]
  BY DEF Target
<1>6. RestoreOverwriteConfirmation(v) = t \o "/" \o w \o "/" \o i \o "/overwrite/" \o Target(c)
  BY Zenon, <1>5 DEF RestoreOverwriteConfirmation, ScopedConfirmation, Slash
<1>7. line[1] = "sqlite:restore"
  BY DEF Ordered
<1>. HIDE DEF t, w, i, v
<1>8. \E t1, w1, i1 \in Words(line) :
         /\ Gives(line, "--tenant-id", t1) /\ Gives(line, "--workspace-id", w1) /\ Gives(line, "--user-id", i1)
         /\ Confirmed(line, t1 \o "/" \o w1 \o "/" \o i1 \o "/overwrite/" \o Target(c))
  BY Zenon, <1>2, <1>4, <1>6
<1>. QED
  BY Zenon, <1>7, <1>8 DEF MayLose

LEMMA DeletionMayLose ==
  ASSUME NEW line, NEW c, Ordered(c, line), c.name = "sqlite:delete-workspace", NEW p, NEW k,
         k[2] = ScopeOf(c.parsed.values)
  PROVE  MayLose(line, p, k)
<1>1. Confirms(c.parsed, ScopedConfirmation(c.parsed.values))
  BY DEF Ordered, Approved
<1>2. Confirmed(line, k[2])
  BY <1>1, ConfirmedByLine DEF OnFiles, ScopeOf
<1>. QED
  BY <1>2 DEF MayLose, Ordered

LEMMA CleanupMayLose ==
  ASSUME NEW line, NEW c, Ordered(c, line), c.name = "retention:sqlite-cleanup", "--apply" \in c.parsed.flags,
         NEW p, NEW k, k[2] = ScopeOf(c.parsed.values), Over(files[p].db, k, AsOf(c.parsed.values))
  PROVE  MayLose(line, p, k)
<1>. DEFINE v == c.parsed.values
            day == AsOf(v)
<1>1. Confirms(c.parsed, TimedScopedConfirmation(v))
  BY DEF Ordered, Approved
<1>2. Confirmed(line, TimedScopedConfirmation(v))
  BY <1>1, ConfirmedByLine DEF OnFiles
<1>3. TimedScopedConfirmation(v) = k[2] \o "/" \o IsoText[day]
  BY Zenon DEF TimedScopedConfirmation, ScopeOf, AsOf, Slash
<1>4. day \in DOMAIN IsoText
  BY TimeIsRead DEF AsOf
<1>5. line[1] = "retention:sqlite-cleanup" /\ Over(files[p].db, k, day)
  BY DEF Ordered
<1>. HIDE DEF v, day
<1>6. \E d \in DOMAIN IsoText : Confirmed(line, k[2] \o "/" \o IsoText[d]) /\ Over(files[p].db, k, d)
  BY Zenon, <1>2, <1>3, <1>4, <1>5
<1>. QED
  BY Zenon, <1>5, <1>6 DEF MayLose

-----------------------------------------------------------------------------
LEMMA OutcomeLoss ==
  ASSUME FilesFit(files), CommandFits(files, command), LookFits(files, command),
         NEW line, Ordered(command, line), NEW f \in Outcome(command, command.todo[1]),
         NEW p \in Paths, NEW k \in RowNames, LosesTo(f, p, k)
  PROVE  MayLose(line, p, k)
<1>. DEFINE step == command.todo[1]
            v == command.parsed.values
            path == OpenedBy(command)
            opened == At(path)
<1>0. step \in Steps /\ StepFits(command, 1)
  BY First DEF CommandFits
<1>1. Opens(opened) => Shaped(Opened(opened))
  BY OpenedFits, FileAtSound, AtIsFileAt
<1>2. f # files
  BY DEF LosesTo, Present
<1>. HIDE DEF step
<1>3. CASE step = "checkpoint"
  <2>1. f = Stored(path, Opened(opened))
    BY <1>3 DEF Outcome, step
  <2>2. Present(files[p].db, k) /\ Opened(opened).rows[k] = Absent /\ Opened(opened) = files[p].db
    BY <2>1, LossByStore
  <2>. QED
    BY <2>2 DEF Present
<1>4. CASE step = "copy"
  <2>1. PICK file : f = Written(Target(command), file)
    BY <1>4 DEF Outcome, step
  <2>2. p = Target(command) /\ command.name = "sqlite:backup"
    BY <1>0, <1>4, <2>1, LossByWrite DEF StepFits, step
  <2>3. p \in {v["--backup"], Aside(v["--backup"])}
    BY <2>2, TargetsAreGiven
  <2>. QED
    BY <2>2, <2>3, BackupMayLose
<1>5. CASE step \in {"seal", "remove"}
  <2>1. PICK path1 \in {v["--backup"], Aside(v["--backup"])} : \E file : f = Written(path1, file)
    <3>1. CASE step = "seal"
      BY <3>1 DEF Outcome, step
    <3>2. CASE step = "remove"
      BY <3>2 DEF Outcome, step
    <3>. QED
      BY <1>5, <3>1, <3>2
  <2>2. p = path1 /\ command.name = "sqlite:backup"
    BY <1>0, <1>5, <2>1, LossByWrite DEF StepFits, step
  <2>. QED
    BY <2>1, <2>2, BackupMayLose
<1>6. CASE step = "fill"
  <2>1. PICK file : f = Written(Target(command), file)
    BY <1>6 DEF Outcome, step
  <2>2. p = Target(command) /\ IsDatabase(files[p]) /\ FileAt(files, Target(command)) = files[p]
    BY <2>1, LossByWrite
  <2>3. "--overwrite" \in command.parsed.flags
    BY <1>6, <2>2, Kinds DEF LookFits, IsDatabase, step
  <2>. QED
    BY <1>0, <1>6, <2>2, <2>3, RestoreMayLose DEF StepFits, step
<1>7. CASE step = "migrate"
  <2>1. f = Stored(path, ApplyMigrations(Opened(opened))) /\ Opens(opened)
    BY <1>7 DEF Outcome, step
  <2>2. /\ Present(files[p].db, k) /\ Opened(opened) = files[p].db
        /\ ApplyMigrations(Opened(opened)).rows[k] = Absent
    BY <2>1, LossByStore
  <2>3. ApplyMigrations(files[p].db).rows = files[p].db.rows
    BY <1>1, <2>1, <2>2, MigrationsFollow
  <2>. QED
    BY <2>2, <2>3 DEF Present
<1>8. CASE step = "delete"
  <2>1. f = Stored(path, DeleteWorkspace(Opened(opened), ScopeOf(v))) /\ Opens(opened)
    BY <1>8 DEF Outcome, step
  <2>2. /\ Present(files[p].db, k) /\ Opened(opened) = files[p].db
        /\ DeleteWorkspace(Opened(opened), ScopeOf(v)).rows[k] = Absent
    BY <2>1, LossByStore
  <2>3. k[2] = ScopeOf(v)
    BY <1>1, <2>1, <2>2, DeletionTakes
  <2>. QED
    BY <1>0, <1>8, <2>3, DeletionMayLose DEF StepFits, step
<1>9. CASE step = "clean"
  <2>1. f = Stored(path, CleanupRetention(Opened(opened), ScopeOf(v), AsOf(v))) /\ Opens(opened)
    BY <1>9 DEF Outcome, step
  <2>2. /\ Present(files[p].db, k) /\ Opened(opened) = files[p].db
        /\ CleanupRetention(Opened(opened), ScopeOf(v), AsOf(v)).rows[k] = Absent
    BY <2>1, LossByStore
  <2>3. k[2] = ScopeOf(v) /\ Over(files[p].db, k, AsOf(v))
    BY <1>1, <2>1, <2>2, CleanupTakes
  <2>. QED
    BY <1>0, <1>9, <2>3, CleanupMayLose DEF StepFits, step
<1>10. CASE step = "write"
  <2>1. PICK file : f = Written(Target(command), file)
    BY <1>10 DEF Outcome, step
  <2>2. p = Target(command)
    BY <2>1, LossByWrite
  <2>. QED
    BY <1>0, <1>10, <2>2, ExportMayLose DEF StepFits, step
<1>11. CASE step \in {"look", "connect", "export", "count", "load", "run", "end"}
  BY <1>2, <1>11 DEF Outcome, step
<1>. QED
  BY <1>0, <1>3, <1>4, <1>5, <1>6, <1>7, <1>8, <1>9, <1>10, <1>11 DEF Steps

LEMMA BrokenLoss ==
  ASSUME FilesFit(files), CommandFits(files, command), LookFits(files, command),
         NEW line, Ordered(command, line), NEW f \in Broken(command, command.todo[1]),
         NEW p \in Paths, NEW k \in RowNames, LosesTo(f, p, k)
  PROVE  MayLose(line, p, k)
<1>. DEFINE step == command.todo[1]
            v == command.parsed.values
<1>0. step \in Steps /\ StepFits(command, 1)
  BY First DEF CommandFits
<1>1. f # files
  BY DEF LosesTo, Present
<1>. HIDE DEF step
<1>2. CASE step \in {"copy", "fill", "write"}
  <2>1. f = Written(Target(command), Damaged)
    BY <1>1, <1>2 DEF Broken, step
  <2>2. p = Target(command) /\ IsDatabase(files[p]) /\ FileAt(files, Target(command)) = files[p]
    BY <2>1, LossByWrite
  <2>3. CASE step = "copy"
    <3>1. command.name = "sqlite:backup"
      BY <1>0, <2>3 DEF StepFits, step
    <3>2. p \in {v["--backup"], Aside(v["--backup"])}
      BY <2>2, <3>1, TargetsAreGiven
    <3>. QED
      BY <3>1, <3>2, BackupMayLose
  <2>4. CASE step = "fill"
    <3>1. "--overwrite" \in command.parsed.flags
      BY <2>2, <2>4, Kinds DEF LookFits, IsDatabase, step
    <3>. QED
      BY <1>0, <2>2, <2>4, <3>1, RestoreMayLose DEF StepFits, step
  <2>5. CASE step = "write"
    BY <1>0, <2>2, <2>5, ExportMayLose DEF StepFits, step
  <2>. QED
    BY <1>2, <2>3, <2>4, <2>5
<1>3. CASE step = "seal"
  <2>1. f = Written(v["--backup"], Damaged)
    BY <1>1, <1>3 DEF Broken, step
  <2>2. p = v["--backup"] /\ command.name = "sqlite:backup"
    BY <1>0, <1>3, <2>1, LossByWrite DEF StepFits, step
  <2>. QED
    BY <2>2, BackupMayLose
<1>4. CASE step \notin {"copy", "fill", "write", "seal"}
  BY <1>1, <1>4 DEF Broken, step
<1>. QED
  BY <1>2, <1>3, <1>4

-----------------------------------------------------------------------------
(* The invariant, and the steps. *)

LossInv(typed) ==
    /\ ConsoleInv
    /\ ResultFits(typed)
    /\ command # Idle => Ordered(command, result.line) /\ LookFits(files, command)

LEMMA LineStays ==
  ASSUME NEW typed, ResultFits(typed), NEW todo, NEW failed, Continue(todo, failed)
  PROVE  result'.line = result.line
<1>. DEFINE exit == IF failed THEN 1 ELSE 0
<1>1. result' = [result EXCEPT !.exit = exit]
  BY DEF Continue
<1>. HIDE DEF exit
<1>. QED
  BY <1>1 DEF ResultFits

LEMMA LossStep ==
  ASSUME NEW CONSTANT typed, LossInv(typed), Step
  PROVE  LossInv(typed)'
<1>. DEFINE step == command.todo[1]
<1>0. command # Idle /\ CommandFits(files, command) /\ FilesFit(files) /\ Ordered(command, result.line)
  BY DEF LossInv, ConsoleInv, Step
<1>1. Head(command.todo) = step
  BY <1>0, First DEF CommandFits
<1>2. files' \in Outcome(command, step) /\ Continue(Tail(command.todo), command.failed)
  BY <1>1 DEF Step
<1>3. ConsoleInv' /\ ResultFits(typed)' /\ result'.line = result.line
  BY <1>2, StepKeeps, ResultContinues, LineStays DEF LossInv
<1>4. ASSUME command' # Idle
      PROVE  Ordered(command', result'.line) /\ LookFits(files', command')
  <2>1. /\ command'.name = command.name /\ command'.parsed = command.parsed
        /\ StepFits(command, 2) /\ command'.todo[1] = command.todo[2]
    BY <1>0, <1>2, <1>4, RestFits
  <2>2. Ordered(command', result'.line)
    BY <1>0, <1>3, <2>1 DEF Ordered
  <2>3. ASSUME command'.todo[1] = "fill"
        PROVE  "--overwrite" \in command'.parsed.flags \/ FileAt(files', Target(command')) = NoFile
    <3>1. step = "look"
      BY <2>1, <2>3 DEF StepFits, After
    <3>2. files' = files /\ (At(Target(command)) = NoFile \/ "--overwrite" \in command.parsed.flags)
      BY <1>2, <3>1 DEF Outcome
    <3>3. Target(command') = Target(command)
      BY <2>1 DEF Target
    <3>. QED
      BY <2>1, <3>2, <3>3, AtIsFileAt
  <2>. QED
    BY <2>2, <2>3 DEF LookFits
<1>. QED
  BY <1>3, <1>4 DEF LossInv

LEMMA LossFailure ==
  ASSUME NEW CONSTANT typed, LossInv(typed), ConsoleInv', command # Idle,
         Continue(Finally(command.todo[1], command.parsed), TRUE)
  PROVE  LossInv(typed)'
<1>1. CommandFits(files, command) /\ Ordered(command, result.line)
  BY DEF LossInv, ConsoleInv
<1>2. ResultFits(typed)' /\ result'.line = result.line
  BY ResultContinues, LineStays DEF LossInv
<1>3. ASSUME command' # Idle
      PROVE  Ordered(command', result'.line) /\ LookFits(files', command')
  <2>1. command'.parsed = command.parsed /\ command'.name = command.name /\ command'.todo[1] \in {"end", "remove"}
    BY <1>1, <1>3, FailureFits
  <2>. QED
    BY <1>1, <1>2, <2>1 DEF Ordered, LookFits
<1>. QED
  BY <1>2, <1>3 DEF LossInv

\* A call of the application makes no file where there is none.
LEMMA LossCall ==
  ASSUME NEW CONSTANT typed, LossInv(typed), Call
  PROVE  LossInv(typed)'
<1>1. ConsoleInv' /\ UNCHANGED <<command, result>> /\ FilesFit(files)
  BY CallKeeps DEF LossInv, ConsoleInv, Call
<1>4. FileAt(files, Live) # NoFile
  BY <1>1, CallStores, Kinds DEF IsDatabase
<1>2. \E file : files' = Written(Live, file) /\ Sound(file)
  BY <1>1, CallStores
<1>3. ASSUME NEW q, FileAt(files, q) = NoFile
      PROVE  FileAt(files', q) = NoFile
  BY <1>1, <1>2, <1>3, <1>4, SparesOthers
<1>. QED
  BY <1>1, <1>3 DEF LossInv, ResultFits, LookFits

LEMMA LossNext ==
  ASSUME NEW CONSTANT typed, Typable(typed), LossInv(typed), [Next]_vars
  PROVE  LossInv(typed)'
<1>0. ConsoleInv'
  BY ConsoleStep DEF LossInv
<1>1. CASE Type
  <2>1. command' = Idle \/ command'.todo[1] \in {"checkpoint", "look", "migrate", "connect", "load"}
    BY <1>1, Begun
  <2>2. ResultFits(typed)' /\ (command' = Idle \/ Ordered(command', result'.line))
    BY <1>1, OrderedByLine DEF LossInv
  <2>. QED
    BY <1>0, <2>1, <2>2 DEF LossInv, LookFits
<1>2. CASE Step
  BY <1>2, LossStep
<1>3. CASE StepFails \/ Disturbed
  <2>1. command # Idle /\ Head(command.todo) = command.todo[1]
    BY <1>3, First DEF StepFails, Disturbed, LossInv, ConsoleInv, CommandFits
  <2>. QED
    BY <1>0, <1>3, <2>1, LossFailure DEF StepFails, Disturbed
<1>4. CASE Call
  BY <1>4, LossCall
<1>5. CASE UNCHANGED vars
  BY <1>0, <1>5 DEF LossInv, ResultFits, LookFits, vars
<1>. QED
  BY <1>1, <1>2, <1>3, <1>4, <1>5 DEF Next

LEMMA LossIsMeant ==
  ASSUME NEW typed, LossInv(typed), [Next]_vars, command' # command,
         NEW p \in Paths, NEW k \in RowNames, Loses(p, k)
  PROVE  MayLose(result.line, p, k)
<1>0. LosesTo(files', p, k) /\ files' # files
  BY DEF Loses, LosesTo, Present
<1>1. CASE Step \/ Disturbed
  <2>1. /\ command # Idle /\ CommandFits(files, command) /\ FilesFit(files)
        /\ Ordered(command, result.line) /\ LookFits(files, command)
    BY <1>1 DEF LossInv, ConsoleInv, Step, Disturbed
  <2>2. Head(command.todo) = command.todo[1]
    BY <2>1, First DEF CommandFits
  <2>3. files' \in Outcome(command, command.todo[1]) \/ files' \in Broken(command, command.todo[1])
    BY <1>1, <2>2 DEF Step, Disturbed
  <2>. QED
    BY <1>0, <2>1, <2>3, OutcomeLoss, BrokenLoss
<1>2. CASE Type \/ StepFails
  BY <1>0, <1>2 DEF Type, StepFails
<1>3. CASE Call
  BY <1>3 DEF Call
<1>4. CASE UNCHANGED vars
  BY <1>4 DEF vars
<1>. QED
  BY <1>1, <1>2, <1>3, <1>4 DEF Next

\* For all lines that can be typed, whatever fails: a row that a command takes from a
\* database was given up by the words of its line (requireDestructiveConfirmation in the
\* commands that delete, clean up and restore; restoreSqliteDatabase with its look at the
\* target).
THEOREM DestructionConfirmedHolds ==
  ASSUME NEW CONSTANT typed, Typable(typed)
  PROVE  Spec => DestructionConfirmed
<1>1. Init => LossInv(typed)
  <2>. SUFFICES ASSUME Init
                PROVE  LossInv(typed)
    OBVIOUS
  <2>1. ConsoleInv /\ command = Idle
    BY FilesAssumption DEF Init, ConsoleInv, FilesFit, BesideFits
  <2>2. result = [line |-> << >>, exit |-> 0, shown |-> << >>, commands |-> {}]
    BY DEF Init, Came
  <2>. QED
    BY <2>1, <2>2 DEF LossInv, ResultFits
<1>2. LossInv(typed) /\ [Next]_vars => LossInv(typed)'
  BY LossNext
<1>3. LossInv(typed) /\ [Next]_vars =>
         [command' # command => \A p \in Paths, k \in RowNames : Loses(p, k) => MayLose(result.line, p, k)]_vars
  BY LossIsMeant
<1>. QED
  BY <1>1, <1>2, <1>3, PTL DEF Spec, DestructionConfirmed
=============================================================================
