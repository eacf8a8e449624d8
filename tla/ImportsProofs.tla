---------------------------- MODULE ImportsProofs ----------------------------
(***************************************************************************)
(* What the answer of an import is worth, for every request, number of     *)
(* rows, crash and failed write: its counts are right, and what it called  *)
(* imported stays.                                                         *)
(***************************************************************************)
EXTENDS Imports, FiniteSetTheorems, TLAPS

\* The item of a report is in a store, and its audit event is.
Backed(store, a) ==
  /\ store.items[a.key] # Absent
  /\ store.items[a.key].by >= a.by
  /\ a.key[2] = "tasks" => store.items[a.key].created = a.created
Evidenced(store, a) == a.audit # Absent => \E e \in store.audit : e.id = a.audit /\ e.by >= a.by

\* The audit event of a ConnectOS row is written after the loop over the rows.
Pending(a) ==
  /\ serving.request.kind = "connectos" /\ serving.stage # "answer"
  /\ \E n \in DOMAIN Evidence : /\ Evidence[n] = a.audit
                                /\ serving.stage = "log" => n >= serving.i

\* What the finished requests have answered, and what this one is going to.
AnsweredHold ==
  \A a \in answered :
    /\ a.by <= requests
    /\ Backed(memory, a) /\ Evidenced(memory, a)
    /\ Backed(disk, a) /\ Evidenced(disk, a)
ImportedHold ==
  serving # Idle =>
    \A a \in serving.imported :
      /\ a.by <= requests
      /\ Backed(memory, a) /\ Backed(disk, a)
      /\ Pending(a) \/ (Evidenced(memory, a) /\ Evidenced(disk, a))

\* Between the two writes of a task only the process can die.
TaskInHand ==
  InLoop("audit") =>
    /\ InTasks /\ serving.i <= Len(serving.request.rows)
    /\ memory.items[Current] # Absent /\ memory.items[Current].by = requests
Stages ==
  serving # Idle => /\ serving.stage \in {"cancel", "log"} => ~InTasks
                    /\ serving.stage = "row" => serving.i <= Len(serving.request.rows) + 1

\* The counts so far, and by how many the scope has outgrown them.
Finite == \A s \in Scope : IsFiniteSet(Held(memory, s)) /\ IsFiniteSet(Held(disk, s))
Rows == IF serving.stage \in {"row", "audit"} THEN serving.i - 1 ELSE Len(serving.request.rows)
Unreported == IF serving.stage = "audit" /\ ~serving.found THEN 1 ELSE 0
Surplus ==
  Cardinality(Held(memory, serving.request.scope)) - Unreported
    - (Cardinality(serving.before) + serving.created - Len(serving.gone))
Counts ==
  serving # Idle =>
    /\ IsFiniteSet(serving.before)
    /\ serving.created + serving.updated + serving.errors = Rows
    /\ Surplus \in 0..serving.errors
    /\ serving.clean => Surplus = 0

IInv ==
  /\ TypeOK
  /\ AnsweredHold /\ ImportedHold /\ TaskInHand /\ Stages
  /\ Finite /\ Counts

-----------------------------------------------------------------------------
(* The store. *)

LEMMA PutFacts ==
  ASSUME NEW store \in Store, NEW key \in Key, NEW item \in Item \union {Absent}
  PROVE  /\ Put(store, key, item) \in Store
         /\ Put(store, key, item).audit = store.audit
         /\ Put(store, key, item).items[key] = item
         /\ \A k \in Key \ {key} : Put(store, key, item).items[k] = store.items[k]
BY DEF Put, Store

LEMMA AppendedFacts ==
  ASSUME NEW store \in Store, NEW id \in AuditId, NEW scope \in Scope, requests \in Number
  PROVE  /\ Appended(store, id, scope) \in Store
         /\ Appended(store, id, scope).items = store.items
         /\ \E e \in Appended(store, id, scope).audit : e.id = id /\ e.by = requests
         /\ \A e \in store.audit : e.id # id => e \in Appended(store, id, scope).audit
<1>. DEFINE entry == [id |-> id, scope |-> scope, by |-> requests]
            audit == {e \in store.audit : e.id # id} \union {entry}
<1>1. entry \in [id : AuditId, scope : Scope, by : Number] /\ entry.id = id /\ entry.by = requests
  OBVIOUS
<1>2. Appended(store, id, scope) = [store EXCEPT !.audit = audit]
  BY DEF Appended
<1>3. audit \in SUBSET [id : AuditId, scope : Scope, by : Number]
  BY <1>1 DEF Store
<1>4. entry \in audit /\ \A e \in store.audit : e.id # id => e \in audit
  OBVIOUS
<1>. HIDE DEF audit, entry
<1>5. Appended(store, id, scope) \in Store /\ Appended(store, id, scope).items = store.items
      /\ Appended(store, id, scope).audit = audit
  BY <1>2, <1>3 DEF Store
<1>. QED BY <1>1, <1>4, <1>5

\* A report keeps its item when another item is written, or its own by a later request.
LEMMA PutBacks ==
  ASSUME NEW store \in Store, NEW key \in Key, NEW item \in Item, NEW a \in Report,
         Backed(store, a), a.by <= item.by,
         key[2] = "tasks" /\ store.items[key] # Absent => item.created = store.items[key].created
  PROVE  Backed(Put(store, key, item), a)
<1>1. a.key \in Key /\ item # Absent
  BY AbsentAssumption DEF Report
<1>2. CASE a.key = key
  BY <1>1, <1>2, PutFacts DEF Backed
<1>3. CASE a.key # key
  BY <1>1, <1>3, PutFacts DEF Backed
<1>. QED BY <1>2, <1>3

LEMMA RemovalBacks ==
  ASSUME NEW store \in Store, NEW key \in Key, NEW a \in Report, Backed(store, a), a.key # key
  PROVE  Backed(Put(store, key, Absent), a)
<1>1. a.key \in Key \ {key}
  BY DEF Report
<1>. QED BY <1>1, PutFacts DEF Backed

LEMMA PutEvidences ==
  ASSUME NEW store \in Store, NEW key \in Key, NEW item \in Item \union {Absent}, NEW a,
         Evidenced(store, a)
  PROVE  Evidenced(Put(store, key, item), a)
BY PutFacts DEF Evidenced

\* An audit event is replaced only by a later one of the same id.
LEMMA AppendedEvidences ==
  ASSUME NEW store \in Store, NEW id \in AuditId, NEW scope \in Scope, requests \in Number,
         NEW a \in Report, a.by <= requests, Evidenced(store, a) \/ a.audit = id
  PROVE  Evidenced(Appended(store, id, scope), a)
<1>1. CASE a.audit = id
  BY <1>1, AppendedFacts DEF Evidenced
<1>2. CASE a.audit # id
  BY <1>2, AppendedFacts DEF Evidenced
<1>. QED BY <1>1, <1>2

LEMMA AppendedBacks ==
  ASSUME NEW store \in Store, NEW id \in AuditId, NEW scope \in Scope, requests \in Number,
         NEW a, Backed(store, a)
  PROVE  Backed(Appended(store, id, scope), a)
BY AppendedFacts DEF Backed

\* The items of a scope after one of them is written or deleted, and of the others.
LEMMA HeldAfterPut ==
  ASSUME NEW store \in Store, NEW key \in Key, NEW item \in Item \union {Absent},
         NEW s \in Scope, IsFiniteSet(Held(store, s))
  PROVE  /\ IsFiniteSet(Held(Put(store, key, item), s))
         /\ Cardinality(Held(store, s)) \in Nat
         /\ Cardinality(Held(Put(store, key, item), s)) =
              Cardinality(Held(store, s))
                + (IF key[1] = s /\ store.items[key] = Absent /\ item # Absent THEN 1 ELSE 0)
                - (IF key[1] = s /\ store.items[key] # Absent /\ item = Absent THEN 1 ELSE 0)
<1>. DEFINE before == Held(store, s)
            after == Held(Put(store, key, item), s)
<1>1. key \in before <=> key[1] = s /\ store.items[key] # Absent
  BY DEF Held
<1>2. key \in after <=> key[1] = s /\ item # Absent
  BY PutFacts DEF Held
<1>3. \A k : k # key => (k \in after <=> k \in before)
  BY PutFacts DEF Held
<1>. HIDE DEF before, after
<1>4. IsFiniteSet(before) /\ Cardinality(before) \in Nat
  BY FS_CardinalityType DEF before
<1>5. /\ IsFiniteSet(before \union {key})
      /\ Cardinality(before \union {key}) = IF key \in before THEN Cardinality(before) ELSE Cardinality(before) + 1
  BY <1>4, FS_AddElement
<1>6. /\ IsFiniteSet(before \ {key})
      /\ Cardinality(before \ {key}) = IF key \in before THEN Cardinality(before) - 1 ELSE Cardinality(before)
  BY <1>4, FS_RemoveElement
<1>7. CASE key \in after
  <2>1. after = before \union {key}
    BY <1>3, <1>7
  <2>2. IsFiniteSet(after) /\ Cardinality(after) = IF key \in before THEN Cardinality(before) ELSE Cardinality(before) + 1
    BY <2>1, <1>5
  <2>. QED BY <2>2, <1>1, <1>2, <1>4, <1>7 DEF before, after
<1>8. CASE key \notin after
  <2>1. after = before \ {key}
    BY <1>3, <1>8
  <2>2. IsFiniteSet(after) /\ Cardinality(after) = IF key \in before THEN Cardinality(before) - 1 ELSE Cardinality(before)
    BY <2>1, <1>6
  <2>. QED BY <2>2, <1>1, <1>2, <1>4, <1>8 DEF before, after
<1>. QED BY <1>7, <1>8

LEMMA HeldAfterAppended ==
  ASSUME NEW store \in Store, NEW id \in AuditId, NEW scope \in Scope, requests \in Number, NEW s
  PROVE  Held(Appended(store, id, scope), s) = Held(store, s)
BY AppendedFacts DEF Held

-----------------------------------------------------------------------------
(* The request under way. *)

LEMMA RequestFacts ==
  ASSUME NEW r \in Request
  PROVE  /\ r.kind \in Kind /\ r.scope \in Scope /\ r.rows \in Seq(Row) /\ r.cancelled \in Seq(External)
         /\ r.kind # "tasks" => \A i \in 1..Len(r.rows) : r.rows[i].valid
         /\ r.kind # "ics" => r.cancelled = <<>>
         /\ Len(r.rows) \in Nat /\ Len(r.cancelled) \in Nat
BY RequestAssumption

LEMMA KeyOfFacts ==
  ASSUME NEW r \in Request, NEW x \in External
  PROVE  KeyOf(r, x) \in Key /\ KeyOf(r, x)[1] = r.scope /\ KeyOf(r, x)[2] = Origin(r.kind)
<1>1. Origin(r.kind) \in Source /\ IdOf[x] \in Id /\ r.scope \in Scope
  BY RequestFacts DEF Origin, Source, Kind, Id
<1>. QED BY <1>1 DEF KeyOf, Key

LEMMA CurrentFacts ==
  ASSUME TypeOK, serving # Idle, serving.i <= Len(serving.request.rows)
  PROVE  /\ ThisRow \in Row /\ Current \in Key
         /\ Current[1] = serving.request.scope /\ Current[2] = Origin(serving.request.kind)
<1>1. serving.request \in Request /\ serving.i \in Nat \ {0}
  BY DEF TypeOK, Serving
<1>2. serving.request.rows \in Seq(Row) /\ Len(serving.request.rows) \in Nat
  BY <1>1, RequestFacts
<1>3. ThisRow \in Row
  BY <1>1, <1>2 DEF ThisRow
<1>4. ThisRow.external \in External
  BY <1>3 DEF Row
<1>. QED BY <1>1, <1>3, <1>4, KeyOfFacts DEF Current

LEMMA RequestsAreNumbers ==
  ASSUME TypeOK, serving # Idle
  PROVE  requests \in Number /\ requests \in Nat /\ serving \in Serving
BY BoundAssumption DEF TypeOK, Number

LEMMA AuditIds ==
  ASSUME NEW key \in Key
  PROVE  /\ \A updated : ImportAudit(key, updated) \in AuditId
         /\ requests \in Number =>
              \A action \in {"guidance", "imported", "changed"} : TimedAudit(key, action) \in AuditId
BY DEF Key, ImportAudit, TimedAudit, AuditId

\* The audit events that follow the rows.
LEMMA EvidenceFacts ==
  ASSUME TypeOK, serving # Idle
  PROVE  /\ Evidence \in Seq(AuditId)
         /\ serving.request.kind = "connectos" =>
              /\ Len(Evidence) = Len(serving.request.rows)
              /\ \A n \in 1..Len(Evidence) :
                   Evidence[n] = TimedAudit(KeyOf(serving.request, serving.request.rows[n].external),
                                            EventAction(serving.known[n]))
<1>. DEFINE r == serving.request
            E(n) == TimedAudit(KeyOf(r, r.rows[n].external), EventAction(serving.known[n]))
<1>1. r \in Request /\ r.rows \in Seq(Row) /\ DOMAIN r.rows = 1..Len(r.rows) /\ Len(r.rows) \in Nat
      /\ serving.gone \in Seq(Key) /\ requests \in Number
  BY RequestsAreNumbers, RequestFacts DEF Serving
<1>2. CASE r.kind = "ics"
  <2>1. Evidence = [n \in 1..Len(serving.gone) |-> TimedAudit(serving.gone[n], "changed")]
    BY <1>1, <1>2 DEF Evidence
  <2>2. \A n \in 1..Len(serving.gone) : TimedAudit(serving.gone[n], "changed") \in AuditId
    BY <1>1, AuditIds
  <2>. QED BY <2>1, <2>2, <1>1, <1>2
<1>3. CASE r.kind # "ics"
  <2>1. Evidence = [n \in 1..Len(r.rows) |-> E(n)]
    BY <1>1, <1>3 DEF Evidence
  <2>2. \A n \in 1..Len(r.rows) : E(n) \in AuditId
    <3>. TAKE n \in 1..Len(r.rows)
    <3>1. r.rows[n] \in Row
      BY <1>1
    <3>2. r.rows[n].external \in External
      BY <3>1 DEF Row
    <3>3. KeyOf(r, r.rows[n].external) \in Key
      BY <1>1, <3>2, KeyOfFacts
    <3>4. EventAction(serving.known[n]) \in {"guidance", "imported", "changed"}
      BY DEF EventAction
    <3>. QED BY <1>1, <3>3, <3>4, AuditIds
  <2>. HIDE DEF E
  <2>3. Evidence \in Seq(AuditId) /\ Len(Evidence) = Len(r.rows)
    BY <1>1, <2>1, <2>2
  <2>4. \A n \in 1..Len(Evidence) : Evidence[n] = E(n)
    BY <2>1, <2>3
  <2>. QED BY <2>3, <2>4 DEF E
<1>. QED BY <1>2, <1>3

\* What one turn of a loop does to its variables.
SameCourse(s, t) == t.request = s.request /\ t.known = s.known /\ t.before = s.before
SameCounts(s, t) ==
  t.created = s.created /\ t.updated = s.updated /\ t.errors = s.errors /\ t.clean = s.clean

LEMMA TurnFacts ==
  ASSUME NEW s \in Serving
  PROVE  /\ Turn(s) \in Serving /\ SameCourse(s, Turn(s)) /\ SameCounts(s, Turn(s))
         /\ Turn(s).i = s.i + 1 /\ Turn(s).stage = "row" /\ Turn(s).found = FALSE
         /\ Turn(s).imported = s.imported /\ Turn(s).gone = s.gone
<1>. DEFINE one == [s EXCEPT !.i = s.i + 1]
            two == [one EXCEPT !.stage = "row"]
            three == [two EXCEPT !.found = FALSE]
<1>1. one \in Serving /\ SameCourse(s, one) /\ SameCounts(s, one) /\ one.i = s.i + 1
      /\ one.imported = s.imported /\ one.gone = s.gone
  BY DEF Serving, SameCourse, SameCounts
<1>. HIDE DEF one
<1>2. two \in Serving /\ SameCourse(one, two) /\ SameCounts(one, two) /\ two.i = one.i /\ two.stage = "row"
      /\ two.imported = one.imported /\ two.gone = one.gone
  BY <1>1 DEF Serving, SameCourse, SameCounts, Stage
<1>. HIDE DEF two
<1>3. three \in Serving /\ SameCourse(two, three) /\ SameCounts(two, three) /\ three.i = two.i
      /\ three.stage = two.stage /\ three.found = FALSE
      /\ three.imported = two.imported /\ three.gone = two.gone
  BY <1>2 DEF Serving, SameCourse, SameCounts
<1>. HIDE DEF three
<1>4. Turn(s) = three
  BY Zenon DEF Turn, one, two, three
<1>. QED BY <1>1, <1>2, <1>3, <1>4 DEF SameCourse, SameCounts

LEMMA CaughtFacts ==
  ASSUME NEW s \in Serving
  PROVE  /\ Caught(s) \in Serving /\ SameCourse(s, Caught(s))
         /\ Caught(s).created = s.created /\ Caught(s).updated = s.updated
         /\ Caught(s).errors = s.errors + 1 /\ Caught(s).clean = FALSE
         /\ Caught(s).i = s.i + 1 /\ Caught(s).stage = "row" /\ Caught(s).found = FALSE
         /\ Caught(s).imported = s.imported /\ Caught(s).gone = s.gone
<1>. DEFINE turn == Turn(s)
            errors == turn.errors + 1
            one == [turn EXCEPT !.errors = errors]
            two == [one EXCEPT !.clean = FALSE]
<1>1. /\ turn \in Serving /\ SameCourse(s, turn) /\ SameCounts(s, turn)
      /\ turn.i = s.i + 1 /\ turn.stage = "row" /\ turn.found = FALSE
      /\ turn.imported = s.imported /\ turn.gone = s.gone
  BY TurnFacts
<1>. HIDE DEF turn
<1>2. errors \in Nat
  BY <1>1 DEF Serving
<1>. HIDE DEF errors
<1>3. /\ one \in Serving /\ SameCourse(turn, one) /\ one.errors = errors
      /\ one.created = turn.created /\ one.updated = turn.updated
      /\ one.i = turn.i /\ one.stage = turn.stage /\ one.found = turn.found
      /\ one.imported = turn.imported /\ one.gone = turn.gone
  BY <1>1, <1>2 DEF Serving, SameCourse
<1>. HIDE DEF one
<1>4. /\ two \in Serving /\ SameCourse(one, two) /\ two.errors = one.errors /\ two.clean = FALSE
      /\ two.created = one.created /\ two.updated = one.updated
      /\ two.i = one.i /\ two.stage = one.stage /\ two.found = one.found
      /\ two.imported = one.imported /\ two.gone = one.gone
  BY <1>3 DEF Serving, SameCourse
<1>. HIDE DEF two
<1>6. Caught(s) = two
  BY Zenon DEF Caught, turn, errors, one, two
<1>. QED BY <1>1, <1>3, <1>4, <1>6 DEF errors, SameCourse, SameCounts

LEMMA CountedFacts ==
  ASSUME NEW s \in Serving, NEW updated \in BOOLEAN
  PROVE  /\ Counted(s, updated) \in Serving /\ SameCourse(s, Counted(s, updated))
         /\ Counted(s, updated).created = IF updated THEN s.created ELSE s.created + 1
         /\ Counted(s, updated).updated = IF updated THEN s.updated + 1 ELSE s.updated
         /\ Counted(s, updated).errors = s.errors /\ Counted(s, updated).clean = s.clean
         /\ Counted(s, updated).i = s.i /\ Counted(s, updated).stage = s.stage
         /\ Counted(s, updated).imported = s.imported /\ Counted(s, updated).gone = s.gone
<1>. DEFINE created == IF updated THEN s.created ELSE s.created + 1
            refreshed == IF updated THEN s.updated + 1 ELSE s.updated
            one == [s EXCEPT !.created = created]
            two == [one EXCEPT !.updated = refreshed]
<1>1. created \in Nat /\ refreshed \in Nat
  BY DEF Serving
<1>2. Counted(s, updated) = [[s EXCEPT !.created = created] EXCEPT !.updated = IF updated THEN one.updated + 1 ELSE one.updated]
  BY Zenon DEF Counted, created, one
<1>. HIDE DEF created, refreshed
<1>3. /\ one \in Serving /\ SameCourse(s, one) /\ one.created = created /\ one.updated = s.updated
      /\ one.errors = s.errors /\ one.clean = s.clean /\ one.i = s.i /\ one.stage = s.stage
      /\ one.imported = s.imported /\ one.gone = s.gone
  BY <1>1, SMTT(60) DEF Serving, SameCourse
<1>4. Counted(s, updated) = two
  BY <1>2, <1>3 DEF refreshed, two, one
<1>. HIDE DEF one
<1>5. /\ two \in Serving /\ SameCourse(one, two) /\ two.created = one.created /\ two.updated = refreshed
      /\ two.errors = one.errors /\ two.clean = one.clean /\ two.i = one.i /\ two.stage = one.stage
      /\ two.imported = one.imported /\ two.gone = one.gone
  BY <1>1, <1>3 DEF Serving, SameCourse
<1>. HIDE DEF two
<1>. QED BY <1>3, <1>4, <1>5 DEF SameCourse, created, refreshed

LEMMA ReportedFacts ==
  ASSUME NEW s \in Serving, NEW key \in Key, NEW created \in Number,
         NEW audit \in AuditId \union {Absent}, requests \in Number
  PROVE  LET a == [key |-> key, by |-> requests, created |-> created, audit |-> audit]
             t == Reported(s, key, created, audit)
         IN  /\ a \in Report /\ a.key = key /\ a.by = requests /\ a.created = created /\ a.audit = audit
             /\ t \in Serving /\ SameCourse(s, t) /\ SameCounts(s, t)
             /\ t.i = s.i /\ t.stage = s.stage /\ t.gone = s.gone
             /\ t.imported = s.imported \union {a}
<1>. DEFINE a == [key |-> key, by |-> requests, created |-> created, audit |-> audit]
            t == Reported(s, key, created, audit)
<1>1. a \in Report /\ a.key = key /\ a.by = requests /\ a.created = created /\ a.audit = audit
  BY DEF Report
<1>2. t = [s EXCEPT !.imported = @ \union {a}]
  BY DEF Reported
<1>. HIDE DEF a, t
<1>3. s.imported \union {a} \in SUBSET Report
  BY <1>1 DEF Serving
<1>4. /\ t \in Serving /\ SameCourse(s, t) /\ SameCounts(s, t)
      /\ t.i = s.i /\ t.stage = s.stage /\ t.gone = s.gone
      /\ t.imported = s.imported \union {a}
  BY <1>2, <1>3 DEF Serving, SameCourse, SameCounts
<1>. QED BY <1>1, <1>4 DEF a, t

\* The audit events to come do not change while they are not written.
LEMMA PendingStays ==
  ASSUME TypeOK, serving # Idle, NEW a, Pending(a),
         SameCourse(serving, serving'), requests' = requests, serving'.stage # "answer",
         serving'.stage = "log" => \/ serving.stage = "log" /\ serving'.i = serving.i
                                   \/ serving.stage # "log" /\ serving'.i = 1
  PROVE  Pending(a)'
<1>1. serving.request.kind = "connectos" /\ serving'.request = serving.request /\ serving'.known = serving.known
  BY DEF Pending, SameCourse
<1>2. Evidence' = Evidence
  BY <1>1 DEF Evidence, TimedAudit
<1>3. PICK n \in DOMAIN Evidence : Evidence[n] = a.audit /\ (serving.stage = "log" => n >= serving.i)
  BY DEF Pending
<1>4. n \in Nat /\ n >= 1
  BY <1>3, EvidenceFacts
<1>5. serving'.stage = "log" => n >= serving'.i
  BY <1>3, <1>4
<1>. QED BY <1>1, <1>2, <1>3, <1>5 DEF Pending

LEMMA CurrentFixed ==
  ASSUME serving'.request = serving.request, serving'.i = serving.i
  PROVE  Current' = Current
BY DEF Current, ThisRow, KeyOf

\* A step that leaves the store alone and goes on with the request or ends it.
LEMMA QuietStep ==
  ASSUME IInv, UNCHANGED <<memory, disk, requests, faults, answered>>,
         \/ serving' = Idle
         \/ /\ serving # Idle /\ serving' \in Serving /\ SameCourse(serving, serving')
            /\ serving'.imported \subseteq serving.imported
            /\ \A a \in serving'.imported : Pending(a) => Pending(a)'
  PROVE  TypeOK' /\ AnsweredHold' /\ ImportedHold' /\ Finite'
<1>1. TypeOK'
  BY DEF IInv, TypeOK, SameCourse
<1>2. AnsweredHold'
  BY DEF IInv, AnsweredHold, Backed, Evidenced
<1>3. ImportedHold'
  <2>. SUFFICES ASSUME serving' # Idle, NEW a \in serving'.imported
                PROVE  /\ a.by <= requests /\ Backed(memory, a)' /\ Backed(disk, a)'
                       /\ Pending(a)' \/ (Evidenced(memory, a)' /\ Evidenced(disk, a)')
    BY DEF ImportedHold
  <2>1. serving # Idle /\ a \in serving.imported /\ (Pending(a) => Pending(a)')
    OBVIOUS
  <2>2. /\ a.by <= requests /\ Backed(memory, a) /\ Backed(disk, a)
        /\ Pending(a) \/ (Evidenced(memory, a) /\ Evidenced(disk, a))
    BY <2>1 DEF IInv, ImportedHold
  <2>. QED BY <2>1, <2>2 DEF Backed, Evidenced
<1>4. Finite'
  BY DEF IInv, Finite, Held
<1>. QED BY <1>1, <1>2, <1>3, <1>4

\* A write, successful or not, while no request begins.
LEMMA WriteStep ==
  ASSUME IInv, NEW store \in Store, NEW done \in Serving \union {Idle},
         NEW failed \in Serving \union {Idle}, Write(store, done, failed),
         requests' = requests, answered' \subseteq answered,
         \A t \in {done, failed} : t # Idle => serving # Idle /\ SameCourse(serving, t),
         \A a \in answered' : Backed(store, a) /\ Evidenced(store, a),
         \A s \in Scope : IsFiniteSet(Held(store, s))
  PROVE  /\ TypeOK' /\ AnsweredHold' /\ Finite' /\ memory' = store
         /\ \/ disk' = store /\ serving' = done
            \/ disk' = disk /\ serving' = failed
<1>1. /\ memory' = store
      /\ \/ disk' = store /\ serving' = done
         \/ disk' = disk /\ serving' = failed
  BY DEF Write
<1>2. faults' \in 0..MaxFaults
  BY BoundAssumption DEF Write, IInv, TypeOK
<1>3. TypeOK'
  <2>1. serving' \in Serving \union {Idle} /\ (serving' # Idle => serving # Idle /\ SameCourse(serving, serving'))
    BY <1>1
  <2>2. serving' # Idle => requests' > 0 /\ Len(serving'.known) = Len(serving'.request.rows)
    BY <2>1 DEF IInv, TypeOK, SameCourse
  <2>. QED BY <1>1, <1>2, <2>1, <2>2 DEF IInv, TypeOK
<1>4. AnsweredHold'
  <2>. SUFFICES ASSUME NEW a \in answered'
                PROVE  /\ a.by <= requests' /\ Backed(memory, a)' /\ Evidenced(memory, a)'
                       /\ Backed(disk, a)' /\ Evidenced(disk, a)'
    BY DEF AnsweredHold
  <2>1. a.by <= requests /\ Backed(disk, a) /\ Evidenced(disk, a)
    BY DEF IInv, AnsweredHold
  <2>2. Backed(store, a) /\ Evidenced(store, a)
    OBVIOUS
  <2>. QED BY <1>1, <2>1, <2>2 DEF Backed, Evidenced
<1>5. Finite'
  <2>1. \A s \in Scope : IsFiniteSet(Held(disk, s)) /\ IsFiniteSet(Held(store, s))
    BY DEF IInv, Finite
  <2>. QED BY <1>1, <2>1 DEF Finite, Held
<1>. QED BY <1>1, <1>3, <1>4, <1>5

\* What is reported so far is kept by a write that keeps it in memory.
LEMMA WriteKeepsImported ==
  ASSUME IInv, serving # Idle, NEW a \in serving.imported,
         Backed(memory, a)', memory' = disk' \/ disk' = disk,
         Evidenced(memory, a) => Evidenced(memory, a)', requests' = requests,
         Pending(a) => Pending(a)' \/ (Evidenced(memory, a)' /\ disk' = memory')
  PROVE  /\ a.by <= requests' /\ Backed(memory, a)' /\ Backed(disk, a)'
         /\ Pending(a)' \/ (Evidenced(memory, a)' /\ Evidenced(disk, a)')
<1>1. /\ a.by <= requests /\ Backed(disk, a)
      /\ Pending(a) \/ (Evidenced(memory, a) /\ Evidenced(disk, a))
  BY DEF IInv, ImportedHold
<1>2. Backed(disk, a)'
  BY <1>1 DEF Backed
<1>3. Evidenced(memory, a)' /\ (disk' = memory' \/ Evidenced(disk, a)) => Evidenced(disk, a)'
  BY DEF Evidenced
<1>. QED BY <1>1, <1>2, <1>3

-----------------------------------------------------------------------------
(* The rows. *)

\* Each row is counted under one head.
LEMMA OneMoreRow ==
  ASSUME NEW c \in Nat, NEW u \in Nat, NEW e \in Nat, NEW i \in Nat, c + u + e = i - 1
  PROVE  (c + 1) + u + e = i /\ c + (u + 1) + e = i /\ c + u + (e + 1) = i
OBVIOUS

LEMMA RejectRowHolds ==
  ASSUME IInv, RejectRow
  PROVE  IInv'
<1>. DEFINE turn == Turn(serving)
<1>1. /\ TypeOK /\ serving # Idle /\ serving.stage = "row" /\ serving \in Serving
      /\ serving.i <= Len(serving.request.rows) /\ serving.i \in Nat \ {0}
      /\ UNCHANGED <<memory, disk, requests, faults, answered>>
      /\ serving' = [turn EXCEPT !.errors = turn.errors + 1]
  BY RequestsAreNumbers DEF IInv, RejectRow, InLoop, Serving
<1>2. /\ turn \in Serving /\ SameCourse(serving, turn) /\ SameCounts(serving, turn)
      /\ turn.i = serving.i + 1 /\ turn.stage = "row" /\ turn.found = FALSE
      /\ turn.imported = serving.imported /\ turn.gone = serving.gone
  BY <1>1, TurnFacts
<1>. HIDE DEF turn
<1>3. turn.errors + 1 \in Nat
  BY <1>2 DEF Serving
<1>4. /\ serving' \in Serving /\ SameCourse(turn, serving') /\ serving'.errors = turn.errors + 1
      /\ serving'.created = turn.created /\ serving'.updated = turn.updated /\ serving'.clean = turn.clean
      /\ serving'.i = turn.i /\ serving'.stage = turn.stage
      /\ serving'.imported = turn.imported /\ serving'.gone = turn.gone
  BY <1>1, <1>2, <1>3 DEF Serving, SameCourse
<1>5. /\ SameCourse(serving, serving') /\ serving'.errors = serving.errors + 1
      /\ serving'.created = serving.created /\ serving'.updated = serving.updated
      /\ serving'.clean = serving.clean /\ serving'.i = serving.i + 1 /\ serving'.stage = "row"
      /\ serving'.imported = serving.imported /\ serving'.gone = serving.gone
  BY <1>2, <1>4 DEF SameCourse, SameCounts
<1>6. TypeOK' /\ AnsweredHold' /\ ImportedHold' /\ Finite'
  <2>1. \A a \in serving'.imported : Pending(a) => Pending(a)'
    BY <1>1, <1>5, PendingStays
  <2>. QED BY <2>1, <1>1, <1>4, <1>5, QuietStep
<1>7. TaskInHand' /\ Stages'
  <2>1. serving.i + 1 <= Len(serving.request.rows) + 1
    BY <1>1, RequestFacts DEF Serving
  <2>. QED BY <2>1, <1>5 DEF TaskInHand, InLoop, Stages, SameCourse
<1>8. Counts'
  <2>1. /\ Surplus' = Surplus /\ Rows = serving.i - 1 /\ Rows' = serving'.i - 1
    BY <1>1, <1>5 DEF Surplus, Unreported, Rows, SameCourse, Held
  <2>2. /\ serving.created + serving.updated + serving.errors = serving.i - 1
        /\ Surplus \in 0..serving.errors /\ (serving.clean => Surplus = 0) /\ IsFiniteSet(serving.before)
    BY <1>1, <2>1 DEF IInv, Counts
  <2>3. serving.created \in Nat /\ serving.updated \in Nat /\ serving.errors \in Nat
    BY <1>1 DEF Serving
  <2>4. serving'.created + serving'.updated + serving'.errors = serving'.i - 1
    <3>1. serving.created + serving.updated + (serving.errors + 1) = serving.i
      BY <2>2, <2>3, <1>1, OneMoreRow
    <3>. QED BY <3>1, <1>1, <1>5
  <2>5. Surplus' \in 0..serving'.errors
    BY <2>1, <2>2, <2>3, <1>5
  <2>. QED BY <2>1, <2>2, <2>4, <2>5, <1>5 DEF Counts, SameCourse
<1>. QED BY <1>6, <1>7, <1>8 DEF IInv

LEMMA MissTaskHolds ==
  ASSUME IInv, MissTask
  PROVE  IInv'
<1>1. UNCHANGED <<memory, disk, requests, faults, answered>> /\ serving' = Idle
  BY DEF MissTask
<1>2. TypeOK' /\ AnsweredHold' /\ ImportedHold' /\ Finite'
  BY <1>1, QuietStep
<1>. QED BY <1>1, <1>2 DEF IInv, TaskInHand, InLoop, Stages, Counts

LEMMA SaveTaskHolds ==
  ASSUME IInv, SaveTask
  PROVE  IInv'
<1>. DEFINE key == Current
            item == Saved(memory.items[key])
            store == Put(memory, key, item)
            done == [serving EXCEPT !.stage = "audit", !.found = Found]
            failed == IF serving.request.kind = "tasks" THEN Caught(serving) ELSE Idle
<1>1. /\ TypeOK /\ serving # Idle /\ serving.stage = "row" /\ serving \in Serving /\ InTasks
      /\ serving.i <= Len(serving.request.rows) /\ serving.i \in Nat \ {0}
      /\ requests' = requests /\ answered' = answered /\ requests \in Number
      /\ memory \in Store /\ serving.request \in Request
  BY RequestsAreNumbers DEF IInv, SaveTask, InLoop, Serving, TypeOK
<1>2. Write(store, done, failed)
  BY Zenon DEF SaveTask, store, item, key, done, failed
<1>3. key \in Key /\ key[1] = serving.request.scope /\ serving.request.scope \in Scope
  BY <1>1, CurrentFacts, RequestFacts
<1>4. (Found <=> memory.items[key] # Absent) /\ Found \in BOOLEAN
  BY DEF Found
<1>. HIDE DEF key
<1>5. /\ item \in Item /\ item.by = requests /\ item # Absent
      /\ memory.items[key] # Absent => item.created = memory.items[key].created
  BY <1>1, <1>3, AbsentAssumption DEF Saved, Item, Store
<1>. HIDE DEF item
<1>6. store \in Store /\ store.items[key] = item
  BY <1>1, <1>3, <1>5, PutFacts
<1>7. \A a \in Report : /\ a.by <= requests /\ Backed(memory, a) => Backed(store, a)
                        /\ Evidenced(memory, a) => Evidenced(store, a)
  BY <1>1, <1>3, <1>5, PutBacks, PutEvidences
<1>8. \A s \in Scope :
        /\ IsFiniteSet(Held(store, s)) /\ Cardinality(Held(memory, s)) \in Nat
        /\ s = serving.request.scope =>
             Cardinality(Held(store, s)) = Cardinality(Held(memory, s)) + (IF Found THEN 0 ELSE 1)
  <2>. TAKE s \in Scope
  <2>1. IsFiniteSet(Held(memory, s))
    BY DEF IInv, Finite
  <2>2. /\ IsFiniteSet(Held(store, s)) /\ Cardinality(Held(memory, s)) \in Nat
        /\ Cardinality(Held(store, s)) =
             Cardinality(Held(memory, s))
               + (IF key[1] = s /\ memory.items[key] = Absent /\ item # Absent THEN 1 ELSE 0)
               - (IF key[1] = s /\ memory.items[key] # Absent /\ item = Absent THEN 1 ELSE 0)
    BY <2>1, <1>1, <1>3, <1>5, HeldAfterPut
  <2>. QED BY <2>2, <1>3, <1>4, <1>5
<1>. HIDE DEF store
<1>9. /\ done \in Serving /\ SameCourse(serving, done) /\ SameCounts(serving, done)
      /\ done.i = serving.i /\ done.stage = "audit" /\ done.found = Found
      /\ done.imported = serving.imported /\ done.gone = serving.gone
  <2>. DEFINE one == [serving EXCEPT !.stage = "audit"]
  <2>1. /\ one \in Serving /\ SameCourse(serving, one) /\ SameCounts(serving, one)
        /\ one.i = serving.i /\ one.stage = "audit"
        /\ one.imported = serving.imported /\ one.gone = serving.gone
    BY <1>1 DEF Serving, Stage, SameCourse, SameCounts
  <2>2. done = [one EXCEPT !.found = Found]
    BY Zenon
  <2>. HIDE DEF one, done
  <2>. QED BY <1>4, <2>1, <2>2 DEF Serving, SameCourse, SameCounts
<1>10. failed # Idle =>
         /\ failed \in Serving /\ SameCourse(serving, failed)
         /\ failed.created = serving.created /\ failed.updated = serving.updated
         /\ failed.errors = serving.errors + 1 /\ failed.clean = FALSE
         /\ failed.i = serving.i + 1 /\ failed.stage = "row"
         /\ failed.imported = serving.imported /\ failed.gone = serving.gone
  BY <1>1, CaughtFacts
<1>. HIDE DEF done, failed
<1>11. /\ TypeOK' /\ AnsweredHold' /\ Finite' /\ memory' = store
       /\ \/ disk' = store /\ serving' = done
          \/ disk' = disk /\ serving' = failed
  <2>1. \A a \in answered' : Backed(store, a) /\ Evidenced(store, a)
    BY <1>1, <1>7 DEF IInv, AnsweredHold, TypeOK
  <2>2. failed \in Serving \union {Idle}
    BY <1>10
  <2>. QED BY <2>1, <2>2, <1>1, <1>2, <1>6, <1>8, <1>9, <1>10, WriteStep
<1>12. serving' # Idle =>
         /\ SameCourse(serving, serving') /\ serving'.imported = serving.imported
         /\ serving'.stage # "answer" /\ serving'.stage # "log" /\ serving'.gone = serving.gone
  BY <1>9, <1>10, <1>11
<1>13. ImportedHold'
  <2>. SUFFICES ASSUME serving' # Idle, NEW a \in serving'.imported
                PROVE  /\ a.by <= requests' /\ Backed(memory, a)' /\ Backed(disk, a)'
                       /\ Pending(a)' \/ (Evidenced(memory, a)' /\ Evidenced(disk, a)')
    BY DEF ImportedHold
  <2>1. a \in serving.imported /\ a \in Report
    BY <1>1, <1>12 DEF Serving
  <2>2. Pending(a) => Pending(a)'
    BY <1>1, <1>12, PendingStays
  <2>3. Backed(memory, a)'
    <3>1. a.by <= requests /\ Backed(memory, a)
      BY <1>1, <2>1 DEF IInv, ImportedHold
    <3>2. Backed(store, a)
      BY <3>1, <2>1, <1>7
    <3>. QED BY <3>2, <1>11 DEF Backed
  <2>4. Evidenced(memory, a) => Evidenced(memory, a)'
    <3>1. Evidenced(memory, a) => Evidenced(store, a)
      BY <2>1, <1>7
    <3>. QED BY <3>1, <1>11 DEF Evidenced
  <2>. QED BY <2>1, <2>2, <2>3, <2>4, <1>1, <1>11, WriteKeepsImported
<1>14. TaskInHand'
  <2>. SUFFICES ASSUME serving' # Idle, serving'.stage = "audit" PROVE TaskInHand'
    BY DEF TaskInHand, InLoop
  <2>1. serving' = done
    BY <1>10, <1>11
  <2>2. serving'.request = serving.request /\ serving'.i = serving.i
    BY <2>1, <1>9 DEF SameCourse
  <2>3. Current' = key
    BY <2>2, CurrentFixed DEF key
  <2>4. memory'.items[key] = item
    BY <1>6, <1>11
  <2>. QED BY <2>2, <2>3, <2>4, <1>1, <1>5 DEF TaskInHand, InTasks
<1>15. Stages'
  <2>1. Len(serving.request.rows) \in Nat
    BY <1>1, RequestFacts
  <2>. QED BY <2>1, <1>1, <1>9, <1>10, <1>11 DEF Stages, SameCourse
<1>16. Counts'
  <2>. SUFFICES ASSUME serving' # Idle PROVE Counts'
    BY DEF Counts
  <2>1. /\ serving.created \in Nat /\ serving.updated \in Nat /\ serving.errors \in Nat
        /\ Len(serving.gone) \in Nat
    BY <1>1 DEF Serving
  <2>2. PICK s : s = serving.request.scope
    OBVIOUS
  <2>3. PICK b, n : b = Cardinality(serving.before) /\ n = Cardinality(Held(memory, s))
    OBVIOUS
  <2>4. /\ IsFiniteSet(serving.before) /\ b \in Nat /\ n \in Nat
        /\ serving.created + serving.updated + serving.errors = serving.i - 1
        /\ n - (b + serving.created - Len(serving.gone)) \in 0..serving.errors
        /\ serving.clean => n - (b + serving.created - Len(serving.gone)) = 0
    <3>1. IsFiniteSet(serving.before)
      BY <1>1 DEF IInv, Counts
    <3>2. b \in Nat /\ n \in Nat
      BY <3>1, <2>2, <2>3, <1>3, <1>8, FS_CardinalityType
    <3>3. Rows = serving.i - 1 /\ Surplus = n - (b + serving.created - Len(serving.gone))
      BY <3>2, <2>1, <2>2, <2>3, <1>1 DEF Rows, Surplus, Unreported
    <3>. QED BY <3>1, <3>2, <3>3, <1>1 DEF IInv, Counts
  <2>5. /\ serving'.request.scope = s /\ serving'.before = serving.before
        /\ Cardinality(Held(memory', s)) = n + (IF Found THEN 0 ELSE 1)
    BY <1>3, <1>8, <1>11, <1>12, <2>2, <2>3 DEF SameCourse
  <2>6. Surplus' = Cardinality(Held(memory', s)) - Unreported'
                     - (b + serving'.created - Len(serving'.gone))
    BY <2>3, <2>5 DEF Surplus, Held
  <2>7. CASE serving' = done
    <3>1. Unreported' = (IF Found THEN 0 ELSE 1) /\ Rows' = serving.i - 1
      BY <2>7, <1>9 DEF Unreported, Rows
    <3>2. Surplus' = n - (b + serving.created - Len(serving.gone))
      BY <3>1, <2>1, <2>4, <2>5, <2>6, <2>7, <1>9 DEF SameCounts
    <3>. QED BY <3>1, <3>2, <2>4, <2>5, <2>7, <1>9 DEF Counts, SameCounts
  <2>8. CASE serving' = failed
    <3>0. /\ serving'.created = serving.created /\ serving'.updated = serving.updated
          /\ serving'.errors = serving.errors + 1 /\ serving'.clean = FALSE
          /\ serving'.i = serving.i + 1 /\ serving'.stage = "row" /\ serving'.gone = serving.gone
      BY <2>8, <1>10
    <3>1. Unreported' = 0 /\ Rows' = serving.i
      BY <3>0, <1>1 DEF Unreported, Rows
    <3>2. Surplus' = n - (b + serving.created - Len(serving.gone)) + (IF Found THEN 0 ELSE 1)
      <4>1. Surplus' = (n + (IF Found THEN 0 ELSE 1)) - 0 - (b + serving.created - Len(serving.gone))
        BY <3>0, <3>1, <2>5, <2>6
      <4>2. PICK x, c, g : x = (IF Found THEN 0 ELSE 1) /\ c = serving.created /\ g = Len(serving.gone)
        OBVIOUS
      <4>3. x \in Nat /\ c \in Nat /\ g \in Nat /\ b \in Nat /\ n \in Nat
        BY <4>2, <2>1, <2>4
      <4>4. (n + x) - 0 - (b + c - g) = n - (b + c - g) + x
        BY <4>3
      <4>. QED BY <4>1, <4>2, <4>4
    <3>3. Surplus' \in 0..serving.errors + 1
      BY <3>2, <2>1, <2>4
    <3>4. serving'.created + serving'.updated + serving'.errors = serving.i
      <4>1. serving.created + serving.updated + (serving.errors + 1) = serving.i
        <5>1. serving.i \in Nat /\ serving.created + serving.updated + serving.errors = serving.i - 1
          BY <1>1, <2>4
        <5>. QED BY <5>1, <2>1, OneMoreRow
      <4>. QED BY <3>0, <4>1
    <3>. QED BY <3>0, <3>1, <3>3, <3>4, <2>4, <2>5 DEF Counts
  <2>. QED BY <2>7, <2>8, <1>11
<1>. QED BY <1>11, <1>13, <1>14, <1>15, <1>16 DEF IInv

LEMMA CountsFacts ==
  ASSUME IInv, serving # Idle
  PROVE  /\ IsFiniteSet(serving.before) /\ Cardinality(serving.before) \in Nat
         /\ Cardinality(Held(memory, serving.request.scope)) \in Nat
         /\ serving.created \in Nat /\ serving.updated \in Nat /\ serving.errors \in Nat
         /\ Len(serving.gone) \in Nat /\ serving.i \in Nat \ {0} /\ Unreported \in {0, 1}
         /\ serving.created + serving.updated + serving.errors = Rows
         /\ (serving.created + 1) + serving.updated + serving.errors = Rows + 1
         /\ serving.created + (serving.updated + 1) + serving.errors = Rows + 1
         /\ serving.created + serving.updated + (serving.errors + 1) = Rows + 1
         /\ Surplus \in 0..serving.errors /\ (serving.clean => Surplus = 0)
<1>1. serving \in Serving /\ serving.request.scope \in Scope
  BY RequestFacts DEF IInv, TypeOK, Serving
<1>2. IsFiniteSet(serving.before) /\ IsFiniteSet(Held(memory, serving.request.scope))
  BY <1>1 DEF IInv, Counts, Finite
<1>3. Cardinality(serving.before) \in Nat /\ Cardinality(Held(memory, serving.request.scope)) \in Nat
  BY <1>2, FS_CardinalityType
<1>4. /\ serving.created \in Nat /\ serving.updated \in Nat /\ serving.errors \in Nat
      /\ Len(serving.gone) \in Nat /\ serving.i \in Nat \ {0}
  BY <1>1 DEF Serving
<1>5. PICK c, u, e, n : c = serving.created /\ u = serving.updated /\ e = serving.errors /\ n = Rows
  OBVIOUS
<1>6. c \in Nat /\ u \in Nat /\ e \in Nat /\ c + u + e = n
  BY <1>4, <1>5 DEF IInv, Counts
<1>7. (c + 1) + u + e = n + 1 /\ c + (u + 1) + e = n + 1 /\ c + u + (e + 1) = n + 1
  BY <1>6
<1>. QED BY <1>2, <1>3, <1>4, <1>5, <1>6, <1>7 DEF IInv, Counts, Unreported

\* A step that lets the scope outgrow the counts by no more than it reports as errors.
LEMMA CountsStep ==
  ASSUME IInv, serving # Idle, SameCourse(serving, serving'), serving' \in Serving,
         NEW grown \in {0 - 1, 0, 1}, NEW x \in {0, 1},
         Cardinality(Held(memory', serving.request.scope)) =
           Cardinality(Held(memory, serving.request.scope)) + grown,
         grown - Unreported' - serving'.created + Len(serving'.gone) =
           x - Unreported - serving.created + Len(serving.gone),
         serving'.errors >= serving.errors + x,
         serving'.clean => x = 0 /\ serving.clean,
         serving'.created + serving'.updated + serving'.errors = Rows'
  PROVE  Counts'
<1>1. /\ IsFiniteSet(serving.before) /\ Cardinality(serving.before) \in Nat
      /\ Cardinality(Held(memory, serving.request.scope)) \in Nat
      /\ serving.created \in Nat /\ serving.errors \in Nat
      /\ Len(serving.gone) \in Nat /\ Unreported \in {0, 1}
      /\ Surplus \in 0..serving.errors /\ (serving.clean => Surplus = 0)
  BY CountsFacts
<1>2. /\ serving'.created \in Nat /\ serving'.errors \in Nat /\ Len(serving'.gone) \in Nat
      /\ Unreported' \in {0, 1}
  BY DEF Serving, Unreported
<1>3. PICK n, b, u, c, g, s, uu, cc, gg, ss, nn :
        /\ n = Cardinality(Held(memory, serving.request.scope)) /\ b = Cardinality(serving.before)
        /\ u = Unreported /\ c = serving.created /\ g = Len(serving.gone) /\ s = Surplus
        /\ uu = Unreported' /\ cc = serving'.created /\ gg = Len(serving'.gone) /\ ss = Surplus'
        /\ nn = Cardinality(Held(memory', serving.request.scope))
  OBVIOUS
<1>4. s = n - u - (b + c - g)
  BY <1>3 DEF Surplus
<1>5. ss = nn - uu - (b + cc - gg)
  <2>1. serving'.request.scope = serving.request.scope /\ serving'.before = serving.before
    BY DEF SameCourse
  <2>. QED BY <2>1, <1>3 DEF Surplus, Held
<1>6. ss = s + x
  <2>1. nn = n + grown /\ grown - uu - cc + gg = x - u - c + g
    BY <1>3
  <2>2. n \in Nat /\ b \in Nat /\ c \in Nat /\ g \in Nat /\ cc \in Nat /\ gg \in Nat
        /\ u \in {0, 1} /\ uu \in {0, 1}
    BY <1>1, <1>2, <1>3
  <2>. QED BY <2>1, <2>2, <1>4, <1>5
<1>7. Surplus' \in 0..serving'.errors /\ (serving'.clean => Surplus' = 0)
  <2>1. PICK e, ee : e = serving.errors /\ ee = serving'.errors
    OBVIOUS
  <2>2. e \in Nat /\ ee \in Nat /\ s \in 0..e /\ ee >= e + x /\ ss = s + x
    BY <2>1, <1>1, <1>2, <1>3, <1>6
  <2>3. ss \in 0..ee
    BY <2>2
  <2>4. serving'.clean => ss = 0
    BY <1>1, <1>3, <1>6
  <2>. QED BY <2>1, <2>3, <2>4, <1>3
<1>. QED BY <1>1, <1>7 DEF Counts, SameCourse

LEMMA AuditTaskHolds ==
  ASSUME IInv, AuditTask
  PROVE  IInv'
<1>. DEFINE r == serving.request
            id == IF r.kind = "tasks" THEN ImportAudit(Current, serving.found)
                  ELSE TimedAudit(Current, "guidance")
            store == Appended(memory, id, r.scope)
            created == memory.items[Current].created
            new == [key |-> Current, by |-> requests, created |-> created, audit |-> id]
            done == Turn(Counted(Reported(serving, Current, created, id), serving.found))
            failed == IF r.kind = "tasks" THEN Caught(serving) ELSE Idle
<1>1. /\ TypeOK /\ serving # Idle /\ serving.stage = "audit" /\ serving \in Serving /\ InTasks
      /\ serving.i <= Len(serving.request.rows) /\ serving.found \in BOOLEAN
      /\ requests' = requests /\ answered' = answered /\ requests \in Number
      /\ memory \in Store /\ serving.request \in Request
      /\ memory.items[Current] # Absent /\ memory.items[Current].by = requests
  BY RequestsAreNumbers DEF IInv, AuditTask, InLoop, Serving, TypeOK, TaskInHand
<1>2. Write(store, done, failed)
  BY Zenon DEF AuditTask, store, id, done, failed, created, r
<1>3. Current \in Key /\ r.scope \in Scope
  BY <1>1, CurrentFacts, RequestFacts
<1>4. id \in AuditId
  BY <1>1, <1>3, AuditIds
<1>5. created \in Number
  BY <1>1, <1>3 DEF Store, Item
<1>. HIDE DEF id, created
<1>6. /\ done \in Serving /\ SameCourse(serving, done)
      /\ done.created = (IF serving.found THEN serving.created ELSE serving.created + 1)
      /\ done.updated = (IF serving.found THEN serving.updated + 1 ELSE serving.updated)
      /\ done.errors = serving.errors /\ done.clean = serving.clean
      /\ done.i = serving.i + 1 /\ done.stage = "row" /\ done.gone = serving.gone
      /\ done.imported = serving.imported \union {new}
      /\ new \in Report /\ new.key = Current /\ new.by = requests /\ new.created = created /\ new.audit = id
  <2>. DEFINE one == Reported(serving, Current, created, id)
              two == Counted(one, serving.found)
  <2>1. /\ new \in Report /\ new.key = Current /\ new.by = requests /\ new.created = created /\ new.audit = id
        /\ one \in Serving /\ SameCourse(serving, one) /\ SameCounts(serving, one)
        /\ one.i = serving.i /\ one.stage = serving.stage /\ one.gone = serving.gone
        /\ one.imported = serving.imported \union {new}
    BY <1>1, <1>3, <1>4, <1>5, ReportedFacts
  <2>. HIDE DEF one, new
  <2>2. /\ two \in Serving /\ SameCourse(one, two)
        /\ two.created = (IF serving.found THEN one.created ELSE one.created + 1)
        /\ two.updated = (IF serving.found THEN one.updated + 1 ELSE one.updated)
        /\ two.errors = one.errors /\ two.clean = one.clean
        /\ two.i = one.i /\ two.imported = one.imported /\ two.gone = one.gone
    BY <1>1, <2>1, CountedFacts
  <2>3. done = Turn(two)
    BY DEF one
  <2>. HIDE DEF two, done
  <2>4. /\ done \in Serving /\ SameCourse(two, done) /\ SameCounts(two, done)
        /\ done.i = two.i + 1 /\ done.stage = "row"
        /\ done.imported = two.imported /\ done.gone = two.gone
    BY <2>2, <2>3, TurnFacts
  <2>. QED BY <2>1, <2>2, <2>4 DEF SameCourse, SameCounts
<1>7. failed # Idle =>
         /\ failed \in Serving /\ SameCourse(serving, failed)
         /\ failed.created = serving.created /\ failed.updated = serving.updated
         /\ failed.errors = serving.errors + 1 /\ failed.clean = FALSE
         /\ failed.i = serving.i + 1 /\ failed.stage = "row"
         /\ failed.imported = serving.imported /\ failed.gone = serving.gone
  BY <1>1, CaughtFacts
<1>. HIDE DEF done, failed, new
<1>8. store \in Store /\ store.items = memory.items /\ \A s : Held(store, s) = Held(memory, s)
  BY <1>1, <1>3, <1>4, AppendedFacts, HeldAfterAppended
<1>9. /\ \A a \in Report : a.by <= requests /\ (Evidenced(memory, a) \/ a.audit = id) => Evidenced(store, a)
      /\ \A a : Backed(memory, a) => Backed(store, a)
  BY <1>1, <1>3, <1>4, AppendedEvidences, AppendedBacks
<1>. HIDE DEF store
<1>10. /\ TypeOK' /\ AnsweredHold' /\ Finite' /\ memory' = store
       /\ \/ disk' = store /\ serving' = done
          \/ disk' = disk /\ serving' = failed
  <2>1. \A a \in answered' : Backed(store, a) /\ Evidenced(store, a)
    BY <1>1, <1>9 DEF IInv, AnsweredHold, TypeOK
  <2>2. failed \in Serving \union {Idle}
    BY <1>7
  <2>3. \A s \in Scope : IsFiniteSet(Held(store, s))
    BY <1>8 DEF IInv, Finite
  <2>. QED BY <2>1, <2>2, <2>3, <1>1, <1>2, <1>6, <1>7, <1>8, WriteStep
<1>11. serving' # Idle =>
         /\ SameCourse(serving, serving') /\ serving'.stage = "row" /\ serving'.gone = serving.gone
         /\ serving'.i = serving.i + 1
  BY <1>6, <1>7, <1>10
<1>12. ASSUME serving' # Idle, NEW a \in serving.imported
       PROVE  /\ a.by <= requests' /\ Backed(memory, a)' /\ Backed(disk, a)'
              /\ Pending(a)' \/ (Evidenced(memory, a)' /\ Evidenced(disk, a)')
  <2>1. a \in Report /\ a.by <= requests
    BY <1>1, <1>12 DEF Serving, IInv, ImportedHold
  <2>2. Pending(a) => Pending(a)'
    BY <1>1, <1>11, <1>12, PendingStays
  <2>3. Backed(memory, a)'
    <3>1. Backed(memory, a)
      BY <1>1, <1>12 DEF IInv, ImportedHold
    <3>2. Backed(store, a)
      BY <3>1, <1>9
    <3>. QED BY <3>2, <1>10 DEF Backed
  <2>4. Evidenced(memory, a) => Evidenced(memory, a)'
    <3>1. Evidenced(memory, a) => Evidenced(store, a)
      BY <2>1, <1>9
    <3>. QED BY <3>1, <1>10 DEF Evidenced
  <2>. QED BY <2>2, <2>3, <2>4, <1>1, <1>10, <1>12, WriteKeepsImported
<1>13. ImportedHold'
  <2>1. CASE serving' = failed
    BY <2>1, <1>7, <1>12 DEF ImportedHold
  <2>2. CASE disk' = store /\ serving' = done
    <3>. PICK v : v = new
      OBVIOUS
    <3>1. v.by <= requests' /\ Backed(store, v) /\ Evidenced(store, v)
      <4>1. requests \in Nat /\ Current[2] \in Source
        BY <1>1, <1>3, RequestsAreNumbers DEF Key
      <4>2. Backed(memory, new)
        BY <4>1, <1>1, <1>6 DEF Backed, created
      <4>. QED BY <4>1, <4>2, <1>1, <1>6, <1>9
    <3>2. Backed(memory, v)' /\ Evidenced(memory, v)' /\ Backed(disk, v)' /\ Evidenced(disk, v)'
      BY <3>1, <2>2, <1>10 DEF Backed, Evidenced
    <3>3. ASSUME serving' # Idle, NEW a \in serving'.imported PROVE a \in serving.imported \/ a = v
      BY <2>2, <3>3, <1>6
    <3>. QED BY <3>1, <3>2, <3>3, <1>12 DEF ImportedHold
  <2>. QED BY <2>1, <2>2, <1>10
<1>14. TaskInHand' /\ Stages'
  <2>1. serving.i + 1 <= Len(serving.request.rows) + 1
    BY <1>1, RequestFacts DEF Serving
  <2>. QED BY <2>1, <1>11 DEF TaskInHand, InLoop, Stages, SameCourse
<1>15. Counts'
  <2>. SUFFICES ASSUME serving' # Idle PROVE Counts'
    BY DEF Counts
  <2>1. /\ serving.created \in Nat /\ serving.updated \in Nat /\ serving.errors \in Nat
        /\ Len(serving.gone) \in Nat /\ serving.i \in Nat \ {0} /\ Rows = serving.i - 1
        /\ Cardinality(Held(memory, r.scope)) \in Nat
    BY <1>1, CountsFacts DEF Rows
  <2>2. /\ (serving.created + 1) + serving.updated + serving.errors = serving.i
        /\ serving.created + (serving.updated + 1) + serving.errors = serving.i
        /\ serving.created + serving.updated + (serving.errors + 1) = serving.i
    <3>1. Rows + 1 = serving.i
      BY <2>1
    <3>. QED BY <3>1, <1>1, CountsFacts
  <2>3. /\ Cardinality(Held(memory', r.scope)) = Cardinality(Held(memory, r.scope)) + 0
        /\ Rows' = serving.i /\ Unreported' = 0 /\ Unreported = IF serving.found THEN 0 ELSE 1
    BY <2>1, <1>1, <1>8, <1>10, <1>11 DEF Rows, Unreported
  <2>4. CASE serving' = done
    <3>1. /\ 0 - Unreported' - serving'.created + Len(serving'.gone) =
               0 - Unreported - serving.created + Len(serving.gone)
          /\ serving'.errors >= serving.errors + 0
          /\ serving'.created + serving'.updated + serving'.errors = Rows'
      <4>1. /\ serving'.errors = serving.errors /\ serving'.gone = serving.gone
            /\ serving'.created = (IF serving.found THEN serving.created ELSE serving.created + 1)
            /\ serving'.updated = (IF serving.found THEN serving.updated + 1 ELSE serving.updated)
        BY <2>4, <1>6
      <4>2. CASE serving.found
        BY <4>1, <4>2, <2>1, <2>2, <2>3
      <4>3. CASE ~serving.found
        <5>1. 0 - 0 - (serving.created + 1) + Len(serving.gone) = 0 - 1 - serving.created + Len(serving.gone)
          BY <2>1
        <5>. QED BY <5>1, <4>1, <4>3, <2>1, <2>2, <2>3
      <4>. QED BY <4>2, <4>3
    <3>2. serving'.clean => 0 = 0 /\ serving.clean
      BY <2>4, <1>6
    <3>. QED BY <3>1, <3>2, <2>3, <2>4, <1>1, <1>6, CountsStep
  <2>5. CASE serving' = failed
    <3>. DEFINE x == IF serving.found THEN 0 ELSE 1
    <3>1. /\ 0 - Unreported' - serving'.created + Len(serving'.gone) =
               x - Unreported - serving.created + Len(serving.gone)
          /\ serving'.errors >= serving.errors + x
          /\ serving'.created + serving'.updated + serving'.errors = Rows'
          /\ x \in {0, 1}
      <4>1. /\ serving'.errors = serving.errors + 1 /\ serving'.gone = serving.gone
            /\ serving'.created = serving.created /\ serving'.updated = serving.updated
        BY <2>5, <1>7
      <4>2. x \in {0, 1} /\ Unreported = x /\ Unreported' = 0
        BY <2>3
      <4>. HIDE DEF x
      <4>3. /\ 0 - 0 - serving.created + Len(serving.gone) = x - x - serving.created + Len(serving.gone)
            /\ serving.errors + 1 >= serving.errors + x
        BY <4>2, <2>1
      <4>. QED BY <4>1, <4>2, <4>3, <2>2, <2>3
    <3>2. ~serving'.clean
      BY <2>5, <1>7
    <3>. HIDE DEF x
    <3>. QED BY <3>1, <3>2, <2>3, <2>5, <1>1, <1>7, CountsStep
  <2>. QED BY <2>4, <2>5, <1>10
<1>. QED BY <1>10, <1>13, <1>14, <1>15 DEF IInv

LEMMA SaveEventHolds ==
  ASSUME IInv, SaveEvent
  PROVE  IInv'
<1>. DEFINE r == serving.request
            key == Current
            item == [created |-> requests, by |-> requests]
            id == IF r.kind = "connectos"
                    THEN TimedAudit(key, EventAction(serving.known[serving.i])) ELSE Absent
            store == Put(memory, key, item)
            new == [key |-> key, by |-> requests, created |-> requests, audit |-> id]
            done == Turn(Counted(Reported(serving, key, requests, id), Found))
<1>1. /\ TypeOK /\ serving # Idle /\ serving.stage = "row" /\ serving \in Serving /\ ~InTasks
      /\ serving.i <= Len(r.rows) /\ serving.i \in Nat \ {0}
      /\ requests' = requests /\ answered' = answered /\ requests \in Number /\ requests \in Nat
      /\ memory \in Store /\ r \in Request /\ r.kind \in {"ics", "connectos"}
  <2>1. IInv /\ serving # Idle /\ ~InTasks
    BY DEF SaveEvent, InLoop
  <2>2. serving \in Serving /\ requests \in Number /\ requests \in Nat
    BY <2>1, RequestsAreNumbers DEF IInv
  <2>3. r \in Request /\ r.kind \in Kind
    BY <2>2, RequestFacts DEF Serving
  <2>. QED BY <2>1, <2>2, <2>3 DEF IInv, SaveEvent, InLoop, Serving, TypeOK, InTasks, Kind
<1>2. Write(store, done, Idle)
  BY Zenon DEF SaveEvent, store, item, key, id, done, r
<1>3. key \in Key /\ key[1] = r.scope /\ r.scope \in Scope /\ key[2] # "tasks"
  BY <1>1, CurrentFacts, RequestFacts DEF Origin
<1>4. (Found <=> memory.items[key] # Absent) /\ Found \in BOOLEAN
  BY DEF Found
<1>5. id \in AuditId \union {Absent}
  BY <1>1, <1>3, AuditIds DEF EventAction
<1>6. id # Absent => r.kind = "connectos" /\ serving.i \in DOMAIN Evidence /\ Evidence[serving.i] = id
  <2>. SUFFICES ASSUME r.kind = "connectos"
                PROVE  serving.i \in DOMAIN Evidence /\ Evidence[serving.i] = id
    OBVIOUS
  <2>1. Evidence \in Seq(AuditId) /\ Len(Evidence) = Len(r.rows)
    BY <1>1, EvidenceFacts
  <2>2. serving.i \in 1..Len(Evidence)
    BY <2>1, <1>1
  <2>. QED BY <2>1, <2>2, <1>1, EvidenceFacts DEF Current, ThisRow
<1>. HIDE DEF key, id
<1>7. item \in Item /\ item.by = requests /\ item # Absent
  BY <1>1, AbsentAssumption DEF Item
<1>. HIDE DEF item
<1>8. store \in Store /\ store.items[key] = item
  BY <1>1, <1>3, <1>7, PutFacts
<1>9. \A a \in Report : /\ a.by <= requests /\ Backed(memory, a) => Backed(store, a)
                        /\ Evidenced(memory, a) => Evidenced(store, a)
  BY <1>1, <1>3, <1>7, PutBacks, PutEvidences
<1>10. \A s \in Scope :
         /\ IsFiniteSet(Held(store, s)) /\ Cardinality(Held(memory, s)) \in Nat
         /\ s = r.scope =>
              Cardinality(Held(store, s)) = Cardinality(Held(memory, s)) + (IF Found THEN 0 ELSE 1)
  <2>. TAKE s \in Scope
  <2>1. IsFiniteSet(Held(memory, s))
    BY DEF IInv, Finite
  <2>2. /\ IsFiniteSet(Held(store, s)) /\ Cardinality(Held(memory, s)) \in Nat
        /\ Cardinality(Held(store, s)) =
             Cardinality(Held(memory, s))
               + (IF key[1] = s /\ memory.items[key] = Absent /\ item # Absent THEN 1 ELSE 0)
               - (IF key[1] = s /\ memory.items[key] # Absent /\ item = Absent THEN 1 ELSE 0)
    BY <2>1, <1>1, <1>3, <1>7, HeldAfterPut
  <2>. QED BY <2>2, <1>3, <1>4, <1>7
<1>. HIDE DEF store
<1>11. /\ done \in Serving /\ SameCourse(serving, done)
       /\ done.created = (IF Found THEN serving.created ELSE serving.created + 1)
       /\ done.updated = (IF Found THEN serving.updated + 1 ELSE serving.updated)
       /\ done.errors = serving.errors /\ done.clean = serving.clean
       /\ done.i = serving.i + 1 /\ done.stage = "row" /\ done.gone = serving.gone
       /\ done.imported = serving.imported \union {new}
       /\ new \in Report /\ new.key = key /\ new.by = requests /\ new.created = requests /\ new.audit = id
  <2>. DEFINE one == Reported(serving, key, requests, id)
              two == Counted(one, Found)
  <2>1. /\ new \in Report /\ new.key = key /\ new.by = requests /\ new.created = requests /\ new.audit = id
        /\ one \in Serving /\ SameCourse(serving, one) /\ SameCounts(serving, one)
        /\ one.i = serving.i /\ one.stage = serving.stage /\ one.gone = serving.gone
        /\ one.imported = serving.imported \union {new}
    BY <1>1, <1>3, <1>5, ReportedFacts
  <2>2. done = Turn(two)
    OBVIOUS
  <2>. HIDE DEF one, new
  <2>3. /\ two \in Serving /\ SameCourse(one, two)
        /\ two.created = (IF Found THEN one.created ELSE one.created + 1)
        /\ two.updated = (IF Found THEN one.updated + 1 ELSE one.updated)
        /\ two.errors = one.errors /\ two.clean = one.clean
        /\ two.i = one.i /\ two.imported = one.imported /\ two.gone = one.gone
    BY <1>4, <2>1, CountedFacts
  <2>. HIDE DEF two, done
  <2>4. /\ done \in Serving /\ SameCourse(two, done) /\ SameCounts(two, done)
        /\ done.i = two.i + 1 /\ done.stage = "row"
        /\ done.imported = two.imported /\ done.gone = two.gone
    BY <2>2, <2>3, TurnFacts
  <2>. QED BY <2>1, <2>3, <2>4 DEF SameCourse, SameCounts
<1>. HIDE DEF done, new
<1>12. /\ TypeOK' /\ AnsweredHold' /\ Finite' /\ memory' = store
       /\ \/ disk' = store /\ serving' = done
          \/ disk' = disk /\ serving' = Idle
  <2>1. \A a \in answered' : Backed(store, a) /\ Evidenced(store, a)
    BY <1>1, <1>9 DEF IInv, AnsweredHold, TypeOK
  <2>. QED BY <2>1, <1>1, <1>2, <1>8, <1>10, <1>11, WriteStep
<1>13. CASE serving' = Idle
  BY <1>12, <1>13 DEF IInv, ImportedHold, TaskInHand, InLoop, Stages, Counts
<1>14. CASE disk' = store /\ serving' = done
  <2>1. ASSUME NEW a \in serving.imported
        PROVE  /\ a.by <= requests' /\ Backed(memory, a)' /\ Backed(disk, a)'
               /\ Pending(a)' \/ (Evidenced(memory, a)' /\ Evidenced(disk, a)')
    <3>1. a \in Report /\ a.by <= requests /\ Backed(memory, a)
      BY <1>1 DEF Serving, IInv, ImportedHold
    <3>2. Pending(a) => Pending(a)'
      BY <1>1, <1>11, <1>14, PendingStays
    <3>3. Backed(store, a) /\ (Evidenced(memory, a) => Evidenced(store, a))
      BY <3>1, <1>9
    <3>4. Backed(memory, a)' /\ (Evidenced(memory, a) => Evidenced(memory, a)')
      BY <3>3, <1>12 DEF Backed, Evidenced
    <3>. QED BY <3>2, <3>4, <1>1, <1>12, <1>14, WriteKeepsImported
  <2>2. ImportedHold'
    <3>. PICK v : v = new
      OBVIOUS
    <3>1. v.by <= requests' /\ Backed(store, v)
      BY <1>1, <1>3, <1>7, <1>8, <1>11 DEF Backed
    <3>2. Backed(memory, v)' /\ Backed(disk, v)'
      BY <3>1, <1>12, <1>14 DEF Backed
    <3>3. Pending(v)' \/ (Evidenced(memory, v)' /\ Evidenced(disk, v)')
      <4>1. CASE id = Absent
        BY <4>1, <1>11 DEF Evidenced
      <4>2. CASE id # Absent
        <5>1. Pending(v)
          BY <4>2, <1>1, <1>6, <1>11 DEF Pending
        <5>. QED BY <5>1, <1>1, <1>11, <1>14, PendingStays
      <4>. QED BY <4>1, <4>2
    <3>4. ASSUME NEW a \in serving'.imported PROVE a \in serving.imported \/ a = v
      BY <1>14, <3>4, <1>11
    <3>. QED BY <3>1, <3>2, <3>3, <3>4, <2>1 DEF ImportedHold
  <2>3. TaskInHand' /\ Stages'
    <3>1. serving.i + 1 <= Len(r.rows) + 1
      BY <1>1, RequestFacts
    <3>. QED BY <3>1, <1>11, <1>14 DEF TaskInHand, InLoop, Stages, SameCourse
  <2>4. Counts'
    <3>. DEFINE grown == IF Found THEN 0 ELSE 1
    <3>1. /\ serving.created \in Nat /\ serving.updated \in Nat /\ serving.errors \in Nat
          /\ Len(serving.gone) \in Nat /\ serving.i \in Nat \ {0} /\ Rows = serving.i - 1
          /\ Unreported = 0 /\ Rows' = serving.i /\ Unreported' = 0
      <4>1. /\ serving.created \in Nat /\ serving.updated \in Nat /\ serving.errors \in Nat
            /\ Len(serving.gone) \in Nat
        BY <1>1, CountsFacts
      <4>2. serving'.stage = "row" /\ serving'.i = serving.i + 1
        BY <1>11, <1>14
      <4>3. Rows' = serving'.i - 1 /\ Rows = serving.i - 1 /\ Unreported = 0 /\ Unreported' = 0
        BY <4>2, <1>1 DEF Rows, Unreported
      <4>4. serving'.i - 1 = serving.i
        BY <4>2, <1>1
      <4>. QED BY <4>1, <4>3, <4>4, <1>1
    <3>2. /\ (serving.created + 1) + serving.updated + serving.errors = serving.i
          /\ serving.created + (serving.updated + 1) + serving.errors = serving.i
      <4>1. Rows + 1 = serving.i
        BY <3>1
      <4>. QED BY <4>1, <1>1, CountsFacts
    <3>3. Cardinality(Held(memory', r.scope)) = Cardinality(Held(memory, r.scope)) + grown
      BY <1>3, <1>10, <1>12
    <3>4. serving'.created + serving'.updated + serving'.errors = Rows'
      BY <3>1, <3>2, <1>11, <1>14
    <3>5. grown \in {0, 1} /\ serving'.created = serving.created + grown
      BY <3>1, <1>4, <1>11, <1>14
    <3>. HIDE DEF grown
    <3>6. grown - 0 - (serving.created + grown) + Len(serving.gone) = 0 - 0 - serving.created + Len(serving.gone)
      BY <3>1, <3>5
    <3>7. /\ serving'.errors >= serving.errors + 0 /\ serving'.gone = serving.gone
          /\ serving'.clean => 0 = 0 /\ serving.clean
      BY <3>1, <1>11, <1>14
    <3>. QED BY <3>1, <3>3, <3>4, <3>5, <3>6, <3>7, <1>1, <1>11, <1>14, CountsStep
  <2>. QED BY <2>2, <2>3, <2>4, <1>12 DEF IInv
<1>. QED BY <1>12, <1>13, <1>14

LEMMA EndRowsHolds ==
  ASSUME IInv, EndRows
  PROVE  IInv'
<1>. DEFINE stage == IF InTasks THEN "answer" ELSE "cancel"
            one == [serving EXCEPT !.stage = stage]
<1>1. /\ TypeOK /\ serving # Idle /\ serving.stage = "row" /\ serving \in Serving
      /\ serving.i > Len(serving.request.rows) /\ serving.i <= Len(serving.request.rows) + 1
      /\ serving.i \in Nat \ {0} /\ Len(serving.request.rows) \in Nat
      /\ UNCHANGED <<memory, disk, requests, faults, answered>>
  BY RequestsAreNumbers, RequestFacts DEF IInv, EndRows, InLoop, Serving, Stages
<1>2. serving' = [one EXCEPT !.i = 1]
  BY Zenon DEF EndRows, InLoop
<1>3. stage \in {"answer", "cancel"} /\ (stage = "cancel" => ~InTasks) /\ (stage = "answer" => InTasks)
  OBVIOUS
<1>. HIDE DEF stage
<1>4. /\ one \in Serving /\ SameCourse(serving, one) /\ SameCounts(serving, one)
      /\ one.stage = stage /\ one.imported = serving.imported /\ one.gone = serving.gone
  BY <1>1, <1>3 DEF Serving, Stage, SameCourse, SameCounts
<1>. HIDE DEF one
<1>5. /\ serving' \in Serving /\ SameCourse(one, serving') /\ SameCounts(one, serving')
      /\ serving'.i = 1 /\ serving'.stage = one.stage
      /\ serving'.imported = one.imported /\ serving'.gone = one.gone
  <2>1. serving' \in Serving /\ serving'.i = 1
    <3>1. ASSUME NEW v \in Nat \ {0} PROVE [one EXCEPT !.i = v] \in Serving /\ [one EXCEPT !.i = v].i = v
      BY <1>4 DEF Serving
    <3>. QED BY <3>1, <1>2
  <2>2. /\ SameCourse(one, serving') /\ SameCounts(one, serving') /\ serving'.stage = one.stage
        /\ serving'.imported = one.imported /\ serving'.gone = one.gone
    BY <1>2, <1>4 DEF Serving, SameCourse, SameCounts
  <2>. QED BY <2>1, <2>2
<1>6. /\ SameCourse(serving, serving') /\ SameCounts(serving, serving') /\ serving'.stage = stage
      /\ serving'.imported = serving.imported /\ serving'.gone = serving.gone
  BY <1>4, <1>5 DEF SameCourse, SameCounts
<1>7. \A a \in serving'.imported : Pending(a) => Pending(a)'
  <2>. SUFFICES ASSUME NEW a, Pending(a) PROVE Pending(a)'
    OBVIOUS
  <2>1. stage = "cancel"
    BY <1>3 DEF Pending, InTasks
  <2>. QED BY <2>1, <1>1, <1>6, PendingStays
<1>8. TypeOK' /\ AnsweredHold' /\ ImportedHold' /\ Finite'
  BY <1>1, <1>5, <1>6, <1>7, QuietStep
<1>9. TaskInHand' /\ Stages'
  BY <1>3, <1>6 DEF TaskInHand, InLoop, Stages, SameCourse, InTasks
<1>10. Counts'
  <2>1. Rows' = Len(serving.request.rows) /\ Rows = serving.i - 1 /\ Unreported = 0 /\ Unreported' = 0
    BY <1>1, <1>3, <1>6 DEF Rows, Unreported, SameCourse
  <2>2. Rows' = Rows
    BY <2>1, <1>1
  <2>3. Surplus' = Surplus
    BY <2>1, <1>1, <1>6 DEF Surplus, SameCourse, SameCounts, Held
  <2>. QED BY <2>2, <2>3, <1>1, <1>6 DEF IInv, Counts, SameCourse, SameCounts
<1>. QED BY <1>8, <1>9, <1>10 DEF IInv

LEMMA CancelEventHolds ==
  ASSUME IInv, CancelEvent
  PROVE  IInv'
<1>. DEFINE r == serving.request
            k == KeyOf(r, r.cancelled[serving.i])
            one == [serving EXCEPT !.i = serving.i + 1]
            left == NotOf(k, serving.imported)
            next == [one EXCEPT !.imported = left]
            store == Put(memory, k, Absent)
            done == [next EXCEPT !.gone = Append(next.gone, k)]
<1>1. /\ TypeOK /\ serving # Idle /\ serving.stage = "cancel" /\ serving \in Serving
      /\ serving.i <= Len(r.cancelled) /\ serving.i \in Nat \ {0} /\ ~InTasks
      /\ requests' = requests /\ requests \in Number /\ memory \in Store /\ r \in Request
  BY RequestsAreNumbers DEF IInv, CancelEvent, InLoop, Serving, TypeOK, Stages
<1>2. k \in Key /\ k[1] = r.scope /\ r.scope \in Scope
  <2>1. r.cancelled[serving.i] \in External
    BY <1>1, RequestFacts
  <2>. QED BY <2>1, <1>1, KeyOfFacts, RequestFacts
<1>3. \/ /\ memory.items[k] = Absent /\ serving' = next
         /\ UNCHANGED <<memory, disk, faults, answered>>
      \/ /\ memory.items[k] # Absent /\ Write(store, done, Idle)
         /\ answered' = NotOf(k, answered)
  BY Zenon DEF CancelEvent, k, r, one, left, next, store, done
<1>. HIDE DEF k
<1>4. left \subseteq serving.imported /\ \A a \in left : a.key # k
  BY DEF NotOf
<1>. HIDE DEF left
<1>5. /\ next \in Serving /\ SameCourse(serving, next) /\ SameCounts(serving, next)
      /\ next.i = serving.i + 1 /\ next.stage = "cancel" /\ next.imported = left /\ next.gone = serving.gone
  <2>1. /\ one \in Serving /\ SameCourse(serving, one) /\ SameCounts(serving, one)
        /\ one.i = serving.i + 1 /\ one.stage = "cancel" /\ one.gone = serving.gone
    <3>1. ASSUME NEW v \in Nat \ {0} PROVE [serving EXCEPT !.i = v] \in Serving /\ [serving EXCEPT !.i = v].i = v
      BY <1>1 DEF Serving
    <3>2. serving.i + 1 \in Nat \ {0}
      BY <1>1
    <3>3. SameCourse(serving, one) /\ SameCounts(serving, one) /\ one.stage = "cancel" /\ one.gone = serving.gone
      BY <1>1 DEF Serving, SameCourse, SameCounts
    <3>. QED BY <3>1, <3>2, <3>3
  <2>2. left \in SUBSET Report
    BY <1>1, <1>4 DEF Serving
  <2>. HIDE DEF one
  <2>3. /\ next \in Serving /\ SameCourse(one, next) /\ SameCounts(one, next)
        /\ next.i = one.i /\ next.stage = one.stage /\ next.imported = left /\ next.gone = one.gone
    BY <2>1, <2>2 DEF Serving, SameCourse, SameCounts
  <2>. QED BY <2>1, <2>3 DEF SameCourse, SameCounts
<1>. HIDE DEF next
<1>6. /\ done \in Serving /\ SameCourse(serving, done) /\ SameCounts(serving, done)
      /\ done.i = serving.i + 1 /\ done.stage = "cancel" /\ done.imported = left
      /\ Len(done.gone) = Len(serving.gone) + 1
  <2>. DEFINE gone == Append(next.gone, k)
  <2>1. gone \in Seq(Key) /\ Len(gone) = Len(serving.gone) + 1
    BY <1>1, <1>2, <1>5 DEF Serving
  <2>3. done = [next EXCEPT !.gone = gone]
    OBVIOUS
  <2>. HIDE DEF gone, done
  <2>2. /\ done \in Serving /\ SameCourse(next, done) /\ SameCounts(next, done)
        /\ done.i = next.i /\ done.stage = next.stage /\ done.imported = next.imported /\ done.gone = gone
    <3>1. done \in Serving /\ done.gone = gone
      BY <2>1, <2>3, <1>5 DEF Serving
    <3>2. SameCourse(next, done) /\ SameCounts(next, done)
      BY <2>3, <1>5 DEF Serving, SameCourse, SameCounts
    <3>3. done.i = next.i /\ done.stage = next.stage /\ done.imported = next.imported
      BY <2>3, <1>5 DEF Serving
    <3>. QED BY <3>1, <3>2, <3>3
  <2>. QED BY <2>1, <2>2, <1>5 DEF SameCourse, SameCounts
<1>. HIDE DEF done
<1>7. CASE serving' = next /\ UNCHANGED <<memory, disk, faults, answered>>
  <2>1. \A a \in serving'.imported : Pending(a) => Pending(a)'
    BY <1>1, <1>5, <1>7, PendingStays
  <2>2. TypeOK' /\ AnsweredHold' /\ ImportedHold' /\ Finite'
    BY <2>1, <1>1, <1>4, <1>5, <1>7, QuietStep
  <2>3. TaskInHand' /\ Stages'
    BY <1>1, <1>5, <1>7 DEF TaskInHand, InLoop, Stages, SameCourse, InTasks
  <2>4. Counts'
    <3>1. Rows' = Rows /\ Surplus' = Surplus
      BY <1>1, <1>5, <1>7 DEF Rows, Surplus, Unreported, Held, SameCourse, SameCounts
    <3>. QED BY <3>1, <1>1, <1>5, <1>7 DEF IInv, Counts, SameCourse, SameCounts
  <2>. QED BY <2>2, <2>3, <2>4 DEF IInv
<1>8. CASE /\ memory.items[k] # Absent /\ Write(store, done, Idle)
           /\ answered' = NotOf(k, answered)
  <2>1. store \in Store /\ store.items[k] = Absent
    BY <1>1, <1>2, PutFacts
  <2>2. \A a \in Report : /\ a.key # k /\ Backed(memory, a) => Backed(store, a)
                          /\ Evidenced(memory, a) => Evidenced(store, a)
    BY <1>1, <1>2, RemovalBacks, PutEvidences
  <2>3. \A s \in Scope :
          /\ IsFiniteSet(Held(store, s)) /\ Cardinality(Held(memory, s)) \in Nat
          /\ s = r.scope => Cardinality(Held(store, s)) = Cardinality(Held(memory, s)) - 1
    <3>. TAKE s \in Scope
    <3>1. IsFiniteSet(Held(memory, s))
      BY DEF IInv, Finite
    <3>2. /\ IsFiniteSet(Held(store, s)) /\ Cardinality(Held(memory, s)) \in Nat
          /\ Cardinality(Held(store, s)) =
               Cardinality(Held(memory, s))
                 + (IF k[1] = s /\ memory.items[k] = Absent /\ Absent # Absent THEN 1 ELSE 0)
                 - (IF k[1] = s /\ memory.items[k] # Absent /\ Absent = Absent THEN 1 ELSE 0)
      BY <3>1, <1>1, <1>2, HeldAfterPut
    <3>. QED BY <3>2, <1>2, <1>8
  <2>. HIDE DEF store
  <2>4. /\ TypeOK' /\ AnsweredHold' /\ Finite' /\ memory' = store
        /\ \/ disk' = store /\ serving' = done
           \/ disk' = disk /\ serving' = Idle
    <3>1. answered' \subseteq answered /\ \A a \in answered' : a.key # k
      BY <1>8 DEF NotOf
    <3>2. \A a \in answered' : Backed(store, a) /\ Evidenced(store, a)
      BY <3>1, <2>2, <1>1 DEF IInv, AnsweredHold, TypeOK
    <3>. QED BY <3>1, <3>2, <2>1, <2>3, <1>1, <1>6, <1>8, WriteStep
  <2>5. CASE serving' = Idle
    BY <2>4, <2>5 DEF IInv, ImportedHold, TaskInHand, InLoop, Stages, Counts
  <2>6. CASE disk' = store /\ serving' = done
    <3>1. ImportedHold'
      <4>. SUFFICES ASSUME NEW a \in left
                    PROVE  /\ a.by <= requests' /\ Backed(memory, a)' /\ Backed(disk, a)'
                           /\ Pending(a)' \/ (Evidenced(memory, a)' /\ Evidenced(disk, a)')
        BY <2>6, <1>6 DEF ImportedHold
      <4>1. a \in serving.imported /\ a.key # k /\ a \in Report /\ Backed(memory, a)
        BY <1>1, <1>4 DEF Serving, IInv, ImportedHold
      <4>2. Pending(a) => Pending(a)'
        BY <1>1, <1>6, <2>6, PendingStays
      <4>3. Backed(store, a) /\ (Evidenced(memory, a) => Evidenced(store, a))
        BY <4>1, <2>2
      <4>4. Backed(memory, a)' /\ (Evidenced(memory, a) => Evidenced(memory, a)')
        BY <4>3, <2>4 DEF Backed, Evidenced
      <4>. QED BY <4>1, <4>2, <4>4, <1>1, <2>4, <2>6, WriteKeepsImported
    <3>2. TaskInHand' /\ Stages'
      BY <1>1, <1>6, <2>6 DEF TaskInHand, InLoop, Stages, SameCourse, InTasks
    <3>3. Counts'
      <4>1. /\ serving.created \in Nat /\ serving.updated \in Nat /\ serving.errors \in Nat
            /\ Len(serving.gone) \in Nat /\ Cardinality(Held(memory, r.scope)) \in Nat
            /\ serving.created + serving.updated + serving.errors = Rows
        BY <1>1, CountsFacts
      <4>2. Rows' = Rows /\ Unreported = 0 /\ Unreported' = 0
        BY <1>1, <1>6, <2>6 DEF Rows, Unreported, SameCourse
      <4>3. Cardinality(Held(memory', r.scope)) = Cardinality(Held(memory, r.scope)) + (0 - 1)
        BY <4>1, <1>2, <2>3, <2>4
      <4>4. /\ serving'.created = serving.created /\ Len(serving'.gone) = Len(serving.gone) + 1
            /\ serving'.errors = serving.errors /\ serving'.clean = serving.clean
            /\ serving'.updated = serving.updated /\ SameCourse(serving, serving') /\ serving' \in Serving
        BY <1>6, <2>6 DEF SameCounts
      <4>5. (0 - 1) - 0 - serving.created + (Len(serving.gone) + 1) = 0 - 0 - serving.created + Len(serving.gone)
        <5>1. PICK c, g : c = serving.created /\ g = Len(serving.gone)
          OBVIOUS
        <5>2. c \in Nat /\ g \in Nat
          BY <4>1, <5>1
        <5>3. (0 - 1) - 0 - c + (g + 1) = 0 - 0 - c + g
          BY <5>2
        <5>. QED BY <5>1, <5>3
      <4>6. (0 - 1) - Unreported' - serving'.created + Len(serving'.gone) =
               0 - Unreported - serving.created + Len(serving.gone)
        BY <4>2, <4>4, <4>5
      <4>7. serving'.errors >= serving.errors + 0 /\ (serving'.clean => 0 = 0 /\ serving.clean)
        BY <4>1, <4>4
      <4>8. serving'.created + serving'.updated + serving'.errors = Rows'
        BY <4>1, <4>2, <4>4
      <4>. QED BY <4>3, <4>4, <4>6, <4>7, <4>8, <1>1, CountsStep
    <3>. QED BY <3>1, <3>2, <3>3, <2>4 DEF IInv
  <2>. QED BY <2>4, <2>5, <2>6
<1>. QED BY <1>3, <1>7, <1>8

\* The steps from one loop to the next leave the counts alone.
LEMMA NextStage ==
  ASSUME IInv, serving # Idle, serving' # Idle, SameCourse(serving, serving'), SameCounts(serving, serving'),
         serving.stage \in {"cancel", "log"}, serving'.stage \in {"cancel", "log", "answer"},
         serving'.gone = serving.gone,
         \A s : Held(memory', s) = Held(memory, s)
  PROVE  Stages' /\ Counts' /\ TaskInHand'
<1>1. serving'.request = serving.request /\ serving'.before = serving.before
  BY DEF SameCourse
<1>2. ~InTasks /\ ~InTasks'
  BY <1>1 DEF IInv, Stages, InTasks
<1>3. Rows' = Rows /\ Unreported = 0 /\ Unreported' = 0
  BY <1>1 DEF Rows, Unreported
<1>4. Surplus' = Surplus
  <2>1. Held(memory, serving.request.scope)' = Held(memory', serving.request.scope)
    BY <1>1 DEF Held
  <2>2. Held(memory', serving.request.scope) = Held(memory, serving.request.scope)
    OBVIOUS
  <2>3. serving'.created = serving.created
    BY DEF SameCounts
  <2>. QED BY <2>1, <2>2, <2>3, <1>1, <1>3 DEF Surplus
<1>5. Counts'
  BY <1>1, <1>3, <1>4 DEF IInv, Counts, SameCounts
<1>. QED BY <1>2, <1>5 DEF Stages, TaskInHand, InLoop

LEMMA EndCancelledHolds ==
  ASSUME IInv, EndCancelled
  PROVE  IInv'
<1>. DEFINE one == [serving EXCEPT !.stage = "log"]
<1>1. /\ TypeOK /\ serving # Idle /\ serving.stage = "cancel" /\ serving \in Serving
      /\ UNCHANGED <<memory, disk, requests, faults, answered>>
  BY RequestsAreNumbers DEF IInv, EndCancelled, InLoop
<1>2. serving' = [one EXCEPT !.i = 1]
  BY Zenon DEF EndCancelled, InLoop
<1>3. /\ one \in Serving /\ SameCourse(serving, one) /\ SameCounts(serving, one)
      /\ one.stage = "log" /\ one.imported = serving.imported /\ one.gone = serving.gone
  BY <1>1 DEF Serving, Stage, SameCourse, SameCounts
<1>. HIDE DEF one
<1>4. serving' \in Serving /\ serving'.i = 1
  <2>1. ASSUME NEW v \in Nat \ {0} PROVE [one EXCEPT !.i = v] \in Serving /\ [one EXCEPT !.i = v].i = v
    BY <1>3 DEF Serving
  <2>. QED BY <2>1, <1>2
<1>5. /\ SameCourse(one, serving') /\ SameCounts(one, serving') /\ serving'.stage = one.stage
      /\ serving'.imported = one.imported /\ serving'.gone = one.gone
  BY <1>2, <1>3 DEF Serving, SameCourse, SameCounts
<1>6. /\ SameCourse(serving, serving') /\ SameCounts(serving, serving') /\ serving'.stage = "log"
      /\ serving'.imported = serving.imported /\ serving'.gone = serving.gone
  BY <1>3, <1>5 DEF SameCourse, SameCounts
<1>7. \A a \in serving'.imported : Pending(a) => Pending(a)'
  BY <1>1, <1>4, <1>6, PendingStays
<1>8. TypeOK' /\ AnsweredHold' /\ ImportedHold' /\ Finite'
  BY <1>1, <1>4, <1>6, <1>7, QuietStep
<1>9. serving' # Idle => Stages' /\ Counts' /\ TaskInHand'
  BY <1>1, <1>6, NextStage DEF Held
<1>10. serving' = Idle => Stages' /\ Counts' /\ TaskInHand'
  BY DEF Stages, Counts, TaskInHand, InLoop
<1>. QED BY <1>8, <1>9, <1>10 DEF IInv

LEMMA AuditEventHolds ==
  ASSUME IInv, AuditEvent
  PROVE  IInv'
<1>. DEFINE r == serving.request
            id == Evidence[serving.i]
            store == Appended(memory, id, r.scope)
            done == [serving EXCEPT !.i = serving.i + 1]
<1>1. /\ TypeOK /\ serving # Idle /\ serving.stage = "log" /\ serving \in Serving
      /\ serving.i <= Len(Evidence) /\ serving.i \in Nat \ {0}
      /\ requests' = requests /\ answered' = answered /\ requests \in Number
      /\ memory \in Store /\ r \in Request
  BY RequestsAreNumbers DEF IInv, AuditEvent, InLoop, Serving, TypeOK
<1>2. Write(store, done, Idle)
  BY Zenon DEF AuditEvent, store, id, done, r
<1>3. r.scope \in Scope
  BY <1>1, RequestFacts
<1>4. id \in AuditId
  BY <1>1, EvidenceFacts
<1>. HIDE DEF id
<1>5. /\ done \in Serving /\ SameCourse(serving, done) /\ SameCounts(serving, done)
      /\ done.i = serving.i + 1 /\ done.stage = "log"
      /\ done.imported = serving.imported /\ done.gone = serving.gone
  BY <1>1 DEF Serving, SameCourse, SameCounts
<1>. HIDE DEF done
<1>6. store \in Store /\ store.items = memory.items /\ \A s : Held(store, s) = Held(memory, s)
  BY <1>1, <1>3, <1>4, AppendedFacts, HeldAfterAppended
<1>7. /\ \A a \in Report : a.by <= requests /\ (Evidenced(memory, a) \/ a.audit = id) => Evidenced(store, a)
      /\ \A a : Backed(memory, a) => Backed(store, a)
  BY <1>1, <1>3, <1>4, AppendedEvidences, AppendedBacks
<1>. HIDE DEF store
<1>8. /\ TypeOK' /\ AnsweredHold' /\ Finite' /\ memory' = store
      /\ \/ disk' = store /\ serving' = done
         \/ disk' = disk /\ serving' = Idle
  <2>1. \A a \in answered' : Backed(store, a) /\ Evidenced(store, a)
    BY <1>1, <1>7 DEF IInv, AnsweredHold, TypeOK
  <2>2. \A s \in Scope : IsFiniteSet(Held(store, s))
    BY <1>6 DEF IInv, Finite
  <2>. QED BY <2>1, <2>2, <1>1, <1>2, <1>5, <1>6, WriteStep
<1>9. CASE serving' = Idle
  BY <1>8, <1>9 DEF IInv, ImportedHold, TaskInHand, InLoop, Stages, Counts
<1>10. CASE disk' = store /\ serving' = done /\ serving' # Idle
  <2>1. ImportedHold'
    <3>. SUFFICES ASSUME NEW a \in serving.imported
                  PROVE  /\ a.by <= requests' /\ Backed(memory, a)' /\ Backed(disk, a)'
                         /\ Pending(a)' \/ (Evidenced(memory, a)' /\ Evidenced(disk, a)')
      BY <1>5, <1>10 DEF ImportedHold
    <3>1. a \in Report /\ a.by <= requests /\ Backed(memory, a)
      BY <1>1 DEF Serving, IInv, ImportedHold
    <3>2. Backed(memory, a)' /\ ((Evidenced(memory, a) \/ a.audit = id) => Evidenced(memory, a)')
      <4>1. Backed(store, a) /\ ((Evidenced(memory, a) \/ a.audit = id) => Evidenced(store, a))
        BY <3>1, <1>7
      <4>. QED BY <4>1, <1>8 DEF Backed, Evidenced
    <3>3. Pending(a) => Pending(a)' \/ a.audit = id
      <4>. SUFFICES ASSUME Pending(a), a.audit # id PROVE Pending(a)'
        OBVIOUS
      <4>1. /\ serving.request.kind = "connectos" /\ serving'.request = serving.request
            /\ serving'.known = serving.known
        BY <1>5, <1>10 DEF Pending, SameCourse
      <4>2. Evidence' = Evidence
        BY <4>1, <1>1 DEF Evidence, TimedAudit
      <4>3. PICK n \in DOMAIN Evidence : Evidence[n] = a.audit /\ n >= serving.i
        BY <1>1 DEF Pending
      <4>4. n \in Nat /\ n # serving.i
        BY <4>3, <1>1, EvidenceFacts DEF id
      <4>5. n >= serving'.i
        BY <4>3, <4>4, <1>1, <1>5, <1>10
      <4>. QED BY <4>1, <4>2, <4>3, <4>5, <1>5, <1>10 DEF Pending
    <3>. QED BY <3>2, <3>3, <1>1, <1>8, <1>10, WriteKeepsImported
  <2>2. Stages' /\ Counts' /\ TaskInHand'
    BY <1>1, <1>5, <1>6, <1>8, <1>10, NextStage
  <2>. QED BY <2>1, <2>2, <1>8 DEF IInv
<1>. QED BY <1>8, <1>9, <1>10

LEMMA EndLogHolds ==
  ASSUME IInv, EndLog
  PROVE  IInv'
<1>1. /\ TypeOK /\ serving # Idle /\ serving.stage = "log" /\ serving \in Serving
      /\ serving.i > Len(Evidence) /\ serving.i \in Nat \ {0}
      /\ UNCHANGED <<memory, disk, requests, faults, answered>>
      /\ serving' = [serving EXCEPT !.stage = "answer"]
  BY RequestsAreNumbers DEF IInv, EndLog, InLoop, Serving
<1>2. /\ serving' \in Serving /\ SameCourse(serving, serving') /\ SameCounts(serving, serving')
      /\ serving'.stage = "answer" /\ serving'.imported = serving.imported /\ serving'.gone = serving.gone
  BY <1>1 DEF Serving, Stage, SameCourse, SameCounts
<1>3. \A a : ~Pending(a)
  <2>. SUFFICES ASSUME NEW a, Pending(a) PROVE FALSE
    OBVIOUS
  <2>1. PICK n \in DOMAIN Evidence : n >= serving.i
    BY <1>1 DEF Pending
  <2>2. n \in Nat /\ n <= Len(Evidence) /\ Len(Evidence) \in Nat
    BY <2>1, <1>1, EvidenceFacts
  <2>. QED BY <2>1, <2>2, <1>1
<1>4. TypeOK' /\ AnsweredHold' /\ ImportedHold' /\ Finite'
  BY <1>1, <1>2, <1>3, QuietStep
<1>5. serving' # Idle => Stages' /\ Counts' /\ TaskInHand'
  BY <1>1, <1>2, NextStage DEF Held
<1>6. serving' = Idle => Stages' /\ Counts' /\ TaskInHand'
  BY DEF Stages, Counts, TaskInHand, InLoop
<1>. QED BY <1>4, <1>5, <1>6 DEF IInv

LEMMA AnswerHolds ==
  ASSUME IInv, Answer
  PROVE  IInv'
<1>1. /\ TypeOK /\ serving # Idle /\ serving.stage = "answer" /\ serving \in Serving
      /\ UNCHANGED <<memory, disk, requests, faults>>
      /\ serving' = Idle /\ answered' = answered \union serving.imported
  BY RequestsAreNumbers DEF IInv, Answer, InLoop
<1>2. TypeOK'
  BY <1>1 DEF TypeOK, Serving
<1>3. AnsweredHold'
  <2>. SUFFICES ASSUME NEW a \in answered'
                PROVE  /\ a.by <= requests /\ Backed(memory, a) /\ Evidenced(memory, a)
                       /\ Backed(disk, a) /\ Evidenced(disk, a)
    BY <1>1 DEF AnsweredHold, Backed, Evidenced
  <2>1. CASE a \in answered
    BY <2>1 DEF IInv, AnsweredHold
  <2>2. CASE a \in serving.imported
    BY <2>2, <1>1 DEF IInv, ImportedHold, Pending
  <2>. QED BY <2>1, <2>2, <1>1
<1>4. Finite'
  BY <1>1 DEF IInv, Finite, Held
<1>. QED BY <1>1, <1>2, <1>3, <1>4 DEF IInv, ImportedHold, TaskInHand, InLoop, Stages, Counts

-----------------------------------------------------------------------------
(* Requests begin and end. *)

LEMMA StartedFacts ==
  ASSUME TypeOK, NEW r \in Request
  PROVE  /\ Started(r) \in Serving /\ Started(r).request = r /\ Len(Started(r).known) = Len(r.rows)
         /\ Started(r).stage = "row" /\ Started(r).i = 1 /\ Started(r).before = Held(memory, r.scope)
         /\ Started(r).created = 0 /\ Started(r).updated = 0 /\ Started(r).errors = 0
         /\ Started(r).imported = {} /\ Len(Started(r).gone) = 0
<1>. DEFINE known == [i \in DOMAIN r.rows |-> memory.items[KeyOf(r, r.rows[i].external)] # Absent]
<1>1. Len(r.rows) \in Nat /\ DOMAIN r.rows = 1..Len(r.rows)
  BY RequestFacts
<1>2. known \in Seq(BOOLEAN) /\ Len(known) = Len(r.rows)
  <2>1. known = [i \in 1..Len(r.rows) |-> memory.items[KeyOf(r, r.rows[i].external)] # Absent]
    BY <1>1
  <2>2. \A i \in 1..Len(r.rows) : (memory.items[KeyOf(r, r.rows[i].external)] # Absent) \in BOOLEAN
    OBVIOUS
  <2>. QED BY <2>1, <2>2, <1>1
<1>3. Held(memory, r.scope) \subseteq Key /\ <<>> \in Seq(Key) /\ Len(<<>>) = 0
  BY DEF Held
<1>4. Started(r) =
        [request |-> r, stage |-> "row", i |-> 1, found |-> FALSE, created |-> 0, updated |-> 0,
         errors |-> 0, clean |-> TRUE, before |-> Held(memory, r.scope), imported |-> {}, gone |-> <<>>,
         known |-> known]
  BY Zenon DEF Started, known
<1>. HIDE DEF known
<1>. QED BY <1>2, <1>3, <1>4 DEF Serving, Stage

LEMMA BeginHolds ==
  ASSUME IInv, NEW r \in Request, Begin(r)
  PROVE  IInv'
<1>1. /\ TypeOK /\ serving = Idle /\ requests' = requests + 1 /\ answered' = answered
      /\ memory' = memory /\ disk' \in {disk, memory} /\ serving' \in {Started(r), Idle}
      /\ faults' \in 0..MaxFaults /\ requests \in Nat /\ requests' \in 0..MaxRequests
  BY BoundAssumption DEF IInv, Begin, Write, TypeOK
<1>2. TypeOK'
  BY <1>1, StartedFacts DEF TypeOK
<1>3. AnsweredHold'
  <2>. SUFFICES ASSUME NEW a \in answered
                PROVE  /\ a.by <= requests + 1 /\ Backed(memory, a) /\ Evidenced(memory, a)
                       /\ Backed(disk, a)' /\ Evidenced(disk, a)'
    BY <1>1 DEF AnsweredHold, Backed, Evidenced
  <2>1. a.by \in Nat
    BY <1>1 DEF TypeOK, Report, Number
  <2>2. /\ a.by <= requests /\ Backed(memory, a) /\ Evidenced(memory, a)
        /\ Backed(disk, a) /\ Evidenced(disk, a)
    BY DEF IInv, AnsweredHold
  <2>. QED BY <2>1, <2>2, <1>1 DEF Backed, Evidenced
<1>4. Finite'
  BY <1>1 DEF IInv, Finite, Held
<1>5. CASE serving' = Idle
  BY <1>2, <1>3, <1>4, <1>5 DEF IInv, ImportedHold, TaskInHand, InLoop, Stages, Counts
<1>6. CASE serving' = Started(r)
  <2>1. ImportedHold' /\ TaskInHand' /\ Stages'
    <3>1. 1 <= Len(r.rows) + 1
      BY RequestFacts
    <3>. QED BY <3>1, <1>1, <1>6, StartedFacts DEF ImportedHold, TaskInHand, InLoop, Stages
  <2>2. Counts'
    <3>1. r.scope \in Scope /\ IsFiniteSet(Held(memory, r.scope))
      BY RequestFacts DEF IInv, Finite
    <3>2. PICK n : n = Cardinality(Held(memory, r.scope))
      OBVIOUS
    <3>3. n \in Nat
      BY <3>1, <3>2, FS_CardinalityType
    <3>4. Rows' = 0 /\ Unreported' = 0
      BY <1>1, <1>6, StartedFacts DEF Rows, Unreported
    <3>5. Surplus' = n - 0 - (n + 0 - 0)
      <4>1. Held(memory, serving.request.scope)' = Held(memory, r.scope)
        BY <1>1, <1>6, StartedFacts DEF Held
      <4>. QED BY <4>1, <3>2, <3>4, <1>1, <1>6, StartedFacts DEF Surplus
    <3>6. Surplus' = 0
      BY <3>3, <3>5
    <3>. QED BY <3>1, <3>4, <3>6, <1>1, <1>6, StartedFacts DEF Counts
  <2>. QED BY <2>1, <2>2, <1>2, <1>3, <1>4 DEF IInv
<1>. QED BY <1>1, <1>5, <1>6

LEMMA DeleteTaskHolds ==
  ASSUME IInv, NEW k \in Key, DeleteTask(k)
  PROVE  IInv'
<1>. DEFINE store == Put(memory, k, Absent)
<1>1. /\ TypeOK /\ memory \in Store /\ Write(store, Idle, Idle)
      /\ requests' = requests /\ answered' = NotOf(k, answered)
  BY Zenon DEF IInv, TypeOK, DeleteTask, store
<1>2. store \in Store
  BY <1>1, PutFacts
<1>3. answered' \subseteq answered /\ \A a \in answered' : Backed(store, a) /\ Evidenced(store, a)
  <2>1. answered' \subseteq answered /\ \A a \in answered' : a.key # k
    BY <1>1 DEF NotOf
  <2>2. ASSUME NEW a \in answered' PROVE Backed(store, a) /\ Evidenced(store, a)
    <3>1. a \in Report /\ a.key # k /\ Backed(memory, a) /\ Evidenced(memory, a)
      BY <2>1, <1>1 DEF IInv, AnsweredHold, TypeOK
    <3>. QED BY <3>1, <1>1, RemovalBacks, PutEvidences
  <2>. QED BY <2>1, <2>2
<1>4. \A s \in Scope : IsFiniteSet(Held(store, s))
  BY <1>1, HeldAfterPut DEF IInv, Finite
<1>. HIDE DEF store
<1>5. TypeOK' /\ AnsweredHold' /\ Finite' /\ serving' = Idle
  BY <1>1, <1>2, <1>3, <1>4, WriteStep
<1>. QED BY <1>5 DEF IInv, ImportedHold, TaskInHand, InLoop, Stages, Counts

LEMMA CrashHolds ==
  ASSUME IInv, Crash
  PROVE  IInv'
<1>1. /\ memory' = disk /\ serving' = Idle /\ faults' \in 0..MaxFaults
      /\ UNCHANGED <<disk, requests, answered>>
  BY BoundAssumption DEF IInv, TypeOK, Crash
<1>2. TypeOK'
  BY <1>1 DEF IInv, TypeOK
<1>3. AnsweredHold'
  BY <1>1 DEF IInv, AnsweredHold, Backed, Evidenced
<1>4. Finite'
  BY <1>1 DEF IInv, Finite, Held
<1>. QED BY <1>1, <1>2, <1>3, <1>4 DEF IInv, ImportedHold, TaskInHand, InLoop, Stages, Counts

LEMMA InitHolds ==
  ASSUME Init
  PROVE  IInv
<1>1. memory \in Store /\ disk = memory
  BY DEF Init, Store
<1>2. TypeOK
  BY <1>1, BoundAssumption DEF Init, TypeOK
<1>3. \A s : Held(memory, s) = {}
  BY DEF Init, Held
<1>4. Finite
  BY <1>1, <1>3, FS_EmptySet DEF Finite
<1>. QED BY <1>2, <1>4 DEF Init, IInv, AnsweredHold, ImportedHold, TaskInHand, InLoop, Stages, Counts

LEMMA StutterHolds ==
  ASSUME IInv, UNCHANGED vars
  PROVE  IInv'
<1>1. UNCHANGED <<memory, disk, serving, requests, faults, answered>>
  BY DEF vars
<1>2. IInv' <=> IInv
  BY <1>1 DEF IInv, TypeOK, AnsweredHold, ImportedHold, Backed, Evidenced, Pending, Evidence, TimedAudit,
              TaskInHand, InLoop, InTasks, Current, ThisRow, Stages, Finite, Held, Counts, Surplus, Unreported, Rows
<1>. QED BY <1>2

THEOREM Inductive == Spec => []IInv
<1>1. IInv /\ [Next]_vars => IInv'
  BY RejectRowHolds, MissTaskHolds, SaveTaskHolds, AuditTaskHolds, SaveEventHolds, EndRowsHolds,
     CancelEventHolds, EndCancelledHolds, AuditEventHolds, EndLogHolds, AnswerHolds, BeginHolds,
     DeleteTaskHolds, CrashHolds, StutterHolds DEF Next
<1>. QED BY <1>1, InitHolds, PTL DEF Spec

-----------------------------------------------------------------------------
\* The imports keep their variables in their types.
THEOREM TypeCorrect == Spec => []TypeOK
BY Inductive, PTL DEF IInv

\* What an answer called imported is in the file with its evidence until it is deleted, for any
\* requests, whatever ids coincide, and any number of crashes and failed writes.
THEOREM ImportsAreKept == Spec => []ImportsKept
<1>1. IInv => ImportsKept
  BY DEF IInv, AnsweredHold, Backed, Evidenced, ImportsKept
<1>. QED BY <1>1, Inductive, PTL

\* The counts of every answer are right: each row counted once, the scope grown by what was
\* created and not cancelled, and by no more than failed writes besides.
THEOREM CountsAreRight == Spec => []CountsMatch
<1>1. ASSUME IInv PROVE CountsMatch
  <2>. SUFFICES ASSUME InLoop("answer") PROVE CountsMatch
    BY DEF CountsMatch
  <2>1. serving # Idle /\ serving.stage = "answer"
    BY DEF InLoop
  <2>2. PICK n, b, c, g : /\ n = Cardinality(Held(memory, serving.request.scope))
                          /\ b = Cardinality(serving.before) /\ c = serving.created /\ g = Len(serving.gone)
    OBVIOUS
  <2>3. /\ n \in Nat /\ b \in Nat /\ c \in Nat /\ g \in Nat /\ Surplus \in 0..serving.errors
        /\ (serving.clean => Surplus = 0) /\ Rows = Len(serving.request.rows) /\ Unreported = 0
        /\ serving.created + serving.updated + serving.errors = Rows
    BY <1>1, <2>1, <2>2, CountsFacts DEF Rows, Unreported
  <2>4. Surplus = n - 0 - (b + c - g)
    BY <2>2, <2>3 DEF Surplus
  <2>5. Surplus = n - (b + c - g) /\ (Surplus = 0 => n = b + c - g)
    BY <2>3, <2>4
  <2>. QED BY <2>2, <2>3, <2>5 DEF CountsMatch
<1>. QED BY <1>1, Inductive, PTL
=============================================================================
