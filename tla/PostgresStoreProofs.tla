------------------------- MODULE PostgresStoreProofs -------------------------
(***************************************************************************)
(* The PostgreSQL repositories, for every database that this code may have *)
(* left, any calls in any number of processes, and any faults.  First the  *)
(* programs: what each method sends, and that it opens and closes its      *)
(* transaction.  Second the discipline: a caller is in a transaction       *)
(* exactly between its BEGIN and its COMMIT, on a connection of its own,   *)
(* and every step has one of a few effects on the rows (Effect).  Third    *)
(* what two transactions have in common: no row (Exclusive).  On these     *)
(* rest the invariants: MigrationInv says what a transaction that applies  *)
(* a migration has written before its n-th statement, PlansInv the same of *)
(* one that saves a plan and of the clean-up, so that the COMMIT of each   *)
(* takes a whole database to a whole one.  Last, KeptInv says of the calls *)
(* that returned what they find in their rows as long as no rival is made. *)
(***************************************************************************)
EXTENDS PostgresStore, SequenceTheorems, WellFoundedInduction, TLAPS

-----------------------------------------------------------------------------
(* The programs. *)

\* What a method of one repository sends: reads, and writes of its own row.
OwnRow(call) == <<call.of, call.id>>
Reads(s) == s.verb = "select"
Saves(call, s) ==
    s.verb \in {"upsert", "insert"} /\ s.where = Is(OwnRow(call)) /\ call.of \notin {"schedule_plans", "time_blocks"}
Alters(call, s) ==
    s.verb = "update" /\ s.where = Is(OwnRow(call)) /\ call.of \in {"time_blocks", "idempotency_keys"}
Deletes(call, s) ==
    /\ s.verb = "delete"
    /\ s.where \in {Is(OwnRow(call)), Every(call.of)}
    /\ call.of \in {"tasks", "calendar_events", "auth_login_attempt_windows"}
Simple(call, s) == Reads(s) \/ Saves(call, s) \/ Alters(call, s) \/ Deletes(call, s)

\* A program of one or two of them.
Short(call, p) ==
    \E s, t : Simple(call, s) /\ Simple(call, t) /\ (p = <<s>> \/ p = <<s, t>>)

LEMMA Joined ==
  ASSUME NEW s, NEW t
  PROVE  <<s>> \o <<>> = <<s>> /\ <<s>> \o <<t>> = <<s, t>>
<1>1. <<s>> \in Seq({s, t}) /\ <<t>> \in Seq({s, t}) /\ <<s, t>> \in Seq({s, t})
  OBVIOUS
<1>2. <<s>> \o <<>> = <<s>>
  BY <1>1, ConcatEmptySeq
<1>3. <<s>> \o <<t>> = <<s, t>>
  <2>. DEFINE p == <<s>> \o <<t>>
  <2>1. p \in Seq({s, t}) /\ Len(p) = 2 /\ p[1] = s /\ p[2] = t
    BY <1>1, ConcatProperties
  <2>. DEFINE q == <<s, t>>
  <2>2. q \in Seq({s, t}) /\ Len(q) = 2 /\ q[1] = s /\ q[2] = t
    OBVIOUS
  <2>. HIDE DEF p, q
  <2>3. p = q
    BY <2>1, <2>2, SeqEqual
  <2>. QED
    BY <2>3 DEF p, q
<1>. QED
  BY <1>2, <1>3

LEMMA Statements ==
  ASSUME NEW k, NEW r, NEW w, NEW s
  PROVE  /\ Put(k, r).verb = "upsert" /\ Put(k, r).where = Is(k)
         /\ Add(k, r).verb = "insert" /\ Add(k, r).where = Is(k)
         /\ Change(k, r).verb = "update" /\ Change(k, r).where = Is(k)
         /\ Drop(w).verb = "delete" /\ Drop(w).where = w
         /\ Read(w).verb = "select" /\ Read(w).where = w
         /\ OrThrow(Read(w)).verb = "select"
         /\ OrThrow(Drop(w)).verb = "delete" /\ OrThrow(Drop(w)).where = w
         /\ OrThrow(Change(k, r)).verb = "update" /\ OrThrow(Change(k, r)).where = Is(k)
BY DEF Put, Add, Change, Drop, Read, OrThrow, Plain

LEMMA ShortForms ==
  ASSUME NEW call, NEW s, NEW t
  PROVE  /\ Simple(call, s) => Short(call, <<s>>)
         /\ Simple(call, s) /\ Simple(call, t) => Short(call, <<s, t>>)
         /\ Simple(call, s) => Short(call, <<s>> \o <<>>)
         /\ Simple(call, s) /\ Simple(call, t) => Short(call, <<s>> \o <<t>>)
BY Joined DEF Short

LEMMA OneStatement ==
  ASSUME NEW call, NEW k, NEW r, NEW w
  PROVE  /\ Simple(call, Read(w)) /\ Simple(call, OrThrow(Read(w)))
         /\ call.of \notin {"schedule_plans", "time_blocks"}
               => Simple(call, Put(OwnRow(call), r)) /\ Simple(call, Add(OwnRow(call), r))
         /\ call.of \in {"time_blocks", "idempotency_keys"}
               => Simple(call, Change(OwnRow(call), r)) /\ Simple(call, OrThrow(Change(OwnRow(call), r)))
         /\ call.of \in {"tasks", "calendar_events", "auth_login_attempt_windows"}
               => Simple(call, OrThrow(Drop(Is(OwnRow(call))))) /\ Simple(call, Drop(Every(call.of)))
BY Statements DEF Simple, Reads, Saves, Alters, Deletes

\* The repositories whose methods send one statement.
LEMMA ShortTables ==
  ASSUME NEW call, NEW saw, Offered(call),
         call.of \in {"tasks", "calendar_events", "working_hours", "audit_events", "integration_states",
                      "users", "memberships", "auth_login_attempt_windows"}
  PROVE  Short(call, Program(call, saw))
<1>. USE OneStatement, ShortForms DEF OwnRow, Upsert, GetOne, List
<1>1. CASE call.of = "tasks"
  <2>1. Program(call, saw) = TaskRepository(call) /\ call.op \in {"upsert", "get", "list", "delete"}
    BY <1>1 DEF Program, Offered, Methods
  <2>2. CASE call.op = "upsert"
    BY <1>1, <2>1, <2>2 DEF TaskRepository
  <2>3. CASE call.op = "get"
    BY <1>1, <2>1, <2>3 DEF TaskRepository
  <2>4. CASE call.op = "list"
    BY <1>1, <2>1, <2>4 DEF TaskRepository
  <2>5. CASE call.op = "delete"
    BY <1>1, <2>1, <2>5 DEF TaskRepository
  <2>. QED
    BY <2>1, <2>2, <2>3, <2>4, <2>5
<1>2. CASE call.of = "calendar_events"
  <2>1. Program(call, saw) = CalendarEventRepository(call) /\ call.op \in {"upsert", "get", "listForSchedule", "delete"}
    BY <1>2 DEF Program, Offered, Methods
  <2>2. CASE call.op = "upsert"
    BY <1>2, <2>1, <2>2 DEF CalendarEventRepository
  <2>3. CASE call.op = "get"
    BY <1>2, <2>1, <2>3 DEF CalendarEventRepository
  <2>4. CASE call.op = "listForSchedule"
    BY <1>2, <2>1, <2>4 DEF CalendarEventRepository
  <2>5. CASE call.op = "delete"
    BY <1>2, <2>1, <2>5 DEF CalendarEventRepository
  <2>. QED
    BY <2>1, <2>2, <2>3, <2>4, <2>5
<1>3. CASE call.of = "working_hours"
  <2>1. Program(call, saw) = WorkingHoursRepository(call) /\ call.op \in {"put", "list"}
    BY <1>3 DEF Program, Offered, Methods
  <2>2. CASE call.op = "put"
    BY <1>3, <2>1, <2>2 DEF WorkingHoursRepository
  <2>3. CASE call.op = "list"
    BY <1>3, <2>1, <2>3 DEF WorkingHoursRepository
  <2>. QED
    BY <2>1, <2>2, <2>3
<1>4. CASE call.of = "audit_events"
  <2>1. Program(call, saw) = AuditEventRepository(call) /\ call.op \in {"append", "list"}
    BY <1>4 DEF Program, Offered, Methods
  <2>2. CASE call.op = "append"
    BY <1>4, <2>1, <2>2 DEF AuditEventRepository
  <2>3. CASE call.op = "list"
    BY <1>4, <2>1, <2>3 DEF AuditEventRepository
  <2>. QED
    BY <2>1, <2>2, <2>3
<1>5. CASE call.of = "integration_states"
  <2>1. Program(call, saw) = IntegrationStateRepository(call) /\ call.op \in {"upsert", "get", "list"}
    BY <1>5 DEF Program, Offered, Methods
  <2>2. CASE call.op = "upsert"
    BY <1>5, <2>1, <2>2 DEF IntegrationStateRepository
  <2>3. CASE call.op = "get"
    BY <1>5, <2>1, <2>3 DEF IntegrationStateRepository
  <2>4. CASE call.op = "list"
    BY <1>5, <2>1, <2>4 DEF IntegrationStateRepository
  <2>. QED
    BY <2>1, <2>2, <2>3, <2>4
<1>6. CASE call.of = "users"
  <2>1. Program(call, saw) = UserRepository(call) /\ call.op \in {"upsert", "get"}
    BY <1>6 DEF Program, Offered, Methods
  <2>2. CASE call.op = "upsert"
    BY <1>6, <2>1, <2>2 DEF UserRepository
  <2>3. CASE call.op = "get"
    BY <1>6, <2>1, <2>3 DEF UserRepository
  <2>. QED
    BY <2>1, <2>2, <2>3
<1>7. CASE call.of = "memberships"
  <2>1. Program(call, saw) = MembershipRepository(call) /\ call.op \in {"upsert", "get", "list"}
    BY <1>7 DEF Program, Offered, Methods
  <2>2. CASE call.op = "upsert"
    BY <1>7, <2>1, <2>2 DEF MembershipRepository
  <2>3. CASE call.op = "get"
    BY <1>7, <2>1, <2>3 DEF MembershipRepository
  <2>4. CASE call.op = "list"
    BY <1>7, <2>1, <2>4 DEF MembershipRepository
  <2>. QED
    BY <2>1, <2>2, <2>3, <2>4
<1>8. CASE call.of = "auth_login_attempt_windows"
  <2>1. Program(call, saw) = LoginAttemptRepository(call) /\ call.op \in {"upsert", "get", "clear"}
    BY <1>8 DEF Program, Offered, Methods
  <2>2. CASE call.op = "upsert"
    BY <1>8, <2>1, <2>2 DEF LoginAttemptRepository
  <2>3. CASE call.op = "get"
    BY <1>8, <2>1, <2>3 DEF LoginAttemptRepository
  <2>4. CASE call.op = "clear"
    BY <1>8, <2>1, <2>4 DEF LoginAttemptRepository
  <2>. QED
    BY <2>1, <2>2, <2>3, <2>4
<1>. QED
  BY <1>1, <1>2, <1>3, <1>4, <1>5, <1>6, <1>7, <1>8

LEMMA ShortMarked ==
  ASSUME NEW call, NEW saw, NEW mark, call.of \notin {"schedule_plans", "time_blocks"}
  PROVE  Short(call, Marked(call.of, call, saw, mark))
<1>1. CASE Saw(saw, OwnRow(call)) = NoRow
  BY <1>1, OneStatement, ShortForms DEF Marked, GetOne, OwnRow
<1>2. CASE Saw(saw, OwnRow(call)) # NoRow
  BY <1>2, OneStatement, ShortForms DEF Marked, GetOne, OwnRow
<1>. QED
  BY <1>1, <1>2

\* Those whose methods read a row and then may write it.
LEMMA ShortReaders ==
  ASSUME NEW call, NEW saw, Offered(call),
         call.of \in {"auth_sessions", "auth_password_reset_tokens", "import_throttles",
                      "request_throttles", "idempotency_keys", "time_blocks"}
  PROVE  Short(call, Program(call, saw))
<1>. USE OneStatement, ShortForms, ShortMarked DEF OwnRow, Upsert, GetOne, List
<1>1. CASE call.of = "auth_sessions"
  <2>1. Program(call, saw) = SessionRepository(call, saw) /\ call.op \in {"upsert", "get", "list", "revoke"}
    BY <1>1 DEF Program, Offered, Methods
  <2>2. CASE call.op = "upsert"
    BY <1>1, <2>1, <2>2 DEF SessionRepository
  <2>3. CASE call.op = "get"
    BY <1>1, <2>1, <2>3 DEF SessionRepository
  <2>4. CASE call.op = "list"
    BY <1>1, <2>1, <2>4 DEF SessionRepository
  <2>5. CASE call.op = "revoke"
    BY <1>1, <2>1, <2>5 DEF SessionRepository
  <2>. QED
    BY <2>1, <2>2, <2>3, <2>4, <2>5
<1>2. CASE call.of = "auth_password_reset_tokens"
  <2>1. Program(call, saw) = PasswordResetTokenRepository(call, saw) /\ call.op \in {"upsert", "get", "list", "use"}
    BY <1>2 DEF Program, Offered, Methods
  <2>2. CASE call.op = "upsert"
    BY <1>2, <2>1, <2>2 DEF PasswordResetTokenRepository
  <2>3. CASE call.op = "get"
    BY <1>2, <2>1, <2>3 DEF PasswordResetTokenRepository
  <2>4. CASE call.op = "list"
    BY <1>2, <2>1, <2>4 DEF PasswordResetTokenRepository
  <2>5. CASE call.op = "use"
    BY <1>2, <2>1, <2>5 DEF PasswordResetTokenRepository
  <2>. QED
    BY <2>1, <2>2, <2>3, <2>4, <2>5
<1>3. CASE call.of = "idempotency_keys"
  <2>1. Program(call, saw) = IdempotencyRepository(call, saw) /\ call.op \in {"reserve", "get", "complete"}
    BY <1>3 DEF Program, Offered, Methods
  <2>2. CASE call.op = "get"
    BY <1>3, <2>1, <2>2 DEF IdempotencyRepository
  <2>3. CASE call.op = "complete"
    BY <1>3, <2>1, <2>3 DEF IdempotencyRepository
  <2>4. CASE call.op = "reserve" /\ Saw(saw, OwnRow(call)) = NoRow
    BY <1>3, <2>1, <2>4 DEF IdempotencyRepository, Reserve
  <2>5. CASE call.op = "reserve" /\ Saw(saw, OwnRow(call)) # NoRow
    BY <1>3, <2>1, <2>5 DEF IdempotencyRepository, Reserve
  <2>. QED
    BY <2>1, <2>2, <2>3, <2>4, <2>5
<1>4. CASE call.of = "import_throttles"
  <2>1. Program(call, saw) = ImportThrottleRepository(call, saw)
    BY <1>4 DEF Program
  <2>2. CASE Consumed(OwnRow(call), call, saw) > ThrottleLimit
    BY <1>4, <2>1, <2>2 DEF ImportThrottleRepository
  <2>3. CASE ~(Consumed(OwnRow(call), call, saw) > ThrottleLimit)
    BY <1>4, <2>1, <2>3 DEF ImportThrottleRepository
  <2>. QED
    BY <2>2, <2>3
<1>5. CASE call.of = "request_throttles"
  <2>1. Program(call, saw) = RequestThrottleRepository(call, saw)
    BY <1>5 DEF Program
  <2>2. CASE call.op = "list"
    BY <1>5, <2>1, <2>2 DEF RequestThrottleRepository
  <2>3. CASE call.op # "list" /\ Consumed(OwnRow(call), call, saw) > ThrottleLimit
    BY <1>5, <2>1, <2>3 DEF RequestThrottleRepository
  <2>4. CASE call.op # "list" /\ ~(Consumed(OwnRow(call), call, saw) > ThrottleLimit)
    BY <1>5, <2>1, <2>4 DEF RequestThrottleRepository
  <2>. QED
    BY <2>2, <2>3, <2>4
<1>6. CASE call.of = "time_blocks"
  <2>1. Program(call, saw) = TimeBlockRepository(call, saw)
    BY <1>6 DEF Program
  <2>2. CASE call.op = "get" \/ Saw(saw, OwnRow(call)) = NoRow
    BY <1>6, <2>1, <2>2 DEF TimeBlockRepository
  <2>3. CASE ~(call.op = "get" \/ Saw(saw, OwnRow(call)) = NoRow)
    BY <1>6, <2>1, <2>3 DEF TimeBlockRepository
  <2>. QED
    BY <2>2, <2>3
<1>. QED
  BY <1>1, <1>2, <1>3, <1>4, <1>5, <1>6

\* A plan that is only read.
LEMMA ShortPlanReads ==
  ASSUME NEW call, NEW saw, Offered(call), call.of = "schedule_plans", ~SavesPlan(call)
  PROVE  Short(call, Program(call, saw))
<1>. USE OneStatement, ShortForms
<1>1. Program(call, saw) = SchedulePlanRepository(call) /\ call.op \in {"get", "list"}
  BY DEF Program, Offered, Methods, SavesPlan
<1>2. CASE call.op = "get"
  BY <1>1, <1>2 DEF SchedulePlanRepository, GetSchedulePlan, GetOne
<1>3. CASE call.op = "list"
  BY <1>1, <1>3 DEF SchedulePlanRepository, List
<1>. QED
  BY <1>1, <1>2, <1>3

\* The calls that may open a transaction; every other one is short.
Transacts(call) == SavesPlan(call) \/ call.of \in {"retention", "schema_migrations"}

LEMMA ShortPrograms ==
  ASSUME NEW call, NEW saw, Offered(call), ~Transacts(call)
  PROVE  Short(call, Program(call, saw))
<1>1. call.of \in DOMAIN Methods \ {"retention", "schema_migrations"}
  BY DEF Offered, Transacts
<1>2. \/ call.of \in {"tasks", "calendar_events", "working_hours", "audit_events", "integration_states",
                      "users", "memberships", "auth_login_attempt_windows"}
      \/ call.of \in {"auth_sessions", "auth_password_reset_tokens", "import_throttles",
                      "request_throttles", "idempotency_keys", "time_blocks"}
      \/ call.of = "schedule_plans"
  BY <1>1 DEF Methods
<1>. QED
  BY <1>2, ShortTables, ShortReaders, ShortPlanReads DEF Transacts

\* u is s followed by t.
Joins(u, s, t) ==
    /\ Len(u) = Len(s) + Len(t)
    /\ \A i \in 1..Len(s) : u[i] = s[i]
    /\ \A i \in 1..Len(t) : u[i + Len(s)] = t[i]

LEMMA ConcatAt ==
  ASSUME NEW S, NEW s \in Seq(S), NEW t \in Seq(S)
  PROVE  s \o t \in Seq(S) /\ Joins(s \o t, s, t)
<1>. DEFINE u == s \o t  m == Len(s)  n == Len(t)
<1>1. /\ u \in Seq(S) /\ Len(u) = m + n /\ m \in Nat /\ n \in Nat
      /\ \A i \in 1..m + n : u[i] = IF i <= m THEN s[i] ELSE t[i - m]
  BY ConcatProperties, LenProperties
<1>. HIDE DEF u, m, n, Joins
<1>2. \A i \in 1..m : u[i] = s[i]
  BY <1>1
<1>3. ASSUME NEW i \in 1..n PROVE u[i + m] = t[i]
  <2>1. i + m \in 1..m + n /\ ~(i + m <= m) /\ (i + m) - m = i
    BY <1>1
  <2>. QED
    BY <1>1, <2>1
<1>. QED
  BY <1>1, <1>2, <1>3 DEF u, m, n, Joins

IsSeq(p) == p \in Seq({p[i] : i \in DOMAIN p})

\* A call that saves a plan, statement by statement.
SavedPlan(call) == [call.row EXCEPT !.blocks = {@[i] : i \in DOMAIN @}]
PlanShape(call, p) ==
  LET n == Len(call.row.blocks)
  IN  /\ n \in Nat /\ Len(p) = n + 4
      /\ p[1] = Begin
      /\ p[2] = Put(<<"schedule_plans", call.id>>, SavedPlan(call))
      /\ p[3] = Drop(OfPlan(call.id))
      /\ \A i \in 1..n : p[i + 3] = InsertBlock(call.id, call.row.blocks[i])
      /\ p[n + 4] = Commit
LEMMA PlanProgram ==
  ASSUME NEW call, NEW saw, Offered(call), SavesPlan(call)
  PROVE  IsSeq(Program(call, saw)) /\ PlanShape(call, Program(call, saw))
<1>. DEFINE n == Len(call.row.blocks)
            put == Put(<<"schedule_plans", call.id>>, [call.row EXCEPT !.blocks = {@[i] : i \in DOMAIN @}])
            drop == Drop(OfPlan(call.id))
            inserts == [i \in DOMAIN call.row.blocks |-> InsertBlock(call.id, call.row.blocks[i])]
            S == {Begin, put, drop, Commit} \cup {InsertBlock(call.id, call.row.blocks[i]) : i \in 1..n}
<1>1. n \in Nat /\ DOMAIN call.row.blocks = 1..n
  BY DEF Offered
<1>2. Program(call, saw) = (<<Begin, put, drop>> \o inserts) \o <<Commit>>
  BY DEF Program, SchedulePlanRepository, UpsertSchedulePlan, SavesPlan
<1>3. inserts \in Seq(S) /\ Len(inserts) = n /\ \A i \in 1..n : inserts[i] = InsertBlock(call.id, call.row.blocks[i])
  <2>1. inserts = [i \in 1..n |-> InsertBlock(call.id, call.row.blocks[i])]
    BY <1>1
  <2>2. \A i \in 1..n : InsertBlock(call.id, call.row.blocks[i]) \in S
    OBVIOUS
  <2>. HIDE DEF S, n
  <2>3. inserts \in Seq(S)
    BY <2>1, <2>2, <1>1
  <2>. QED
    BY <2>1, <2>3, <1>1
<1>. DEFINE start == <<Begin, put, drop>>  end == <<Commit>>  p == (start \o inserts) \o end
<1>4. /\ start \in Seq(S) /\ Len(start) = 3
      /\ start[1] = Begin /\ start[2] = put /\ start[3] = drop
      /\ end \in Seq(S) /\ Len(end) = 1 /\ end[1] = Commit
  <2>1. {Begin, put, drop, Commit} \subseteq S
    OBVIOUS
  <2>. HIDE DEF S, put, drop
  <2>. QED
    BY <2>1
<1>. HIDE DEF S, start, end, inserts, put, drop, n
<1>. DEFINE q == start \o inserts
<1>5. /\ q \in Seq(S) /\ Len(q) = 3 + n
      /\ \A i \in 1..3 : q[i] = start[i]
      /\ \A i \in 1..n : q[i + 3] = inserts[i]
  <2>1. start \in Seq(S) /\ inserts \in Seq(S)
    BY <1>3, <1>4
  <2>2. start \o inserts \in Seq(S) /\ Joins(start \o inserts, start, inserts)
    BY <2>1, ConcatAt
  <2>. QED
    BY <2>2, <1>3, <1>4 DEF Joins
<1>. HIDE DEF q
<1>6. /\ q \o end \in Seq(S) /\ Len(q \o end) = (3 + n) + 1
      /\ \A i \in 1..3 + n : (q \o end)[i] = q[i]
      /\ \A i \in 1..1 : (q \o end)[i + (3 + n)] = end[i]
  <2>1. q \in Seq(S) /\ end \in Seq(S)
    BY <1>4, <1>5
  <2>2. q \o end \in Seq(S) /\ Joins(q \o end, q, end)
    BY <2>1, ConcatAt
  <2>. QED
    BY <2>2, <1>4, <1>5 DEF Joins
<1>7. p = q \o end
  BY DEF p, q
<1>. HIDE DEF p
<1>8. /\ p \in Seq(S) /\ Len(p) = n + 4
      /\ p[1] = Begin /\ p[2] = put /\ p[3] = drop /\ p[n + 4] = Commit
  <2>. DEFINE qe == q \o end
  <2>1. 1 + (3 + n) = n + 4 /\ (3 + n) + 1 = n + 4 /\ {1, 2, 3} \subseteq 1..3 + n
    BY <1>1
  <2>2. p[1] = q[1] /\ p[2] = q[2] /\ p[3] = q[3]
    BY <2>1, <1>6, <1>7
  <2>3. p[1 + (3 + n)] = end[1]
    <3>1. 1 \in 1..1
      OBVIOUS
    <3>. QED
      BY <3>1, <1>6, <1>7
  <2>. QED
    BY <2>1, <2>2, <2>3, <1>4, <1>5, <1>6, <1>7
<1>11. ASSUME NEW i \in 1..n PROVE p[i + 3] = InsertBlock(call.id, call.row.blocks[i])
  <2>1. i + 3 \in 1..3 + n
    BY <1>1
  <2>. QED
    BY <2>1, <1>3, <1>5, <1>6, <1>7
<1>9. p \in Seq({p[i] : i \in DOMAIN p})
  BY <1>8
<1>10. Program(call, saw) = p
  BY <1>2 DEF p, start, end
<1>. QED
  BY <1>1, <1>8, <1>9, <1>10, <1>11 DEF n, put, drop, IsSeq, PlanShape, SavedPlan

LEMMA OwnRange ==
  ASSUME NEW S, NEW s \in Seq(S)
  PROVE  s \in Seq({s[i] : i \in DOMAIN s})
OBVIOUS

\* The clean-up: eight counts, then the transaction.
CleanupShape(call, p) ==
  /\ Len(p) = IF call.dryRun THEN 8 ELSE 18
  /\ \A i \in 1..8 : p[i].verb = "select"
  /\ ~call.dryRun =>
        /\ p[9] = Begin /\ p[10] = Drop(OfOldPlans) /\ p[11] = Drop(Old("schedule_plans"))
        /\ \A i \in 1..6 : p[i + 11] = Drop(Old(CountedTables[i + 1]))
        /\ p[18] = Commit
LEMMA CleanupProgram ==
  ASSUME NEW call, NEW saw, Offered(call), call.of = "retention"
  PROVE  IsSeq(Program(call, saw)) /\ CleanupShape(call, Program(call, saw))
<1>. DEFINE a == <<Begin>>  b == DeleteExpiredPostgresSchedulePlans(saw)
            d == [i \in 1..6 |-> Drop(Old(CountedTables[i + 1]))]  e == <<Commit>>
            S == {Counts[i] : i \in 1..8} \cup {d[i] : i \in 1..6}
                   \cup {Begin, Commit, Drop(OfOldPlans), Drop(Old("schedule_plans"))}
<1>1. Counts \in Seq(S) /\ Len(Counts) = 8 /\ \A i \in 1..8 : Counts[i].verb = "select"
  <2>1. DOMAIN CountedTables = 1..8
    BY DEF CountedTables
  <2>2. Counts = [i \in 1..8 |-> Read(Old(CountedTables[i]))]
    BY <2>1 DEF Counts
  <2>3. \A i \in 1..8 : Counts[i] \in S
    OBVIOUS
  <2>. HIDE DEF S
  <2>4. Counts \in Seq(S) /\ Len(Counts) = 8
    BY <2>2, <2>3
  <2>. QED
    BY <2>2, <2>4, Statements
<1>2. /\ a \in Seq(S) /\ Len(a) = 1 /\ a[1] = Begin
      /\ e \in Seq(S) /\ Len(e) = 1 /\ e[1] = Commit
      /\ b \in Seq(S) /\ Len(b) = 2 /\ b[1] = Drop(OfOldPlans) /\ b[2] = Drop(Old("schedule_plans"))
  <2>1. {Begin, Commit, Drop(OfOldPlans), Drop(Old("schedule_plans"))} \subseteq S
    OBVIOUS
  <2>. HIDE DEF S
  <2>. QED
    BY <2>1 DEF DeleteExpiredPostgresSchedulePlans
<1>3. d \in Seq(S) /\ Len(d) = 6 /\ \A i \in 1..6 : d[i] = Drop(Old(CountedTables[i + 1]))
  <2>1. \A i \in 1..6 : d[i] \in S
    OBVIOUS
  <2>. HIDE DEF S
  <2>. QED
    BY <2>1
<1>4. Program(call, saw) = Counts \o (IF call.dryRun THEN <<>> ELSE ((a \o b) \o d) \o e)
  BY DEF Program, CleanupPostgresRetention
<1>. DEFINE w == Counts
<1>0. w \in Seq(S) /\ Len(w) = 8
  BY <1>1
<1>01. \A i \in 1..8 : w[i].verb = "select"
  BY <1>1
<1>. HIDE DEF S, a, b, d, e, w
<1>. DEFINE ab == a \o b  abd == ab \o d  abde == abd \o e  p == w \o abde
<1>5. ab \in Seq(S) /\ Len(ab) = 3 /\ (\A i \in 1..1 : ab[i] = a[i]) /\ \A i \in 1..2 : ab[i + 1] = b[i]
  <2>1. a \in Seq(S) /\ b \in Seq(S)
    BY <1>2
  <2>2. a \o b \in Seq(S) /\ Joins(a \o b, a, b)
    BY <2>1, ConcatAt
  <2>. QED
    BY <2>2, <1>2 DEF Joins
<1>. HIDE DEF ab
<1>6. abd \in Seq(S) /\ Len(abd) = 9 /\ (\A i \in 1..3 : abd[i] = ab[i]) /\ \A i \in 1..6 : abd[i + 3] = d[i]
  <2>1. ab \in Seq(S) /\ d \in Seq(S)
    BY <1>3, <1>5
  <2>2. ab \o d \in Seq(S) /\ Joins(ab \o d, ab, d)
    BY <2>1, ConcatAt
  <2>. QED
    BY <2>2, <1>3, <1>5 DEF Joins
<1>. HIDE DEF abd
<1>7. abde \in Seq(S) /\ Len(abde) = 10 /\ (\A i \in 1..9 : abde[i] = abd[i]) /\ \A i \in 1..1 : abde[i + 9] = e[i]
  <2>1. abd \in Seq(S) /\ e \in Seq(S)
    BY <1>2, <1>6
  <2>2. abd \o e \in Seq(S) /\ Joins(abd \o e, abd, e)
    BY <2>1, ConcatAt
  <2>. QED
    BY <2>2, <1>2, <1>6 DEF Joins
<1>. HIDE DEF abde
<1>8. p \in Seq(S) /\ Len(p) = 18 /\ (\A i \in 1..8 : p[i] = w[i]) /\ \A i \in 1..10 : p[i + 8] = abde[i]
  <2>1. w \in Seq(S) /\ abde \in Seq(S)
    BY <1>0, <1>7
  <2>2. w \o abde \in Seq(S) /\ Joins(w \o abde, w, abde)
    BY <2>1, ConcatAt
  <2>. DEFINE u == w \o abde
  <2>. HIDE DEF u
  <2>3. u \in Seq(S) /\ Joins(u, w, abde)
    BY <2>2 DEF u
  <2>4. Len(w) = 8 /\ Len(abde) = 10
    BY <1>0, <1>7
  <2>5. Len(u) = 18 /\ (\A i \in 1..8 : u[i] = w[i]) /\ \A i \in 1..10 : u[i + 8] = abde[i]
    BY <2>3, <2>4 DEF Joins
  <2>. QED
    BY <2>3, <2>5 DEF u
<1>. HIDE DEF p
<1>9. CASE call.dryRun
  <2>1. Program(call, saw) = w
    <3>1. Program(call, saw) = w \o <<>>
      BY <1>4, <1>9 DEF w
    <3>. QED
      BY <3>1, <1>0, ConcatEmptySeq
  <2>2. w \in Seq({w[i] : i \in DOMAIN w})
    BY <1>0, OwnRange
  <2>. QED
    BY <1>0, <1>01, <1>9, <2>1, <2>2 DEF IsSeq, CleanupShape
<1>10. CASE ~call.dryRun
  <2>1. Program(call, saw) = p
    BY <1>4, <1>10 DEF p, abde, abd, ab, w
  <2>2. /\ p[9] = abde[1] /\ p[10] = abde[2] /\ p[11] = abde[3] /\ p[18] = abde[10]
        /\ \A i \in 1..6 : p[i + 11] = abde[i + 3]
    <3>1. p[1 + 8] = abde[1] /\ p[2 + 8] = abde[2] /\ p[3 + 8] = abde[3] /\ p[10 + 8] = abde[10]
      BY <1>8
    <3>2. ASSUME NEW i \in 1..6 PROVE p[i + 11] = abde[i + 3]
      <4>. DEFINE j == i + 3
      <4>1. j \in 1..10 /\ j + 8 = i + 11
        OBVIOUS
      <4>. HIDE DEF j
      <4>2. p[j + 8] = abde[j]
        BY <4>1, <1>8
      <4>. QED
        BY <4>1, <4>2 DEF j
    <3>. QED
      BY <3>1, <3>2
  <2>3. /\ abde[1] = abd[1] /\ abde[2] = abd[2] /\ abde[3] = abd[3]
        /\ \A i \in 1..6 : abde[i + 3] = abd[i + 3]
    <3>1. \A i \in 1..6 : i + 3 \in 1..9
      OBVIOUS
    <3>. QED
      BY <3>1, <1>7
  <2>4. abde[1 + 9] = e[1]
    BY <1>7
  <2>5. abd[1] = ab[1] /\ abd[2] = ab[2] /\ abd[3] = ab[3]
    BY <1>6
  <2>6. ab[1] = a[1] /\ ab[1 + 1] = b[1] /\ ab[2 + 1] = b[2]
    BY <1>5
  <2>7. \A i \in 1..6 : p[i + 11] = Drop(Old(CountedTables[i + 1]))
    BY <2>2, <2>3, <1>3, <1>6
  <2>8. \A i \in 1..8 : p[i].verb = "select"
    BY <1>01, <1>8
  <2>9. p \in Seq({p[i] : i \in DOMAIN p})
    <3>1. p \in Seq(S)
      BY <1>8
    <3>. QED
      BY <3>1, OwnRange
  <2>10. p[9] = Begin /\ p[10] = Drop(OfOldPlans) /\ p[11] = Drop(Old("schedule_plans")) /\ p[18] = Commit
    BY <2>2, <2>3, <2>4, <2>5, <2>6, <1>2
  <2>. QED
    BY <1>8, <1>10, <2>1, <2>7, <2>8, <2>9, <2>10 DEF IsSeq, CleanupShape
<1>. QED
  BY <1>9, <1>10 DEF Offered

LEMMA LeastNat ==
  ASSUME NEW A \in SUBSET Nat, A # {}
  PROVE  \E m \in A : \A k \in A : m <= k
<1>. DEFINE R == {p \in Nat \X Nat : p[1] < p[2]}
<1>1. IsWellFoundedOn(R, Nat)
  BY NatLessThanWellFounded DEF OpToRel
<1>. HIDE DEF R
<1>2. PICK m \in A : \A y \in A : <<y, m>> \notin R
  BY <1>1, WFMin
<1>3. ASSUME NEW k \in A PROVE m <= k
  <2>1. k < m => <<k, m>> \in R
    BY DEF R
  <2>2. ~(k < m) /\ k \in Nat /\ m \in Nat
    BY <1>2, <2>1
  <2>. QED BY <2>2
<1>. QED BY <1>3

\* The versions that a run of the migrations finds missing: all of them, in order.
Lacks(saw, x) == Saw(saw, <<"schema_migrations", Versions[x]>>) = NoRow
Among(saw, f, n) ==
  f = [i \in 0..n |-> IF i = 0 THEN <<>>
                      ELSE IF Lacks(saw, i) THEN Append(f[i - 1], Versions[i]) ELSE f[i - 1]]
Listing(saw, t, n) ==
  /\ t \in Seq(Nat)
  /\ \A m \in 1..Len(t) : \E x \in 1..n : t[m] = Versions[x] /\ Lacks(saw, x)
  /\ \A x \in 1..n : Lacks(saw, x) => \E m \in 1..Len(t) : t[m] = Versions[x]
  /\ \A m \in 1..Len(t), x \in 1..n :
        Lacks(saw, x) /\ Versions[x] < t[m] => \E l \in 1..m - 1 : t[l] = Versions[x]

LEMMA AmongExists ==
  ASSUME NEW saw, NEW n \in Nat
  PROVE  \E f : Among(saw, f, n)
<1>. DEFINE A == {i \in Nat : ~\E f : Among(saw, f, i)}
<1>. SUFFICES ASSUME A # {} PROVE FALSE
  OBVIOUS
<1>1. PICK i \in A : \A k \in A : i <= k
  <2>1. A \in SUBSET Nat
    OBVIOUS
  <2>. HIDE DEF A
  <2>. QED
    BY <2>1, LeastNat
<1>2. CASE i = 0
  <2>1. Among(saw, [j \in 0..0 |-> <<>>], 0)
    BY DEF Among
  <2>. QED
    BY <1>2, <2>1
<1>3. CASE i # 0
  <2>1. i - 1 \in Nat /\ i - 1 \notin A /\ i \in Nat
    BY <1>1, <1>3
  <2>2. PICK f : Among(saw, f, i - 1)
    BY <2>1
  <2>. DEFINE last == IF Lacks(saw, i) THEN Append(f[i - 1], Versions[i]) ELSE f[i - 1]
              g == [j \in 0..i |-> IF j = i THEN last ELSE f[j]]
  <2>3. \A j \in 0..i - 1 : f[j] = IF j = 0 THEN <<>>
                      ELSE IF Lacks(saw, j) THEN Append(f[j - 1], Versions[j]) ELSE f[j - 1]
    BY <2>2 DEF Among
  <2>4. Among(saw, g, i)
    <3>1. \A j \in 0..i : g[j] = IF j = 0 THEN <<>>
                      ELSE IF Lacks(saw, j) THEN Append(g[j - 1], Versions[j]) ELSE g[j - 1]
      <4>1. \A j \in 0..i - 1 : g[j] = f[j]
        BY <2>1
      <4>2. g[i] = last
        BY <2>1
      <4>. HIDE DEF g
      <4>3. ASSUME NEW j \in 0..i - 1
            PROVE  g[j] = IF j = 0 THEN <<>>
                      ELSE IF Lacks(saw, j) THEN Append(g[j - 1], Versions[j]) ELSE g[j - 1]
        <5>1. j = 0 \/ j - 1 \in 0..i - 1
          BY <2>1
        <5>. QED
          BY <4>1, <2>3, <5>1
      <4>4. g[i - 1] = f[i - 1] /\ i # 0
        BY <2>1, <4>1, <1>3
      <4>. QED
        BY <4>2, <4>3, <4>4, <2>1
    <3>2. g = [j \in 0..i |-> g[j]]
      OBVIOUS
    <3>. HIDE DEF g
    <3>. QED
      BY <3>1, <3>2 DEF Among
  <2>. QED
    BY <2>4, <1>1
<1>. QED
  BY <1>2, <1>3

LEMMA MissingListed ==
  ASSUME NEW saw
  PROVE  Listing(saw, Missing(saw), Len(Versions))
<1>. DEFINE n == Len(Versions)  f == CHOOSE g : Among(saw, g, n)
<1>1. n \in Nat /\ Versions \in Seq(Nat) /\ (\A i \in 1..n : Versions[i] \in Nat)
      /\ \A i, j \in 1..n : i < j => Versions[i] < Versions[j]
  BY VersionsAssumption
<1>2. Among(saw, f, n) /\ Missing(saw) = f[n]
  <2>1. Missing(saw) = f[n]
    BY Zenon DEF Missing, Among, Lacks
  <2>. QED
    BY <2>1, <1>1, AmongExists
<1>. HIDE DEF f, n
<1>3. \A j \in 0..n : f[j] = IF j = 0 THEN <<>>
                      ELSE IF Lacks(saw, j) THEN Append(f[j - 1], Versions[j]) ELSE f[j - 1]
  BY <1>2 DEF Among
<1>. DEFINE A == {i \in 0..n : ~Listing(saw, f[i], i)}
<1>4. SUFFICES A = {}
  BY <1>1, <1>2 DEF n
<1>. SUFFICES ASSUME A # {} PROVE FALSE
  OBVIOUS
<1>5. PICK i \in A : \A k \in A : i <= k
  <2>1. A \in SUBSET Nat
    BY <1>1
  <2>. HIDE DEF A
  <2>. QED
    BY <2>1, LeastNat
<1>6. CASE i = 0
  <2>1. f[0] = <<>>
    BY <1>1, <1>3
  <2>2. Listing(saw, <<>>, 0)
    BY DEF Listing
  <2>. QED
    BY <1>5, <1>6, <2>1, <2>2
<1>7. CASE i # 0
  <2>. DEFINE t == f[i - 1]  v == Versions[i]
  <2>1. i \in 1..n /\ i - 1 \in 0..n /\ i - 1 \notin A /\ v \in Nat
    BY <1>1, <1>5, <1>7
  <2>2. Listing(saw, t, i - 1)
    BY <2>1
  <2>3. f[i] = IF Lacks(saw, i) THEN Append(t, v) ELSE t
    BY <2>1, <1>3, <1>7
  <2>. HIDE DEF t, v, A
  <2>4. CASE ~Lacks(saw, i)
    <3>1. \A x \in 1..i : Lacks(saw, x) => x \in 1..i - 1
      BY <2>1, <2>4
    <3>2. Listing(saw, t, i)
      BY <2>1, <2>2, <3>1 DEF Listing
    <3>. QED
      BY <2>3, <2>4, <3>2, <1>5 DEF A
  <2>5. CASE Lacks(saw, i)
    <3>. DEFINE u == Append(t, v)  m == Len(t)
    <3>1. t \in Seq(Nat) /\ m \in Nat
      BY <2>2 DEF Listing
    <3>2. u \in Seq(Nat) /\ Len(u) = m + 1 /\ u[m + 1] = v /\ \A l \in 1..m : u[l] = t[l]
      BY <2>1, <3>1
    <3>. HIDE DEF u, m
    <3>3. \A l \in 1..m : \E x \in 1..i - 1 : t[l] = Versions[x] /\ Lacks(saw, x)
      BY <2>2 DEF Listing, m
    <3>4. \A x \in 1..i - 1 : Lacks(saw, x) => \E l \in 1..m : t[l] = Versions[x]
      BY <2>2 DEF Listing, m
    <3>5. \A l \in 1..m, x \in 1..i - 1 :
             Lacks(saw, x) /\ Versions[x] < t[l] => \E k \in 1..l - 1 : t[k] = Versions[x]
      BY <2>2 DEF Listing, m
    <3>6. \A x \in 1..i - 1 : Versions[x] < v
      BY <2>1, <1>1 DEF v
    <3>7. ASSUME NEW l \in 1..m + 1 PROVE \E x \in 1..i : u[l] = Versions[x] /\ Lacks(saw, x)
      <4>1. CASE l = m + 1
        BY <4>1, <2>1, <2>5, <3>2 DEF v
      <4>2. CASE l \in 1..m
        BY <4>2, <2>1, <3>2, <3>3
      <4>. QED
        BY <4>1, <4>2, <3>1
    <3>8. ASSUME NEW x \in 1..i, Lacks(saw, x) PROVE \E l \in 1..m + 1 : u[l] = Versions[x]
      <4>1. CASE x = i
        BY <4>1, <3>1, <3>2 DEF v
      <4>2. CASE x \in 1..i - 1
        <5>1. PICK l \in 1..m : t[l] = Versions[x]
          BY <4>2, <3>4, <3>8
        <5>. QED
          BY <5>1, <3>1, <3>2
      <4>. QED
        BY <4>1, <4>2, <2>1
    <3>9. ASSUME NEW l \in 1..m + 1, NEW x \in 1..i, Lacks(saw, x), Versions[x] < u[l]
          PROVE  \E k \in 1..l - 1 : u[k] = Versions[x]
      <4>1. CASE l = m + 1
        <5>1. x \in 1..i - 1
          BY <4>1, <3>2, <3>9, <2>1, <1>1 DEF v
        <5>2. PICK k \in 1..m : t[k] = Versions[x]
          BY <5>1, <3>4, <3>9
        <5>. QED
          BY <4>1, <5>2, <3>1, <3>2
      <4>2. CASE l \in 1..m
        <5>1. u[l] = t[l]
          BY <4>2, <3>2
        <5>2. PICK y \in 1..i - 1 : t[l] = Versions[y]
          BY <4>2, <3>3
        <5>3. x # i
          <6>1. Versions[y] < v /\ Versions[y] \in Nat /\ v \in Nat
            BY <5>2, <3>6, <1>1, <2>1
          <6>. QED
            BY <6>1, <5>1, <5>2, <3>9 DEF v
        <5>4. PICK k \in 1..l - 1 : t[k] = Versions[x]
          BY <4>2, <5>1, <5>3, <3>5, <3>9, <2>1
        <5>. QED
          BY <4>2, <5>4, <3>1, <3>2
      <4>. QED
        BY <4>1, <4>2, <3>1
    <3>10. Listing(saw, u, i)
      BY <3>2, <3>7, <3>8, <3>9 DEF Listing
    <3>. QED
      BY <2>3, <2>5, <3>10, <1>5 DEF A, u
  <2>. QED
    BY <2>4, <2>5
<1>. QED
  BY <1>6, <1>7

\* The migrations: two statements, then four for each missing version.
MigrationShape(saw, p) ==
  LET k == Len(Missing(saw))
  IN  /\ k \in Nat /\ Len(p) = 4 * k + 2
      /\ p[1] = Plain("create schema_migrations") /\ p[2] = Read(Every("schema_migrations"))
      /\ \A m \in 1..k :
            /\ p[4 * m - 1] = Begin
            /\ p[4 * m] = Ddl(Missing(saw)[m])
            /\ p[4 * m + 1] = Applied(Missing(saw)[m])
            /\ p[4 * m + 2] = Commit
LEMMA MigrationProgram ==
  ASSUME NEW call, NEW saw, call.of = "schema_migrations"
  PROVE  IsSeq(Program(call, saw)) /\ MigrationShape(saw, Program(call, saw))
<1>. DEFINE k == Len(Missing(saw))
            M == Missing(saw)
            one(n) == ApplyPostgresMigration(M[1 + ((n - 1) \div 4)])[1 + ((n - 1) % 4)]
            steps == [n \in 1..4 * k |-> one(n)]
            a == Plain("create schema_migrations")
            b == Read(Every("schema_migrations"))
            start == <<a, b>>
            S == {a, b} \cup {one(n) : n \in 1..4 * k}
            p == start \o steps
<1>1. k \in Nat
  <2>1. M \in Seq(Nat)
    BY MissingListed DEF Listing
  <2>. QED
    BY <2>1
<1>2. Program(call, saw) = p
  BY DEF Program, RunPostgresMigrations
<1>3. start \in Seq(S) /\ Len(start) = 2 /\ start[1] = a /\ start[2] = b
  <2>1. a \in S /\ b \in S
    OBVIOUS
  <2>. HIDE DEF S, a, b
  <2>. QED
    BY <2>1
<1>4. steps \in Seq(S) /\ Len(steps) = 4 * k
  <2>1. \A n \in 1..4 * k : one(n) \in S
    OBVIOUS
  <2>2. 4 * k \in Nat
    BY <1>1
  <2>. HIDE DEF S, one, k
  <2>. QED
    BY <2>1, <2>2
<1>5. ASSUME NEW m \in 1..k
      PROVE  /\ steps[4 * m - 3] = Begin /\ steps[4 * m - 2] = Ddl(M[m])
             /\ steps[4 * m - 1] = Applied(M[m]) /\ steps[4 * m] = Commit
  <2>1. /\ {4 * m - 3, 4 * m - 2, 4 * m - 1, 4 * m} \subseteq 1..4 * k
        /\ 1 + (((4 * m - 3) - 1) \div 4) = m /\ 1 + (((4 * m - 3) - 1) % 4) = 1
        /\ 1 + (((4 * m - 2) - 1) \div 4) = m /\ 1 + (((4 * m - 2) - 1) % 4) = 2
        /\ 1 + (((4 * m - 1) - 1) \div 4) = m /\ 1 + (((4 * m - 1) - 1) % 4) = 3
        /\ 1 + ((4 * m - 1) \div 4) = m /\ 1 + ((4 * m - 1) % 4) = 4
    BY <1>1
  <2>2. /\ one(4 * m - 3) = ApplyPostgresMigration(M[m])[1] /\ one(4 * m - 2) = ApplyPostgresMigration(M[m])[2]
        /\ one(4 * m - 1) = ApplyPostgresMigration(M[m])[3] /\ one(4 * m) = ApplyPostgresMigration(M[m])[4]
    BY <2>1
  <2>3. /\ one(4 * m - 3) = Begin /\ one(4 * m - 2) = Ddl(M[m])
        /\ one(4 * m - 1) = Applied(M[m]) /\ one(4 * m) = Commit
    BY <2>2 DEF ApplyPostgresMigration
  <2>. HIDE DEF one
  <2>. QED
    BY <2>1, <2>3
<1>. HIDE DEF S, start, steps, k
<1>6. p \in Seq(S) /\ Joins(p, start, steps)
  BY <1>3, <1>4, ConcatAt
<1>. HIDE DEF p
<1>7. Len(p) = 4 * k + 2 /\ (\A i \in 1..2 : p[i] = start[i]) /\ \A i \in 1..4 * k : p[i + 2] = steps[i]
  <2>1. Joins(p, start, steps)
    BY <1>6
  <2>2. Len(start) = 2 /\ Len(steps) = 4 * k
    BY <1>3, <1>4
  <2>3. Len(p) = 2 + 4 * k /\ (\A i \in 1..2 : p[i] = start[i]) /\ \A i \in 1..4 * k : p[i + 2] = steps[i]
    BY <2>1, <2>2 DEF Joins
  <2>. QED
    BY <2>3, <1>1
<1>8. ASSUME NEW m \in 1..k
      PROVE  /\ p[4 * m - 1] = Begin /\ p[4 * m] = Ddl(M[m])
             /\ p[4 * m + 1] = Applied(M[m]) /\ p[4 * m + 2] = Commit
  <2>. DEFINE i1 == 4 * m - 3  i2 == 4 * m - 2  i3 == 4 * m - 1  i4 == 4 * m
  <2>1. /\ i1 \in 1..4 * k /\ i2 \in 1..4 * k /\ i3 \in 1..4 * k /\ i4 \in 1..4 * k
        /\ i1 + 2 = 4 * m - 1 /\ i2 + 2 = 4 * m /\ i3 + 2 = 4 * m + 1 /\ i4 + 2 = 4 * m + 2
    BY <1>1
  <2>2. steps[i1] = Begin /\ steps[i2] = Ddl(M[m]) /\ steps[i3] = Applied(M[m]) /\ steps[i4] = Commit
    BY <1>5
  <2>. HIDE DEF i1, i2, i3, i4
  <2>3. p[i1 + 2] = steps[i1] /\ p[i2 + 2] = steps[i2] /\ p[i3 + 2] = steps[i3] /\ p[i4 + 2] = steps[i4]
    BY <2>1, <1>7
  <2>. QED
    BY <2>1, <2>2, <2>3
<1>9. p \in Seq({p[i] : i \in DOMAIN p}) /\ p[1] = a /\ p[2] = b
  <2>1. p \in Seq({p[i] : i \in DOMAIN p})
    <3>1. p \in Seq(S)
      BY <1>6
    <3>. QED
      BY <3>1, OwnRange
  <2>2. p[1] = start[1] /\ p[2] = start[2]
    BY <1>7
  <2>. QED
    BY <2>1, <2>2, <1>3
<1>. QED
  BY <1>1, <1>2, <1>7, <1>8, <1>9 DEF k, IsSeq, MigrationShape

-----------------------------------------------------------------------------
(* Transactions are opened and closed by the programs. *)

LEMMA OpenStep ==
  ASSUME NEW p, NEW n \in Nat \ {0}
  PROVE  /\ p[n] = Begin => OpenAt(p, n + 1)
         /\ p[n] = Commit => ~OpenAt(p, n + 1)
         /\ p[n] \notin {Begin, Commit} => (OpenAt(p, n + 1) <=> OpenAt(p, n))
<1>1. Begin # Commit
  BY DEF Begin, Commit, Plain
<1>2. n + 1 - 1 = n /\ n \in 1..n /\ \A i \in 1..n : i \in 1..n - 1 \/ i = n
  OBVIOUS
<1>3. \A i \in 1..n - 1 : i \in 1..n /\ \A j \in i..n : j \in i..n - 1 \/ j = n
  OBVIOUS
<1>4. \A i \in 1..n : n \in i..n /\ \A j \in i..n - 1 : j \in i..n
  OBVIOUS
<1>5. \A j \in n..n : j = n
  OBVIOUS
<1>6. ASSUME p[n] = Begin PROVE OpenAt(p, n + 1)
  BY <1>1, <1>2, <1>5, <1>6 DEF OpenAt
<1>7. ASSUME p[n] = Commit PROVE ~OpenAt(p, n + 1)
  BY <1>2, <1>4, <1>7 DEF OpenAt
<1>8. ASSUME p[n] \notin {Begin, Commit}, OpenAt(p, n) PROVE OpenAt(p, n + 1)
  BY <1>2, <1>3, <1>8 DEF OpenAt
<1>9. ASSUME p[n] \notin {Begin, Commit}, OpenAt(p, n + 1) PROVE OpenAt(p, n)
  BY <1>2, <1>4, <1>9 DEF OpenAt
<1>. QED
  BY <1>6, <1>7, <1>8, <1>9

LEMMA NotOpenBefore ==
  ASSUME NEW p, NEW n \in Nat, \A i \in 1..n - 1 : p[i] # Begin
  PROVE  ~OpenAt(p, n)
BY DEF OpenAt

LEMMA SimpleIsNoBegin ==
  ASSUME NEW call, NEW s, Simple(call, s)
  PROVE  s \notin {Begin, Commit} /\ s.verb # "throw"
BY DEF Simple, Reads, Saves, Alters, Deletes, Begin, Commit, Plain

LEMMA ShortFacts ==
  ASSUME NEW call, NEW p, Short(call, p)
  PROVE  /\ IsSeq(p) /\ Len(p) \in {1, 2}
         /\ \A i \in 1..Len(p) : Simple(call, p[i])
<1>1. PICK s, t : Simple(call, s) /\ Simple(call, t) /\ (p = <<s>> \/ p = <<s, t>>)
  BY DEF Short
<1>2. CASE p = <<s>>
  BY <1>1, <1>2 DEF IsSeq
<1>3. CASE p = <<s, t>>
  <2>1. <<s, t>> \in Seq({s, t}) /\ Len(<<s, t>>) = 2 /\ <<s, t>>[1] = s /\ <<s, t>>[2] = t
    OBVIOUS
  <2>2. p \in Seq({s, t}) /\ Len(p) = 2 /\ p[1] = s /\ p[2] = t
    BY <2>1, <1>3
  <2>3. p \in Seq({p[i] : i \in DOMAIN p})
    BY <2>2, OwnRange
  <2>. QED
    BY <1>1, <2>2, <2>3 DEF IsSeq
<1>. QED
  BY <1>1, <1>2, <1>3

LEMMA ProgramIsSeq ==
  ASSUME NEW call, NEW saw, Offered(call)
  PROVE  IsSeq(Program(call, saw)) /\ Len(Program(call, saw)) \in Nat \ {0}
<1>. DEFINE p == Program(call, saw)
<1>1. CASE ~Transacts(call)
  BY <1>1, ShortPrograms, ShortFacts
<1>2. CASE SavesPlan(call)
  <2>1. IsSeq(p) /\ PlanShape(call, p)
    BY <1>2, PlanProgram
  <2>. QED
    BY <2>1 DEF PlanShape
<1>3. CASE call.of = "retention"
  <2>1. IsSeq(p) /\ CleanupShape(call, p)
    BY <1>3, CleanupProgram
  <2>2. Len(p) \in {8, 18}
    BY <2>1 DEF CleanupShape
  <2>. QED
    BY <2>1, <2>2
<1>4. CASE call.of = "schema_migrations"
  <2>1. IsSeq(p) /\ MigrationShape(saw, p)
    BY <1>4, MigrationProgram
  <2>2. Len(Missing(saw)) \in Nat /\ Len(p) = 4 * Len(Missing(saw)) + 2
    BY <2>1 DEF MigrationShape
  <2>. QED
    BY <2>1, <2>2
<1>. QED
  BY <1>1, <1>2, <1>3, <1>4 DEF Transacts

\* Where in the migrations a statement stands.
LEMMA Quarter ==
  ASSUME NEW k \in Nat, NEW n \in 3..4 * k + 2
  PROVE  \E m \in 1..k : n \in {4 * m - 1, 4 * m, 4 * m + 1, 4 * m + 2}
<1>1. (n + 1) \div 4 \in 1..k
  OBVIOUS
<1>2. n \in {4 * ((n + 1) \div 4) - 1, 4 * ((n + 1) \div 4), 4 * ((n + 1) \div 4) + 1, 4 * ((n + 1) \div 4) + 2}
  OBVIOUS
<1>. QED
  BY <1>1, <1>2

\* A program goes on as it was going to, whatever a statement reads.
LEMMA ReadKeepsOpen ==
  ASSUME NEW call, NEW saw, NEW seen, Offered(call),
         NEW n \in 1..Len(Program(call, saw)), Program(call, saw)[n].verb = "select",
         n < Len(Program(call, seen))
  PROVE  OpenAt(Program(call, seen), n + 1) <=> OpenAt(Program(call, saw), n)
<1>. DEFINE p == Program(call, saw)  q == Program(call, seen)
<1>0. /\ Len(p) \in Nat /\ Len(q) \in Nat /\ n \in Nat \ {0} /\ n \in 1..Len(q)
      /\ p[n] \notin {Begin, Commit}
  BY ProgramIsSeq DEF Begin, Commit, Plain
<1>01. /\ \A i \in 1..n - 1 : i \in 1..Len(p)
       /\ \A i \in 1..n + 1 - 1 : i \in 1..Len(q)
  <2>. DEFINE lp == Len(p)  lq == Len(q)
  <2>1. lp \in Nat /\ lq \in Nat /\ n \in 1..lp /\ n \in 1..lq
    BY <1>0
  <2>. HIDE DEF lp, lq
  <2>2. (\A i \in 1..n - 1 : i \in 1..lp) /\ \A i \in 1..n + 1 - 1 : i \in 1..lq
    BY <2>1
  <2>. QED
    BY <2>2 DEF lp, lq
<1>1. CASE ~Transacts(call)
  <2>1. \A i \in 1..Len(p) : p[i] # Begin
    BY <1>1, ShortPrograms, ShortFacts, SimpleIsNoBegin
  <2>2. \A i \in 1..Len(q) : q[i] # Begin
    BY <1>1, ShortPrograms, ShortFacts, SimpleIsNoBegin
  <2>. HIDE DEF p, q
  <2>3. (\A i \in 1..n - 1 : p[i] # Begin) /\ \A i \in 1..n + 1 - 1 : q[i] # Begin
    BY <1>01, <2>1, <2>2
  <2>4. n + 1 \in Nat
    BY <1>0
  <2>. QED
    BY <1>0, <2>3, <2>4, NotOpenBefore DEF p, q
<1>2. CASE SavesPlan(call)
  <2>1. p = q
    BY <1>2 DEF Program, SavesPlan
  <2>. QED
    BY <2>1, <1>0, OpenStep
<1>3. CASE call.of = "retention"
  <2>1. p = q
    BY <1>3 DEF Program, CleanupPostgresRetention, DeleteExpiredPostgresSchedulePlans
  <2>. QED
    BY <2>1, <1>0, OpenStep
<1>4. CASE call.of = "schema_migrations"
  <2>. DEFINE k == Len(Missing(saw))
  <2>0. MigrationShape(saw, p) /\ MigrationShape(seen, q)
    BY <1>4, MigrationProgram
  <2>1. /\ k \in Nat /\ Len(p) = 4 * k + 2
        /\ \A m \in 1..k : /\ p[4 * m - 1] = Begin /\ p[4 * m] = Ddl(Missing(saw)[m])
                           /\ p[4 * m + 1] = Applied(Missing(saw)[m]) /\ p[4 * m + 2] = Commit
    BY <2>0 DEF MigrationShape
  <2>2. p[1] = Plain("create schema_migrations") /\ p[2] = Read(Every("schema_migrations"))
    BY <2>0 DEF MigrationShape
  <2>3. q[1] = Plain("create schema_migrations") /\ q[2] = Read(Every("schema_migrations"))
    BY <2>0 DEF MigrationShape
  <2>4. /\ Plain("create schema_migrations") # Begin /\ Read(Every("schema_migrations")) # Begin
        /\ Begin.verb # "select" /\ Commit.verb # "select"
        /\ \A v : Ddl(v).verb # "select" /\ Applied(v).verb # "select"
    BY Statements DEF Begin, Commit, Read, Ddl, Applied, Add, Plain
  <2>. HIDE DEF p, q, k
  <2>5. ~(n >= 3)
    <3>. SUFFICES ASSUME n >= 3 PROVE FALSE
      OBVIOUS
    <3>1. n \in 3..4 * k + 2
      BY <2>1 DEF p
    <3>2. PICK m \in 1..k : n \in {4 * m - 1, 4 * m, 4 * m + 1, 4 * m + 2}
      BY <2>1, <3>1, Quarter
    <3>3. p[n] \in {Begin, Ddl(Missing(saw)[m]), Applied(Missing(saw)[m]), Commit}
      BY <2>1, <3>2
    <3>. QED
      BY <3>3, <2>4 DEF p
  <2>6. (\A i \in 1..n - 1 : p[i] # Begin) /\ \A i \in 1..n + 1 - 1 : q[i] # Begin
    <3>1. n \in {1, 2} /\ (\A i \in 1..n - 1 : i \in {1, 2}) /\ \A i \in 1..n + 1 - 1 : i \in {1, 2}
      BY <1>0, <2>5
    <3>. QED
      BY <3>1, <2>2, <2>3, <2>4
  <2>7. n + 1 \in Nat
    BY <1>0
  <2>. QED
    BY <1>0, <2>6, <2>7, NotOpenBefore DEF p, q
<1>. QED
  BY <1>1, <1>2, <1>3, <1>4 DEF Transacts

-----------------------------------------------------------------------------
(* Who holds what. *)

\* Every call has a client of its own, as the command line gives each process one
\* and awaits its calls.  A client keeps one transactionClient (postgres-client.ts),
\* so that calls which share it would join each other's transactions.
OneClientEach == \A c, d \in Callers : ClientOf[c] = ClientOf[d] => c = d

Live(c) == caller[c].phase \in {"running", "connecting"}
Open(c) == Running(c) /\ ConnOf(c) # None
Writes(c) == IF Open(c) THEN conn[ConnOf(c)].writes ELSE <<>>

Functions ==
  /\ caller = [c \in Callers |-> caller[c]]
  /\ tx = [cl \in Clients |-> tx[cl]]
  /\ conn = [i \in Connections |-> conn[i]]
  /\ \A i \in Connections : conn[i] = [by |-> conn[i].by, writes |-> conn[i].writes, spoilt |-> conn[i].spoilt]
  /\ Keys \subseteq DOMAIN rows
  /\ IsSeq(made)

\* A caller that is in a transaction has its connection, which nothing spoilt.
CallerFit(c) ==
  /\ caller[c].phase \in {"idle", "running", "connecting", "undo"}
  /\ caller[c].phase = "idle" => caller[c] = Idle
  /\ Live(c) => Offered(caller[c].call) /\ caller[c].pc \in 1..Len(ProgramOf(c))
  /\ Running(c) => caller[c] = At(caller[c].call, caller[c].pc, caller[c].saw)
ConnectionFit(c) ==
  /\ caller[c].phase \in {"idle", "connecting"} => ConnOf(c) = None
  /\ Running(c) => (ConnOf(c) # None <=> InTransaction(c))
  /\ Open(c) => conn[ConnOf(c)].spoilt = FALSE
  /\ ConnOf(c) # None => ConnOf(c) \in Connections /\ conn[ConnOf(c)].by = ClientOf[c]
  /\ caller[c].phase = "connecting" =>
       /\ Next1(c) = Begin
       /\ caller[c].conn \in Connections /\ conn[caller[c].conn] = Opened(ClientOf[c])
Disciplined == Functions /\ \A c \in Callers : CallerFit(c) /\ ConnectionFit(c)

\* What a step of one caller leaves to the others.
Same(d) == caller'[d] = caller[d] /\ (Open(d)' <=> Open(d)) /\ Writes(d)' = Writes(d)
Leaves(c) == \A d \in Callers \ {c} : Same(d)
OwnChange(c) ==
  /\ \A d \in Callers \ {c} : caller'[d] = caller[d]
  /\ \A cl \in Clients \ {ClientOf[c]} : tx'[cl] = tx[cl]
  /\ \A i \in Connections : conn[i].by \notin {ClientOf[c], None} => conn'[i] = conn[i]

LEMMA OthersKept ==
  ASSUME OneClientEach, Disciplined, NEW c \in Callers, OwnChange(c), NEW d \in Callers \ {c}
  PROVE  Same(d) /\ CallerFit(d)' /\ ConnectionFit(d)'
<1>1. CallerFit(d) /\ ConnectionFit(d)
  BY DEF Disciplined
<1>2. ClientOf[d] \in Clients \ {ClientOf[c]} /\ ClientOf[d] # None
  BY ClientsAssumption DEF OneClientEach
<1>3. caller'[d] = caller[d] /\ tx'[ClientOf[d]] = tx[ClientOf[d]]
  BY <1>2 DEF OwnChange
<1>4. \A i \in Connections : conn[i].by = ClientOf[d] => conn'[i] = conn[i]
  BY <1>2 DEF OwnChange
<1>5. ConnOf(d)' = ConnOf(d) /\ ProgramOf(d)' = ProgramOf(d)
  BY <1>3 DEF ConnOf, ProgramOf
<1>6. ConnOf(d) # None => conn'[ConnOf(d)] = conn[ConnOf(d)]
  BY <1>1, <1>4 DEF ConnectionFit
<1>7. CallerFit(d)'
  BY <1>1, <1>3, <1>5 DEF CallerFit, Live, Running
<1>8. Same(d)
  BY <1>3, <1>5, <1>6 DEF Same, Open, Writes, Running
<1>9. ConnectionFit(d)'
  <2>1. caller[d].phase = "connecting" => conn'[caller[d].conn] = conn[caller[d].conn]
    BY <1>1, <1>4 DEF ConnectionFit, Opened, Free
  <2>. QED
    BY <1>1, <1>3, <1>5, <1>6, <2>1 DEF ConnectionFit, Open, Running, InTransaction, Next1
<1>. QED
  BY <1>7, <1>8, <1>9

LEMMA InitDisciplined == Init => Disciplined
<1>. SUFFICES ASSUME Init PROVE Disciplined
  OBVIOUS
<1>1. rows \in Seeds /\ conn = [i \in Connections |-> Free] /\ tx = [cl \in Clients |-> None]
      /\ caller = [c \in Callers |-> Idle] /\ made = <<>>
  BY DEF Init
<1>2. Keys \subseteq DOMAIN rows
  BY <1>1, SeedsAssumption
<1>0. IsSeq(made)
  <2>1. IsSeq(<<>>)
    BY DEF IsSeq
  <2>. QED
    BY <1>1, <2>1
<1>3. Functions
  BY <1>0, <1>1, <1>2 DEF Functions, Free
<1>4. ASSUME NEW c \in Callers PROVE CallerFit(c) /\ ConnectionFit(c)
  BY <1>1, ClientsAssumption DEF CallerFit, ConnectionFit, Live, Running, Open, ConnOf, Idle
<1>. QED
  BY <1>3, <1>4 DEF Disciplined

LEMMA StepFits ==
  ASSUME OneClientEach, Disciplined, NEW c \in Callers, OwnChange(c),
         Functions', CallerFit(c)', ConnectionFit(c)'
  PROVE  Disciplined' /\ Leaves(c)
<1>1. \A d \in Callers \ {c} : Same(d) /\ CallerFit(d)' /\ ConnectionFit(d)'
  BY OthersKept
<1>. QED
  BY <1>1 DEF Disciplined, Leaves

\* The kinds of steps: what each does to the rows, and what it is for a caller.
Goes(c, seen) ==
  /\ caller[c].pc + 1 \in 1..Len(Program(caller[c].call, seen))
  /\ caller'[c] = At(caller[c].call, caller[c].pc + 1, seen)
Starts(c) ==
  /\ rows' = rows /\ Leaves(c) /\ ~Open(c)'
  /\ \E call : Offered(call) /\ caller'[c] = At(call, 1, <<>>)
Connects(c) ==
  /\ rows' = rows /\ Leaves(c)
  /\ Running(c) /\ Next1(c) = Begin /\ ~Open(c) /\ ~Open(c)'
  /\ caller'[c].phase = "connecting" /\ caller'[c].call = caller[c].call
  /\ caller'[c].pc = caller[c].pc /\ caller'[c].saw = caller[c].saw
Begins(c) ==
  /\ rows' = rows /\ Leaves(c)
  /\ caller[c].phase = "connecting" /\ Next1(c) = Begin
  /\ Goes(c, caller[c].saw)
  /\ Open(c)' /\ Writes(c)' = <<>>
\* A statement that the server executes: it sees `view', writes w, and the
\* caller has then seen `seen'.
Executes(c, view, w, seen) ==
  /\ Running(c) /\ Sends(Next1(c))
  /\ view = IF Open(c) THEN Over(Writes(c), rows) ELSE rows
  /\ ~Violates(Next1(c), view) /\ ~ByCode(c, Next1(c), view)
  /\ w = [k \in Written(Next1(c), view) |-> Value(Next1(c), view[k])]
  /\ \A d \in Callers \ {c} : DOMAIN Writes(d) \cap Locks(Next1(c), view) = {}
  /\ seen = IF Next1(c).verb = "select"
            THEN Over([k \in Selected(Next1(c).where, view) |-> view[k]], caller[c].saw) ELSE caller[c].saw
Inside(c) ==
  /\ Open(c) /\ rows' = rows /\ Leaves(c)
  /\ \E view, w, seen :
       Executes(c, view, w, seen) /\ Goes(c, seen) /\ Open(c)' /\ Writes(c)' = Over(w, Writes(c))
Alone(c) ==
  /\ ~Open(c) /\ ~Open(c)' /\ Leaves(c)
  /\ \E view, w, seen :
       Executes(c, view, w, seen) /\ (~Live(c)' \/ Goes(c, seen)) /\ rows' = Over(w, rows)
Commits(c) ==
  /\ Running(c) /\ Next1(c) = Commit /\ Leaves(c) /\ ~Open(c)'
  /\ ~Live(c)' \/ Goes(c, caller[c].saw)
  /\ rows' = IF Open(c) THEN Over(Writes(c), rows) ELSE rows
Halts == rows' = rows /\ \A d \in Callers : Same(d) \/ ~Live(d)'

Effect ==
  \/ Halts
  \/ \E c \in Callers : Starts(c) \/ Connects(c) \/ Begins(c) \/ Inside(c) \/ Alone(c) \/ Commits(c)

LEMMA CallStep ==
  ASSUME OneClientEach, Disciplined, NEW c \in Callers, Call(c)
  PROVE  Disciplined' /\ Starts(c)
<1>1. /\ caller[c] = Idle /\ Len(made) < Len(Calls)
      /\ rows' = rows /\ conn' = conn /\ tx' = tx
  BY DEF Call
<1>2. PICK call \in Calls[Len(made) + 1] :
        caller' = [caller EXCEPT ![c] = At(call, 1, <<>>)] /\ made' = Append(made, call)
  BY DEF Call
<1>3. Functions /\ CallerFit(c) /\ ConnectionFit(c)
  BY DEF Disciplined
<1>4. Offered(call)
  <2>1. Len(made) \in Nat
    BY <1>3 DEF Functions, IsSeq
  <2>2. Len(Calls) \in Nat /\ DOMAIN Calls = 1..Len(Calls)
    BY CallsAssumption
  <2>3. Len(made) + 1 \in DOMAIN Calls
    BY <1>1, <2>1, <2>2
  <2>. QED
    BY <2>3, CallsAssumption
<1>5. IsSeq(made')
  <2>. DEFINE S == {made[i] : i \in DOMAIN made} \cup {call}
  <2>1. made \in Seq(S)
    BY <1>3 DEF Functions, IsSeq
  <2>2. call \in S
    OBVIOUS
  <2>. HIDE DEF S
  <2>3. Append(made, call) \in Seq(S)
    BY <2>1, <2>2
  <2>. QED
    BY <2>3, <1>2, OwnRange DEF IsSeq
<1>6. caller'[c] = At(call, 1, <<>>) /\ \A d \in Callers \ {c} : caller'[d] = caller[d]
  BY <1>2, <1>3 DEF Functions
<1>7. Functions'
  BY <1>1, <1>2, <1>3, <1>5 DEF Functions
<1>8. OwnChange(c)
  BY <1>1, <1>6 DEF OwnChange
<1>9. CallerFit(c)'
  <2>1. Len(Program(call, <<>>)) \in Nat \ {0}
    BY <1>4, ProgramIsSeq
  <2>2. 1 \in 1..Len(Program(call, <<>>))
    BY <2>1
  <2>. QED
    BY <1>4, <1>6, <2>2 DEF CallerFit, Live, Running, At, ProgramOf
<1>10. ConnOf(c)' = None
  BY <1>1, <1>3 DEF ConnectionFit, Idle, ConnOf
<1>11. ConnectionFit(c)'
  <2>1. ~InTransaction(c)'
    <3>1. ~OpenAt(Program(call, <<>>), 1)
      BY NotOpenBefore
    <3>. QED
      BY <3>1, <1>6 DEF InTransaction, ProgramOf, At
  <2>. QED
    BY <1>6, <1>10, <2>1 DEF ConnectionFit, Open, Running, At
<1>12. ~Open(c)'
  BY <1>10 DEF Open
<1>. QED
  BY <1>1, <1>4, <1>6, <1>7, <1>8, <1>9, <1>11, <1>12, StepFits DEF Starts

\* Nothing is sent after the last COMMIT, and something after every BEGIN.
LEMMA BeginGoesOn ==
  ASSUME NEW call, NEW saw, Offered(call), NEW n \in 1..Len(Program(call, saw)),
         Program(call, saw)[n] = Begin
  PROVE  n + 1 \in 1..Len(Program(call, saw))
<1>. DEFINE p == Program(call, saw)
<1>1. Len(p) \in Nat
  BY ProgramIsSeq
<1>2. SUFFICES p[Len(p)] # Begin
  <2>. DEFINE l == Len(p)
  <2>1. l \in Nat /\ n \in 1..l /\ n # l
    BY <1>1, <1>2
  <2>. HIDE DEF l
  <2>2. n + 1 \in 1..l
    BY <2>1
  <2>. QED
    BY <2>2 DEF l
<1>3. Commit # Begin /\ Begin.verb # "select"
  BY DEF Begin, Commit, Plain
<1>4. CASE ~Transacts(call)
  <2>1. Short(call, p)
    BY <1>4, ShortPrograms
  <2>2. Len(p) \in 1..Len(p) /\ \A i \in 1..Len(p) : Simple(call, p[i])
    BY <2>1, ShortFacts
  <2>. QED
    BY <2>2, SimpleIsNoBegin
<1>5. CASE SavesPlan(call)
  <2>1. PlanShape(call, p)
    BY <1>5, PlanProgram
  <2>. QED
    BY <1>3, <2>1 DEF PlanShape
<1>6. CASE call.of = "retention"
  <2>1. CleanupShape(call, p)
    BY <1>6, CleanupProgram
  <2>2. p[Len(p)] = Commit \/ p[Len(p)].verb = "select"
    BY <2>1 DEF CleanupShape
  <2>. QED
    BY <1>3, <2>2
<1>7. CASE call.of = "schema_migrations"
  <2>1. MigrationShape(saw, p)
    BY <1>7, MigrationProgram
  <2>. DEFINE k == Len(Missing(saw))
  <2>2. k \in Nat /\ Len(p) = 4 * k + 2 /\ p[2] = Read(Every("schema_migrations"))
        /\ \A m \in 1..k : p[4 * m + 2] = Commit
    BY <2>1 DEF MigrationShape
  <2>. HIDE DEF k
  <2>3. p[Len(p)] = Commit \/ p[Len(p)] = Read(Every("schema_migrations"))
    <3>1. CASE k = 0
      BY <2>2, <3>1
    <3>2. CASE k # 0
      BY <2>2, <3>2
    <3>. QED
      BY <3>1, <3>2
  <2>. QED
    BY <1>3, <2>3, Statements
<1>. QED
  BY <1>4, <1>5, <1>6, <1>7 DEF Transacts

LEMMA OpenGoesOn ==
  ASSUME NEW call, NEW saw, Offered(call), NEW n \in 1..Len(Program(call, saw)),
         OpenAt(Program(call, saw), n), Program(call, saw)[n] \notin {Begin, Commit}
  PROVE  n + 1 \in 1..Len(Program(call, saw)) /\ Program(call, saw)[n].verb # "select"
<1>. DEFINE p == Program(call, saw)
<1>1. Len(p) \in Nat
  BY ProgramIsSeq
<1>2. SUFFICES p[Len(p)] = Commit /\ p[n].verb # "select"
  <2>. DEFINE l == Len(p)
  <2>1. l \in Nat /\ n \in 1..l /\ n # l
    BY <1>1, <1>2
  <2>. HIDE DEF l
  <2>2. n + 1 \in 1..l
    BY <2>1
  <2>. QED
    BY <1>2, <2>2 DEF l
<1>3. n \in Nat /\ \A i \in 1..n - 1 : i \in 1..n /\ i \in 1..Len(p)
  <2>. DEFINE l == Len(p)
  <2>. HIDE DEF l
  <2>1. l \in Nat /\ n \in 1..l
    BY <1>1 DEF l
  <2>2. n \in Nat /\ \A i \in 1..n - 1 : i \in 1..n /\ i \in 1..l
    BY <2>1
  <2>. QED
    BY <2>2 DEF l
<1>4. PICK i \in 1..n - 1 : p[i] = Begin
  BY DEF OpenAt
<1>5. CASE ~Transacts(call)
  <2>1. Short(call, p)
    BY <1>5, ShortPrograms
  <2>2. \A j \in 1..Len(p) : Simple(call, p[j])
    BY <2>1, ShortFacts
  <2>. QED
    BY <1>3, <1>4, <2>2, SimpleIsNoBegin
<1>6. CASE SavesPlan(call)
  <2>1. PlanShape(call, p)
    BY <1>6, PlanProgram
  <2>. DEFINE l == Len(call.row.blocks)
  <2>2. l \in Nat /\ Len(p) = l + 4 /\ p[l + 4] = Commit /\ p[1] = Begin
        /\ p[2] = Put(<<"schedule_plans", call.id>>, SavedPlan(call)) /\ p[3] = Drop(OfPlan(call.id))
        /\ \A j \in 1..l : p[j + 3] = InsertBlock(call.id, call.row.blocks[j])
    BY <2>1 DEF PlanShape
  <2>. HIDE DEF l
  <2>3. n \in {1, 2, 3, l + 4} \/ \E j \in 1..l : n = j + 3
    <3>1. n \in {1, 2, 3, l + 4} \/ (n - 3 \in 1..l /\ n = (n - 3) + 3)
      BY <2>2
    <3>. QED
      BY <3>1
  <2>4. p[n].verb # "select"
    <3>1. \A j : InsertBlock(call.id, call.row.blocks[j]).verb # "select"
      BY Statements DEF InsertBlock, Refusal, Plain
    <3>2. /\ Begin.verb # "select" /\ Commit.verb # "select"
          /\ Put(<<"schedule_plans", call.id>>, SavedPlan(call)).verb # "select"
          /\ Drop(OfPlan(call.id)).verb # "select"
      BY Statements DEF Begin, Commit, Plain
    <3>. QED
      BY <2>2, <2>3, <3>1, <3>2
  <2>. QED
    BY <2>2, <2>4
<1>7. CASE call.of = "retention"
  <2>1. CleanupShape(call, p)
    BY <1>7, CleanupProgram
  <2>2. ~(i \in 1..8)
    BY <1>4, <2>1 DEF CleanupShape, Begin, Plain
  <2>3. ~call.dryRun /\ n \in 10..18
    BY <1>1, <1>3, <1>4, <2>1, <2>2 DEF CleanupShape
  <2>4. /\ p[10] = Drop(OfOldPlans) /\ p[11] = Drop(Old("schedule_plans"))
        /\ \A j \in 1..6 : p[j + 11] = Drop(Old(CountedTables[j + 1]))
        /\ p[18] = Commit /\ Len(p) = 18
    BY <2>1, <2>3 DEF CleanupShape
  <2>5. n \in {10, 11, 18} \/ \E j \in 1..6 : n = j + 11
    <3>1. n \in {10, 11, 18} \/ (n - 11 \in 1..6 /\ n = (n - 11) + 11)
      BY <2>3
    <3>. QED
      BY <3>1
  <2>. HIDE DEF p
  <2>6. p[n] = Commit \/ p[n].verb = "delete"
    BY <2>4, <2>5, Statements
  <2>. QED
    BY <2>4, <2>6 DEF Commit, Plain
<1>8. CASE call.of = "schema_migrations"
  <2>1. MigrationShape(saw, p)
    BY <1>8, MigrationProgram
  <2>. DEFINE k == Len(Missing(saw))
  <2>2. k \in Nat /\ Len(p) = 4 * k + 2
        /\ p[1] = Plain("create schema_migrations") /\ p[2] = Read(Every("schema_migrations"))
        /\ \A m \in 1..k : /\ p[4 * m - 1] = Begin /\ p[4 * m] = Ddl(Missing(saw)[m])
                           /\ p[4 * m + 1] = Applied(Missing(saw)[m]) /\ p[4 * m + 2] = Commit
    BY <2>1 DEF MigrationShape
  <2>. HIDE DEF k
  <2>3. /\ Plain("create schema_migrations") # Begin /\ Read(Every("schema_migrations")) # Begin
        /\ Begin.verb # "select" /\ Commit.verb # "select"
        /\ \A v : Ddl(v).verb # "select" /\ Applied(v).verb # "select"
    BY Statements DEF Begin, Commit, Read, Ddl, Applied, Add, Plain
  <2>4. i # 1 /\ i # 2
    BY <1>4, <2>2, <2>3
  <2>5. n \in 3..4 * k + 2
    <3>1. n \in 1..4 * k + 2 /\ i \in 1..n - 1
      BY <2>2
    <3>2. k \in Nat
      BY <2>2
    <3>. QED
      BY <3>1, <3>2, <2>4
  <2>6. PICK m \in 1..k : n \in {4 * m - 1, 4 * m, 4 * m + 1, 4 * m + 2}
    BY <2>2, <2>5, Quarter
  <2>7. p[n] \in {Begin, Ddl(Missing(saw)[m]), Applied(Missing(saw)[m]), Commit}
    BY <2>2, <2>6
  <2>8. k \in 1..k /\ p[4 * k + 2] = Commit
    <3>0. k \in Nat
      BY <2>2
    <3>1. k \in 1..k
      BY <3>0
    <3>. QED
      BY <3>1, <2>2
  <2>9. Len(p) = 4 * k + 2
    BY <2>2
  <2>10. p[Len(p)] = Commit
    BY <2>8, <2>9
  <2>. QED
    BY <2>3, <2>7, <2>10
<1>. QED
  BY <1>5, <1>6, <1>7, <1>8 DEF Transacts

LEMMA ConnectStep ==
  ASSUME OneClientEach, Disciplined, NEW c \in Callers, Running(c), Connect(c, Next1(c))
  PROVE  Disciplined' /\ Connects(c)
<1>. DEFINE r == caller[c]  s == Next1(c)
<1>1. Functions /\ CallerFit(c) /\ ConnectionFit(c)
  BY DEF Disciplined
<1>2. s = Begin /\ ConnOf(c) = None /\ rows' = rows /\ tx' = tx /\ made' = made
  BY DEF Connect
<1>3. PICK i \in Connections :
        /\ conn[i] = Free
        /\ conn' = [conn EXCEPT ![i] = Opened(ClientOf[c])]
        /\ caller' = [caller EXCEPT ![c] =
             [phase |-> "connecting", call |-> @.call, pc |-> @.pc, saw |-> @.saw, conn |-> i]]
  BY DEF Connect
<1>4. /\ caller'[c] = [phase |-> "connecting", call |-> r.call, pc |-> r.pc, saw |-> r.saw, conn |-> i]
      /\ \A d \in Callers \ {c} : caller'[d] = caller[d]
  BY <1>1, <1>3 DEF Functions
<1>5. conn'[i] = Opened(ClientOf[c]) /\ \A j \in Connections \ {i} : conn'[j] = conn[j]
  BY <1>1, <1>3 DEF Functions
<1>6. Functions'
  BY <1>1, <1>2, <1>3, <1>5 DEF Functions, Opened, Free
<1>7. OwnChange(c)
  BY <1>2, <1>3, <1>4, <1>5 DEF OwnChange, Free
<1>8. ProgramOf(c)' = ProgramOf(c) /\ Next1(c)' = Next1(c)
  BY <1>4 DEF ProgramOf, Next1
<1>9. CallerFit(c)'
  BY <1>1, <1>4, <1>8 DEF CallerFit, Live, Running
<1>10. ConnOf(c)' = None
  BY <1>2 DEF ConnOf
<1>11. ConnectionFit(c)'
  BY <1>2, <1>3, <1>4, <1>5, <1>8, <1>10 DEF ConnectionFit, Open, Running
<1>12. ~Open(c) /\ ~Open(c)'
  BY <1>2, <1>10 DEF Open
<1>. QED
  BY <1>2, <1>4, <1>6, <1>7, <1>9, <1>11, <1>12, StepFits DEF Connects

LEMMA BegunStep ==
  ASSUME OneClientEach, Disciplined, NEW c \in Callers, Begun(c)
  PROVE  Disciplined' /\ Begins(c)
<1>. DEFINE r == caller[c]  s == Next1(c)
<1>1. Functions /\ CallerFit(c) /\ ConnectionFit(c)
  BY DEF Disciplined
<1>2. /\ r.phase = "connecting" /\ rows' = rows /\ conn' = conn /\ made' = made
      /\ tx' = [tx EXCEPT ![ClientOf[c]] = r.conn]
      /\ caller' = [caller EXCEPT ![c] = At(@.call, @.pc + 1, @.saw)]
  BY DEF Begun
<1>3. ClientOf[c] \in Clients /\ None \notin Connections
  BY ClientsAssumption
<1>4. caller'[c] = At(r.call, r.pc + 1, r.saw) /\ \A d \in Callers \ {c} : caller'[d] = caller[d]
  BY <1>1, <1>2 DEF Functions
<1>5. tx'[ClientOf[c]] = r.conn /\ \A cl \in Clients \ {ClientOf[c]} : tx'[cl] = tx[cl]
  BY <1>1, <1>2, <1>3 DEF Functions
<1>6. Functions'
  BY <1>1, <1>2 DEF Functions
<1>7. OwnChange(c)
  BY <1>2, <1>4, <1>5 DEF OwnChange
<1>8. /\ s = Begin /\ Offered(r.call) /\ r.pc \in 1..Len(ProgramOf(c))
      /\ r.conn \in Connections /\ conn[r.conn] = Opened(ClientOf[c])
  BY <1>1, <1>2 DEF CallerFit, ConnectionFit, Live
<1>9. r.pc + 1 \in 1..Len(Program(r.call, r.saw))
  BY <1>8, BeginGoesOn DEF ProgramOf, Next1
<1>10. Goes(c, r.saw)
  BY <1>4, <1>9 DEF Goes
<1>11. CallerFit(c)'
  BY <1>4, <1>8, <1>9 DEF CallerFit, Live, Running, At, ProgramOf
<1>12. ConnOf(c)' = r.conn /\ r.conn # None
  BY <1>3, <1>5, <1>8 DEF ConnOf
<1>13. InTransaction(c)'
  <2>1. OpenAt(ProgramOf(c), r.pc + 1)
    <3>1. r.pc \in Nat \ {0}
      BY <1>8, ProgramIsSeq DEF ProgramOf
    <3>. QED
      BY <3>1, <1>8, OpenStep DEF Next1
  <2>2. ProgramOf(c)' = ProgramOf(c)
    BY <1>4 DEF ProgramOf, At
  <2>. QED
    BY <2>1, <2>2, <1>4 DEF InTransaction, Running, At
<1>14. ConnectionFit(c)'
  BY <1>2, <1>4, <1>8, <1>12, <1>13 DEF ConnectionFit, Open, Running, At, Opened, Free
<1>15. Open(c)' /\ Writes(c)' = <<>>
  BY <1>2, <1>4, <1>8, <1>12 DEF Open, Writes, Running, At, Opened, Free
<1>. QED
  BY <1>2, <1>6, <1>7, <1>8, <1>10, <1>11, <1>14, <1>15, StepFits DEF Begins

LEMMA OverAt ==
  ASSUME NEW f, NEW g
  PROVE  /\ DOMAIN (Over(f, g)) = DOMAIN f \cup DOMAIN g
         /\ \A k \in DOMAIN f : (Over(f, g))[k] = f[k]
         /\ \A k \in DOMAIN g \ DOMAIN f : (Over(f, g))[k] = g[k]
BY DEF Over

LEMMA OthersLockFree ==
  ASSUME OneClientEach, Disciplined, NEW c \in Callers, NEW s, Holders(c, s) = {}, NEW d \in Callers \ {c}
  PROVE  DOMAIN Writes(d) \cap Locks(s, View(ConnOf(c))) = {}
<1>1. CASE ~Open(d)
  BY <1>1 DEF Writes
<1>2. CASE Open(d)
  <2>. DEFINE i == ConnOf(d)  L == Locks(s, View(ConnOf(c)))
  <2>1. i \in Connections /\ conn[i].by = ClientOf[d]
    BY <1>2 DEF Disciplined, ConnectionFit, Open
  <2>2. i # ConnOf(c)
    <3>1. ConnOf(c) # None => conn[ConnOf(c)].by = ClientOf[c]
      BY DEF Disciplined, ConnectionFit
    <3>. QED
      BY <3>1, <2>1, ClientsAssumption, <1>2 DEF OneClientEach, Open
  <2>3. Writes(d) = conn[i].writes /\ Touched(i) = DOMAIN conn[i].writes
    BY <1>2 DEF Writes, Touched
  <2>. HIDE DEF i, L
  <2>4. Touched(i) # {} => Touched(i) \cap L = {}
    BY <2>1, <2>2 DEF Holders, L
  <2>. QED
    BY <2>3, <2>4 DEF L
<1>. QED
  BY <1>1, <1>2

LEMMA RunStep ==
  ASSUME OneClientEach, Disciplined, NEW c \in Callers, Running(c), Run(c, Next1(c))
  PROVE  Disciplined' /\ (Inside(c) \/ Alone(c))
<1>. DEFINE r == caller[c]  s == Next1(c)
<1>1. Functions /\ CallerFit(c) /\ ConnectionFit(c)
  BY DEF Disciplined
<1>2. PICK view : view = View(ConnOf(c))
  OBVIOUS
<1>3. PICK w, seen :
        /\ w = [k \in Written(s, view) |-> Value(s, view[k])]
        /\ seen = IF s.verb = "select" THEN Over([k \in Selected(s.where, view) |-> view[k]], r.saw) ELSE r.saw
  OBVIOUS
<1>4. /\ Sends(s) /\ Holders(c, s) = {} /\ ~ByServer(c, s, view) /\ ~ByCode(c, s, view)
      /\ Apply(ConnOf(c), w) /\ Advance(c, seen) /\ tx' = tx /\ made' = made
  BY <1>2, <1>3, Zenon DEF Run
<1>5. /\ Offered(r.call) /\ r.pc \in 1..Len(Program(r.call, r.saw)) /\ r = At(r.call, r.pc, r.saw)
      /\ s = Program(r.call, r.saw)[r.pc] /\ r.pc \in Nat \ {0} /\ s \notin {Begin, Commit}
  BY <1>1, <1>4, ProgramIsSeq DEF CallerFit, Live, Running, ProgramOf, Next1, Sends
<1>6. Open(c) <=> ConnOf(c) # None
  BY DEF Open
<1>7. Executes(c, view, w, seen)
  <2>1. view = IF Open(c) THEN Over(Writes(c), rows) ELSE rows
    BY <1>2, <1>6 DEF View, Writes
  <2>2. \A d \in Callers \ {c} : DOMAIN Writes(d) \cap Locks(s, view) = {}
    BY <1>2, <1>4, OthersLockFree
  <2>3. ~Violates(s, view)
    BY <1>4 DEF ByServer
  <2>. QED
    BY <1>3, <1>4, <2>1, <2>2, <2>3 DEF Executes
<1>8. \/ /\ r.pc + 1 \in 1..Len(Program(r.call, seen))
         /\ caller' = [caller EXCEPT ![c] = At(r.call, r.pc + 1, seen)]
      \/ /\ ~(r.pc + 1 \in 1..Len(Program(r.call, seen)))
         /\ caller' = [caller EXCEPT ![c] = Idle]
  <2>. DEFINE l == Len(Program(r.call, seen))
  <2>1. l \in Nat
    BY <1>5, ProgramIsSeq
  <2>2. \/ l > r.pc /\ caller' = [caller EXCEPT ![c] = At(r.call, r.pc + 1, seen)]
        \/ ~(l > r.pc) /\ caller' = [caller EXCEPT ![c] = Idle]
    BY <1>4 DEF Advance, Return
  <2>. HIDE DEF l
  <2>3. l > r.pc <=> r.pc + 1 \in 1..l
    BY <1>5, <2>1
  <2>. QED
    BY <2>2, <2>3 DEF l
<1>9. /\ \A d \in Callers \ {c} : caller'[d] = caller[d]
      /\ caller' = [d \in Callers |-> caller'[d]]
      /\ Goes(c, seen) \/ (caller'[c] = Idle /\ ~(r.pc + 1 \in 1..Len(Program(r.call, seen))))
  BY <1>1, <1>8 DEF Functions, Goes
<1>10. IsSeq(made)'
  BY <1>1, <1>4 DEF Functions
<1>11. Open(c) => Goes(c, seen) /\ seen = r.saw
  <2>. SUFFICES ASSUME Open(c) PROVE Goes(c, seen) /\ seen = r.saw
    OBVIOUS
  <2>1. OpenAt(Program(r.call, r.saw), r.pc)
    BY <1>1, <1>6 DEF ConnectionFit, InTransaction, ProgramOf
  <2>2. r.pc + 1 \in 1..Len(Program(r.call, r.saw)) /\ s.verb # "select"
    BY <1>5, <2>1, OpenGoesOn
  <2>. QED
    BY <1>3, <1>9, <2>2
<1>12. CallerFit(c)'
  <2>1. CASE caller'[c] = Idle
    BY <2>1 DEF CallerFit, Live, Running, Idle
  <2>2. CASE Goes(c, seen)
    BY <2>2, <1>5 DEF Goes, CallerFit, Live, Running, At, ProgramOf
  <2>. QED
    BY <1>9, <2>1, <2>2
<1>13. Goes(c, seen) => (InTransaction(c)' <=> InTransaction(c))
  <2>. SUFFICES ASSUME Goes(c, seen) PROVE InTransaction(c)' <=> InTransaction(c)
    OBVIOUS
  <2>1. InTransaction(c) <=> OpenAt(Program(r.call, r.saw), r.pc)
    BY DEF InTransaction, ProgramOf
  <2>2. InTransaction(c)' <=> OpenAt(Program(r.call, seen), r.pc + 1)
    BY DEF InTransaction, ProgramOf, Goes, At, Running
  <2>3. CASE s.verb = "select"
    <3>1. r.pc < Len(Program(r.call, seen))
      <4>1. Len(Program(r.call, seen)) \in Nat /\ r.pc + 1 \in 1..Len(Program(r.call, seen))
        BY <1>5, ProgramIsSeq DEF Goes
      <4>. QED
        BY <4>1, <1>5
    <3>. QED
      BY <1>5, <2>1, <2>2, <2>3, <3>1, ReadKeepsOpen
  <2>4. CASE s.verb # "select"
    <3>1. seen = r.saw
      BY <1>3, <2>4
    <3>. QED
      BY <1>5, <2>1, <2>2, <3>1, OpenStep
  <2>. QED
    BY <2>3, <2>4
<1>14. ConnOf(c)' = ConnOf(c)
  BY <1>4 DEF ConnOf
<1>15. CASE Open(c)
  <2>. DEFINE i == ConnOf(c)
  <2>1. /\ rows' = rows /\ i # None /\ i \in Connections /\ conn[i].by = ClientOf[c] /\ conn[i].spoilt = FALSE
        /\ conn' = [conn EXCEPT ![i] = [by |-> @.by, writes |-> Over(w, @.writes), spoilt |-> @.spoilt]]
    BY <1>1, <1>4, <1>6, <1>15 DEF Apply, ConnectionFit
  <2>. DEFINE ws == Over(w, conn[i].writes)
  <2>2. conn' = [conn EXCEPT ![i] = [by |-> conn[i].by, writes |-> ws, spoilt |-> conn[i].spoilt]]
    BY <2>1, <1>1 DEF Functions
  <2>. HIDE DEF ws, i
  <2>3. /\ conn'[i] = [by |-> conn[i].by, writes |-> ws, spoilt |-> conn[i].spoilt]
        /\ \A j \in Connections \ {i} : conn'[j] = conn[j]
    BY <2>1, <2>2, <1>1 DEF Functions
  <2>4. Functions'
    BY <2>1, <2>2, <2>3, <1>1, <1>4, <1>9, <1>10 DEF Functions
  <2>5. OwnChange(c)
    BY <2>1, <2>3, <1>4, <1>9 DEF OwnChange
  <2>6. Goes(c, seen) /\ Running(c)'
    BY <1>11, <1>15 DEF Goes, Running, At
  <2>7. ConnectionFit(c)'
    BY <2>1, <2>3, <2>6, <1>1, <1>6, <1>13, <1>14, <1>15 DEF ConnectionFit, Open, Running, i
  <2>8. Open(c)' /\ Writes(c)' = Over(w, Writes(c))
    BY <2>1, <2>3, <2>6, <1>14, <1>15 DEF Open, Writes, i, ws
  <2>. QED
    BY <2>1, <2>4, <2>5, <2>6, <2>7, <2>8, <1>7, <1>12, <1>15, StepFits DEF Inside
<1>16. CASE ~Open(c)
  <2>1. rows' = Over(w, rows) /\ conn' = conn /\ ConnOf(c) = None
    BY <1>4, <1>6, <1>16 DEF Apply
  <2>2. Keys \subseteq DOMAIN rows'
    BY <2>1, <1>1, OverAt DEF Functions
  <2>3. Functions'
    BY <2>1, <2>2, <1>1, <1>4, <1>9, <1>10 DEF Functions
  <2>4. OwnChange(c)
    BY <2>1, <1>4, <1>9 DEF OwnChange
  <2>5. ConnectionFit(c)' /\ ~Open(c)'
    <3>1. ConnOf(c)' = None
      BY <2>1, <1>14
    <3>2. CASE caller'[c] = Idle
      BY <3>1, <3>2 DEF ConnectionFit, Open, Running, Idle
    <3>3. CASE Goes(c, seen)
      BY <3>1, <3>3, <2>1, <1>1, <1>13 DEF ConnectionFit, Open, Running, Goes, At
    <3>. QED
      BY <1>9, <3>2, <3>3
  <2>6. ~Live(c)' \/ Goes(c, seen)
    BY <1>9 DEF Live, Idle
  <2>. QED
    BY <2>1, <2>3, <2>4, <2>5, <2>6, <1>7, <1>12, <1>16, StepFits DEF Alone
<1>. QED
  BY <1>15, <1>16

\* An error, whatever it does to the connection of the transaction.
LEMMA ThrowStep ==
  ASSUME OneClientEach, Disciplined, NEW c \in Callers, Running(c), Throw(c),
         rows' = rows, tx' = tx, made' = made, conn' = conn \/ Spoil(ConnOf(c))
  PROVE  Disciplined' /\ Halts
<1>. DEFINE i == ConnOf(c)
<1>1. Functions /\ CallerFit(c) /\ ConnectionFit(c)
  BY DEF Disciplined
<1>2. /\ caller' = [caller EXCEPT ![c] = IF InTransaction(c) THEN Undoing ELSE Idle]
      /\ caller'[c] = IF InTransaction(c) THEN Undoing ELSE Idle
      /\ \A d \in Callers \ {c} : caller'[d] = caller[d]
  BY <1>1 DEF Throw, Functions
<1>3. i' = i /\ (i # None => InTransaction(c) /\ i \in Connections /\ conn[i].by = ClientOf[c])
      /\ (i = None => ~InTransaction(c))
  BY <1>1 DEF ConnOf, ConnectionFit
<1>4. /\ conn' = [j \in Connections |-> conn'[j]]
      /\ \A j \in Connections : conn'[j] = [by |-> conn'[j].by, writes |-> conn'[j].writes, spoilt |-> conn'[j].spoilt]
      /\ \A j \in Connections \ {i} : conn'[j] = conn[j]
      /\ \A j \in Connections : conn'[j].by = conn[j].by
  <2>1. CASE conn' = conn
    BY <2>1, <1>1 DEF Functions
  <2>2. CASE i # None /\ conn' = [conn EXCEPT ![i] = [by |-> @.by, writes |-> @.writes, spoilt |-> TRUE]]
    BY <2>2, <1>1, <1>3 DEF Functions
  <2>. QED
    BY <2>1, <2>2 DEF Spoil
<1>5. Functions'
  BY <1>1, <1>2, <1>4 DEF Functions
<1>6. OwnChange(c)
  BY <1>2, <1>3, <1>4, ClientsAssumption DEF OwnChange
<1>7. CallerFit(c)' /\ ~Live(c)'
  BY <1>2 DEF CallerFit, Live, Running, Undoing, Idle
<1>8. ConnectionFit(c)'
  BY <1>2, <1>3, <1>4 DEF ConnectionFit, Open, Running, Undoing, Idle
<1>9. Disciplined' /\ Leaves(c)
  BY <1>5, <1>6, <1>7, <1>8, StepFits
<1>. QED
  BY <1>7, <1>9 DEF Halts, Leaves

LEMMA StopStep ==
  ASSUME OneClientEach, Disciplined, NEW c \in Callers, Functions',
         caller'[c] \in {Undoing, Idle}, ConnOf(c)' = None, OwnChange(c)
  PROVE  Disciplined' /\ Leaves(c) /\ ~Live(c)'
<1>1. CallerFit(c)' /\ ~Live(c)'
  BY DEF CallerFit, Live, Running, Undoing, Idle
<1>2. ConnectionFit(c)'
  BY DEF ConnectionFit, Open, Running, Undoing, Idle
<1>. QED
  BY <1>1, <1>2, StepFits

LEMMA ReleaseFits ==
  ASSUME Functions, NEW c \in Callers, ConnectionFit(c), ConnOf(c) # None,
         Release(ClientOf[c], ConnOf(c))
  PROVE  /\ conn' = [j \in Connections |-> conn'[j]] /\ tx' = [cl \in Clients |-> tx'[cl]]
         /\ \A j \in Connections :
              conn'[j] = [by |-> conn'[j].by, writes |-> conn'[j].writes, spoilt |-> conn'[j].spoilt]
         /\ ConnOf(c)' = None
         /\ \A cl \in Clients \ {ClientOf[c]} : tx'[cl] = tx[cl]
         /\ \A j \in Connections : conn[j].by \notin {ClientOf[c], None} => conn'[j] = conn[j]
<1>. DEFINE i == ConnOf(c)
<1>1. i \in Connections /\ conn[i].by = ClientOf[c] /\ ClientOf[c] \in Clients
  BY ClientsAssumption DEF ConnectionFit
<1>2. conn' = [conn EXCEPT ![i] = Free] /\ tx' = [tx EXCEPT ![ClientOf[c]] = None]
  BY DEF Release
<1>3. tx'[ClientOf[c]] = None
  BY <1>1, <1>2 DEF Functions
<1>4. conn'[i] = Free /\ \A j \in Connections \ {i} : conn'[j] = conn[j]
  BY <1>1, <1>2 DEF Functions
<1>. QED
  BY <1>1, <1>2, <1>3, <1>4 DEF Functions, Free, ConnOf

LEMMA CommitStep ==
  ASSUME OneClientEach, Disciplined, NEW c \in Callers, Running(c), CommitIt(c, Next1(c))
  PROVE  Disciplined' /\ Commits(c)
<1>. DEFINE r == caller[c]  s == Next1(c)  i == ConnOf(c)
<1>1. Functions /\ CallerFit(c) /\ ConnectionFit(c)
  BY DEF Disciplined
<1>2. /\ s = Commit /\ Advance(c, r.saw) /\ made' = made
      /\ IF i = None THEN rows' = rows /\ conn' = conn /\ tx' = tx
         ELSE /\ rows' = IF conn[i].spoilt THEN rows ELSE Over(conn[i].writes, rows)
              /\ Release(ClientOf[c], i)
  BY DEF CommitIt
<1>3. /\ Offered(r.call) /\ r.pc \in 1..Len(Program(r.call, r.saw)) /\ r = At(r.call, r.pc, r.saw)
      /\ s = Program(r.call, r.saw)[r.pc] /\ r.pc \in Nat \ {0}
  BY <1>1, ProgramIsSeq DEF CallerFit, Live, Running, ProgramOf, Next1
<1>4. \/ /\ r.pc + 1 \in 1..Len(Program(r.call, r.saw))
         /\ caller' = [caller EXCEPT ![c] = At(r.call, r.pc + 1, r.saw)]
      \/ caller' = [caller EXCEPT ![c] = Idle]
  <2>. DEFINE l == Len(Program(r.call, r.saw))
  <2>1. l \in Nat
    BY <1>3, ProgramIsSeq
  <2>2. \/ l > r.pc /\ caller' = [caller EXCEPT ![c] = At(r.call, r.pc + 1, r.saw)]
        \/ caller' = [caller EXCEPT ![c] = Idle]
    BY <1>2 DEF Advance, Return
  <2>. HIDE DEF l
  <2>3. l > r.pc => r.pc + 1 \in 1..l
    BY <1>3, <2>1
  <2>. QED
    BY <2>2, <2>3 DEF l
<1>5. /\ \A d \in Callers \ {c} : caller'[d] = caller[d]
      /\ caller' = [d \in Callers |-> caller'[d]]
      /\ Goes(c, r.saw) \/ caller'[c] = Idle
  BY <1>1, <1>4 DEF Functions, Goes
<1>6. ConnOf(c)' = None /\ OwnChange(c) /\ Functions'
  <2>1. CASE i = None
    <3>1. rows' = rows /\ conn' = conn /\ tx' = tx
      BY <2>1, <1>2
    <3>. QED
      BY <2>1, <3>1, <1>1, <1>2, <1>5 DEF Functions, OwnChange, ConnOf
  <2>2. CASE i # None
    <3>1. rows' = Over(conn[i].writes, rows) \/ rows' = rows
      BY <2>2, <1>2
    <3>2. Keys \subseteq DOMAIN rows'
      BY <3>1, <1>1 DEF Functions, Over
    <3>. QED
      BY <2>2, <3>2, <1>1, <1>2, <1>5, ReleaseFits DEF Functions, OwnChange
  <2>. QED
    BY <2>1, <2>2
<1>7. ~Open(c)' /\ rows' = IF Open(c) THEN Over(Writes(c), rows) ELSE rows
  <2>1. Open(c) => conn[i].spoilt = FALSE
    BY <1>1 DEF ConnectionFit
  <2>. QED
    BY <2>1, <1>2, <1>6 DEF Open, Writes
<1>8. CASE caller'[c] = Idle
  <2>1. Disciplined' /\ Leaves(c) /\ ~Live(c)'
    BY <1>6, <1>8, StopStep
  <2>. QED
    BY <2>1, <1>2, <1>7 DEF Commits
<1>9. CASE Goes(c, r.saw)
  <2>1. CallerFit(c)'
    BY <1>3, <1>9 DEF Goes, CallerFit, Live, Running, At, ProgramOf
  <2>2. ~InTransaction(c)'
    <3>1. ~OpenAt(Program(r.call, r.saw), r.pc + 1)
      BY <1>2, <1>3, OpenStep
    <3>. QED
      BY <3>1, <1>9 DEF InTransaction, Goes, At, ProgramOf
  <2>3. ConnectionFit(c)'
    BY <1>6, <1>9, <2>2 DEF ConnectionFit, Open, Running, Goes, At
  <2>4. Disciplined' /\ Leaves(c)
    BY <1>6, <2>1, <2>3, StepFits
  <2>. QED
    BY <2>4, <1>2, <1>7, <1>9 DEF Commits
<1>. QED
  BY <1>5, <1>8, <1>9

LEMMA CommitFailsStep ==
  ASSUME OneClientEach, Disciplined, NEW c \in Callers, Running(c), CommitFails(c, Next1(c))
  PROVE  Disciplined' /\ (Halts \/ Commits(c))
<1>. DEFINE i == ConnOf(c)
<1>1. Functions /\ CallerFit(c) /\ ConnectionFit(c)
  BY DEF Disciplined
<1>2. /\ Next1(c) = Commit /\ i # None /\ made' = made
      /\ rows' \in {rows, IF conn[i].spoilt THEN rows ELSE Over(conn[i].writes, rows)}
      /\ Release(ClientOf[c], i)
      /\ caller' = [caller EXCEPT ![c] = Undoing]
  BY DEF CommitFails
<1>3. /\ \A d \in Callers \ {c} : caller'[d] = caller[d]
      /\ caller' = [d \in Callers |-> caller'[d]] /\ caller'[c] = Undoing
  BY <1>1, <1>2 DEF Functions
<1>4. rows' = rows \/ (Open(c) /\ rows' = Over(Writes(c), rows))
  BY <1>1, <1>2 DEF Open, Writes
<1>5. Keys \subseteq DOMAIN rows'
  BY <1>1, <1>4 DEF Functions, Over
<1>6. ConnOf(c)' = None /\ OwnChange(c) /\ Functions'
  BY <1>1, <1>2, <1>3, <1>5, ReleaseFits DEF Functions, OwnChange
<1>7. Disciplined' /\ Leaves(c) /\ ~Live(c)'
  BY <1>3, <1>6, StopStep
<1>8. ~Open(c)'
  BY <1>6 DEF Open
<1>. QED
  BY <1>2, <1>4, <1>7, <1>8 DEF Halts, Leaves, Commits

LEMMA RollbackStep ==
  ASSUME OneClientEach, Disciplined, NEW c \in Callers, Rollback(c)
  PROVE  Disciplined' /\ Halts
<1>1. Functions /\ CallerFit(c) /\ ConnectionFit(c)
  BY DEF Disciplined
<1>2. /\ caller[c].phase = "undo" /\ rows' = rows /\ made' = made
      /\ caller' = [caller EXCEPT ![c] = Idle]
      /\ IF ConnOf(c) = None THEN conn' = conn /\ tx' = tx ELSE Release(ClientOf[c], ConnOf(c))
  BY DEF Rollback
<1>3. /\ \A d \in Callers \ {c} : caller'[d] = caller[d]
      /\ caller' = [d \in Callers |-> caller'[d]] /\ caller'[c] = Idle
  BY <1>1, <1>2 DEF Functions
<1>4. ConnOf(c)' = None /\ OwnChange(c) /\ Functions'
  <2>1. CASE ConnOf(c) = None
    <3>1. conn' = conn /\ tx' = tx
      BY <2>1, <1>2
    <3>. QED
      BY <2>1, <3>1, <1>1, <1>2, <1>3 DEF Functions, OwnChange, ConnOf
  <2>2. CASE ConnOf(c) # None
    BY <2>2, <1>1, <1>2, <1>3, ReleaseFits DEF Functions, OwnChange
  <2>. QED
    BY <2>1, <2>2
<1>. QED
  BY <1>2, <1>3, <1>4, StopStep DEF Halts, Leaves

LEMMA FindsNoneStep ==
  ASSUME OneClientEach, Disciplined, NEW c \in Callers, FindsNone(c, Next1(c))
  PROVE  Disciplined' /\ Halts
<1>1. Functions /\ ConnOf(c) = None
  BY DEF Disciplined, FindsNone
<1>2. /\ rows' = rows /\ conn' = conn /\ tx' = tx /\ made' = made
      /\ caller' = [caller EXCEPT ![c] = Idle]
  BY DEF FindsNone, Return
<1>3. /\ \A d \in Callers \ {c} : caller'[d] = caller[d]
      /\ caller' = [d \in Callers |-> caller'[d]] /\ caller'[c] = Idle
  BY <1>1, <1>2 DEF Functions
<1>4. ConnOf(c)' = None /\ OwnChange(c) /\ Functions'
  BY <1>1, <1>2, <1>3 DEF Functions, OwnChange, ConnOf
<1>. QED
  BY <1>2, <1>3, <1>4, StopStep DEF Halts, Leaves

LEMMA BeginFailsStep ==
  ASSUME OneClientEach, Disciplined, NEW c \in Callers, BeginFails(c)
  PROVE  Disciplined' /\ Halts
<1>1. Functions /\ CallerFit(c) /\ ConnectionFit(c)
  BY DEF Disciplined
<1>2. PICK i : i = caller[c].conn
  OBVIOUS
<1>3. /\ caller[c].phase = "connecting" /\ rows' = rows /\ tx' = tx /\ made' = made
      /\ conn' = [conn EXCEPT ![i] = Free]
      /\ caller' = [caller EXCEPT ![c] = Idle]
  BY <1>2 DEF BeginFails
<1>4. /\ \A d \in Callers \ {c} : caller'[d] = caller[d]
      /\ caller' = [d \in Callers |-> caller'[d]] /\ caller'[c] = Idle
  BY <1>1, <1>3 DEF Functions
<1>5. i \in Connections /\ conn[i].by = ClientOf[c] /\ ConnOf(c) = None
  BY <1>1, <1>2, <1>3 DEF ConnectionFit, Opened, Free
<1>6. conn'[i] = Free /\ \A j \in Connections \ {i} : conn'[j] = conn[j]
  BY <1>1, <1>3, <1>5 DEF Functions
<1>7. ConnOf(c)' = None /\ OwnChange(c) /\ Functions'
  BY <1>1, <1>3, <1>4, <1>5, <1>6 DEF Functions, OwnChange, ConnOf, Free
<1>. QED
  BY <1>3, <1>4, <1>7, StopStep DEF Halts, Leaves

LEMMA CrashStep ==
  ASSUME OneClientEach, Disciplined, NEW cl \in Clients, Crash(cl)
  PROVE  Disciplined' /\ Halts
<1>1. PICK c \in Callers : ClientOf[c] = cl
  BY DEF Crash, Busy
<1>2. Functions /\ CallerFit(c) /\ ConnectionFit(c)
  BY DEF Disciplined
<1>3. /\ rows' = rows /\ made' = made
      /\ caller' = [d \in Callers |-> IF ClientOf[d] = cl THEN Idle ELSE caller[d]]
      /\ conn' = [i \in Connections |-> IF conn[i].by = cl THEN Free ELSE conn[i]]
      /\ tx' = [tx EXCEPT ![cl] = None]
  BY DEF Crash
<1>4. caller'[c] = Idle /\ \A d \in Callers \ {c} : caller'[d] = caller[d]
  BY <1>1, <1>3 DEF OneClientEach
<1>5. \A i \in Connections : conn'[i] = Free \/ conn'[i] = conn[i]
  BY <1>3
<1>6. Functions'
  BY <1>2, <1>3, <1>5 DEF Functions, Free
<1>7. OwnChange(c)
  BY <1>1, <1>2, <1>3, <1>4 DEF OwnChange, Functions
<1>8. ConnOf(c)' = None
  BY <1>1, <1>2, <1>3 DEF ConnOf, Functions
<1>. QED
  BY <1>3, <1>4, <1>6, <1>7, <1>8, StopStep DEF Halts, Leaves

LEMMA StepEffect ==
  ASSUME OneClientEach, Disciplined, [Next]_vars
  PROVE  Disciplined' /\ Effect
<1>1. CASE UNCHANGED vars
  <2>1. Disciplined'
    BY <1>1 DEF vars, Disciplined, Functions, CallerFit, ConnectionFit, Live, Running, Open, ConnOf,
                InTransaction, Next1, ProgramOf
  <2>2. Halts
    BY <1>1 DEF vars, Halts, Same, Open, Writes, Running, ConnOf
  <2>. QED
    BY <2>1, <2>2 DEF Effect
<1>2. ASSUME NEW cl \in Clients, Crash(cl) PROVE Disciplined' /\ Effect
  BY <1>2, CrashStep DEF Effect
<1>3. ASSUME NEW c \in Callers, Call(c) \/ Step(c) \/ Fault(c) PROVE Disciplined' /\ Effect
  <2>1. CASE Call(c)
    BY <2>1, CallStep DEF Effect
  <2>2. CASE Begun(c)
    BY <2>2, BegunStep DEF Effect
  <2>3. CASE Rollback(c)
    BY <2>3, RollbackStep DEF Effect
  <2>4. CASE BeginFails(c)
    BY <2>4, BeginFailsStep DEF Effect
  <2>5. CASE Running(c) /\ Connect(c, Next1(c))
    BY <2>5, ConnectStep DEF Effect
  <2>6. CASE Running(c) /\ Run(c, Next1(c))
    BY <2>6, RunStep DEF Effect
  <2>7. CASE Running(c) /\ ThrowByCode(c, Next1(c))
    <3>1. Throw(c) /\ rows' = rows /\ tx' = tx /\ made' = made /\ conn' = conn
      BY <2>7 DEF ThrowByCode
    <3>. QED
      BY <2>7, <3>1, ThrowStep DEF Effect
  <2>8. CASE Running(c) /\ ThrowByServer(c, Next1(c))
    <3>1. Throw(c) /\ rows' = rows /\ tx' = tx /\ made' = made /\ Spoil(ConnOf(c))
      BY <2>8 DEF ThrowByServer
    <3>. QED
      BY <2>8, <3>1, ThrowStep DEF Effect
  <2>9. CASE Running(c) /\ StatementFails(c, Next1(c))
    <3>1. Throw(c) /\ rows' = rows /\ tx' = tx /\ made' = made /\ Spoil(ConnOf(c))
      BY <2>9 DEF StatementFails
    <3>. QED
      BY <2>9, <3>1, ThrowStep DEF Effect
  <2>10. CASE Running(c) /\ CommitIt(c, Next1(c))
    BY <2>10, CommitStep DEF Effect
  <2>11. CASE Running(c) /\ CommitFails(c, Next1(c))
    BY <2>11, CommitFailsStep DEF Effect
  <2>12. CASE FindsNone(c, Next1(c))
    BY <2>12, FindsNoneStep DEF Effect
  <2>. QED
    BY <1>3, <2>1, <2>2, <2>3, <2>4, <2>5, <2>6, <2>7, <2>8, <2>9, <2>10, <2>11, <2>12 DEF Step, Fault, Send
<1>. QED
  BY <1>1, <1>2, <1>3 DEF Next

-----------------------------------------------------------------------------
(* Rows that two transactions have written, and whose they are. *)

\* The tables that a call may write.
Tables(call) ==
  IF call.of = "schema_migrations" THEN {"ddl", "schema_migrations"}
  ELSE IF SavesPlan(call) THEN {"schedule_plans", "time_blocks"}
  ELSE IF call.of = "retention" THEN {CountedTables[i] : i \in 1..8} \cup {"time_blocks"}
  ELSE {call.of} \ {"schedule_plans"}

Exclusive == \A c \in Callers, d \in Callers : c # d => DOMAIN Writes(c) \cap DOMAIN Writes(d) = {}
Confined == \A c \in Callers : \A k \in DOMAIN Writes(c) : k[1] \in Tables(caller[c].call)

-----------------------------------------------------------------------------
(* The migrations. *)

Recorded(v) == rows[<<"schema_migrations", v>>] # NoRow
Ran(c, v) ==
  Writes(c)[<<"ddl", v>>] =
    [runs |-> IF rows[<<"ddl", v>>] = NoRow THEN 1 ELSE rows[<<"ddl", v>>].runs + 1]
\* What a transaction that applies version v has written before its n-th statement.
Applying(c, n, v) ==
  /\ n = 2 => Writes(c) = <<>>
  /\ n = 3 => Ran(c, v) /\ DOMAIN Writes(c) = {<<"ddl", v>>}
  /\ n = 4 => /\ Ran(c, v) /\ DOMAIN Writes(c) = {<<"ddl", v>>, <<"schema_migrations", v>>}
              /\ Writes(c)[<<"schema_migrations", v>>] # NoRow /\ ~Recorded(v)
Migrates(c) == Live(c) /\ caller[c].call.of = "schema_migrations"
MigrationState(c, saw, n) ==
  /\ \A x \in DOMAIN Versions : ~Lacks(saw, x) => Recorded(Versions[x])
  /\ \A m \in 1..Len(Missing(saw)) : 4 * m + 2 < n => Recorded(Missing(saw)[m])
  /\ \A m \in 1..Len(Missing(saw)) : Open(c) => Applying(c, n - (4 * m - 2), Missing(saw)[m])
MigrationFit(c) == Migrates(c) => MigrationState(c, caller[c].saw, caller[c].pc)
MigrationInv == Disciplined /\ Exclusive /\ Confined /\ MigratedOnce /\ \A c \in Callers : MigrationFit(c)

\* Keys that a statement of a kind writes.
LEMMA WrittenBy ==
  ASSUME NEW s, NEW view, NEW k \in Written(s, view)
  PROVE  /\ s.verb \in {"upsert", "insert", "ddl", "update", "delete"}
         /\ s.verb \in {"upsert", "insert", "ddl"} => k = s.where.key
         /\ s.verb = "update" => k \in Selected(s.where, view)
         /\ s.verb = "delete" =>
              \/ k \in Selected(s.where, view)
              \/ \E p \in Selected(s.where, view) \cap PlanKeys : k \in BlocksOf(p[2], view)
BY DEF Written, Cascade

LEMMA SelectedBy ==
  ASSUME NEW view, NEW t
  PROVE  /\ Selected(Is(t), view) = {k \in {t} : view[k] # NoRow}
         /\ Selected(Every(t), view) = {k \in In(t) : view[k] # NoRow}
         /\ Selected(Old(t), view) = OldRows(t, view)
         /\ Selected(OfPlan(t), view) = BlocksOf(t, view)
         /\ Selected(OfOldPlans, view) = UNION {BlocksOf(k[2], view) : k \in OldRows("schedule_plans", view)}
<1>1. Selected(Is(t), view) = {k \in {t} : view[k] # NoRow}
  BY DEF Selected, Is
<1>2. Selected(Every(t), view) = {k \in In(t) : view[k] # NoRow}
  BY DEF Selected, Every
<1>3. Selected(Old(t), view) = OldRows(t, view)
  BY DEF Selected, Old
<1>4. Selected(OfPlan(t), view) = BlocksOf(t, view)
  BY DEF Selected, OfPlan
<1>5. Selected(OfOldPlans, view) = UNION {BlocksOf(k[2], view) : k \in OldRows("schedule_plans", view)}
  BY DEF Selected, OfOldPlans
<1>. QED
  BY <1>1, <1>2, <1>3, <1>4, <1>5

LEMMA WrittenTables ==
  ASSUME NEW call, NEW saw, Offered(call), NEW n \in 1..Len(Program(call, saw)),
         NEW view, NEW k \in Written(Program(call, saw)[n], view)
  PROVE  k[1] \in Tables(call)
<1>. DEFINE p == Program(call, saw)  s == p[n]
<1>1. Len(p) \in Nat
  BY ProgramIsSeq
<1>0. \A t : \A b \in BlocksOf(t, view) : b[1] = "time_blocks"
  BY DEF BlocksOf, BlockKeys, In
<1>01. \A t : \A b \in OldRows(t, view) : b[1] = t
  BY DEF OldRows, In
<1>02. /\ s.verb \in {"upsert", "insert", "ddl", "update", "delete"}
       /\ s.verb \in {"upsert", "insert", "ddl"} => k = s.where.key
  BY WrittenBy
<1>2. CASE ~Transacts(call)
  <2>1. Short(call, p)
    BY <1>2, ShortPrograms
  <2>2. Simple(call, s)
    BY <2>1, ShortFacts
  <2>3. Tables(call) = {call.of} \ {"schedule_plans"}
    BY <1>2 DEF Tables, Transacts
  <2>. HIDE DEF s
  <2>4. k \in Written(s, view)
    BY DEF s
  <2>5. CASE Saves(call, s)
    <3>1. k = OwnRow(call)
      BY <2>4, <2>5, WrittenBy DEF Saves, Is
    <3>. QED
      BY <3>1, <2>3, <2>5 DEF Saves, OwnRow
  <2>6. CASE Alters(call, s)
    <3>1. k = OwnRow(call)
      BY <2>4, <2>6, WrittenBy, SelectedBy DEF Alters
    <3>. QED
      BY <3>1, <2>3, <2>6 DEF Alters, OwnRow
  <2>7. CASE Deletes(call, s)
    <3>1. \A q \in Selected(s.where, view) : q[1] = call.of
      <4>1. \A q : q \in Selected(s.where, view) => q = OwnRow(call) \/ q \in In(call.of)
        BY <2>7, SelectedBy DEF Deletes
      <4>. QED
        BY <4>1 DEF OwnRow, In
    <3>2. Selected(s.where, view) \cap PlanKeys = {}
      BY <3>1, <2>7 DEF PlanKeys, In, Deletes
    <3>3. k[1] = call.of
      BY <3>1, <3>2, <2>4, <2>7, WrittenBy DEF Deletes
    <3>. QED
      BY <3>3, <2>3, <2>7 DEF Deletes
  <2>8. ~Reads(s)
    BY <2>4, WrittenBy DEF Reads
  <2>. QED
    BY <2>2, <2>5, <2>6, <2>7, <2>8 DEF Simple
<1>3. CASE SavesPlan(call)
  <2>1. PlanShape(call, p)
    BY <1>3, PlanProgram
  <2>. DEFINE l == Len(call.row.blocks)
  <2>2. l \in Nat /\ Len(p) = l + 4 /\ p[l + 4] = Commit /\ p[1] = Begin
        /\ p[2] = Put(<<"schedule_plans", call.id>>, SavedPlan(call)) /\ p[3] = Drop(OfPlan(call.id))
        /\ \A j \in 1..l : p[j + 3] = InsertBlock(call.id, call.row.blocks[j])
    BY <2>1 DEF PlanShape
  <2>. HIDE DEF l
  <2>3. n \in {1, 2, 3, l + 4} \/ \E j \in 1..l : n = j + 3
    <3>1. n \in {1, 2, 3, l + 4} \/ (n - 3 \in 1..l /\ n = (n - 3) + 3)
      BY <2>2
    <3>. QED
      BY <3>1
  <2>4. Tables(call) = {"schedule_plans", "time_blocks"}
    BY <1>3 DEF Tables, SavesPlan
  <2>5. CASE s \in {Begin, Commit}
    BY <2>5, WrittenBy DEF Begin, Commit, Plain
  <2>6. CASE s = Put(<<"schedule_plans", call.id>>, SavedPlan(call))
    <3>1. k = <<"schedule_plans", call.id>>
      BY <2>6, <1>02 DEF Put, Plain, Is
    <3>. QED
      BY <3>1, <2>4
  <2>7. CASE s = Drop(OfPlan(call.id))
    <3>1. \A q : q \in Selected(OfPlan(call.id), view) => q[1] = "time_blocks"
      BY <1>0, SelectedBy
    <3>2. k[1] = "time_blocks"
      BY <2>7, <3>1, <1>0, WrittenBy, Statements
    <3>. QED
      BY <3>2, <2>4
  <2>8. CASE \E j \in 1..l : s = InsertBlock(call.id, call.row.blocks[j])
    <3>1. PICK j \in 1..l : s = InsertBlock(call.id, call.row.blocks[j])
      BY <2>8
    <3>2. s.verb = "throw" \/ (s.verb = "insert" /\ s.where.key = <<"time_blocks", call.row.blocks[j]>>)
      BY <3>1 DEF InsertBlock, Refusal, Add, Plain, Is
    <3>3. k = <<"time_blocks", call.row.blocks[j]>>
      BY <3>2, WrittenBy
    <3>. QED
      BY <3>3, <2>4
  <2>. QED
    BY <2>2, <2>3, <2>5, <2>6, <2>7, <2>8
<1>4. CASE call.of = "retention"
  <2>1. CleanupShape(call, p)
    BY <1>4, CleanupProgram
  <2>2. Tables(call) = {CountedTables[i] : i \in 1..8} \cup {"time_blocks"}
    BY <1>4 DEF Tables, SavesPlan
  <2>3. \/ s.verb = "select" \/ s \in {Begin, Commit, Drop(OfOldPlans)}
        \/ \E i \in 1..8 : s = Drop(Old(CountedTables[i]))
    <3>1. CASE n \in 1..8
      BY <2>1, <3>1 DEF CleanupShape
    <3>2. CASE n \notin 1..8
      <4>1. ~call.dryRun /\ Len(p) = 18
        BY <2>1, <3>2, <1>1 DEF CleanupShape
      <4>2. /\ p[9] = Begin /\ p[10] = Drop(OfOldPlans) /\ p[11] = Drop(Old("schedule_plans"))
            /\ \A i \in 1..6 : p[i + 11] = Drop(Old(CountedTables[i + 1]))
            /\ p[18] = Commit
        BY <2>1, <4>1 DEF CleanupShape
      <4>3. n \in {9, 10, 11, 18} \/ (n - 11 \in 1..6 /\ n = (n - 11) + 11)
        BY <3>2, <4>1
      <4>4. CountedTables[1] = "schedule_plans"
        BY DEF CountedTables
      <4>5. \A i \in 1..6 : i + 1 \in 1..8
        OBVIOUS
      <4>. QED
        BY <4>2, <4>3, <4>4, <4>5
    <3>. QED
      BY <3>1, <3>2
  <2>4. s.verb # "select" /\ s \notin {Begin, Commit}
    BY WrittenBy DEF Begin, Commit, Plain
  <2>5. CASE s = Drop(OfOldPlans)
    <3>1. \A q : q \in Selected(OfOldPlans, view) => q[1] = "time_blocks"
      BY <1>0, SelectedBy
    <3>2. k[1] = "time_blocks"
      BY <2>5, <3>1, <1>0, WrittenBy, Statements
    <3>. QED
      BY <3>2, <2>2
  <2>6. CASE \E i \in 1..8 : s = Drop(Old(CountedTables[i]))
    <3>1. PICK i \in 1..8 : s = Drop(Old(CountedTables[i]))
      BY <2>6
    <3>2. \A q : q \in Selected(Old(CountedTables[i]), view) => q[1] = CountedTables[i]
      BY <1>01, SelectedBy
    <3>3. k[1] = "time_blocks" \/ k[1] = CountedTables[i]
      BY <3>1, <3>2, <1>0, WrittenBy, Statements
    <3>. QED
      BY <3>3, <2>2
  <2>. QED
    BY <2>3, <2>4, <2>5, <2>6
<1>5. CASE call.of = "schema_migrations"
  <2>1. MigrationShape(saw, p)
    BY <1>5, MigrationProgram
  <2>. DEFINE l == Len(Missing(saw))
  <2>2. l \in Nat /\ Len(p) = 4 * l + 2
        /\ p[1] = Plain("create schema_migrations") /\ p[2] = Read(Every("schema_migrations"))
        /\ \A m \in 1..l : /\ p[4 * m - 1] = Begin /\ p[4 * m] = Ddl(Missing(saw)[m])
                           /\ p[4 * m + 1] = Applied(Missing(saw)[m]) /\ p[4 * m + 2] = Commit
    BY <2>1 DEF MigrationShape
  <2>. HIDE DEF l
  <2>3. Tables(call) = {"ddl", "schema_migrations"}
    BY <1>5 DEF Tables
  <2>4. \/ s \in {Plain("create schema_migrations"), Read(Every("schema_migrations")), Begin, Commit}
        \/ \E v : s \in {Ddl(v), Applied(v)}
    <3>0. n \in 1..4 * l + 2
      BY <2>2
    <3>3. l \in Nat
      BY <2>2
    <3>1. n \in {1, 2} \/ n \in 3..4 * l + 2
      BY <3>0, <3>3
    <3>2. CASE n \in {1, 2}
      BY <2>2, <3>2
    <3>4. CASE n \notin {1, 2}
      <4>1. PICK m \in 1..l : n \in {4 * m - 1, 4 * m, 4 * m + 1, 4 * m + 2}
        BY <3>1, <3>3, <3>4, Quarter
      <4>2. p[n] \in {Begin, Ddl(Missing(saw)[m]), Applied(Missing(saw)[m]), Commit}
        BY <2>2, <4>1
      <4>. QED
        BY <4>2
    <3>. QED
      BY <3>2, <3>4
  <2>5. s \notin {Plain("create schema_migrations"), Read(Every("schema_migrations")), Begin, Commit}
    <3>. HIDE DEF s
    <3>1. \A q \in {Plain("create schema_migrations"), Read(Every("schema_migrations")), Begin, Commit} :
             q.verb \notin {"upsert", "insert", "ddl", "update", "delete"}
      <4>1. /\ Plain("create schema_migrations").verb = "create schema_migrations"
            /\ Begin.verb = "BEGIN" /\ Commit.verb = "COMMIT"
        BY DEF Begin, Commit, Plain
      <4>2. Read(Every("schema_migrations")).verb = "select"
        BY Statements
      <4>. QED
        BY <4>1, <4>2
    <3>. QED
      BY <1>02, <3>1
  <2>6. PICK v : s \in {Ddl(v), Applied(v)}
    BY <2>4, <2>5
  <2>7. k \in {<<"ddl", v>>, <<"schema_migrations", v>>}
    <3>. HIDE DEF s
    <3>1. /\ Ddl(v).verb = "ddl" /\ Ddl(v).where.key = <<"ddl", v>>
          /\ Applied(v).verb = "insert" /\ Applied(v).where.key = <<"schema_migrations", v>>
      BY DEF Ddl, Applied, Add, Plain, Is
    <3>. QED
      BY <2>6, <1>02, <3>1
  <2>. QED
    BY <2>3, <2>7
<1>. QED
  BY <1>2, <1>3, <1>4, <1>5 DEF Transacts

\* What one has written: as before, nothing, or what a statement adds.
LEMMA WritesChange ==
  ASSUME Effect, NEW d \in Callers
  PROVE  Same(d) \/ DOMAIN Writes(d)' = {} \/ (Inside(d) /\ \A e \in Callers \ {d} : Same(e))
<1>0. DOMAIN <<>> = {}
  OBVIOUS
<1>1. ~Open(d)' => DOMAIN Writes(d)' = {}
  <2>1. ~Open(d)' => Writes(d)' = <<>>
    BY DEF Writes
  <2>. QED
    BY <1>0, <2>1
<1>2. ~Live(d)' => ~Open(d)'
  BY DEF Live, Open, Running
<1>3. CASE Halts
  BY <1>1, <1>2, <1>3 DEF Halts
<1>4. ASSUME NEW c \in Callers,
             Starts(c) \/ Connects(c) \/ Begins(c) \/ Inside(c) \/ Alone(c) \/ Commits(c)
      PROVE  Same(d) \/ DOMAIN Writes(d)' = {} \/ (Inside(d) /\ \A e \in Callers \ {d} : Same(e))
  <2>1. Leaves(c)
    BY <1>4 DEF Starts, Connects, Begins, Inside, Alone, Commits
  <2>2. CASE d # c
    BY <2>1, <2>2 DEF Leaves
  <2>3. CASE d = c /\ Inside(c)
    BY <2>1, <2>3 DEF Leaves
  <2>4. CASE d = c /\ Begins(c)
    BY <1>0, <2>4 DEF Begins
  <2>5. CASE d = c /\ (Starts(c) \/ Connects(c) \/ Alone(c) \/ Commits(c))
    BY <1>1, <2>5 DEF Starts, Connects, Alone, Commits
  <2>. QED
    BY <1>4, <2>2, <2>3, <2>4, <2>5
<1>. QED
  BY <1>3, <1>4 DEF Effect

\* The statement that a caller executes is one of its program.
LEMMA Executed ==
  ASSUME Disciplined, NEW c \in Callers, Running(c)
  PROVE  /\ Offered(caller[c].call)
         /\ caller[c].pc \in 1..Len(Program(caller[c].call, caller[c].saw))
         /\ Next1(c) = Program(caller[c].call, caller[c].saw)[caller[c].pc]
         /\ Open(c) <=> OpenAt(Program(caller[c].call, caller[c].saw), caller[c].pc)
<1>1. CallerFit(c) /\ ConnectionFit(c)
  BY DEF Disciplined
<1>2. Offered(caller[c].call) /\ caller[c].pc \in 1..Len(Program(caller[c].call, caller[c].saw))
  BY <1>1 DEF CallerFit, Live, Running, ProgramOf
<1>3. Next1(c) = Program(caller[c].call, caller[c].saw)[caller[c].pc]
  BY DEF Next1, ProgramOf
<1>4. Open(c) <=> OpenAt(Program(caller[c].call, caller[c].saw), caller[c].pc)
  BY <1>1 DEF ConnectionFit, Open, InTransaction, ProgramOf
<1>. QED
  BY <1>2, <1>3, <1>4

LEMMA ExecutedWrites ==
  ASSUME Disciplined, NEW c \in Callers, NEW view, NEW w, NEW seen, Executes(c, view, w, seen)
  PROVE  /\ DOMAIN w = Written(Next1(c), view)
         /\ \A k \in DOMAIN w : k[1] \in Tables(caller[c].call) /\ w[k] = Value(Next1(c), view[k])
         /\ \A d \in Callers \ {c} : DOMAIN w \cap DOMAIN Writes(d) = {}
<1>1. Running(c) /\ w = [k \in Written(Next1(c), view) |-> Value(Next1(c), view[k])]
  BY DEF Executes
<1>2. Written(Next1(c), view) \subseteq Locks(Next1(c), view)
  BY DEF Locks
<1>3. \A d \in Callers \ {c} : DOMAIN Writes(d) \cap Locks(Next1(c), view) = {}
  BY DEF Executes
<1>4. DOMAIN w = Written(Next1(c), view)
  BY <1>1
<1>5. \A k \in Written(Next1(c), view) : k[1] \in Tables(caller[c].call)
  BY <1>1, Executed, WrittenTables
<1>. QED
  BY <1>1, <1>2, <1>3, <1>4, <1>5

LEMMA ExclusiveKept ==
  ASSUME Disciplined, Effect, Exclusive, Confined
  PROVE  Exclusive' /\ Confined'
<1>1. ASSUME NEW c \in Callers, Inside(c)
      PROVE  /\ \A d \in Callers \ {c} : DOMAIN Writes(c)' \cap DOMAIN Writes(d) = {}
             /\ \A k \in DOMAIN Writes(c)' : k[1] \in Tables(caller'[c].call)
  <2>1. PICK view, w, seen :
          Executes(c, view, w, seen) /\ Goes(c, seen) /\ Writes(c)' = Over(w, Writes(c))
    BY <1>1 DEF Inside
  <2>2. /\ \A k \in DOMAIN w : k[1] \in Tables(caller[c].call)
        /\ \A d \in Callers \ {c} : DOMAIN w \cap DOMAIN Writes(d) = {}
    BY <2>1, ExecutedWrites
  <2>3. DOMAIN Writes(c)' = DOMAIN w \cup DOMAIN Writes(c)
    BY <2>1 DEF Over
  <2>4. caller'[c].call = caller[c].call
    BY <2>1 DEF Goes, At
  <2>. QED
    BY <2>2, <2>3, <2>4 DEF Exclusive, Confined
<1>2. ASSUME NEW c \in Callers, NEW d \in Callers, c # d
      PROVE  DOMAIN Writes(c)' \cap DOMAIN Writes(d)' = {}
  <2>1. Same(c) \/ DOMAIN Writes(c)' = {} \/ (Inside(c) /\ \A e \in Callers \ {c} : Same(e))
    BY WritesChange
  <2>2. Same(d) \/ DOMAIN Writes(d)' = {} \/ (Inside(d) /\ \A e \in Callers \ {d} : Same(e))
    BY WritesChange
  <2>3. CASE Same(c) /\ Same(d)
    BY <1>2, <2>3 DEF Same, Exclusive
  <2>4. CASE Inside(c) /\ Same(d)
    BY <1>1, <1>2, <2>4 DEF Same
  <2>5. CASE Inside(d) /\ Same(c)
    BY <1>1, <1>2, <2>5 DEF Same
  <2>. QED
    BY <1>2, <2>1, <2>2, <2>3, <2>4, <2>5
<1>3. ASSUME NEW c \in Callers PROVE \A k \in DOMAIN Writes(c)' : k[1] \in Tables(caller'[c].call)
  <2>1. Same(c) \/ DOMAIN Writes(c)' = {} \/ Inside(c)
    BY WritesChange
  <2>. QED
    BY <1>1, <2>1 DEF Same, Confined
<1>. QED
  BY <1>2, <1>3 DEF Exclusive, Confined

\* Where a run of the migrations stands before its n-th statement, and at the
\* m-th missing version, v.
Place(p, n, m, v) ==
  \/ n = 4 * m - 1 /\ p[n] = Begin
  \/ n = 4 * m /\ p[n] = Ddl(v) /\ OpenAt(p, n)
  \/ n = 4 * m + 1 /\ p[n] = Applied(v) /\ OpenAt(p, n)
  \/ n = 4 * m + 2 /\ p[n] = Commit /\ OpenAt(p, n)

LEMMA MigrationAt ==
  ASSUME NEW call, NEW saw, call.of = "schema_migrations", Offered(call),
         NEW n \in 1..Len(Program(call, saw))
  PROVE  \/ n \in {1, 2} /\ ~OpenAt(Program(call, saw), n)
              /\ Program(call, saw)[1] = Plain("create schema_migrations")
              /\ Program(call, saw)[2] = Read(Every("schema_migrations"))
         \/ \E m \in 1..Len(Missing(saw)) : Place(Program(call, saw), n, m, Missing(saw)[m])
<1>. DEFINE p == Program(call, saw)  l == Len(Missing(saw))
<1>1. MigrationShape(saw, p)
  BY MigrationProgram
<1>2. l \in Nat /\ Len(p) = 4 * l + 2
      /\ p[1] = Plain("create schema_migrations") /\ p[2] = Read(Every("schema_migrations"))
      /\ \A m \in 1..l : /\ p[4 * m - 1] = Begin /\ p[4 * m] = Ddl(Missing(saw)[m])
                         /\ p[4 * m + 1] = Applied(Missing(saw)[m]) /\ p[4 * m + 2] = Commit
  BY <1>1 DEF MigrationShape
<1>3. /\ Plain("create schema_migrations") # Begin /\ Read(Every("schema_migrations")) # Begin
      /\ \A v : Ddl(v) \notin {Begin, Commit} /\ Applied(v) \notin {Begin, Commit}
  BY Statements DEF Begin, Commit, Read, Ddl, Applied, Add, Plain
<1>. HIDE DEF p, l
<1>4. n \in 1..4 * l + 2 /\ l \in Nat /\ n \in Nat
  <2>1. n \in 1..4 * l + 2
    BY <1>2 DEF p
  <2>2. l \in Nat
    BY <1>2
  <2>. QED
    BY <2>1, <2>2
<1>5. CASE n \in {1, 2}
  <2>1. \A i \in 1..n - 1 : i = 1
    BY <1>5
  <2>2. \A i \in 1..n - 1 : p[i] # Begin
    BY <2>1, <1>2, <1>3
  <2>3. ~OpenAt(p, n)
    BY <2>2, <1>4, NotOpenBefore
  <2>. QED
    BY <2>3, <1>2, <1>5 DEF p
<1>6. CASE n \notin {1, 2}
  <2>1. n \in 3..4 * l + 2
    BY <1>4, <1>6
  <2>2. PICK m \in 1..l : n \in {4 * m - 1, 4 * m, 4 * m + 1, 4 * m + 2}
    BY <2>1, <1>4, Quarter
  <2>. DEFINE a == 4 * m - 1  b == 4 * m  d == 4 * m + 1  e == 4 * m + 2
  <2>3. /\ a \in Nat \ {0} /\ b \in Nat \ {0} /\ d \in Nat \ {0}
        /\ b = a + 1 /\ d = b + 1 /\ e = d + 1
    BY <1>4
  <2>4. p[a] = Begin /\ p[b] = Ddl(Missing(saw)[m]) /\ p[d] = Applied(Missing(saw)[m]) /\ p[e] = Commit
    BY <1>2
  <2>5. n \in {a, b, d, e}
    BY <2>2
  <2>. HIDE DEF a, b, d, e
  <2>6. OpenAt(p, b)
    BY <2>3, <2>4, OpenStep
  <2>7. OpenAt(p, d)
    BY <2>3, <2>4, <2>6, <1>3, OpenStep
  <2>8. OpenAt(p, e)
    BY <2>3, <2>4, <2>7, <1>3, OpenStep
  <2>9. Place(p, n, m, Missing(saw)[m])
    BY <2>4, <2>5, <2>6, <2>7, <2>8 DEF Place, a, b, d, e
  <2>. QED
    BY <2>9 DEF p, l
<1>. QED
  BY <1>5, <1>6

\* The rows that a migration and a statement of another call have in common: none.
MigrationRows == {k \in Keys : k[1] \in {"ddl", "schema_migrations"}}
LEMMA MigrationTables ==
  ASSUME NEW call, Offered(call), call.of # "schema_migrations"
  PROVE  Tables(call) \cap {"ddl", "schema_migrations"} = {}
<1>1. \A i \in 1..8 : CountedTables[i] \notin {"ddl", "schema_migrations"}
  BY DEF CountedTables
<1>2. call.of # "ddl"
  BY DEF Offered, Methods
<1>. QED
  BY <1>1, <1>2 DEF Tables

LEMMA VersionRows ==
  ASSUME NEW x \in DOMAIN Versions
  PROVE  /\ <<"ddl", Versions[x]>> \in MigrationRows /\ <<"schema_migrations", Versions[x]>> \in MigrationRows
         /\ Versions[x] \in Nat
BY VersionsAssumption DEF MigrationRows

\* The rows of the migrations change only when one is committed.
MigrationCommits(c) ==
  /\ Migrates(c) /\ Running(c) /\ Commits(c) /\ Open(c) /\ rows' = Over(Writes(c), rows)
  /\ \E m \in 1..Len(Missing(caller[c].saw)) :
       caller[c].pc = 4 * m + 2 /\ Applying(c, 4, Missing(caller[c].saw)[m])

LEMMA OnlyOwnRows ==
  ASSUME Disciplined, Confined, NEW c \in Callers, Running(c), caller[c].call.of # "schema_migrations"
  PROVE  /\ DOMAIN Writes(c) \cap MigrationRows = {}
         /\ \A view, w, seen : Executes(c, view, w, seen) => DOMAIN w \cap MigrationRows = {}
<1>1. Tables(caller[c].call) \cap {"ddl", "schema_migrations"} = {}
  BY Executed, MigrationTables
<1>2. ASSUME NEW view, NEW w, NEW seen, Executes(c, view, w, seen)
      PROVE  DOMAIN w \cap MigrationRows = {}
  <2>1. \A k \in DOMAIN w : k[1] \in Tables(caller[c].call)
    BY <1>2, ExecutedWrites
  <2>. QED
    BY <1>1, <2>1 DEF MigrationRows
<1>. QED
  BY <1>1, <1>2 DEF Confined, MigrationRows

LEMMA MigrationsMove ==
  ASSUME MigrationInv, Effect
  PROVE  \/ \A k \in MigrationRows : rows'[k] = rows[k]
         \/ \E c \in Callers : MigrationCommits(c)
<1>1. Disciplined /\ Confined /\ MigrationRows \subseteq DOMAIN rows
  BY DEF MigrationInv, Disciplined, Functions, MigrationRows
<1>2. CASE rows' = rows
  BY <1>2
<1>3. ASSUME NEW c \in Callers, Alone(c) PROVE \A k \in MigrationRows : rows'[k] = rows[k]
  <2>1. PICK view, w, seen : Executes(c, view, w, seen) /\ rows' = Over(w, rows)
    BY <1>3 DEF Alone
  <2>2. Running(c) /\ Sends(Next1(c)) /\ ~Open(c)
    BY <1>3, <2>1 DEF Alone, Executes
  <2>3. DOMAIN w \cap MigrationRows = {}
    <3>1. CASE caller[c].call.of # "schema_migrations"
      BY <1>1, <2>1, <2>2, <3>1, OnlyOwnRows
    <3>2. CASE caller[c].call.of = "schema_migrations"
      <4>. DEFINE p == Program(caller[c].call, caller[c].saw)  n == caller[c].pc
      <4>1. /\ Offered(caller[c].call) /\ n \in 1..Len(p) /\ Next1(c) = p[n]
            /\ ~OpenAt(p, n)
        BY <1>1, <2>2, Executed
      <4>2. p[n] \notin {Begin, Commit}
        BY <4>1, <2>2 DEF Sends
      <4>3. n \in {1, 2} /\ p[1] = Plain("create schema_migrations") /\ p[2] = Read(Every("schema_migrations"))
        BY <3>2, <4>1, <4>2, MigrationAt DEF Place
      <4>4. Next1(c).verb \in {"create schema_migrations", "select"}
        <5>1. Plain("create schema_migrations").verb = "create schema_migrations"
          BY DEF Plain
        <5>2. Read(Every("schema_migrations")).verb = "select"
          BY DEF Read, Plain
        <5>. QED
          BY <4>1, <4>3, <5>1, <5>2
      <4>5. DOMAIN w = Written(Next1(c), view)
        BY <1>1, <2>1, ExecutedWrites
      <4>6. Written(Next1(c), view) = {}
        BY <4>4, WrittenBy
      <4>. QED
        BY <4>5, <4>6
    <3>. QED
      BY <3>1, <3>2
  <2>. QED
    BY <1>1, <2>1, <2>3 DEF Over
<1>4. ASSUME NEW c \in Callers, Commits(c), rows' # rows
      PROVE  (\A k \in MigrationRows : rows'[k] = rows[k]) \/ MigrationCommits(c)
  <2>1. Running(c) /\ Open(c) /\ rows' = Over(Writes(c), rows) /\ Next1(c) = Commit
    BY <1>4 DEF Commits
  <2>2. CASE caller[c].call.of # "schema_migrations"
    <3>1. DOMAIN Writes(c) \cap MigrationRows = {}
      BY <1>1, <2>1, <2>2, OnlyOwnRows
    <3>. QED
      BY <1>1, <2>1, <3>1 DEF Over
  <2>3. CASE caller[c].call.of = "schema_migrations"
    <3>. DEFINE saw == caller[c].saw  p == Program(caller[c].call, saw)  n == caller[c].pc
    <3>1. Offered(caller[c].call) /\ n \in 1..Len(p) /\ p[n] = Commit
      BY <1>1, <2>1, Executed
    <3>2. /\ Plain("create schema_migrations") # Commit /\ Read(Every("schema_migrations")) # Commit /\ Begin # Commit
          /\ \A v : Ddl(v) # Commit /\ Applied(v) # Commit
      BY Statements DEF Begin, Commit, Read, Ddl, Applied, Add, Plain
    <3>3. PICK m \in 1..Len(Missing(saw)) : Place(p, n, m, Missing(saw)[m])
      BY <2>3, <3>1, <3>2, MigrationAt
    <3>4. n = 4 * m + 2
      BY <3>1, <3>2, <3>3 DEF Place
    <3>5. Migrates(c)
      BY <2>1, <2>3 DEF Migrates, Live, Running
    <3>6. Applying(c, n - (4 * m - 2), Missing(saw)[m])
      BY <2>1, <3>5 DEF MigrationInv, MigrationFit, MigrationState
    <3>7. n - (4 * m - 2) = 4
      <4>1. m \in Int
        OBVIOUS
      <4>. QED
        BY <3>4, <4>1
    <3>. QED
      BY <1>4, <2>1, <3>4, <3>5, <3>6, <3>7 DEF MigrationCommits
  <2>. QED
    BY <2>2, <2>3
<1>. QED
  BY <1>2, <1>3, <1>4 DEF Effect, Halts, Starts, Connects, Begins, Inside

\* A committed migration is the next one: it ran once, and all before it are recorded.
LEMMA MigrationWrites ==
  ASSUME MigrationInv, NEW c \in Callers, MigrationCommits(c)
  PROVE  \E x \in DOMAIN Versions :
           /\ ~Recorded(Versions[x])
           /\ \A y \in DOMAIN Versions : y < x => Recorded(Versions[y])
           /\ rows'[<<"ddl", Versions[x]>>] = [runs |-> 1]
           /\ rows'[<<"schema_migrations", Versions[x]>>] # NoRow
           /\ \A k \in MigrationRows :
                k \notin {<<"ddl", Versions[x]>>, <<"schema_migrations", Versions[x]>>} => rows'[k] = rows[k]
           /\ caller[c].pc \in Nat
           /\ \E m \in 1..Len(Missing(caller[c].saw)) :
                caller[c].pc = 4 * m + 2 /\ Missing(caller[c].saw)[m] = Versions[x]
<1>. DEFINE saw == caller[c].saw  M == Missing(saw)
<1>1. PICK m \in 1..Len(M) : caller[c].pc = 4 * m + 2 /\ Applying(c, 4, M[m])
  BY DEF MigrationCommits
<1>2. Listing(saw, M, Len(Versions)) /\ DOMAIN Versions = 1..Len(Versions)
  BY MissingListed, VersionsAssumption
<1>3. PICK x \in DOMAIN Versions : M[m] = Versions[x] /\ Lacks(saw, x)
  BY <1>2 DEF Listing
<1>. DEFINE v == Versions[x]
<1>4. /\ Ran(c, v) /\ DOMAIN Writes(c) = {<<"ddl", v>>, <<"schema_migrations", v>>}
      /\ Writes(c)[<<"schema_migrations", v>>] # NoRow /\ ~Recorded(v)
  BY <1>1, <1>3 DEF Applying
<1>5. /\ Migrates(c) /\ rows' = Over(Writes(c), rows) /\ MigrationRows \subseteq DOMAIN rows
      /\ MigrationFit(c) /\ Migrated(rows)
  BY DEF MigrationCommits, MigrationInv, Disciplined, Functions, MigrationRows, MigratedOnce
<1>6. <<"ddl", v>> \in MigrationRows /\ <<"schema_migrations", v>> \in MigrationRows
  BY VersionRows
<1>7. rows[<<"ddl", v>>] = NoRow
  BY <1>4, <1>5 DEF Migrated, Recorded
<1>8. Writes(c)[<<"ddl", v>>] = [runs |-> 1]
  BY <1>4, <1>7 DEF Ran
<1>9. ASSUME NEW y \in DOMAIN Versions, y < x PROVE Recorded(Versions[y])
  <2>1. CASE ~Lacks(saw, y)
    BY <1>5, <2>1 DEF MigrationFit, MigrationState
  <2>2. CASE Lacks(saw, y)
    <3>1. Versions[y] < M[m]
      BY <1>3, <1>9, VersionsAssumption
    <3>2. PICK l \in 1..m - 1 : M[l] = Versions[y]
      BY <1>2, <2>2, <3>1 DEF Listing
    <3>3. l \in 1..Len(M) /\ 4 * l + 2 < caller[c].pc
      <4>1. Len(M) \in Nat
        BY <1>2 DEF Listing
      <4>. QED
        BY <4>1, <1>1
    <3>. QED
      BY <1>5, <3>2, <3>3 DEF MigrationFit, MigrationState
  <2>. QED
    BY <2>1, <2>2
<1>10. /\ rows'[<<"ddl", v>>] = [runs |-> 1]
       /\ rows'[<<"schema_migrations", v>>] # NoRow
       /\ \A k \in MigrationRows :
                k \notin {<<"ddl", v>>, <<"schema_migrations", v>>} => rows'[k] = rows[k]
  BY <1>4, <1>5, <1>6, <1>8 DEF Over
<1>11. caller[c].pc \in Nat
  BY <1>1
<1>. QED
  BY <1>1, <1>3, <1>4, <1>9, <1>10, <1>11

LEMMA MigratedKept ==
  ASSUME MigrationInv, Effect
  PROVE  MigratedOnce' /\ \A x \in DOMAIN Versions : Recorded(Versions[x]) => Recorded(Versions[x])'
<1>0. Migrated(rows)
  BY DEF MigrationInv, MigratedOnce
<1>1. CASE \A k \in MigrationRows : rows'[k] = rows[k]
  <2>1. \A x \in DOMAIN Versions :
          /\ rows'[<<"ddl", Versions[x]>>] = rows[<<"ddl", Versions[x]>>]
          /\ rows'[<<"schema_migrations", Versions[x]>>] = rows[<<"schema_migrations", Versions[x]>>]
    BY <1>1, VersionRows
  <2>. QED
    BY <1>0, <2>1 DEF MigratedOnce, Migrated, Recorded
<1>2. ASSUME NEW c \in Callers, MigrationCommits(c)
      PROVE  MigratedOnce' /\ \A x \in DOMAIN Versions : Recorded(Versions[x]) => Recorded(Versions[x])'
  <2>1. PICK x \in DOMAIN Versions :
           /\ \A y \in DOMAIN Versions : y < x => Recorded(Versions[y])
           /\ rows'[<<"ddl", Versions[x]>>] = [runs |-> 1]
           /\ rows'[<<"schema_migrations", Versions[x]>>] # NoRow
           /\ \A k \in MigrationRows :
                k \notin {<<"ddl", Versions[x]>>, <<"schema_migrations", Versions[x]>>} => rows'[k] = rows[k]
    BY <1>2, MigrationWrites
  <2>2. ASSUME NEW y \in DOMAIN Versions, y # x
        PROVE  /\ rows'[<<"ddl", Versions[y]>>] = rows[<<"ddl", Versions[y]>>]
               /\ rows'[<<"schema_migrations", Versions[y]>>] = rows[<<"schema_migrations", Versions[y]>>]
    <3>1. Versions[y] # Versions[x]
      <4>1. x \in Int /\ y \in Int /\ (x < y \/ y < x)
        BY <2>2, VersionsAssumption
      <4>2. Versions[x] < Versions[y] \/ Versions[y] < Versions[x]
        BY <4>1, VersionsAssumption
      <4>3. Versions[x] \in Nat /\ Versions[y] \in Nat
        BY VersionsAssumption
      <4>. QED
        BY <4>2, <4>3
    <3>2. /\ <<"ddl", Versions[y]>> \notin {<<"ddl", Versions[x]>>, <<"schema_migrations", Versions[x]>>}
          /\ <<"schema_migrations", Versions[y]>> \notin {<<"ddl", Versions[x]>>, <<"schema_migrations", Versions[x]>>}
      BY <3>1
    <3>. QED
      BY <2>1, <3>2, VersionRows
  <2>3. ASSUME NEW y \in DOMAIN Versions, Recorded(Versions[y]) PROVE Recorded(Versions[y])'
    BY <2>1, <2>2, <2>3 DEF Recorded
  <2>4. ASSUME NEW y \in DOMAIN Versions
        PROVE  IF rows'[<<"schema_migrations", Versions[y]>>] = NoRow
               THEN rows'[<<"ddl", Versions[y]>>] = NoRow
               ELSE rows'[<<"ddl", Versions[y]>>] = [runs |-> 1]
    BY <1>0, <2>1, <2>2 DEF Migrated
  <2>5. ASSUME NEW i \in DOMAIN Versions, NEW j \in DOMAIN Versions, i < j,
               rows'[<<"schema_migrations", Versions[j]>>] # NoRow
        PROVE  rows'[<<"schema_migrations", Versions[i]>>] # NoRow
    <3>1. Recorded(Versions[i])
      <4>1. CASE j = x
        BY <2>1, <2>5, <4>1
      <4>2. CASE j # x
        BY <1>0, <2>2, <2>5, <4>2 DEF Migrated, Recorded
      <4>. QED
        BY <4>1, <4>2
    <3>. QED
      BY <2>3, <3>1 DEF Recorded
  <2>. QED
    BY <2>3, <2>4, <2>5 DEF MigratedOnce, Migrated
<1>. QED
  BY <1>1, <1>2, MigrationsMove

LEMMA MissingVersions ==
  ASSUME NEW saw, NEW m \in 1..Len(Missing(saw))
  PROVE  \E x \in DOMAIN Versions : Missing(saw)[m] = Versions[x]
<1>1. Listing(saw, Missing(saw), Len(Versions)) /\ DOMAIN Versions = 1..Len(Versions)
  BY MissingListed, VersionsAssumption
<1>. QED
  BY <1>1 DEF Listing

\* What was recorded stays, and a row that a transaction has written is its own.
LEMMA MigrationStays ==
  ASSUME MigrationInv, Effect, NEW d \in Callers, Same(d), NEW saw, NEW n, MigrationState(d, saw, n)
  PROVE  MigrationState(d, saw, n)'
<1>. DEFINE M == Missing(saw)
<1>1. Exclusive /\ MigrationRows \subseteq DOMAIN rows
  BY DEF MigrationInv, Disciplined, Functions, MigrationRows
<1>2. \A x \in DOMAIN Versions : Recorded(Versions[x]) => Recorded(Versions[x])'
  BY MigratedKept
<1>3. ASSUME Open(d), NEW k \in MigrationRows \cap DOMAIN Writes(d) PROVE rows'[k] = rows[k]
  <2>1. CASE \E c \in Callers : MigrationCommits(c)
    <3>1. PICK c \in Callers : MigrationCommits(c)
      BY <2>1
    <3>2. c # d
      BY <1>3, <3>1 DEF MigrationCommits, Commits, Same
    <3>3. k \notin DOMAIN Writes(c) /\ rows' = Over(Writes(c), rows)
      BY <1>1, <1>3, <3>1, <3>2 DEF Exclusive, MigrationCommits
    <3>. QED
      BY <1>1, <3>3 DEF Over
  <2>. QED
    BY <2>1, <1>3, MigrationsMove
<1>4. ASSUME Open(d), NEW m \in 1..Len(M), NEW q, Applying(d, q, M[m]) PROVE Applying(d, q, M[m])'
  <2>1. Writes(d)' = Writes(d)
    BY DEF Same
  <2>2. PICK v : v = M[m]
    OBVIOUS
  <2>3. <<"ddl", v>> \in MigrationRows /\ <<"schema_migrations", v>> \in MigrationRows
    BY <2>2, MissingVersions, VersionRows
  <2>4. <<"ddl", v>> \in DOMAIN Writes(d) => (Ran(d, v)' <=> Ran(d, v))
    BY <1>3, <1>4, <2>1, <2>3 DEF Ran
  <2>5. <<"schema_migrations", v>> \in DOMAIN Writes(d) => (Recorded(v)' <=> Recorded(v))
    BY <1>3, <1>4, <2>1, <2>3 DEF Recorded
  <2>6. Applying(d, q, v)
    BY <1>4, <2>2
  <2>7. Applying(d, q, v)'
    BY <2>1, <2>4, <2>5, <2>6 DEF Applying
  <2>. QED
    BY <2>2, <2>7
<1>5. ASSUME NEW m \in 1..Len(M), 4 * m + 2 < n PROVE Recorded(M[m])'
  <2>1. Recorded(M[m])
    BY <1>5 DEF MigrationState
  <2>. QED
    BY <1>2, <2>1, MissingVersions
<1>6. ASSUME NEW m \in 1..Len(M), Open(d)' PROVE Applying(d, n - (4 * m - 2), M[m])'
  <2>1. Open(d)
    BY <1>6 DEF Same
  <2>2. Applying(d, n - (4 * m - 2), M[m])
    BY <2>1 DEF MigrationState
  <2>. QED
    BY <1>4, <2>1, <2>2
<1>. QED
  BY <1>2, <1>5, <1>6 DEF MigrationState

LEMMA MigrationFitKept ==
  ASSUME MigrationInv, Effect, NEW d \in Callers
  PROVE  MigrationFit(d)'
<1>. SUFFICES ASSUME Migrates(d)' PROVE MigrationState(d, caller[d].saw, caller[d].pc)'
  BY DEF MigrationFit
<1>1. Disciplined /\ MigrationFit(d) /\ MigrationRows \subseteq DOMAIN rows /\ CallerFit(d) /\ ConnectionFit(d)
  BY DEF MigrationInv, Disciplined, Functions, MigrationRows
<1>2. PICK saw, n : saw = caller[d].saw /\ n = caller[d].pc
  OBVIOUS
<1>3. PICK seen, next : seen = caller'[d].saw /\ next = caller'[d].pc
  OBVIOUS
<1>4. SUFFICES MigrationState(d, seen, next)'
  BY <1>3
<1>5. Migrates(d) => MigrationState(d, saw, n)
  BY <1>1, <1>2 DEF MigrationFit
<1>6. CASE Same(d)
  <2>1. Migrates(d) /\ seen = saw /\ next = n
    BY <1>2, <1>3, <1>6 DEF Same, Migrates, Live
  <2>. QED
    BY <2>1, <1>5, <1>6, MigrationStays
<1>7. \A x \in DOMAIN Versions : Recorded(Versions[x]) => Recorded(Versions[x])'
  BY MigratedKept
<1>8. \A m \in 1..Len(Missing(saw)) : Recorded(Missing(saw)[m]) => Recorded(Missing(saw)[m])'
  BY <1>7, MissingVersions
<1>9. CASE Starts(d)
  <2>1. seen = <<>> /\ next = 1 /\ ~Open(d)'
    BY <1>3, <1>9 DEF Starts, At
  <2>2. \A x : Lacks(seen, x)
    BY <2>1 DEF Lacks, Saw
  <2>3. \A m \in 1..Len(Missing(seen)) : ~(4 * m + 2 < next)
    BY <2>1
  <2>. QED
    BY <2>1, <2>2, <2>3 DEF MigrationState
<1>10. CASE Connects(d)
  <2>1. Migrates(d) /\ seen = saw /\ next = n /\ ~Open(d)'
    BY <1>2, <1>3, <1>10 DEF Connects, Migrates, Live, Running
  <2>. QED
    BY <2>1, <1>5, <1>7, <1>8 DEF MigrationState
<1>11. ASSUME Migrates(d), Goes(d, seen)
       PROVE  /\ n \in Nat /\ next = n + 1 /\ Offered(caller[d].call) /\ caller[d].call.of = "schema_migrations"
              /\ n \in 1..Len(Program(caller[d].call, saw)) /\ Next1(d) = Program(caller[d].call, saw)[n]
  <2>1. Live(d) /\ Offered(caller[d].call) /\ n \in 1..Len(Program(caller[d].call, saw))
    BY <1>1, <1>2, <1>11 DEF Migrates, CallerFit, ProgramOf
  <2>2. n \in Nat
    <3>1. Len(Program(caller[d].call, saw)) \in Nat
      BY <2>1, ProgramIsSeq
    <3>. QED
      BY <2>1, <3>1
  <2>. QED
    BY <2>1, <2>2, <1>2, <1>3, <1>11 DEF Goes, At, Next1, ProgramOf, Migrates
<1>. DEFINE p == Program(caller[d].call, saw)  M == Missing(saw)
<1>12. /\ Plain("create schema_migrations") \notin {Begin, Commit} /\ Read(Every("schema_migrations")) \notin {Begin, Commit}
       /\ Begin # Commit /\ \A v : Ddl(v) \notin {Begin, Commit} /\ Applied(v) \notin {Begin, Commit}
  BY Statements DEF Begin, Commit, Read, Ddl, Applied, Add, Plain
<1>13. CASE Begins(d)
  <2>1. /\ caller[d].phase = "connecting" /\ Next1(d) = Begin /\ Goes(d, saw) /\ Writes(d)' = <<>> /\ rows' = rows
    BY <1>2, <1>13 DEF Begins
  <2>2. seen = saw /\ Migrates(d)
    BY <1>3, <2>1 DEF Goes, At, Migrates, Live
  <2>3. /\ n \in Nat /\ next = n + 1 /\ Offered(caller[d].call) /\ caller[d].call.of = "schema_migrations"
        /\ n \in 1..Len(p) /\ p[n] = Begin
    BY <1>11, <2>1, <2>2
  <2>4. PICK k \in 1..Len(M) : Place(p, n, k, M[k])
    BY <1>12, <2>3, MigrationAt
  <2>5. n = 4 * k - 1 /\ k \in Nat
    <3>1. PICK v : v = M[k]
      OBVIOUS
    <3>2. Place(p, n, k, v)
      BY <2>4, <3>1
    <3>. HIDE DEF p, M
    <3>3. n = 4 * k - 1
      BY <1>12, <2>3, <3>2 DEF Place
    <3>. QED
      BY <3>3
  <2>6. \A m \in 1..Len(M) : Applying(d, next - (4 * m - 2), M[m])'
    <3>1. \A m \in 1..Len(M) : next - (4 * m - 2) \notin {3, 4}
      BY <2>3, <2>5
    <3>. QED
      BY <2>1, <3>1 DEF Applying
  <2>7. \A m \in 1..Len(M) : 4 * m + 2 < next => 4 * m + 2 < n
    BY <2>3, <2>5
  <2>8. MigrationState(d, saw, n)
    BY <1>5, <2>2
  <2>. QED
    BY <1>7, <1>8, <2>2, <2>6, <2>7, <2>8 DEF MigrationState
<1>14. CASE Inside(d)
  <2>1. PICK view, w, got :
          Executes(d, view, w, got) /\ Goes(d, got) /\ Writes(d)' = Over(w, Writes(d))
    BY <1>14 DEF Inside
  <2>2. rows' = rows /\ Open(d) /\ Running(d) /\ Sends(Next1(d)) /\ view = Over(Writes(d), rows)
    BY <1>14, <2>1 DEF Inside, Executes
  <2>3. got = seen /\ Migrates(d)
    BY <1>3, <2>1, <2>2 DEF Goes, At, Migrates, Live, Running
  <2>4. /\ n \in Nat /\ next = n + 1 /\ Offered(caller[d].call) /\ caller[d].call.of = "schema_migrations"
        /\ n \in 1..Len(p) /\ Next1(d) = p[n]
    BY <1>11, <2>1, <2>3
  <2>5. p[n] \notin {Begin, Commit} /\ OpenAt(p, n)
    BY <1>1, <1>2, <2>2, <2>4, Executed DEF Sends
  <2>6. seen = saw
    <3>1. p[n].verb # "select"
      BY <2>4, <2>5, OpenGoesOn
    <3>. QED
      BY <1>2, <2>1, <2>3, <2>4, <3>1 DEF Executes
  <2>7. PICK k \in 1..Len(M) : Place(p, n, k, M[k])
    BY <2>4, <2>5, MigrationAt
  <2>8. PICK v : v = M[k]
    OBVIOUS
  <2>9. k \in Nat /\ ((n = 4 * k /\ p[n] = Ddl(v)) \/ (n = 4 * k + 1 /\ p[n] = Applied(v)))
    BY <2>5, <2>7, <2>8 DEF Place
  <2>10. MigrationState(d, saw, n) /\ Applying(d, n - (4 * k - 2), v)
    BY <1>5, <2>2, <2>3, <2>8 DEF MigrationState
  <2>11. PICK x \in DOMAIN Versions : v = Versions[x]
    BY <2>8, MissingVersions
  <2>12. <<"ddl", v>> \in DOMAIN rows /\ <<"schema_migrations", v>> \in DOMAIN rows
    BY <1>1, <2>11, VersionRows
  <2>13. DOMAIN w = Written(Next1(d), view) /\ \A key \in DOMAIN w : w[key] = Value(Next1(d), view[key])
    BY <1>1, <2>1, ExecutedWrites
  <2>14. ~Violates(Next1(d), view)
    BY <2>1 DEF Executes
  <2>15. Applying(d, next - (4 * k - 2), v)'
    <3>1. CASE n = 4 * k /\ p[n] = Ddl(v)
      <4>1. n - (4 * k - 2) = 2 /\ next - (4 * k - 2) = 3
        BY <3>1, <2>4
      <4>2. Writes(d) = <<>>
        BY <2>10, <4>1 DEF Applying
      <4>3. view[<<"ddl", v>>] = rows[<<"ddl", v>>]
        BY <2>2, <2>12, <4>2 DEF Over
      <4>4. /\ DOMAIN w = {<<"ddl", v>>}
            /\ w[<<"ddl", v>>] = [runs |-> IF rows[<<"ddl", v>>] = NoRow THEN 1 ELSE rows[<<"ddl", v>>].runs + 1]
        <5>1. Next1(d).verb = "ddl" /\ Next1(d).where.key = <<"ddl", v>>
          BY <2>4, <3>1 DEF Ddl, Plain, Is
        <5>. QED
          BY <2>13, <4>3, <5>1 DEF Written, Value
      <4>5. Writes(d)' = Over(w, <<>>)
        BY <2>1, <4>2
      <4>6. DOMAIN Writes(d)' = {<<"ddl", v>>} /\ Writes(d)'[<<"ddl", v>>] = w[<<"ddl", v>>]
        BY <4>4, <4>5 DEF Over
      <4>. QED
        BY <2>2, <4>1, <4>4, <4>6 DEF Applying, Ran
    <3>2. CASE n = 4 * k + 1 /\ p[n] = Applied(v)
      <4>1. n - (4 * k - 2) = 3 /\ next - (4 * k - 2) = 4
        BY <3>2, <2>4
      <4>2. Ran(d, v) /\ DOMAIN Writes(d) = {<<"ddl", v>>}
        BY <2>10, <4>1 DEF Applying
      <4>3. /\ Next1(d).verb = "insert" /\ Next1(d).where.key = <<"schema_migrations", v>>
            /\ Next1(d).row = [v |-> v]
        BY <2>4, <3>2 DEF Applied, Add, Plain, Is
      <4>4. rows[<<"schema_migrations", v>>] = NoRow
        <5>1. view[<<"schema_migrations", v>>] = NoRow
          BY <2>14, <4>3 DEF Violates
        <5>. QED
          BY <2>2, <2>12, <4>2, <5>1 DEF Over
      <4>5. DOMAIN w = {<<"schema_migrations", v>>} /\ w[<<"schema_migrations", v>>] = [v |-> v]
        BY <2>13, <4>3 DEF Written, Value
      <4>6. [v |-> v] # NoRow
        BY DEF NoRow
      <4>7. /\ DOMAIN Writes(d)' = {<<"ddl", v>>, <<"schema_migrations", v>>}
            /\ Writes(d)'[<<"schema_migrations", v>>] # NoRow
            /\ Writes(d)'[<<"ddl", v>>] = Writes(d)[<<"ddl", v>>]
        BY <2>1, <4>2, <4>5, <4>6 DEF Over
      <4>. QED
        BY <2>2, <4>1, <4>2, <4>4, <4>7 DEF Applying, Ran, Recorded
    <3>. QED
      BY <2>9, <3>1, <3>2
  <2>16. ASSUME NEW m \in 1..Len(M) PROVE Applying(d, next - (4 * m - 2), M[m])'
    <3>1. CASE m = k
      BY <2>8, <2>15, <3>1
    <3>2. CASE m # k
      <4>1. next - (4 * m - 2) \notin {2, 3, 4}
        BY <2>4, <2>9, <3>2
      <4>. QED
        BY <4>1 DEF Applying
    <3>. QED
      BY <3>1, <3>2
  <2>17. \A m \in 1..Len(M) : 4 * m + 2 < next => 4 * m + 2 < n
    BY <2>4, <2>9
  <2>. QED
    BY <1>7, <1>8, <2>6, <2>10, <2>16, <2>17 DEF MigrationState
<1>15. CASE Alone(d)
  <2>1. PICK view, w, got :
          Executes(d, view, w, got) /\ Goes(d, got) /\ rows' = Over(w, rows)
    BY <1>15 DEF Alone, Migrates
  <2>2. ~Open(d) /\ ~Open(d)' /\ Running(d) /\ Sends(Next1(d)) /\ view = rows
    BY <1>15, <2>1 DEF Alone, Executes
  <2>3. got = seen /\ Migrates(d)
    BY <1>3, <2>1, <2>2 DEF Goes, At, Migrates, Live, Running
  <2>4. /\ n \in Nat /\ next = n + 1 /\ Offered(caller[d].call) /\ caller[d].call.of = "schema_migrations"
        /\ n \in 1..Len(p) /\ Next1(d) = p[n]
    BY <1>11, <2>1, <2>3
  <2>5. p[n] \notin {Begin, Commit} /\ ~OpenAt(p, n)
    BY <1>1, <1>2, <2>2, <2>4, Executed DEF Sends
  <2>6. n \in {1, 2} /\ p[1] = Plain("create schema_migrations") /\ p[2] = Read(Every("schema_migrations"))
    BY <2>4, <2>5, MigrationAt DEF Place
  <2>7. \A m \in 1..Len(Missing(seen)) : ~(4 * m + 2 < next)
    <3>1. next \in {2, 3}
      <4>. HIDE DEF p
      <4>1. n \in {1, 2} /\ next = n + 1
        BY <2>4, <2>6
      <4>. QED
        BY <4>1
    <3>. QED
      BY <3>1
  <2>8. MigrationState(d, saw, n)
    BY <1>5, <2>3
  <2>9. ASSUME NEW x \in DOMAIN Versions, ~Lacks(seen, x) PROVE Recorded(Versions[x])
    <3>. DEFINE key == <<"schema_migrations", Versions[x]>>
    <3>1. CASE Next1(d).verb # "select"
      BY <1>2, <2>1, <2>3, <2>8, <2>9, <3>1 DEF Executes, MigrationState
    <3>2. CASE Next1(d).verb = "select"
      <4>1. Next1(d).where = Every("schema_migrations")
        <5>1. Plain("create schema_migrations").verb # "select"
          BY DEF Plain
        <5>2. Read(Every("schema_migrations")).where = Every("schema_migrations")
          BY DEF Read, Plain
        <5>. HIDE DEF p
        <5>3. Next1(d) = p[1] \/ Next1(d) = p[2]
          BY <2>4, <2>6
        <5>. QED
          BY <2>6, <3>2, <5>1, <5>2, <5>3
      <4>2. seen = Over([k \in Selected(Every("schema_migrations"), rows) |-> rows[k]], saw)
        BY <1>2, <2>1, <2>2, <2>3, <3>2, <4>1 DEF Executes
      <4>3. key \in DOMAIN seen /\ seen[key] # NoRow
        BY <2>9 DEF Lacks, Saw
      <4>4. CASE key \in Selected(Every("schema_migrations"), rows)
        BY <4>4, SelectedBy DEF Recorded
      <4>5. CASE key \notin Selected(Every("schema_migrations"), rows)
        <5>1. key \in DOMAIN saw /\ saw[key] # NoRow
          BY <4>2, <4>3, <4>5 DEF Over
        <5>. QED
          BY <2>8, <5>1 DEF MigrationState, Lacks, Saw
      <4>. QED
        BY <4>4, <4>5
    <3>. QED
      BY <3>1, <3>2
  <2>. QED
    BY <1>7, <2>2, <2>7, <2>9 DEF MigrationState
<1>16. CASE Commits(d)
  <2>1. Running(d) /\ Next1(d) = Commit /\ Goes(d, saw) /\ ~Open(d)'
    BY <1>2, <1>16 DEF Commits, Migrates
  <2>2. seen = saw /\ Migrates(d)
    BY <1>3, <2>1 DEF Goes, At, Migrates, Live, Running
  <2>3. /\ n \in Nat /\ next = n + 1 /\ Offered(caller[d].call) /\ caller[d].call.of = "schema_migrations"
        /\ n \in 1..Len(p) /\ p[n] = Commit
    BY <1>11, <2>1, <2>2
  <2>4. PICK k \in 1..Len(M) : Place(p, n, k, M[k])
    BY <1>12, <2>3, MigrationAt
  <2>5. n = 4 * k + 2 /\ k \in Nat /\ OpenAt(p, n)
    <3>1. PICK v : v = M[k]
      OBVIOUS
    <3>2. Place(p, n, k, v)
      BY <2>4, <3>1
    <3>. HIDE DEF p, M
    <3>3. n = 4 * k + 2 /\ OpenAt(p, n)
      BY <1>12, <2>3, <3>2 DEF Place
    <3>. QED
      BY <3>3
  <2>6. Open(d) /\ rows' = Over(Writes(d), rows)
    <3>1. Open(d)
      BY <1>1, <1>2, <2>1, <2>5, Executed
    <3>. QED
      BY <1>16, <3>1 DEF Commits
  <2>7. MigrationState(d, saw, n)
    BY <1>5, <2>2
  <2>8. Recorded(M[k])'
    <3>1. PICK v : v = M[k]
      OBVIOUS
    <3>2. Applying(d, n - (4 * k - 2), v)
      BY <2>6, <2>7, <3>1 DEF MigrationState
    <3>3. n - (4 * k - 2) = 4
      BY <2>5
    <3>4. <<"schema_migrations", v>> \in DOMAIN Writes(d) /\ Writes(d)[<<"schema_migrations", v>>] # NoRow
      BY <3>2, <3>3 DEF Applying
    <3>5. Recorded(v)'
      BY <2>6, <3>4 DEF Recorded, Over
    <3>. QED
      BY <3>1, <3>5
  <2>9. \A m \in 1..Len(M) : 4 * m + 2 < next => 4 * m + 2 < n \/ m = k
    BY <2>3, <2>5
  <2>. QED
    BY <1>7, <1>8, <2>1, <2>2, <2>7, <2>8, <2>9 DEF MigrationState
<1>17. ASSUME NEW c \in Callers, c # d,
              Starts(c) \/ Connects(c) \/ Begins(c) \/ Inside(c) \/ Alone(c) \/ Commits(c)
       PROVE  Same(d)
  BY <1>17 DEF Starts, Connects, Begins, Inside, Alone, Commits, Leaves
<1>18. Same(d) \/ Starts(d) \/ Connects(d) \/ Begins(d) \/ Inside(d) \/ Alone(d) \/ Commits(d)
  BY <1>17 DEF Effect, Halts, Migrates
<1>. QED
  BY <1>6, <1>9, <1>10, <1>13, <1>14, <1>15, <1>16, <1>18

-----------------------------------------------------------------------------
LEMMA MigrationInvInit == Init => MigrationInv
<1>. SUFFICES ASSUME Init PROVE MigrationInv
  OBVIOUS
<1>1. Disciplined
  BY InitDisciplined
<1>2. MigratedOnce
  BY SeedsAssumption DEF Init, MigratedOnce
<1>3. \A c \in Callers : ~Live(c) /\ Writes(c) = <<>>
  BY DEF Init, Live, Writes, Open, Running, Idle
<1>4. DOMAIN <<>> = {}
  OBVIOUS
<1>. QED
  BY <1>1, <1>2, <1>3, <1>4 DEF MigrationInv, Exclusive, Confined, MigrationFit, Migrates

LEMMA MigrationInvStep ==
  ASSUME OneClientEach, MigrationInv, [Next]_vars
  PROVE  MigrationInv'
<1>1. Disciplined' /\ Effect
  BY StepEffect DEF MigrationInv
<1>2. Exclusive' /\ Confined'
  BY <1>1, ExclusiveKept DEF MigrationInv
<1>3. MigratedOnce'
  BY <1>1, MigratedKept
<1>4. \A c \in Callers : MigrationFit(c)'
  BY <1>1, MigrationFitKept
<1>. QED
  BY <1>1, <1>2, <1>3, <1>4 DEF MigrationInv

\* runPostgresMigrations: the SQL of a migration takes effect at most once, exactly
\* when its version is recorded, and in the order of the versions, whoever migrates
\* at the same time and whatever fails or dies.
THEOREM MigratedOnceHolds ==
  ASSUME OneClientEach
  PROVE  Spec => []MigratedOnce
<1>1. Init => MigrationInv
  BY MigrationInvInit
<1>2. MigrationInv /\ [Next]_vars => MigrationInv'
  BY MigrationInvStep
<1>3. MigrationInv => MigratedOnce
  BY DEF MigrationInv
<1>. QED
  BY <1>1, <1>2, <1>3, PTL DEF Spec

-----------------------------------------------------------------------------
(* Plans and their blocks. *)

PlanRow(p) == <<"schedule_plans", p>>
BlocksHavePlans == \A k \in BlockKeys : rows[k] # NoRow => "plan" \in DOMAIN rows[k]

\* What a transaction that saves a plan has written before its n-th statement:
\* once the old blocks are cleared it holds every block of the plan, and what it
\* holds of blocks belongs to no other plan.
SaveState(c, call, n) ==
  LET W == Writes(c)
  IN  /\ n = 2 => DOMAIN W = {}
      /\ n >= 3 => PlanRow(call.id) \in DOMAIN W /\ W[PlanRow(call.id)] = SavedPlan(call)
      /\ n >= 3 => DOMAIN W \subseteq BlockKeys \cup {PlanRow(call.id)}
      /\ n = 3 => DOMAIN W \cap BlockKeys = {}
      /\ n >= 4 =>
           /\ BlocksOf(call.id, rows) \subseteq DOMAIN W
           /\ \A k \in DOMAIN W \cap BlockKeys :
                /\ rows[k] = NoRow \/ rows[k].plan = call.id
                /\ W[k] \in {NoRow, NewBlock(call.id)}
           /\ \A b : (<<"time_blocks", b>> \in DOMAIN W /\ W[<<"time_blocks", b>>] # NoRow)
                       <=> \E i \in 1..n - 4 : call.row.blocks[i] = b
SaveFit(c) == Open(c) /\ SavesPlan(caller[c].call) => SaveState(c, caller[c].call, caller[c].pc)

\* What a clean-up has deleted before its n-th statement: at first blocks of old
\* plans, which keep those plans as they are, then the plans with all their blocks.
CleanState(c, n) ==
  LET W == Writes(c)
  IN  /\ n = 10 => DOMAIN W = {}
      /\ n >= 11 => \A k \in DOMAIN W : k \in Keys /\ W[k] = NoRow /\ rows[k] # NoRow
      /\ n = 11 => \A k \in DOMAIN W :
           k \in BlockKeys /\ PlanRow(rows[k].plan) \in OldRows("schedule_plans", rows)
      /\ n >= 12 =>
           /\ \A k \in DOMAIN W \cap BlockKeys : PlanRow(rows[k].plan) \in DOMAIN W
           /\ \A q \in DOMAIN W \cap PlanKeys : BlocksOf(q[2], rows) \subseteq DOMAIN W
           /\ \A k \in DOMAIN W \ BlockKeys : rows[k].old
CleanFit(c) == Open(c) /\ caller[c].call.of = "retention" => CleanState(c, caller[c].pc)

PlansInv ==
  /\ Disciplined /\ Exclusive /\ Confined /\ PlansWhole /\ BlocksHavePlans
  /\ \A c \in Callers : SaveFit(c) /\ CleanFit(c)

-----------------------------------------------------------------------------
\* Where a call that saves a plan, or a clean-up, stands before its n-th statement.
SaveAt(p, n, call) ==
  \/ n = 1 /\ p[n] = Begin
  \/ n = 2 /\ OpenAt(p, n) /\ p[n] = Put(PlanRow(call.id), SavedPlan(call))
  \/ n = 3 /\ OpenAt(p, n) /\ p[n] = Drop(OfPlan(call.id))
  \/ OpenAt(p, n) /\ \E i \in 1..Len(call.row.blocks) :
        n = i + 3 /\ p[n] = InsertBlock(call.id, call.row.blocks[i])
  \/ n = Len(call.row.blocks) + 4 /\ OpenAt(p, n) /\ p[n] = Commit
CleanAt(p, n) ==
  \/ n \in 1..8 /\ p[n].verb = "select"
  \/ n = 9 /\ p[n] = Begin
  \/ n = 10 /\ OpenAt(p, n) /\ p[n] = Drop(OfOldPlans)
  \/ n = 11 /\ OpenAt(p, n) /\ p[n] = Drop(Old("schedule_plans"))
  \/ OpenAt(p, n) /\ \E i \in 1..6 : n = i + 11 /\ p[n] = Drop(Old(CountedTables[i + 1]))
  \/ n = 18 /\ OpenAt(p, n) /\ p[n] = Commit

LEMMA SavedPlanKey ==
  ASSUME NEW call, Offered(call), SavesPlan(call)
  PROVE  /\ PlanRow(call.id) \in Keys
         /\ call.row \in [blocks : Seq({k[2] : k \in BlockKeys} \cup {"foreign"}), old : BOOLEAN]
<1>1. PlanRow(call.id) \in Keys
  BY DEF Offered, SavesPlan, PlanRow
<1>2. call.row \in [blocks : Seq({k[2] : k \in BlockKeys} \cup {"foreign"}), old : BOOLEAN]
  BY DEF Offered
<1>. QED
  BY <1>1, <1>2

LEMMA PlanAt ==
  ASSUME NEW call, NEW saw, Offered(call), SavesPlan(call), NEW n \in 1..Len(Program(call, saw))
  PROVE  SaveAt(Program(call, saw), n, call)
<1>. DEFINE p == Program(call, saw)  l == Len(call.row.blocks)
<1>1. PlanShape(call, p)
  BY PlanProgram
<1>2. l \in Nat /\ Len(p) = l + 4 /\ p[l + 4] = Commit /\ p[1] = Begin
      /\ p[2] = Put(PlanRow(call.id), SavedPlan(call)) /\ p[3] = Drop(OfPlan(call.id))
      /\ \A j \in 1..l : p[j + 3] = InsertBlock(call.id, call.row.blocks[j])
  BY <1>1 DEF PlanShape, PlanRow
<1>3. /\ Begin # Commit /\ Put(PlanRow(call.id), SavedPlan(call)) # Commit /\ Drop(OfPlan(call.id)) # Commit
      /\ \A b : InsertBlock(call.id, b) # Commit
  <2>1. \A b : InsertBlock(call.id, b).verb \in {"throw", "insert"}
    BY DEF InsertBlock, Refusal, Add, Plain
  <2>2. Commit.verb = "COMMIT" /\ Put(PlanRow(call.id), SavedPlan(call)).verb = "upsert" /\ Drop(OfPlan(call.id)).verb = "delete"
    BY DEF Put, Drop, Commit, Plain
  <2>3. Begin # Commit
    BY DEF Begin, Commit, Plain
  <2>. QED
    BY <2>1, <2>2, <2>3
<1>. HIDE DEF p, l
<1>4. n \in 1..l + 4
  BY <1>2 DEF p
<1>5. \A j \in 1..l + 3 : p[j] # Commit
  <2>1. ASSUME NEW j \in 1..l + 3 PROVE p[j] # Commit
    <3>1. j \in {1, 2, 3} \/ (j - 3 \in 1..l /\ j = (j - 3) + 3)
      BY <1>2
    <3>. QED
      BY <3>1, <1>2, <1>3
  <2>. QED
    BY <2>1
<1>6. n # 1 => OpenAt(p, n)
  <2>1. n # 1 => 1 \in 1..n - 1 /\ \A j \in 1..n - 1 : j \in 1..l + 3
    BY <1>2, <1>4
  <2>. QED
    BY <2>1, <1>2, <1>5 DEF OpenAt
<1>7. n \in {1, 2, 3, l + 4} \/ (n - 3 \in 1..l /\ n = (n - 3) + 3)
  BY <1>2, <1>4
<1>8. n = l + 4 => n # 1
  BY <1>2
<1>9. n - 3 \in 1..l => n # 1
  BY <1>4
<1>10. SaveAt(p, n, call)
  <2>1. CASE n \in {1, 2, 3, l + 4}
    BY <2>1, <1>2, <1>6, <1>8 DEF SaveAt, l
  <2>2. CASE n - 3 \in 1..l /\ n = (n - 3) + 3
    <3>. DEFINE i == n - 3
    <3>1. i \in 1..l /\ n = i + 3 /\ OpenAt(p, n)
      BY <2>2, <1>6, <1>9
    <3>. HIDE DEF i
    <3>2. p[n] = InsertBlock(call.id, call.row.blocks[i])
      BY <3>1, <1>2
    <3>. QED
      BY <3>1, <3>2 DEF SaveAt, l
  <2>. QED
    BY <1>7, <2>1, <2>2
<1>. QED
  BY <1>10 DEF p

LEMMA CleanupAt ==
  ASSUME NEW call, NEW saw, Offered(call), call.of = "retention", NEW n \in 1..Len(Program(call, saw))
  PROVE  CleanAt(Program(call, saw), n)
<1>. DEFINE p == Program(call, saw)
<1>1. CleanupShape(call, p)
  BY CleanupProgram
<1>2. CASE n \in 1..8
  BY <1>1, <1>2 DEF CleanupShape, CleanAt
<1>3. CASE n \notin 1..8
  <2>0. Len(p) \in Nat
    BY ProgramIsSeq
  <2>1. ~call.dryRun /\ Len(p) = 18
    BY <1>1, <1>3, <2>0 DEF CleanupShape
  <2>2. /\ p[9] = Begin /\ p[10] = Drop(OfOldPlans) /\ p[11] = Drop(Old("schedule_plans"))
        /\ \A i \in 1..6 : p[i + 11] = Drop(Old(CountedTables[i + 1]))
        /\ p[18] = Commit
    BY <1>1, <2>1 DEF CleanupShape
  <2>3. n \in {9, 10, 11, 18} \/ (n - 11 \in 1..6 /\ n = (n - 11) + 11)
    BY <1>3, <2>1
  <2>4. Begin # Commit /\ \A w : Drop(w) # Commit
    BY Statements DEF Begin, Commit, Drop, Plain
  <2>. HIDE DEF p
  <2>5. \A j \in 9..17 : p[j] # Commit
    <3>1. \A j \in 9..17 : j \in {9, 10, 11} \/ (j - 11 \in 1..6 /\ j = (j - 11) + 11)
      OBVIOUS
    <3>. QED
      BY <3>1, <2>2, <2>4
  <2>6. n # 9 => OpenAt(p, n)
    <3>1. n # 9 => 9 \in 1..n - 1 /\ \A j \in 9..n - 1 : j \in 9..17
      BY <2>3
    <3>. QED
      BY <3>1, <2>2, <2>5 DEF OpenAt
  <2>7. CleanAt(p, n)
    <3>1. CASE n \in {9, 10, 11, 18}
      BY <3>1, <2>2, <2>6 DEF CleanAt
    <3>2. CASE n - 11 \in 1..6 /\ n = (n - 11) + 11
      <4>. DEFINE i == n - 11
      <4>1. i \in 1..6 /\ n = i + 11 /\ OpenAt(p, n)
        BY <3>2, <2>6
      <4>. HIDE DEF i
      <4>. QED
        BY <4>1, <2>2 DEF CleanAt
    <3>. QED
      BY <2>3, <3>1, <3>2
  <2>. QED
    BY <2>7 DEF p
<1>. QED
  BY <1>2, <1>3

\* An update of a block leaves it with its plan.
LEMMA BlockStatements ==
  ASSUME NEW call, NEW saw, Offered(call), call.of = "time_blocks", NEW n \in 1..Len(Program(call, saw))
  PROVE  LET s == Program(call, saw)[n]
         IN  s.verb = "select" \/ (s.verb = "update" /\ "plan" \notin DOMAIN s.row)
<1>. DEFINE k == <<"time_blocks", call.id>>
            read == OrThrow(Read(Is(k)))
            row == Over(BlockColumns(call), [data |-> Over(BlockColumns(call), saw[k].data)])
            p == Program(call, saw)
<1>1. p = TimeBlockRepository(call, saw)
  BY DEF Program
<1>2. read.verb = "select" /\ Change(k, row).verb = "update" /\ Change(k, row).row = row
  BY DEF OrThrow, Read, Change, Plain
<1>3. "plan" \notin DOMAIN row
  <2>1. DOMAIN BlockColumns(call) \subseteq {"time", "status"}
    BY DEF BlockColumns
  <2>2. DOMAIN [data |-> Over(BlockColumns(call), saw[k].data)] = {"data"}
    OBVIOUS
  <2>. QED
    BY <2>1, <2>2 DEF Over
<1>4. p = <<read>> \/ p = <<read>> \o <<Change(k, row)>>
  BY <1>1 DEF TimeBlockRepository, GetOne
<1>. HIDE DEF read, row, p
<1>5. p = <<read>> \/ p = <<read, Change(k, row)>>
  BY <1>4, Joined
<1>6. p[n] = read \/ p[n] = Change(k, row)
  <2>1. CASE p = <<read>>
    <3>1. n = 1
      BY <2>1 DEF p
    <3>. QED
      BY <2>1, <3>1
  <2>2. CASE p = <<read, Change(k, row)>>
    <3>1. n \in {1, 2}
      BY <2>2 DEF p
    <3>. QED
      BY <2>2, <3>1
  <2>. QED
    BY <1>5, <2>1, <2>2
<1>. QED
  BY <1>2, <1>3, <1>6 DEF p

PlanRows == PlanKeys \cup BlockKeys
LEMMA KeyTables ==
  /\ \A k \in PlanKeys : k \in Keys /\ k[1] = "schedule_plans" /\ k = PlanRow(k[2])
  /\ \A k \in BlockKeys : k \in Keys /\ k[1] = "time_blocks" /\ k = <<"time_blocks", k[2]>>
  /\ \A p : PlanRow(p) \in PlanKeys <=> PlanRow(p) \in Keys
  /\ PlanKeys \cap BlockKeys = {}
BY KeysAssumption DEF PlanKeys, BlockKeys, In, PlanRow

\* Outside of a transaction, only an update of a block touches these tables.
BlockUpdate(c, k, w) ==
  /\ Next1(c).verb = "update" /\ "plan" \notin DOMAIN Next1(c).row
  /\ k \in BlockKeys /\ rows[k] # NoRow /\ w[k] = Over(Next1(c).row, rows[k])
LEMMA AloneWrites ==
  ASSUME Disciplined, NEW c \in Callers, ~Open(c), NEW view, NEW w, NEW seen, Executes(c, view, w, seen),
         NEW k \in DOMAIN w \cap PlanRows
  PROVE  BlockUpdate(c, k, w)
<1>. DEFINE call == caller[c].call  n == caller[c].pc  p == Program(call, caller[c].saw)  s == Next1(c)
<1>1. Running(c) /\ Sends(s) /\ view = rows
  BY DEF Executes
<1>2. Offered(call) /\ n \in 1..Len(p) /\ s = p[n] /\ ~OpenAt(p, n) /\ p[n] \notin {Begin, Commit}
  BY <1>1, Executed DEF Sends
<1>3. k \in Written(s, view) /\ k[1] \in Tables(call) /\ w[k] = Value(s, view[k])
  BY ExecutedWrites
<1>4. s.verb \in {"upsert", "insert", "ddl", "update", "delete"}
  BY <1>3, WrittenBy
<1>5. k[1] \in {"schedule_plans", "time_blocks"}
  BY KeyTables DEF PlanRows
<1>6. CASE ~Transacts(call)
  <2>1. k[1] = "time_blocks" /\ call.of = "time_blocks"
    BY <1>3, <1>5, <1>6 DEF Tables, Transacts
  <2>2. s.verb = "update" /\ "plan" \notin DOMAIN s.row
    BY <1>2, <1>4, <2>1, BlockStatements
  <2>3. Short(call, p)
    BY <1>2, <1>6, ShortPrograms
  <2>4. Simple(call, s)
    BY <1>2, <2>3, ShortFacts
  <2>5. s.where = Is(OwnRow(call))
    BY <2>2, <2>4 DEF Simple, Reads, Saves, Alters, Deletes
  <2>6. k \in Selected(Is(OwnRow(call)), rows)
    BY <1>1, <1>3, <2>2, <2>5, WrittenBy
  <2>7. rows[k] # NoRow
    BY <2>6, SelectedBy
  <2>8. w[k] = Over(s.row, rows[k])
    BY <1>1, <1>3, <2>2 DEF Value
  <2>9. k \in BlockKeys
    BY <2>1, KeyTables DEF PlanRows
  <2>. QED
    BY <2>2, <2>7, <2>8, <2>9 DEF BlockUpdate
<1>7. ~SavesPlan(call)
  BY <1>2, PlanAt DEF SaveAt
<1>8. call.of # "retention"
  BY <1>2, <1>4, CleanupAt DEF CleanAt
<1>9. call.of # "schema_migrations"
  BY <1>3, <1>5 DEF Tables
<1>. QED
  BY <1>6, <1>7, <1>8, <1>9 DEF Transacts

\* How the rows of plans and blocks change: with an update of one block, or when
\* a plan is saved or a clean-up is committed.
Updates(c) ==
  /\ ~Open(c) /\ Alone(c)
  /\ \E w : /\ rows' = Over(w, rows)
            /\ \A k \in DOMAIN w \cap PlanRows : BlockUpdate(c, k, w)
            /\ \A d \in Callers \ {c} : DOMAIN w \cap DOMAIN Writes(d) = {}
Finishes(c) ==
  /\ Running(c) /\ Open(c) /\ Commits(c) /\ rows' = Over(Writes(c), rows)
  /\ \/ /\ SavesPlan(caller[c].call)
        /\ SaveState(c, caller[c].call, Len(caller[c].call.row.blocks) + 4)
     \/ caller[c].call.of = "retention" /\ CleanState(c, 18)
LEMMA PlansMove ==
  ASSUME PlansInv, Effect
  PROVE  \/ \A k \in PlanRows : rows'[k] = rows[k]
         \/ \E c \in Callers : Updates(c) \/ Finishes(c)
<1>1. Disciplined /\ Confined /\ PlanRows \subseteq DOMAIN rows
  BY KeyTables DEF PlansInv, Disciplined, Functions, PlanRows
<1>2. CASE rows' = rows
  BY <1>2
<1>3. ASSUME NEW c \in Callers, Alone(c) PROVE Updates(c)
  <2>1. PICK view, w, seen : Executes(c, view, w, seen) /\ rows' = Over(w, rows)
    BY <1>3 DEF Alone
  <2>2. ~Open(c)
    BY <1>3 DEF Alone
  <2>3. \A k \in DOMAIN w \cap PlanRows : BlockUpdate(c, k, w)
    BY <1>1, <2>1, <2>2, AloneWrites
  <2>4. \A d \in Callers \ {c} : DOMAIN w \cap DOMAIN Writes(d) = {}
    BY <1>1, <2>1, ExecutedWrites
  <2>. QED
    BY <1>3, <2>1, <2>2, <2>3, <2>4 DEF Updates
<1>4. ASSUME NEW c \in Callers, Commits(c), rows' # rows
      PROVE  (\A k \in PlanRows : rows'[k] = rows[k]) \/ Finishes(c)
  <2>. DEFINE call == caller[c].call  n == caller[c].pc  p == Program(call, caller[c].saw)
  <2>1. Running(c) /\ Open(c) /\ rows' = Over(Writes(c), rows) /\ Next1(c) = Commit
    BY <1>4 DEF Commits
  <2>2. Offered(call) /\ n \in 1..Len(p) /\ p[n] = Commit
    BY <1>1, <2>1, Executed
  <2>3. CASE SavesPlan(call)
    <3>1. SaveAt(p, n, call)
      BY <2>2, <2>3, PlanAt
    <3>2. /\ Begin # Commit /\ Put(PlanRow(call.id), SavedPlan(call)) # Commit /\ Drop(OfPlan(call.id)) # Commit
          /\ \A b : InsertBlock(call.id, b) # Commit
      <4>1. \A b : InsertBlock(call.id, b).verb \in {"throw", "insert"}
        BY DEF InsertBlock, Refusal, Add, Plain
      <4>2. Commit.verb = "COMMIT" /\ Put(PlanRow(call.id), SavedPlan(call)).verb = "upsert" /\ Drop(OfPlan(call.id)).verb = "delete"
        BY DEF Put, Drop, Commit, Plain
      <4>3. Begin # Commit
        BY DEF Begin, Commit, Plain
      <4>. QED
        BY <4>1, <4>2, <4>3
    <3>3. n = Len(call.row.blocks) + 4
      BY <2>2, <3>1, <3>2 DEF SaveAt
    <3>4. SaveState(c, call, n)
      BY <2>1, <2>3 DEF PlansInv, SaveFit
    <3>. QED
      BY <1>4, <2>1, <2>3, <3>3, <3>4 DEF Finishes
  <2>4. CASE call.of = "retention"
    <3>1. CleanAt(p, n)
      BY <2>2, <2>4, CleanupAt
    <3>2. Begin # Commit /\ (\A v : Drop(v) # Commit) /\ Commit.verb # "select"
      BY Statements DEF Begin, Commit, Drop, Plain
    <3>3. n = 18
      BY <2>2, <3>1, <3>2 DEF CleanAt
    <3>4. CleanState(c, n)
      BY <2>1, <2>4 DEF PlansInv, CleanFit
    <3>. QED
      BY <1>4, <2>1, <2>4, <3>3, <3>4 DEF Finishes
  <2>5. CASE call.of = "schema_migrations"
    <3>1. \A k \in DOMAIN Writes(c) : k[1] \in {"ddl", "schema_migrations"}
      BY <1>1, <2>5 DEF Confined, Tables
    <3>2. DOMAIN Writes(c) \cap PlanRows = {}
      BY <3>1, KeyTables DEF PlanRows
    <3>. QED
      BY <1>1, <2>1, <3>2 DEF Over
  <2>6. Transacts(call)
    <3>1. SUFFICES ASSUME ~Transacts(call) PROVE FALSE
      OBVIOUS
    <3>2. Short(call, p)
      BY <2>2, <3>1, ShortPrograms
    <3>3. Simple(call, p[n])
      BY <2>2, <3>2, ShortFacts
    <3>. QED
      BY <2>2, <3>3, SimpleIsNoBegin
  <2>. QED
    BY <2>3, <2>4, <2>5, <2>6 DEF Transacts
<1>. QED
  BY <1>2, <1>3, <1>4 DEF Effect, Halts, Starts, Connects, Begins, Inside

\* A database in which no plan changes and no block comes, goes or changes its plan.
LEMMA AlikeWhole ==
  ASSUME NEW f, NEW g, Whole(f), \A k \in PlanKeys : g[k] = f[k],
         \A k \in BlockKeys : g[k] = f[k] \/ (f[k] # NoRow /\ g[k] # NoRow /\ g[k].plan = f[k].plan)
  PROVE  Whole(g)
<1>1. \A p : BlocksOf(p, g) = BlocksOf(p, f)
  BY DEF BlocksOf
<1>2. \A p : PlanRow(p) \in Keys => g[PlanRow(p)] = f[PlanRow(p)]
  BY KeyTables
<1>3. ASSUME NEW k \in PlanKeys, g[k] # NoRow PROVE {b[2] : b \in BlocksOf(k[2], g)} = g[k].blocks
  BY <1>1, <1>3 DEF Whole
<1>4. ASSUME NEW k \in BlockKeys, g[k] # NoRow PROVE PlanRow(g[k].plan) \in Keys /\ g[PlanRow(g[k].plan)] # NoRow
  <2>1. f[k] # NoRow /\ g[k].plan = f[k].plan
    BY <1>4
  <2>2. PlanRow(f[k].plan) \in Keys /\ f[PlanRow(f[k].plan)] # NoRow
    BY <2>1 DEF Whole, PlanRow
  <2>. QED
    BY <2>1, <2>2, <1>2
<1>. QED
  BY <1>3, <1>4 DEF Whole, PlanRow

\* One in which a plan is replaced with its blocks (the end of upsertSchedulePlan).
LEMMA SavedWhole ==
  ASSUME NEW f, NEW W, NEW g, NEW call, NEW l, Whole(f), g = Over(W, f), PlanRows \subseteq DOMAIN f,
         Offered(call), SavesPlan(call), l = Len(call.row.blocks),
         PlanRow(call.id) \in DOMAIN W, W[PlanRow(call.id)] = SavedPlan(call),
         DOMAIN W \subseteq BlockKeys \cup {PlanRow(call.id)},
         BlocksOf(call.id, f) \subseteq DOMAIN W,
         \A k \in DOMAIN W \cap BlockKeys : 
            (f[k] = NoRow \/ f[k].plan = call.id) /\ W[k] \in {NoRow, NewBlock(call.id)},
         \A b : (<<"time_blocks", b>> \in DOMAIN W /\ W[<<"time_blocks", b>>] # NoRow)
                       <=> \E i \in 1..l : call.row.blocks[i] = b
  PROVE  Whole(g)
<1>. DEFINE P == call.id  B == call.row.blocks
<1>1. l \in Nat /\ DOMAIN B = 1..l /\ PlanRow(P) \in Keys
  <2>1. PlanRow(P) \in Keys
    BY SavedPlanKey
  <2>2. call.row \in [blocks : Seq({k[2] : k \in BlockKeys} \cup {"foreign"}), old : BOOLEAN]
    BY SavedPlanKey
  <2>3. B \in Seq({k[2] : k \in BlockKeys} \cup {"foreign"})
    BY <2>2
  <2>. QED
    BY <2>1, <2>3
<1>2. SavedPlan(call) # NoRow /\ SavedPlan(call).blocks = {B[i] : i \in 1..l}
  <2>1. call.row = [blocks |-> B, old |-> call.row.old]
    BY DEF Offered
  <2>2. SavedPlan(call) = [blocks |-> {B[i] : i \in 1..l}, old |-> call.row.old]
    BY <2>1, <1>1 DEF SavedPlan
  <2>3. "blocks" \in DOMAIN SavedPlan(call) /\ SavedPlan(call).blocks = {B[i] : i \in 1..l}
    BY <2>2
  <2>4. "blocks" \notin DOMAIN NoRow
    BY DEF NoRow
  <2>. QED
    BY <2>3, <2>4
<1>3. NewBlock(P) # NoRow /\ NewBlock(P).plan = P
  BY DEF NewBlock, NoRow
<1>4. /\ \A k \in DOMAIN W : g[k] = W[k]
      /\ \A k \in PlanRows \ DOMAIN W : g[k] = f[k]
  BY DEF Over
<1>5. g[PlanRow(P)] = SavedPlan(call)
  BY <1>4
<1>6. \A q : q # P /\ PlanRow(q) \in Keys => g[PlanRow(q)] = f[PlanRow(q)]
  <2>1. \A q : q # P => PlanRow(q) \notin DOMAIN W \/ PlanRow(q) \in BlockKeys
    BY DEF PlanRow
  <2>2. \A q : PlanRow(q) \in Keys => PlanRow(q) \in PlanRows /\ PlanRow(q) \notin BlockKeys
    BY KeyTables DEF PlanRows
  <2>. QED
    BY <2>1, <2>2, <1>4
<1>. HIDE DEF P, B
<1>7. ASSUME NEW k \in BlockKeys, g[k] # NoRow
      PROVE  IF k \in DOMAIN W THEN W[k] = NewBlock(P) /\ g[k].plan = P
             ELSE g[k] = f[k] /\ f[k].plan # P
  <2>1. k \in PlanRows
    BY DEF PlanRows
  <2>2. CASE k \in DOMAIN W
    BY <2>2, <1>3, <1>4, <1>7 DEF P
  <2>3. CASE k \notin DOMAIN W
    BY <2>1, <2>3, <1>4, <1>7 DEF P, BlocksOf
  <2>. QED
    BY <2>2, <2>3
<1>8. ASSUME NEW k \in BlockKeys, f[k] # NoRow, f[k].plan # P PROVE g[k] = f[k]
  <2>1. k \in PlanRows
    BY DEF PlanRows
  <2>2. k \notin DOMAIN W
    BY <1>8 DEF P
  <2>. QED
    BY <2>1, <2>2, <1>4
<1>9. \A q : q # P => BlocksOf(q, g) = BlocksOf(q, f)
  BY <1>7, <1>8 DEF BlocksOf
<1>10. {b[2] : b \in BlocksOf(P, g)} = {B[i] : i \in 1..l}
  <2>1. ASSUME NEW k \in BlocksOf(P, g) PROVE k[2] \in {B[i] : i \in 1..l}
    <3>1. k \in BlockKeys /\ g[k] # NoRow /\ g[k].plan = P
      BY DEF BlocksOf
    <3>2. k \in DOMAIN W /\ W[k] # NoRow
      BY <3>1, <1>3, <1>7
    <3>3. k = <<"time_blocks", k[2]>>
      BY <3>1, KeyTables
    <3>4. \E i \in 1..l : B[i] = k[2]
      BY <3>2, <3>3 DEF B
    <3>. QED
      BY <3>4
  <2>2. ASSUME NEW i \in 1..l PROVE \E k \in BlocksOf(P, g) : k[2] = B[i]
    <3>. DEFINE k == <<"time_blocks", B[i]>>
    <3>1. k \in DOMAIN W /\ W[k] # NoRow
      BY DEF B
    <3>2. k \in BlockKeys
      <4>1. k # PlanRow(call.id)
        BY DEF PlanRow
      <4>. QED
        BY <3>1, <4>1
    <3>3. k \in BlocksOf(P, g)
      BY <3>1, <3>2, <1>4, <1>7 DEF BlocksOf
    <3>. QED
      BY <3>3
  <2>. QED
    BY <2>1, <2>2
<1>11. ASSUME NEW k \in PlanKeys, g[k] # NoRow PROVE {b[2] : b \in BlocksOf(k[2], g)} = g[k].blocks
  <2>1. k = PlanRow(k[2]) /\ k \in Keys
    BY KeyTables
  <2>2. CASE k[2] = P
    BY <2>1, <2>2, <1>2, <1>5, <1>10 DEF P
  <2>3. CASE k[2] # P
    <3>1. g[k] = f[k]
      BY <2>1, <2>3, <1>6 DEF P
    <3>2. BlocksOf(k[2], g) = BlocksOf(k[2], f)
      BY <2>3, <1>9
    <3>. QED
      BY <1>11, <3>1, <3>2 DEF Whole
  <2>. QED
    BY <2>2, <2>3
<1>12. ASSUME NEW k \in BlockKeys, g[k] # NoRow PROVE PlanRow(g[k].plan) \in Keys /\ g[PlanRow(g[k].plan)] # NoRow
  <2>1. CASE g[k].plan = P
    BY <2>1, <1>1, <1>2, <1>5 DEF P
  <2>2. CASE g[k].plan # P
    <3>1. g[k] = f[k]
      BY <2>2, <1>7, <1>12
    <3>2. PlanRow(f[k].plan) \in Keys /\ f[PlanRow(f[k].plan)] # NoRow
      BY <3>1, <1>12 DEF Whole, PlanRow
    <3>. QED
      BY <3>1, <3>2, <2>2, <1>6 DEF P
  <2>. QED
    BY <2>1, <2>2
<1>. QED
  BY <1>11, <1>12 DEF Whole, PlanRow

\* One from which plans are deleted with their blocks (the end of the clean-up).
LEMMA CleanedWhole ==
  ASSUME NEW f, NEW W, NEW g, Whole(f), g = Over(W, f), PlanRows \subseteq DOMAIN f,
         \A k \in DOMAIN W : k \in Keys /\ W[k] = NoRow /\ f[k] # NoRow,
         \A k \in DOMAIN W \cap BlockKeys : PlanRow(f[k].plan) \in DOMAIN W,
         \A q \in DOMAIN W \cap PlanKeys : BlocksOf(q[2], f) \subseteq DOMAIN W
  PROVE  Whole(g)
<1>0. /\ \A k \in DOMAIN W : g[k] = W[k]
      /\ \A k \in PlanRows \ DOMAIN W : g[k] = f[k]
  BY DEF Over
<1>1. \A k \in PlanRows : g[k] # NoRow => k \notin DOMAIN W /\ g[k] = f[k]
  BY <1>0
<1>2. \A k \in PlanRows \ DOMAIN W : g[k] = f[k]
  BY <1>0
<1>3. ASSUME NEW k \in PlanKeys, g[k] # NoRow PROVE {b[2] : b \in BlocksOf(k[2], g)} = g[k].blocks
  <2>1. k \notin DOMAIN W /\ g[k] = f[k] /\ k = PlanRow(k[2])
    BY <1>1, <1>3, KeyTables DEF PlanRows
  <2>2. \A b \in BlockKeys : b \in BlocksOf(k[2], f) => b \notin DOMAIN W
    BY <2>1 DEF BlocksOf
  <2>3. \A b \in BlockKeys : b \in BlocksOf(k[2], f) <=> b \in BlocksOf(k[2], g)
    <3>1. \A b \in BlockKeys : b \in PlanRows
      BY DEF PlanRows
    <3>2. ASSUME NEW b \in BlockKeys, b \in BlocksOf(k[2], f) PROVE b \in BlocksOf(k[2], g)
      <4>1. g[b] = f[b]
        BY <3>1, <3>2, <2>2, <1>2
      <4>. QED
        BY <4>1, <3>2 DEF BlocksOf
    <3>3. ASSUME NEW b \in BlockKeys, b \in BlocksOf(k[2], g) PROVE b \in BlocksOf(k[2], f)
      <4>1. g[b] = f[b]
        BY <3>1, <3>3, <1>1 DEF BlocksOf
      <4>. QED
        BY <4>1, <3>3 DEF BlocksOf
    <3>. QED
      BY <3>2, <3>3
  <2>4. BlocksOf(k[2], g) = BlocksOf(k[2], f)
    <3>1. BlocksOf(k[2], f) \subseteq BlockKeys /\ BlocksOf(k[2], g) \subseteq BlockKeys
      BY DEF BlocksOf
    <3>. QED
      BY <3>1, <2>3
  <2>. QED
    BY <1>3, <2>1, <2>4 DEF Whole
<1>4. ASSUME NEW k \in BlockKeys, g[k] # NoRow PROVE PlanRow(g[k].plan) \in Keys /\ g[PlanRow(g[k].plan)] # NoRow
  <2>1. k \notin DOMAIN W /\ g[k] = f[k]
    BY <1>1, <1>4 DEF PlanRows
  <2>. DEFINE q == PlanRow(f[k].plan)
  <2>2. q \in Keys /\ f[q] # NoRow
    BY <1>4, <2>1 DEF Whole, PlanRow
  <2>3. q \in PlanKeys /\ q[2] = f[k].plan
    BY <2>2, KeyTables DEF PlanRow
  <2>4. k \in BlocksOf(q[2], f)
    BY <1>4, <2>1, <2>3 DEF BlocksOf
  <2>5. q \notin DOMAIN W
    BY <2>1, <2>3, <2>4
  <2>6. g[q] = f[q]
    BY <2>3, <2>5, <1>2 DEF PlanRows
  <2>. QED
    BY <2>1, <2>2, <2>6
<1>. QED
  BY <1>3, <1>4 DEF Whole, PlanRow

\* A block that an update changes keeps its plan.
LEMMA UpdatedBlock ==
  ASSUME BlocksHavePlans, NEW c, NEW w, NEW k, BlockUpdate(c, k, w)
  PROVE  k \in BlockKeys /\ rows[k] # NoRow /\ w[k] # NoRow /\ "plan" \in DOMAIN w[k] /\ w[k].plan = rows[k].plan
<1>1. k \in BlockKeys /\ rows[k] # NoRow /\ "plan" \in DOMAIN rows[k] /\ w[k] = Over(Next1(c).row, rows[k])
      /\ "plan" \notin DOMAIN Next1(c).row
  BY DEF BlockUpdate, BlocksHavePlans
<1>2. "plan" \in DOMAIN w[k] /\ w[k].plan = rows[k].plan
  BY <1>1 DEF Over
<1>3. "plan" \notin DOMAIN NoRow
  BY DEF NoRow
<1>. QED
  BY <1>1, <1>2, <1>3

\* Committed rows: what the other callers do to a row that one has written (nothing).
LEMMA HeldKept ==
  ASSUME Disciplined, Exclusive, Effect, NEW d \in Callers, Same(d), Open(d),
         NEW k \in DOMAIN Writes(d) \cap DOMAIN rows
  PROVE  rows'[k] = rows[k]
<1>1. CASE rows' = rows
  BY <1>1
<1>2. ASSUME NEW c \in Callers, Alone(c) PROVE rows'[k] = rows[k]
  <2>1. PICK view, w, seen : Executes(c, view, w, seen) /\ rows' = Over(w, rows)
    BY <1>2 DEF Alone
  <2>2. c # d
    BY <1>2 DEF Alone
  <2>3. DOMAIN w \cap DOMAIN Writes(d) = {}
    BY <2>1, <2>2, ExecutedWrites
  <2>. QED
    BY <2>1, <2>3 DEF Over
<1>3. ASSUME NEW c \in Callers, Commits(c), Open(c) PROVE rows'[k] = rows[k]
  <2>1. c # d
    BY <1>3 DEF Commits, Same
  <2>2. rows' = Over(Writes(c), rows) /\ DOMAIN Writes(c) \cap DOMAIN Writes(d) = {}
    BY <1>3, <2>1 DEF Commits, Exclusive
  <2>. QED
    BY <2>2 DEF Over
<1>. QED
  BY <1>1, <1>2, <1>3 DEF Effect, Halts, Starts, Connects, Begins, Inside, Commits

\* What a transaction that ends does to a block: it deletes the block, or gives
\* it to the plan that it saves.
LEMMA FinishedBlock ==
  ASSUME NEW c \in Callers, Finishes(c), Disciplined, NEW k \in BlockKeys, rows'[k] # NoRow
  PROVE  \/ k \notin DOMAIN Writes(c) /\ rows'[k] = rows[k]
         \/ /\ k \in DOMAIN Writes(c) /\ "plan" \in DOMAIN rows'[k]
            /\ PlanRow(rows'[k].plan) \in DOMAIN Writes(c)
<1>1. rows' = Over(Writes(c), rows) /\ k \in DOMAIN rows /\ k \in Keys
  BY KeyTables DEF Finishes, Disciplined, Functions
<1>2. CASE k \notin DOMAIN Writes(c)
  BY <1>1, <1>2 DEF Over
<1>3. CASE k \in DOMAIN Writes(c)
  <2>1. rows'[k] = Writes(c)[k]
    BY <1>1, <1>3 DEF Over
  <2>2. ~CleanState(c, 18)
    BY <1>3, <2>1 DEF CleanState
  <2>. DEFINE call == caller[c].call  l == Len(call.row.blocks)
  <2>3. SavesPlan(call) /\ SaveState(c, call, l + 4)
    BY <2>2 DEF Finishes
  <2>4. l \in Nat
    <3>1. Offered(call)
      BY Executed DEF Finishes
    <3>. QED
      BY <2>3, <3>1 DEF Offered
  <2>. HIDE DEF l, call
  <2>5. l + 4 >= 3 /\ l + 4 >= 4
    BY <2>4
  <2>6. PlanRow(call.id) \in DOMAIN Writes(c) /\ Writes(c)[k] \in {NoRow, NewBlock(call.id)}
    BY <1>3, <2>3, <2>5 DEF SaveState
  <2>7. rows'[k] = NewBlock(call.id)
    BY <2>1, <2>6
  <2>8. "plan" \in DOMAIN NewBlock(call.id) /\ NewBlock(call.id).plan = call.id
    BY DEF NewBlock
  <2>. QED
    BY <1>3, <2>6, <2>7, <2>8
<1>. QED
  BY <1>2, <1>3

\* A plan whose row a transaction has written gains no block from another one.
LEMMA NoBlockJoins ==
  ASSUME PlansInv, Effect, NEW d \in Callers, Same(d), Open(d), NEW p, PlanRow(p) \in DOMAIN Writes(d)
  PROVE  BlocksOf(p, rows)' \subseteq BlocksOf(p, rows)
<1>1. SUFFICES ASSUME NEW k \in BlockKeys, rows'[k] # NoRow, rows'[k].plan = p
               PROVE  rows[k] # NoRow /\ rows[k].plan = p
  BY DEF BlocksOf
<1>2. Disciplined /\ Exclusive /\ k \in PlanRows /\ k \in DOMAIN rows
  BY KeyTables DEF PlansInv, PlanRows, Disciplined, Functions
<1>3. CASE rows'[k] = rows[k]
  BY <1>1, <1>3
<1>4. ASSUME NEW c \in Callers, Updates(c) PROVE rows[k] # NoRow /\ rows[k].plan = p
  <2>1. PICK w : rows' = Over(w, rows) /\ \A b \in DOMAIN w \cap PlanRows : BlockUpdate(c, b, w)
    BY <1>4 DEF Updates
  <2>2. CASE k \in DOMAIN w
    <3>1. rows'[k] = w[k]
      BY <2>1, <2>2 DEF Over
    <3>2. rows[k] # NoRow /\ w[k].plan = rows[k].plan
      BY <1>2, <2>1, <2>2, UpdatedBlock DEF PlansInv
    <3>. QED
      BY <1>1, <3>1, <3>2
  <2>3. CASE k \notin DOMAIN w
    BY <1>2, <1>3, <2>1, <2>3 DEF Over
  <2>. QED
    BY <2>2, <2>3
<1>5. ASSUME NEW c \in Callers, Finishes(c) PROVE rows'[k] = rows[k]
  <2>1. c # d
    BY <1>5 DEF Finishes, Commits, Same
  <2>2. PlanRow(p) \notin DOMAIN Writes(c)
    BY <1>2, <2>1 DEF Exclusive
  <2>. QED
    BY <1>1, <1>2, <1>5, <2>2, FinishedBlock
<1>. QED
  BY <1>2, <1>3, <1>4, <1>5, PlansMove

LEMMA SaveStays ==
  ASSUME PlansInv, Effect, NEW d \in Callers, Same(d), Open(d), NEW call, NEW n \in Nat, SaveState(d, call, n)
  PROVE  SaveState(d, call, n)'
<1>1. Writes(d)' = Writes(d) /\ Disciplined /\ Exclusive
  BY DEF Same, PlansInv
<1>2. n >= 4 => n >= 3
  OBVIOUS
<1>3. ASSUME n >= 4 PROVE BlocksOf(call.id, rows)' \subseteq DOMAIN Writes(d)
  <2>1. PlanRow(call.id) \in DOMAIN Writes(d) /\ BlocksOf(call.id, rows) \subseteq DOMAIN Writes(d)
    BY <1>3 DEF SaveState
  <2>. QED
    BY <2>1, NoBlockJoins
<1>4. ASSUME NEW k \in DOMAIN Writes(d) \cap BlockKeys PROVE rows'[k] = rows[k]
  <2>1. k \in DOMAIN rows
    BY <1>1, KeyTables DEF Disciplined, Functions
  <2>. QED
    BY <1>1, <2>1, HeldKept
<1>. QED
  BY <1>1, <1>3, <1>4 DEF SaveState

\* A plan whose blocks a transaction has deleted stays as it is.
LEMMA PlanOfHeldBlock ==
  ASSUME PlansInv, Effect, NEW d \in Callers, Same(d), Open(d),
         NEW k \in DOMAIN Writes(d) \cap BlockKeys, rows[k] # NoRow
  PROVE  PlanRow(rows[k].plan) \in PlanKeys /\ rows'[PlanRow(rows[k].plan)] = rows[PlanRow(rows[k].plan)]
<1>. DEFINE p == rows[k].plan  q == PlanRow(p)
<1>1. q \in PlanKeys /\ k \in BlocksOf(p, rows) /\ q[2] = p
  BY KeyTables DEF PlansInv, PlansWhole, Whole, PlanRow, BlocksOf
<1>2. q \in PlanRows /\ Disciplined /\ Exclusive /\ q \in DOMAIN rows /\ q \notin BlockKeys
  BY <1>1, KeyTables DEF PlanRows, PlansInv, Disciplined, Functions
<1>3. ASSUME NEW c \in Callers, Updates(c) PROVE rows'[q] = rows[q]
  <2>1. PICK w : rows' = Over(w, rows) /\ \A b \in DOMAIN w \cap PlanRows : BlockUpdate(c, b, w)
    BY <1>3 DEF Updates
  <2>2. q \notin DOMAIN w
    BY <1>2, <2>1 DEF BlockUpdate
  <2>. QED
    BY <1>2, <2>1, <2>2 DEF Over
<1>4. ASSUME NEW c \in Callers, Finishes(c) PROVE rows'[q] = rows[q]
  <2>1. c # d
    BY <1>4 DEF Finishes, Commits, Same
  <2>2. k \notin DOMAIN Writes(c)
    BY <1>2, <2>1 DEF Exclusive
  <2>3. q \notin DOMAIN Writes(c)
    <3>. SUFFICES ASSUME q \in DOMAIN Writes(c) PROVE k \in DOMAIN Writes(c)
      BY <2>2
    <3>1. CASE CleanState(c, 18)
      BY <1>1, <3>1 DEF CleanState
    <3>2. CASE ~CleanState(c, 18)
      <4>. DEFINE call == caller[c].call  l == Len(call.row.blocks)
      <4>1. SavesPlan(call) /\ SaveState(c, call, l + 4) /\ Offered(call)
        BY <1>2, <1>4, <3>2, Executed DEF Finishes
      <4>2. l \in Nat
        BY <4>1 DEF Offered
      <4>. HIDE DEF l, call
      <4>3. l + 4 >= 3 /\ l + 4 >= 4
        BY <4>2
      <4>4. DOMAIN Writes(c) \subseteq BlockKeys \cup {PlanRow(call.id)} /\ BlocksOf(call.id, rows) \subseteq DOMAIN Writes(c)
        BY <4>1, <4>3 DEF SaveState
      <4>5. q = PlanRow(call.id)
        BY <1>2, <4>4
      <4>6. p = call.id
        BY <4>5 DEF PlanRow
      <4>. QED
        BY <1>1, <4>4, <4>6
    <3>. QED
      BY <3>1, <3>2
  <2>4. rows' = Over(Writes(c), rows)
    BY <1>4 DEF Finishes
  <2>. QED
    BY <1>2, <2>3, <2>4 DEF Over
<1>. QED
  BY <1>1, <1>2, <1>3, <1>4, PlansMove

LEMMA CleanStays ==
  ASSUME PlansInv, Effect, NEW d \in Callers, Same(d), Open(d), NEW n \in Nat, n >= 10, CleanState(d, n)
  PROVE  CleanState(d, n)'
<1>1. Writes(d)' = Writes(d) /\ Disciplined /\ Exclusive /\ Keys \subseteq DOMAIN rows
  BY DEF Same, PlansInv, Disciplined, Functions
<1>2. ASSUME NEW k \in DOMAIN Writes(d), n >= 11 PROVE k \in Keys /\ rows'[k] = rows[k] /\ rows[k] # NoRow /\ Writes(d)[k] = NoRow
  <2>1. k \in Keys /\ rows[k] # NoRow /\ Writes(d)[k] = NoRow
    BY <1>2 DEF CleanState
  <2>. QED
    BY <1>1, <2>1, HeldKept
<1>3. ASSUME NEW k \in DOMAIN Writes(d), n = 11
      PROVE  k \in BlockKeys /\ PlanRow(rows[k].plan) \in OldRows("schedule_plans", rows)'
  <2>1. k \in BlockKeys /\ PlanRow(rows[k].plan) \in OldRows("schedule_plans", rows) /\ rows[k] # NoRow
    BY <1>2, <1>3 DEF CleanState
  <2>. DEFINE q == PlanRow(rows[k].plan)
  <2>2. rows'[q] = rows[q]
    BY <2>1, PlanOfHeldBlock
  <2>. HIDE DEF q
  <2>3. q \in OldRows("schedule_plans", rows)
    BY <2>1 DEF q
  <2>4. q \in OldRows("schedule_plans", rows)'
    BY <2>2, <2>3 DEF OldRows
  <2>5. PICK r : r = q
    OBVIOUS
  <2>. QED
    BY <2>1, <2>4 DEF q
<1>4. ASSUME n >= 12, NEW q \in DOMAIN Writes(d) \cap PlanKeys PROVE BlocksOf(q[2], rows)' \subseteq DOMAIN Writes(d)
  <2>1. BlocksOf(q[2], rows) \subseteq DOMAIN Writes(d) /\ q = PlanRow(q[2])
    BY <1>4, KeyTables DEF CleanState
  <2>2. PICK p : p = q[2]
    OBVIOUS
  <2>. QED
    BY <2>1, <2>2, NoBlockJoins
<1>5. ASSUME n >= 12 
      PROVE  /\ \A k \in DOMAIN Writes(d) \cap BlockKeys : PlanRow(rows[k].plan) \in DOMAIN Writes(d)
             /\ \A k \in DOMAIN Writes(d) \ BlockKeys : rows[k].old
  BY <1>5 DEF CleanState
<1>6. n >= 12 => n >= 11
  OBVIOUS
<1>7. n = 10 => DOMAIN Writes(d) = {}
  BY DEF CleanState
<1>8. n = 11 => n >= 11
  OBVIOUS
<1>. QED
  BY <1>1, <1>2, <1>3, <1>4, <1>5, <1>6, <1>7, <1>8 DEF CleanState

\* A statement inside of a transaction, for the caller.
Sent(d, n, view, w) ==
  /\ rows' = rows /\ Writes(d)' = Over(w, Writes(d)) /\ view = Over(Writes(d), rows)
  /\ DOMAIN w = Written(Next1(d), view) /\ \A k \in DOMAIN w : w[k] = Value(Next1(d), view[k])
  /\ ~Violates(Next1(d), view) /\ Next1(d).verb # "throw" /\ Next1(d) \notin {Begin, Commit}
  /\ Offered(caller[d].call) /\ n = caller[d].pc
  /\ n \in 1..Len(Program(caller[d].call, caller[d].saw))
  /\ Next1(d) = Program(caller[d].call, caller[d].saw)[n]
  /\ caller'[d] = At(caller[d].call, n + 1, caller[d].saw)
LEMMA InsideSends ==
  ASSUME Disciplined, NEW d \in Callers, Inside(d)
  PROVE  \E n \in Nat : \E view, w : Sent(d, n, view, w)
<1>1. PICK view, w, seen :
        Executes(d, view, w, seen) /\ Goes(d, seen) /\ Writes(d)' = Over(w, Writes(d))
  BY DEF Inside
<1>2. rows' = rows /\ Open(d) /\ Running(d) /\ Sends(Next1(d)) /\ view = Over(Writes(d), rows)
  BY <1>1 DEF Inside, Executes
<1>3. PICK n : n = caller[d].pc
  OBVIOUS
<1>4. /\ Offered(caller[d].call) /\ n \in 1..Len(Program(caller[d].call, caller[d].saw))
      /\ Next1(d) = Program(caller[d].call, caller[d].saw)[n] /\ OpenAt(Program(caller[d].call, caller[d].saw), n)
  BY <1>2, <1>3, Executed
<1>5. Next1(d) \notin {Begin, Commit}
  BY <1>2 DEF Sends
<1>6. Next1(d).verb # "select"
  BY <1>4, <1>5, OpenGoesOn
<1>7. DOMAIN w = Written(Next1(d), view) /\ \A k \in DOMAIN w : w[k] = Value(Next1(d), view[k])
  BY <1>1, ExecutedWrites
<1>8. ~Violates(Next1(d), view) /\ Next1(d).verb # "throw"
  BY <1>1 DEF Executes, ByCode
<1>9. caller'[d] = At(caller[d].call, n + 1, caller[d].saw)
  BY <1>1, <1>3, <1>6 DEF Executes, Goes
<1>10. n \in Nat
  <2>1. Len(Program(caller[d].call, caller[d].saw)) \in Nat
    BY <1>4, ProgramIsSeq
  <2>. QED
    BY <2>1, <1>4
<1>11. Sent(d, n, view, w)
  BY <1>1, <1>2, <1>3, <1>4, <1>5, <1>7, <1>8, <1>9 DEF Sent
<1>. QED
  BY <1>10, <1>11

LEMMA SaveGoesOn ==
  ASSUME PlansInv, NEW d \in Callers, Open(d), NEW n \in Nat, NEW view, NEW w, Sent(d, n, view, w),
         SavesPlan(caller[d].call)
  PROVE  SaveFit(d)'
<1>. DEFINE call == caller[d].call  p == call.id  W == Writes(d)  B == call.row.blocks  s == Next1(d)
<1>0. PICK id, row, c : id = call.id /\ row = SavedPlan(call) /\ c = call
  OBVIOUS
<1>1. SaveState(d, c, n) /\ SaveAt(Program(c, caller[d].saw), n, c)
  BY <1>0, PlanAt DEF PlansInv, SaveFit, Sent
<1>2. SUFFICES SaveState(d, c, n + 1)'
  BY <1>0 DEF Sent, SaveFit, At
<1>. DEFINE l == Len(c.row.blocks)
<1>3. /\ rows' = rows /\ s.verb # "throw" /\ s \notin {Begin, Commit} /\ ~Violates(s, view)
      /\ view = Over(W, rows) /\ Writes(d)' = Over(w, W)
      /\ DOMAIN w = Written(s, view) /\ (\A k \in DOMAIN w : w[k] = Value(s, view[k]))
      /\ Keys \subseteq DOMAIN rows /\ PlanRow(id) \in Keys /\ l \in Nat
      /\ \A i \in 1..l : c.row.blocks[i] \in {k[2] : k \in BlockKeys} \cup {"foreign"}
  <2>1. Offered(c) /\ SavesPlan(c)
    BY <1>0 DEF Sent
  <2>2. PlanRow(id) \in Keys /\ c.row \in [blocks : Seq({k[2] : k \in BlockKeys} \cup {"foreign"}), old : BOOLEAN]
    BY <2>1, <1>0, SavedPlanKey
  <2>3. l \in Nat /\ \A i \in 1..l : c.row.blocks[i] \in {k[2] : k \in BlockKeys} \cup {"foreign"}
    <3>1. c.row.blocks \in Seq({k[2] : k \in BlockKeys} \cup {"foreign"})
      BY <2>2
    <3>. QED
      BY <3>1
  <2>. HIDE DEF l
  <2>. QED
    BY <2>2, <2>3 DEF Sent, PlansInv, Disciplined, Functions
<1>4. \/ n = 2 /\ s = Put(PlanRow(id), row)
      \/ n = 3 /\ s = Drop(OfPlan(id))
      \/ \E i \in 1..l : n = i + 3 /\ s = InsertBlock(id, c.row.blocks[i])
  BY <1>0, <1>1 DEF SaveAt, Sent
<1>. HIDE DEF l, s, W, call, p
<1>5. PICK old : old = W
  OBVIOUS
<1>6. PICK new : new = Writes(d)'
  OBVIOUS
<1>7. /\ DOMAIN new = DOMAIN w \cup DOMAIN old
      /\ \A k \in DOMAIN w : new[k] = w[k]
      /\ \A k \in DOMAIN old \ DOMAIN w : new[k] = old[k]
  <2>1. new = Over(w, old)
    BY <1>3, <1>5, <1>6
  <2>. QED
    BY <2>1, OverAt
<1>8. CASE n = 2 /\ s = Put(PlanRow(id), row)
  <2>1. DOMAIN old = {}
    BY <1>1, <1>5, <1>8 DEF SaveState, W
  <2>2. DOMAIN w = {PlanRow(id)} /\ w[PlanRow(id)] = row
    <3>1. s.verb = "upsert" /\ s.where.key = PlanRow(id) /\ s.row = row
      BY <1>8 DEF Put, Plain, Is
    <3>. QED
      BY <1>3, <3>1 DEF Written, Value
  <2>3. PlanRow(id) \notin BlockKeys
    BY KeyTables DEF BlockKeys, In, PlanRow
  <2>4. DOMAIN new = {PlanRow(id)} /\ new[PlanRow(id)] = row
    BY <1>7, <2>1, <2>2
  <2>5. n + 1 = 3
    BY <1>8
  <2>. QED
    BY <1>0, <1>6, <2>3, <2>4, <2>5 DEF SaveState, call
<1>9. CASE n = 3 /\ s = Drop(OfPlan(id))
  <2>1. /\ PlanRow(id) \in DOMAIN old /\ old[PlanRow(id)] = row
        /\ DOMAIN old \subseteq BlockKeys \cup {PlanRow(id)} /\ DOMAIN old \cap BlockKeys = {}
    BY <1>0, <1>1, <1>5, <1>9 DEF SaveState, W, call
  <2>2. \A k \in BlockKeys : view[k] = rows[k]
    <3>1. \A k \in BlockKeys : k \in DOMAIN rows /\ k \notin DOMAIN old
      BY <1>3, <2>1, KeyTables
    <3>. QED
      BY <1>3, <1>5, <3>1 DEF Over
  <2>3. DOMAIN w = BlocksOf(id, rows) /\ \A k \in DOMAIN w : w[k] = NoRow
    <3>1. s.verb = "delete" /\ s.where = OfPlan(id)
      BY <1>9, Statements
    <3>2. Selected(s.where, view) = BlocksOf(id, view)
      BY <3>1, SelectedBy
    <3>3. BlocksOf(id, view) = BlocksOf(id, rows) /\ BlocksOf(id, view) \cap PlanKeys = {}
      BY <2>2, KeyTables DEF BlocksOf
    <3>4. Written(s, view) = BlocksOf(id, rows)
      BY <3>1, <3>2, <3>3 DEF Written, Cascade
    <3>. QED
      BY <1>3, <3>1, <3>4 DEF Value
  <2>4. \A k \in BlocksOf(id, rows) : k \in BlockKeys /\ rows[k].plan = id
    BY DEF BlocksOf
  <2>5. PlanRow(id) \notin BlockKeys /\ \A b : <<"time_blocks", b>> # PlanRow(id)
    BY DEF BlockKeys, In, PlanRow
  <2>6. PlanRow(id) \in DOMAIN new /\ new[PlanRow(id)] = row /\ DOMAIN new \subseteq BlockKeys \cup {PlanRow(id)}
    BY <1>7, <2>1, <2>3, <2>4, <2>5
  <2>7. \A k \in DOMAIN new \cap BlockKeys : k \in BlocksOf(id, rows) /\ new[k] = NoRow
    BY <1>7, <2>1, <2>3
  <2>8. \A b : <<"time_blocks", b>> \in DOMAIN new => new[<<"time_blocks", b>>] = NoRow
    BY <2>5, <2>6, <2>7
  <2>9. n + 1 = 4 /\ (n + 1) - 4 = 0
    BY <1>9
  <2>10. \A k \in DOMAIN new \cap BlockKeys : rows[k].plan = id
    BY <2>4, <2>7
  <2>11. BlocksOf(id, rows) \subseteq DOMAIN new
    BY <1>7, <2>3
  <2>. QED
    BY <1>0, <1>3, <1>6, <2>6, <2>7, <2>8, <2>9, <2>10, <2>11 DEF SaveState, call
<1>10. ASSUME NEW i \in 1..l, n = i + 3, s = InsertBlock(id, c.row.blocks[i]) PROVE SaveState(d, c, n + 1)'
  <2>. DEFINE b0 == c.row.blocks[i]  key == <<"time_blocks", b0>>
  <2>0. i \in Nat /\ n >= 4 /\ n >= 3 /\ n + 1 >= 4 /\ n - 4 = i - 1 /\ (n + 1) - 4 = i /\ n + 1 \notin {2, 3}
    BY <1>3, <1>10
  <2>1. s = Add(key, NewBlock(id)) /\ b0 # "foreign"
    BY <1>3, <1>10 DEF InsertBlock, Refusal, Plain
  <2>2. key \in BlockKeys
    <3>1. b0 \in {k[2] : k \in BlockKeys}
      BY <1>3, <2>1
    <3>2. PICK k \in BlockKeys : b0 = k[2]
      BY <3>1
    <3>. QED
      BY <3>2, KeyTables
  <2>3. s.verb = "insert" /\ s.where.key = key /\ s.row = NewBlock(id)
    BY <2>1 DEF Add, Plain, Is
  <2>. HIDE DEF key
  <2>4. DOMAIN w = {key} /\ w[key] = NewBlock(id)
    BY <1>3, <2>3 DEF Written, Value
  <2>5. view[key] = NoRow
    BY <1>3, <2>3 DEF Violates
  <2>6. /\ PlanRow(id) \in DOMAIN old /\ old[PlanRow(id)] = row
        /\ DOMAIN old \subseteq BlockKeys \cup {PlanRow(id)}
        /\ BlocksOf(id, rows) \subseteq DOMAIN old
    BY <1>0, <1>1, <1>5, <2>0 DEF SaveState, W, call
  <2>7. \A k \in DOMAIN old \cap BlockKeys :
           (rows[k] = NoRow \/ rows[k].plan = id) /\ old[k] \in {NoRow, NewBlock(id)}
    BY <1>0, <1>1, <1>5, <2>0 DEF SaveState, W, call
  <2>8. \A b : (<<"time_blocks", b>> \in DOMAIN old /\ old[<<"time_blocks", b>>] # NoRow)
                       <=> \E j \in 1..i - 1 : c.row.blocks[j] = b
    BY <1>1, <1>5, <2>0 DEF SaveState, W
  <2>9. rows[key] = NoRow \/ rows[key].plan = id
    <3>1. CASE key \in DOMAIN old
      BY <2>2, <2>7, <3>1
    <3>2. CASE key \notin DOMAIN old
      <4>1. key \in DOMAIN rows
        BY <1>3, <2>2, KeyTables
      <4>2. view[key] = rows[key]
        BY <1>3, <1>5, <3>2, <4>1 DEF Over
      <4>. QED
        BY <2>5, <4>2
    <3>. QED
      BY <3>1, <3>2
  <2>10. PlanRow(id) # key
    BY <2>2 DEF BlockKeys, In, PlanRow
  <2>11. /\ PlanRow(id) \in DOMAIN new /\ new[PlanRow(id)] = row
         /\ DOMAIN new \subseteq BlockKeys \cup {PlanRow(id)}
         /\ BlocksOf(id, rows) \subseteq DOMAIN new
    BY <1>7, <2>2, <2>4, <2>6, <2>10
  <2>12. \A k \in DOMAIN new \cap BlockKeys :
           (rows[k] = NoRow \/ rows[k].plan = id) /\ new[k] \in {NoRow, NewBlock(id)}
    BY <1>7, <2>4, <2>7, <2>9
  <2>13. NewBlock(id) # NoRow
    <3>1. "plan" \in DOMAIN NewBlock(id) /\ "plan" \notin DOMAIN NoRow
      BY DEF NewBlock, NoRow
    <3>. QED
      BY <3>1
  <2>14. ASSUME NEW b
         PROVE  (<<"time_blocks", b>> \in DOMAIN new /\ new[<<"time_blocks", b>>] # NoRow)
                   <=> \E j \in 1..i : c.row.blocks[j] = b
    <3>1. CASE b = b0
      <4>1. <<"time_blocks", b>> = key
        BY <3>1 DEF key
      <4>2. i \in 1..i
        BY <2>0
      <4>3. \E j \in 1..i : c.row.blocks[j] = b
        BY <3>1, <4>2
      <4>. QED
        BY <1>7, <2>4, <2>13, <4>1, <4>3
    <3>2. CASE b # b0
      <4>1. <<"time_blocks", b>> # key
        BY <3>2 DEF key
      <4>2. <<"time_blocks", b>> \notin DOMAIN w
        BY <2>4, <4>1
      <4>3. (\E j \in 1..i : c.row.blocks[j] = b) <=> \E j \in 1..i - 1 : c.row.blocks[j] = b
        <5>1. \A j \in 1..i : j \in 1..i - 1 \/ j = i
          BY <2>0
        <5>2. \A j \in 1..i - 1 : j \in 1..i
          BY <2>0
        <5>. QED
          BY <3>2, <5>1, <5>2
      <4>. QED
        BY <1>7, <2>8, <4>2, <4>3
    <3>. QED
      BY <3>1, <3>2
  <2>. HIDE DEF b0
  <2>. QED
    BY <1>0, <1>3, <1>6, <2>0, <2>11, <2>12, <2>14 DEF SaveState, call
<1>. QED
  BY <1>4, <1>8, <1>9, <1>10

\* The clean-up's first deletion: blocks of old plans.
LEMMA BlocksDeleted ==
  ASSUME PlansInv, NEW d \in Callers, Open(d), NEW view, NEW w, Sent(d, 10, view, w), CleanState(d, 10),
         Next1(d) = Drop(OfOldPlans)
  PROVE  CleanState(d, 11)'
<1>1. PICK old, new : old = Writes(d) /\ new = Writes(d)'
  OBVIOUS
<1>2. DOMAIN old = {} /\ view = rows /\ new = Over(w, old) /\ rows' = rows
  <2>1. DOMAIN Writes(d) = {}
    BY DEF CleanState
  <2>. QED
    BY <1>1, <2>1 DEF Sent, Over
<1>3. DOMAIN w = UNION {BlocksOf(k[2], rows) : k \in OldRows("schedule_plans", rows)}
      /\ \A k \in DOMAIN w : w[k] = NoRow
  <2>1. Next1(d).verb = "delete" /\ Next1(d).where = OfOldPlans
    BY Statements
  <2>. DEFINE S == UNION {BlocksOf(k[2], rows) : k \in OldRows("schedule_plans", rows)}
  <2>2. Selected(OfOldPlans, view) = S
    BY <1>2, SelectedBy
  <2>3. S \subseteq BlockKeys
    BY DEF BlocksOf
  <2>. HIDE DEF S
  <2>4. Written(Next1(d), view) = S
    BY <2>1, <2>2, <2>3, KeyTables DEF Written, Cascade
  <2>5. \A k \in DOMAIN w : w[k] = NoRow
    BY <2>1 DEF Sent, Value
  <2>. QED
    BY <2>4, <2>5 DEF Sent, S
<1>4. DOMAIN new = DOMAIN w /\ \A k \in DOMAIN w : new[k] = w[k]
  BY <1>2, OverAt
<1>5. ASSUME NEW k \in DOMAIN w
      PROVE  k \in BlockKeys /\ k \in Keys /\ rows[k] # NoRow /\ PlanRow(rows[k].plan) \in OldRows("schedule_plans", rows)
  <2>1. PICK q \in OldRows("schedule_plans", rows) : k \in BlocksOf(q[2], rows)
    BY <1>3
  <2>2. q = PlanRow(q[2])
    BY <2>1, KeyTables DEF OldRows, PlanKeys
  <2>. QED
    BY <2>1, <2>2, KeyTables DEF BlocksOf
<1>6. \A k \in DOMAIN new : new[k] = NoRow
  BY <1>3, <1>4
<1>. QED
  BY <1>1, <1>2, <1>4, <1>5, <1>6 DEF CleanState

\* Its second: old plans, with the blocks that they have by then.
LEMMA PlansDeleted ==
  ASSUME PlansInv, NEW d \in Callers, Open(d), NEW view, NEW w, Sent(d, 11, view, w), CleanState(d, 11),
         Next1(d) = Drop(Old("schedule_plans"))
  PROVE  CleanState(d, 12)'
<1>1. PICK old, new : old = Writes(d) /\ new = Writes(d)'
  OBVIOUS
<1>. DEFINE S == OldRows("schedule_plans", rows)  C == UNION {BlocksOf(k[2], view) : k \in S}
<1>2. /\ view = Over(old, rows) /\ new = Over(w, old) /\ rows' = rows /\ Keys \subseteq DOMAIN rows
      /\ \A k \in DOMAIN old : k \in BlockKeys /\ PlanRow(rows[k].plan) \in S /\ old[k] = NoRow /\ rows[k] # NoRow
  BY <1>1 DEF CleanState, Sent, PlansInv, Disciplined, Functions
<1>3. /\ \A k \in Keys \ DOMAIN old : view[k] = rows[k]
      /\ \A k \in DOMAIN old : view[k] = NoRow
  BY <1>2 DEF Over
<1>4. S \subseteq PlanKeys /\ \A k \in S : k \in Keys /\ k \notin BlockKeys /\ k = PlanRow(k[2]) /\ rows[k] # NoRow /\ rows[k].old
  BY KeyTables DEF OldRows, PlanKeys
<1>5. OldRows("schedule_plans", view) = S
  <2>1. \A k \in PlanKeys : view[k] = rows[k]
    BY <1>2, <1>3, KeyTables
  <2>. QED
    BY <2>1 DEF OldRows, PlanKeys
<1>6. \A k \in BlockKeys : k \in C => k \notin DOMAIN old /\ rows[k] # NoRow /\ PlanRow(rows[k].plan) \in S
  <2>1. ASSUME NEW k \in BlockKeys, NEW q \in S, k \in BlocksOf(q[2], view)
        PROVE  k \notin DOMAIN old /\ rows[k] # NoRow /\ PlanRow(rows[k].plan) \in S
    <3>1. view[k] # NoRow /\ view[k].plan = q[2] /\ k \in Keys
      BY <2>1, KeyTables DEF BlocksOf
    <3>2. k \notin DOMAIN old /\ view[k] = rows[k]
      BY <1>3, <3>1
    <3>. QED
      BY <3>1, <3>2, <1>4
  <2>. QED
    BY <2>1
<1>7. C \subseteq BlockKeys
  BY DEF BlocksOf
<1>8. \A q \in S : \A k \in BlocksOf(q[2], rows) : k \in DOMAIN old \/ k \in C
  <2>1. ASSUME NEW q \in S, NEW k \in BlocksOf(q[2], rows), k \notin DOMAIN old PROVE k \in BlocksOf(q[2], view)
    <3>1. view[k] = rows[k]
      BY <2>1, <1>3, KeyTables DEF BlocksOf
    <3>. QED
      BY <3>1 DEF BlocksOf
  <2>. QED
    BY <2>1
<1>9. DOMAIN w = S \cup C /\ \A k \in DOMAIN w : w[k] = NoRow
  <2>1. Next1(d).verb = "delete" /\ Next1(d).where = Old("schedule_plans")
    BY Statements
  <2>2. Selected(Old("schedule_plans"), view) = S
    BY <1>5, SelectedBy
  <2>3. S \cap PlanKeys = S
    BY <1>4
  <2>. HIDE DEF S
  <2>4. Written(Next1(d), view) = S \cup C
    BY <2>1, <2>2, <2>3 DEF Written, Cascade
  <2>5. \A k \in DOMAIN w : w[k] = NoRow
    BY <2>1 DEF Sent, Value
  <2>. QED
    BY <2>4, <2>5 DEF Sent
<1>. HIDE DEF S, C
<1>10. /\ DOMAIN new = DOMAIN w \cup DOMAIN old
       /\ \A k \in DOMAIN w : new[k] = w[k]
       /\ \A k \in DOMAIN old \ DOMAIN w : new[k] = old[k]
  <2>1. new = Over(w, old)
    BY <1>2
  <2>. QED
    BY <2>1 DEF Over
<1>11. ASSUME NEW k \in DOMAIN new PROVE k \in Keys /\ new[k] = NoRow /\ rows[k] # NoRow
  <2>1. new[k] = NoRow
    BY <1>2, <1>9, <1>10
  <2>2. k \in S \/ k \in C \/ k \in DOMAIN old
    BY <1>9, <1>10
  <2>. QED
    BY <1>2, <1>4, <1>6, <1>7, <2>1, <2>2, KeyTables
<1>12. ASSUME NEW k \in DOMAIN new \cap BlockKeys PROVE PlanRow(rows[k].plan) \in DOMAIN new
  BY <1>2, <1>4, <1>6, <1>9, <1>10
<1>13. ASSUME NEW q \in DOMAIN new \cap PlanKeys PROVE BlocksOf(q[2], rows) \subseteq DOMAIN new
  <2>1. q \in S
    BY <1>2, <1>7, <1>9, <1>10, KeyTables
  <2>. QED
    BY <2>1, <1>8, <1>9, <1>10
<1>14. ASSUME NEW k \in DOMAIN new \ BlockKeys PROVE rows[k].old
  BY <1>2, <1>4, <1>7, <1>9, <1>10
<1>. QED
  BY <1>1, <1>2, <1>11, <1>12, <1>13, <1>14 DEF CleanState

\* The others: old rows of other tables.
LEMMA RowsDeleted ==
  ASSUME PlansInv, NEW d \in Callers, Open(d), NEW view, NEW w, NEW n \in 12..17, Sent(d, n, view, w), CleanState(d, n),
         NEW i \in 1..6, Next1(d) = Drop(Old(CountedTables[i + 1]))
  PROVE  CleanState(d, n + 1)'
<1>1. PICK old, new : old = Writes(d) /\ new = Writes(d)'
  OBVIOUS
<1>2. PICK t : t = CountedTables[i + 1]
  OBVIOUS
<1>3. t \notin {"schedule_plans", "time_blocks"}
  <2>1. i + 1 \in 2..8
    OBVIOUS
  <2>2. \A j \in 2..8 : CountedTables[j] \notin {"schedule_plans", "time_blocks"}
    <3>1. \A j \in 2..8 : j \in {2, 3, 4, 5, 6, 7, 8}
      OBVIOUS
    <3>. QED
      BY <3>1 DEF CountedTables
  <2>. QED
    BY <1>2, <2>1, <2>2
<1>4. n >= 11 /\ n >= 12 /\ n + 1 >= 11 /\ n + 1 >= 12 /\ n + 1 \notin {10, 11}
  OBVIOUS
<1>5. /\ view = Over(old, rows) /\ new = Over(w, old) /\ rows' = rows /\ Keys \subseteq DOMAIN rows
      /\ \A k \in DOMAIN old : k \in Keys /\ old[k] = NoRow /\ rows[k] # NoRow
  BY <1>1, <1>4 DEF CleanState, Sent, PlansInv, Disciplined, Functions
<1>6. /\ \A k \in DOMAIN old \cap BlockKeys : PlanRow(rows[k].plan) \in DOMAIN old
      /\ \A q \in DOMAIN old \cap PlanKeys : BlocksOf(q[2], rows) \subseteq DOMAIN old
      /\ \A k \in DOMAIN old \ BlockKeys : rows[k].old
  BY <1>1, <1>4 DEF CleanState
<1>7. DOMAIN w = OldRows(t, view) /\ \A k \in DOMAIN w : w[k] = NoRow
  <2>1. Next1(d).verb = "delete" /\ Next1(d).where = Old(t)
    BY <1>2, Statements
  <2>2. Selected(Old(t), view) = OldRows(t, view)
    BY SelectedBy
  <2>3. OldRows(t, view) \cap PlanKeys = {}
    BY <1>3 DEF OldRows, PlanKeys, In
  <2>4. Written(Next1(d), view) = OldRows(t, view)
    BY <2>1, <2>2, <2>3 DEF Written, Cascade
  <2>5. \A k \in DOMAIN w : w[k] = NoRow
    BY <2>1 DEF Sent, Value
  <2>. QED
    BY <2>4, <2>5 DEF Sent
<1>8. ASSUME NEW k \in DOMAIN w PROVE k \in Keys /\ k \notin PlanRows /\ rows[k] # NoRow /\ rows[k].old
  <2>1. k \in Keys /\ k[1] = t /\ view[k] # NoRow /\ view[k].old
    BY <1>7 DEF OldRows, In
  <2>2. k \notin PlanRows
    BY <1>3, <2>1 DEF PlanRows, PlanKeys, BlockKeys, In
  <2>3. k \notin DOMAIN old
    BY <1>5, <2>1 DEF Over
  <2>4. view[k] = rows[k]
    BY <1>5, <2>1, <2>3 DEF Over
  <2>. QED
    BY <2>1, <2>2, <2>4
<1>9. /\ DOMAIN new = DOMAIN w \cup DOMAIN old
      /\ \A k \in DOMAIN w : new[k] = w[k]
      /\ \A k \in DOMAIN old \ DOMAIN w : new[k] = old[k]
  <2>1. new = Over(w, old)
    BY <1>5
  <2>. QED
    BY <2>1 DEF Over
<1>10. ASSUME NEW k \in DOMAIN new PROVE k \in Keys /\ new[k] = NoRow /\ rows[k] # NoRow
  BY <1>5, <1>7, <1>8, <1>9
<1>11. /\ \A k \in DOMAIN new \cap BlockKeys : PlanRow(rows[k].plan) \in DOMAIN new
       /\ \A q \in DOMAIN new \cap PlanKeys : BlocksOf(q[2], rows) \subseteq DOMAIN new
  BY <1>6, <1>8, <1>9 DEF PlanRows
<1>12. ASSUME NEW k \in DOMAIN new \ BlockKeys PROVE rows[k].old
  BY <1>6, <1>8, <1>9
<1>. QED
  BY <1>1, <1>4, <1>5, <1>10, <1>11, <1>12 DEF CleanState

LEMMA CleanGoesOn ==
  ASSUME PlansInv, NEW d \in Callers, Open(d), NEW n \in Nat, NEW view, NEW w, Sent(d, n, view, w),
         caller[d].call.of = "retention"
  PROVE  CleanFit(d)'
<1>1. CleanState(d, n) /\ CleanAt(Program(caller[d].call, caller[d].saw), n)
  BY CleanupAt DEF PlansInv, CleanFit, Sent
<1>2. SUFFICES CleanState(d, n + 1)'
  BY DEF Sent, CleanFit, At
<1>3. Next1(d) = Program(caller[d].call, caller[d].saw)[n] /\ Next1(d) \notin {Begin, Commit}
  BY DEF Sent
<1>4. Next1(d).verb # "select"
  <2>1. n \in 1..Len(Program(caller[d].call, caller[d].saw)) /\ Offered(caller[d].call) /\ Running(d)
    BY DEF Sent, Open
  <2>2. OpenAt(Program(caller[d].call, caller[d].saw), n)
    BY <2>1, Executed DEF Sent, PlansInv
  <2>. QED
    BY <1>3, <2>1, <2>2, OpenGoesOn
<1>5. \/ n = 10 /\ Next1(d) = Drop(OfOldPlans)
      \/ n = 11 /\ Next1(d) = Drop(Old("schedule_plans"))
      \/ \E i \in 1..6 : n = i + 11 /\ Next1(d) = Drop(Old(CountedTables[i + 1]))
  BY <1>1, <1>3, <1>4 DEF CleanAt
<1>6. CASE n = 10 /\ Next1(d) = Drop(OfOldPlans)
  <2>1. CleanState(d, 11)'
    BY <1>1, <1>6, BlocksDeleted
  <2>2. n + 1 = 11
    BY <1>6
  <2>. QED
    BY <2>1, <2>2
<1>7. CASE n = 11 /\ Next1(d) = Drop(Old("schedule_plans"))
  <2>1. CleanState(d, 12)'
    BY <1>1, <1>7, PlansDeleted
  <2>2. n + 1 = 12
    BY <1>7
  <2>. QED
    BY <2>1, <2>2
<1>8. ASSUME NEW i \in 1..6, n = i + 11, Next1(d) = Drop(Old(CountedTables[i + 1])) PROVE CleanState(d, n + 1)'
  <2>1. n \in 12..17
    BY <1>8
  <2>. QED
    BY <1>1, <1>8, <2>1, RowsDeleted
<1>. QED
  BY <1>5, <1>6, <1>7, <1>8

\* The tables stay whole.
LEMMA PlansKept ==
  ASSUME PlansInv, Effect
  PROVE  PlansWhole' /\ BlocksHavePlans'
<1>1. Disciplined /\ PlanRows \subseteq DOMAIN rows /\ Whole(rows) /\ BlocksHavePlans
  BY KeyTables DEF PlansInv, Disciplined, Functions, PlanRows, PlansWhole
<1>2. PICK f, g : f = rows /\ g = rows'
  OBVIOUS
<1>3. SUFFICES Whole(g) /\ \A k \in BlockKeys : g[k] # NoRow => "plan" \in DOMAIN g[k]
  BY <1>2 DEF PlansWhole, Whole, BlocksOf, BlocksHavePlans
<1>4. /\ \A k \in BlockKeys : k \in PlanRows /\ (f[k] # NoRow => "plan" \in DOMAIN f[k])
      /\ \A k \in PlanKeys : k \in PlanRows /\ k \notin BlockKeys
  BY <1>1, <1>2, KeyTables DEF PlanRows, BlocksHavePlans
<1>5. CASE \A k \in PlanRows : rows'[k] = rows[k]
  <2>1. \A k \in PlanRows : g[k] = f[k]
    BY <1>2, <1>5
  <2>2. Whole(g)
    <3>1. \A k \in PlanKeys : g[k] = f[k]
      BY <1>4, <2>1
    <3>2. \A k \in BlockKeys : g[k] = f[k]
      BY <1>4, <2>1
    <3>. QED
      BY <1>1, <1>2, <3>1, <3>2, AlikeWhole
  <2>. QED
    BY <1>4, <2>1, <2>2
<1>6. ASSUME NEW c \in Callers, Updates(c)
      PROVE  Whole(g) /\ \A k \in BlockKeys : g[k] # NoRow => "plan" \in DOMAIN g[k]
  <2>1. PICK w : rows' = Over(w, rows) /\ \A b \in DOMAIN w \cap PlanRows : BlockUpdate(c, b, w)
    BY <1>6 DEF Updates
  <2>2. ASSUME NEW k \in PlanKeys PROVE g[k] = f[k]
    <3>1. k \notin DOMAIN w
      BY <1>4, <2>1 DEF BlockUpdate
    <3>. QED
      BY <1>1, <1>2, <1>4, <2>1, <3>1 DEF Over
  <2>3. ASSUME NEW k \in BlockKeys
        PROVE  \/ g[k] = f[k]
               \/ f[k] # NoRow /\ g[k] # NoRow /\ "plan" \in DOMAIN g[k] /\ g[k].plan = f[k].plan
    <3>1. CASE k \in DOMAIN w
      <4>1. g[k] = w[k]
        BY <1>2, <2>1, <3>1 DEF Over
      <4>2. BlockUpdate(c, k, w)
        BY <1>4, <2>1, <3>1
      <4>. QED
        BY <1>1, <1>2, <4>1, <4>2, UpdatedBlock
    <3>2. CASE k \notin DOMAIN w
      BY <1>1, <1>2, <1>4, <2>1, <3>2 DEF Over
    <3>. QED
      BY <3>1, <3>2
  <2>4. Whole(f)
    BY <1>1, <1>2
  <2>5. \A k \in BlockKeys : g[k] = f[k] \/ (f[k] # NoRow /\ g[k] # NoRow /\ g[k].plan = f[k].plan)
    BY <2>3
  <2>6. Whole(g)
    BY <2>2, <2>4, <2>5, AlikeWhole
  <2>. QED
    BY <1>4, <2>3, <2>6
<1>7. ASSUME NEW c \in Callers, Finishes(c)
      PROVE  Whole(g) /\ \A k \in BlockKeys : g[k] # NoRow => "plan" \in DOMAIN g[k]
  <2>1. \A k \in BlockKeys : g[k] # NoRow => "plan" \in DOMAIN g[k]
    BY <1>1, <1>2, <1>4, <1>7, FinishedBlock
  <2>2. PICK W : W = Writes(c)
    OBVIOUS
  <2>3. g = Over(W, f) /\ Whole(f) /\ PlanRows \subseteq DOMAIN f
    BY <1>1, <1>2, <1>7, <2>2 DEF Finishes
  <2>4. CASE CleanState(c, 18)
    <3>1. /\ \A k \in DOMAIN W : k \in Keys /\ W[k] = NoRow /\ f[k] # NoRow
          /\ \A k \in DOMAIN W \cap BlockKeys : PlanRow(f[k].plan) \in DOMAIN W
          /\ \A q \in DOMAIN W \cap PlanKeys : BlocksOf(q[2], f) \subseteq DOMAIN W
      BY <1>2, <2>2, <2>4 DEF CleanState
    <3>. QED
      BY <2>1, <2>3, <3>1, CleanedWhole
  <2>5. CASE ~CleanState(c, 18)
    <3>1. PICK call, l : call = caller[c].call /\ l = Len(caller[c].call.row.blocks)
      OBVIOUS
    <3>2. SavesPlan(call) /\ SaveState(c, call, l + 4) /\ Offered(call)
      BY <1>1, <1>7, <2>5, <3>1, Executed DEF Finishes
    <3>3. l \in Nat /\ l + 4 >= 3 /\ l + 4 >= 4 /\ (l + 4) - 4 = l
      <4>1. l \in Nat
        BY <3>1, <3>2 DEF Offered
      <4>. QED
        BY <4>1
    <3>4. PICK n : n = l + 4
      OBVIOUS
    <3>5. SaveState(c, call, n) /\ n >= 3 /\ n >= 4 /\ n - 4 = l
      BY <3>2, <3>3, <3>4
    <3>6. /\ PlanRow(call.id) \in DOMAIN W /\ W[PlanRow(call.id)] = SavedPlan(call)
          /\ DOMAIN W \subseteq BlockKeys \cup {PlanRow(call.id)}
          /\ BlocksOf(call.id, f) \subseteq DOMAIN W
      BY <1>2, <2>2, <3>5 DEF SaveState
    <3>7. \A k \in DOMAIN W \cap BlockKeys :
            (f[k] = NoRow \/ f[k].plan = call.id) /\ W[k] \in {NoRow, NewBlock(call.id)}
      BY <1>2, <2>2, <3>5 DEF SaveState
    <3>8. \A b : (<<"time_blocks", b>> \in DOMAIN W /\ W[<<"time_blocks", b>>] # NoRow)
                       <=> \E i \in 1..l : call.row.blocks[i] = b
      BY <2>2, <3>5 DEF SaveState
    <3>9. l = Len(call.row.blocks)
      BY <3>1
    <3>10. Whole(g)
      BY <2>3, <3>2, <3>6, <3>7, <3>8, <3>9, SavedWhole
    <3>. QED
      BY <2>1, <3>10
  <2>. QED
    BY <2>4, <2>5
<1>. QED
  BY <1>5, <1>6, <1>7, PlansMove

\* A transaction of either kind begins with nothing written.
LEMMA TransactionBegins ==
  ASSUME PlansInv, NEW d \in Callers, Begins(d)
  PROVE  SaveFit(d)' /\ CleanFit(d)'
<1>1. PICK n, call, saw : n = caller[d].pc /\ call = caller[d].call /\ saw = caller[d].saw
  OBVIOUS
<1>2. caller[d].phase = "connecting" /\ Next1(d) = Begin /\ Writes(d)' = <<>> /\ caller'[d] = At(call, n + 1, saw)
  BY <1>1 DEF Begins, Goes
<1>3. Offered(call) /\ n \in 1..Len(Program(call, saw)) /\ Program(call, saw)[n] = Begin
  BY <1>1, <1>2 DEF PlansInv, Disciplined, CallerFit, Live, ProgramOf, Next1
<1>4. DOMAIN <<>> = {}
  OBVIOUS
<1>5. ASSUME SavesPlan(call) PROVE SaveState(d, call, n + 1)'
  <2>1. SaveAt(Program(call, saw), n, call)
    BY <1>3, <1>5, PlanAt
  <2>2. /\ Put(PlanRow(call.id), SavedPlan(call)) # Begin /\ Drop(OfPlan(call.id)) # Begin /\ Commit # Begin
        /\ \A b : InsertBlock(call.id, b) # Begin
    <3>1. \A b : InsertBlock(call.id, b).verb \in {"throw", "insert"}
      BY DEF InsertBlock, Refusal, Add, Plain
    <3>2. Begin.verb = "BEGIN" /\ Put(PlanRow(call.id), SavedPlan(call)).verb = "upsert" /\ Drop(OfPlan(call.id)).verb = "delete"
      BY DEF Put, Drop, Begin, Plain
    <3>3. Begin # Commit
      BY DEF Begin, Commit, Plain
    <3>. QED
      BY <3>1, <3>2, <3>3
  <2>3. n = 1
    BY <1>3, <2>1, <2>2 DEF SaveAt
  <2>4. n + 1 = 2
    BY <2>3
  <2>5. SaveState(d, call, 2)'
    BY <1>2, <1>4 DEF SaveState
  <2>. QED
    BY <2>4, <2>5
<1>6. ASSUME call.of = "retention" PROVE CleanState(d, n + 1)'
  <2>1. CleanAt(Program(call, saw), n)
    BY <1>3, <1>6, CleanupAt
  <2>2. Begin # Commit /\ (\A v : Drop(v) # Begin) /\ Begin.verb # "select"
    BY Statements DEF Begin, Commit, Drop, Plain
  <2>3. n = 9
    BY <1>3, <2>1, <2>2 DEF CleanAt
  <2>4. n + 1 = 10
    BY <2>3
  <2>5. CleanState(d, 10)'
    BY <1>2, <1>4 DEF CleanState
  <2>. QED
    BY <2>4, <2>5
<1>. QED
  BY <1>1, <1>2, <1>5, <1>6 DEF SaveFit, CleanFit, At

LEMMA TransactionsKept ==
  ASSUME PlansInv, Effect, NEW d \in Callers
  PROVE  SaveFit(d)' /\ CleanFit(d)'
<1>1. CASE ~Open(d)'
  BY <1>1 DEF SaveFit, CleanFit
<1>2. CASE Same(d) /\ Open(d)
  <2>1. PICK n, call : n = caller[d].pc /\ call = caller[d].call
    OBVIOUS
  <2>2. caller'[d] = caller[d] /\ Disciplined
    BY <1>2 DEF Same, PlansInv
  <2>3. Offered(call) /\ n \in 1..Len(Program(call, caller[d].saw)) /\ OpenAt(Program(call, caller[d].saw), n)
    BY <1>2, <2>1, <2>2, Executed DEF Open
  <2>4. n \in Nat
    <3>1. Len(Program(call, caller[d].saw)) \in Nat
      BY <2>3, ProgramIsSeq
    <3>. QED
      BY <2>3, <3>1
  <2>5. ASSUME SavesPlan(call) PROVE SaveState(d, call, n)'
    <3>1. SaveState(d, call, n)
      BY <1>2, <2>1, <2>5 DEF PlansInv, SaveFit
    <3>. QED
      BY <1>2, <2>4, <3>1, SaveStays
  <2>6. ASSUME call.of = "retention" PROVE CleanState(d, n)'
    <3>1. CleanState(d, n)
      BY <1>2, <2>1, <2>6 DEF PlansInv, CleanFit
    <3>2. n >= 10
      <4>1. CleanAt(Program(call, caller[d].saw), n)
        BY <2>3, <2>6, CleanupAt
      <4>2. CleanupShape(call, Program(call, caller[d].saw))
        BY <2>3, <2>6, CleanupProgram
      <4>3. PICK i \in 1..n - 1 : Program(call, caller[d].saw)[i] = Begin
        BY <2>3 DEF OpenAt
      <4>4. i \notin 1..8
        BY <4>2, <4>3 DEF CleanupShape, Begin, Plain
      <4>. QED
        BY <2>4, <4>3, <4>4
    <3>. QED
      BY <1>2, <2>4, <3>1, <3>2, CleanStays
  <2>. QED
    BY <2>1, <2>2, <2>5, <2>6 DEF SaveFit, CleanFit
<1>3. CASE Begins(d)
  BY <1>3, TransactionBegins
<1>4. CASE Inside(d)
  <2>1. PICK n \in Nat : \E view, w : Sent(d, n, view, w)
    BY <1>4, InsideSends DEF PlansInv
  <2>2. PICK view, w : Sent(d, n, view, w)
    BY <2>1
  <2>3. Open(d) /\ caller'[d].call = caller[d].call
    BY <1>4, <2>2 DEF Inside, Sent, At
  <2>4. SaveFit(d)'
    <3>1. CASE SavesPlan(caller[d].call)
      BY <2>2, <2>3, <3>1, SaveGoesOn
    <3>. QED
      BY <2>3, <3>1 DEF SaveFit
  <2>5. CleanFit(d)'
    <3>1. CASE caller[d].call.of = "retention"
      BY <2>2, <2>3, <3>1, CleanGoesOn
    <3>. QED
      BY <2>3, <3>1 DEF CleanFit
  <2>. QED
    BY <2>4, <2>5
<1>5. Same(d) => (Open(d) <=> Open(d)')
  BY DEF Same
<1>6. ~Live(d)' => ~Open(d)'
  BY DEF Live, Open, Running
<1>7. Same(d) \/ ~Open(d)' \/ Begins(d) \/ Inside(d)
  <2>1. CASE Halts
    BY <1>6, <2>1 DEF Halts
  <2>2. ASSUME NEW c \in Callers, Starts(c) \/ Connects(c) \/ Begins(c) \/ Inside(c) \/ Alone(c) \/ Commits(c)
        PROVE  Same(d) \/ ~Open(d)' \/ Begins(d) \/ Inside(d)
    BY <2>2 DEF Starts, Connects, Begins, Inside, Alone, Commits, Leaves
  <2>. QED
    BY <2>1, <2>2 DEF Effect
<1>. QED
  BY <1>1, <1>2, <1>3, <1>4, <1>5, <1>7

LEMMA PlansInvInit == Init => PlansInv
<1>. SUFFICES ASSUME Init PROVE PlansInv
  OBVIOUS
<1>1. Disciplined
  BY InitDisciplined
<1>2. PlansWhole /\ BlocksHavePlans
  BY SeedsAssumption DEF Init, PlansWhole, BlocksHavePlans
<1>3. \A c \in Callers : ~Open(c) /\ Writes(c) = <<>>
  BY DEF Init, Writes, Open, Running, Idle
<1>4. DOMAIN <<>> = {}
  OBVIOUS
<1>. QED
  BY <1>1, <1>2, <1>3, <1>4 DEF PlansInv, Exclusive, Confined, SaveFit, CleanFit

LEMMA PlansInvStep ==
  ASSUME OneClientEach, PlansInv, [Next]_vars
  PROVE  PlansInv'
<1>1. Disciplined' /\ Effect
  BY StepEffect DEF PlansInv
<1>2. Exclusive' /\ Confined'
  BY <1>1, ExclusiveKept DEF PlansInv
<1>3. PlansWhole' /\ BlocksHavePlans'
  BY <1>1, PlansKept
<1>4. \A c \in Callers : SaveFit(c)' /\ CleanFit(c)'
  BY <1>1, TransactionsKept
<1>. QED
  BY <1>1, <1>2, <1>3, <1>4 DEF PlansInv

\* upsertSchedulePlan and the retention clean-up: a committed plan has exactly the
\* blocks that its data lists and no block is without its plan, whatever other
\* calls run between their statements, fail or die.
THEOREM PlansWholeHolds ==
  ASSUME OneClientEach
  PROVE  Spec => []PlansWhole
<1>1. Init => PlansInv
  BY PlansInvInit
<1>2. PlansInv /\ [Next]_vars => PlansInv'
  BY PlansInvStep
<1>3. PlansInv => PlansWhole
  BY DEF PlansInv
<1>. QED
  BY <1>1, <1>2, <1>3, PTL DEF Spec

\* What a step of a clean-up removes is old.
LEMMA CleanupRemovesOld ==
  ASSUME PlansInv, Effect, NEW c \in Callers, Running(c), caller[c].call.of = "retention", caller'[c] # caller[c],
         NEW k \in Keys, rows[k] # NoRow, rows'[k] = NoRow
  PROVE  OldRow(k)
<1>1. Disciplined /\ k \in DOMAIN rows /\ rows' # rows /\ ~SavesPlan(caller[c].call)
  BY DEF PlansInv, Disciplined, Functions, SavesPlan
<1>2. PICK n, call, saw : n = caller[c].pc /\ call = caller[c].call /\ saw = caller[c].saw
  OBVIOUS
<1>3. /\ Offered(call) /\ n \in 1..Len(Program(call, saw)) /\ Next1(c) = Program(call, saw)[n]
      /\ Open(c) <=> OpenAt(Program(call, saw), n)
  BY <1>1, <1>2, Executed
<1>4. CleanAt(Program(call, saw), n)
  BY <1>2, <1>3, CleanupAt
<1>5. Alone(c) \/ (Commits(c) /\ Open(c))
  BY <1>1 DEF Effect, Halts, Starts, Connects, Begins, Inside, Alone, Commits, Leaves, Same
<1>6. ~Alone(c)
  <2>1. SUFFICES ASSUME Alone(c) PROVE FALSE
    OBVIOUS
  <2>2. PICK view, w, seen : Executes(c, view, w, seen) /\ rows' = Over(w, rows)
    BY <2>1 DEF Alone
  <2>3. ~Open(c) /\ Next1(c) \notin {Begin, Commit}
    BY <2>1, <2>2 DEF Alone, Executes, Sends
  <2>4. Next1(c).verb = "select"
    BY <1>3, <1>4, <2>3 DEF CleanAt
  <2>5. DOMAIN w = {}
    <3>1. DOMAIN w = Written(Next1(c), view)
      BY <1>1, <2>2, ExecutedWrites
    <3>. QED
      BY <2>4, <3>1, WrittenBy
  <2>. QED
    BY <1>1, <2>2, <2>5 DEF Over
<1>7. Next1(c) = Commit /\ Open(c) /\ rows' = Over(Writes(c), rows)
  BY <1>5, <1>6 DEF Commits
<1>8. n = 18
  <2>1. Begin # Commit /\ (\A v : Drop(v) # Commit) /\ Commit.verb # "select"
    BY Statements DEF Begin, Commit, Drop, Plain
  <2>. QED
    BY <1>3, <1>4, <1>7, <2>1 DEF CleanAt
<1>9. CleanState(c, 18)
  BY <1>2, <1>7, <1>8 DEF PlansInv, CleanFit
<1>10. k \in DOMAIN Writes(c)
  BY <1>1, <1>7 DEF Over
<1>11. /\ \A b \in DOMAIN Writes(c) \cap BlockKeys : PlanRow(rows[b].plan) \in DOMAIN Writes(c)
       /\ \A b \in DOMAIN Writes(c) \ BlockKeys : rows[b].old
  BY <1>9 DEF CleanState
<1>12. CASE k \in BlockKeys
  <2>1. PlanRow(rows[k].plan) \in PlanKeys
    BY <1>12, KeyTables DEF PlansInv, PlansWhole, Whole, PlanRow
  <2>2. PlanRow(rows[k].plan) \in DOMAIN Writes(c) \ BlockKeys
    BY <1>10, <1>11, <1>12, <2>1, KeyTables
  <2>3. k[1] = "time_blocks" /\ rows[PlanRow(rows[k].plan)].old
    BY <1>11, <1>12, <2>2, KeyTables
  <2>. QED
    BY <2>3 DEF OldRow, PlanRow
<1>13. CASE k \notin BlockKeys
  <2>1. k[1] # "time_blocks" /\ rows[k].old
    BY <1>10, <1>11, <1>13 DEF BlockKeys, In
  <2>. QED
    BY <2>1 DEF OldRow
<1>. QED
  BY <1>12, <1>13

\* cleanupPostgresRetention: what its steps remove is old when it is removed, even
\* if a plan was replaced by a young one after the clean-up had counted.
THEOREM CleanupSparesYoungHolds ==
  ASSUME OneClientEach
  PROVE  Spec => CleanupSparesYoung
<1>. DEFINE Spares == \A c \in Callers :
          /\ caller[c].phase = "running"
          /\ caller[c].call.of = "retention"
          /\ caller'[c] # caller[c]
          => \A k \in Keys : rows[k] # NoRow /\ rows'[k] = NoRow => OldRow(k)
<1>1. Init => PlansInv
  BY PlansInvInit
<1>2. PlansInv /\ [Next]_vars => PlansInv'
  BY PlansInvStep
<1>3. PlansInv /\ [Next]_vars => [Spares]_vars
  <2>1. SUFFICES ASSUME PlansInv, [Next]_vars PROVE Spares
    OBVIOUS
  <2>2. Effect
    BY <2>1, StepEffect DEF PlansInv
  <2>. QED
    BY <2>1, <2>2, CleanupRemovesOld DEF Running
<1>. QED
  BY <1>1, <1>2, <1>3, PTL DEF Spec, CleanupSparesYoung

-----------------------------------------------------------------------------
(* What calls that returned have promised. *)

\* The programs of single rows in full, as far as a promise depends on them.
OnlyReads(p) == \A i \in 1..Len(p) : Reads(p[i])
Form(call, saw, p) ==
  LET k == OwnRow(call)
  IN  \/ call.op \in {"upsert", "put", "append"} /\ p = <<Put(k, call.row)>>
      \/ call.op = "delete" /\ p = <<OrThrow(Drop(Is(k)))>>
      \/ call.op = "clear" /\ p = <<Drop(Every(call.of))>>
      \/ call.op = "complete" /\ p = <<OrThrow(Change(k, [status |-> "done"]))>>
      \/ call.op = "reserve" /\ Saw(saw, k) = NoRow /\ p = <<Read(Is(k)), Add(k, call.row)>>
      \/ call.op = "reserve" /\ Saw(saw, k) # NoRow /\ p = <<Read(Is(k))>>
      \/ call.op \in {"revoke", "use"} /\ Saw(saw, k) = NoRow /\ p = <<OrThrow(Read(Is(k)))>>
      \/ /\ call.op \in {"revoke", "use"} /\ Saw(saw, k) # NoRow
         /\ \E mark \in {"revoked", "used"} : p = <<OrThrow(Read(Is(k))), Put(k, Over([v |-> mark], saw[k]))>>
      \/ call.of \in {"import_throttles", "request_throttles", "time_blocks"}
      \/ call.op \in {"get", "list", "listForSchedule"} /\ OnlyReads(p)

LEMMA ReadsOnly ==
  ASSUME NEW w, NEW v
  PROVE  OnlyReads(<<Read(w)>>) /\ OnlyReads(<<OrThrow(Read(w))>>) /\ OnlyReads(<<OrThrow(Read(w))>> \o <<Read(v)>>)
<1>1. Reads(Read(w)) /\ Reads(OrThrow(Read(w))) /\ Reads(Read(v))
  BY Statements DEF Reads
<1>2. \A s, t : Reads(s) /\ Reads(t) => OnlyReads(<<s>>) /\ OnlyReads(<<s, t>>)
  BY DEF OnlyReads
<1>. QED
  BY <1>1, <1>2, Joined

LEMMA FormOfTables ==
  ASSUME NEW call, NEW saw, Offered(call),
         call.of \in {"tasks", "calendar_events", "working_hours", "audit_events", "integration_states",
                      "users", "memberships", "auth_login_attempt_windows"}
  PROVE  Form(call, saw, Program(call, saw))
<1>. USE ReadsOnly DEF OwnRow, Upsert, GetOne, List, Form
<1>1. CASE call.of = "tasks"
  <2>1. Program(call, saw) = TaskRepository(call) /\ call.op \in {"upsert", "get", "list", "delete"}
    BY <1>1 DEF Program, Offered, Methods
  <2>. QED
    BY <1>1, <2>1 DEF TaskRepository
<1>2. CASE call.of = "calendar_events"
  <2>1. Program(call, saw) = CalendarEventRepository(call) /\ call.op \in {"upsert", "get", "listForSchedule", "delete"}
    BY <1>2 DEF Program, Offered, Methods
  <2>. QED
    BY <1>2, <2>1 DEF CalendarEventRepository
<1>3. CASE call.of = "working_hours"
  <2>1. Program(call, saw) = WorkingHoursRepository(call) /\ call.op \in {"put", "list"}
    BY <1>3 DEF Program, Offered, Methods
  <2>. QED
    BY <1>3, <2>1 DEF WorkingHoursRepository
<1>4. CASE call.of = "audit_events"
  <2>1. Program(call, saw) = AuditEventRepository(call) /\ call.op \in {"append", "list"}
    BY <1>4 DEF Program, Offered, Methods
  <2>. QED
    BY <1>4, <2>1 DEF AuditEventRepository
<1>5. CASE call.of = "integration_states"
  <2>1. Program(call, saw) = IntegrationStateRepository(call) /\ call.op \in {"upsert", "get", "list"}
    BY <1>5 DEF Program, Offered, Methods
  <2>. QED
    BY <1>5, <2>1 DEF IntegrationStateRepository
<1>6. CASE call.of = "users"
  <2>1. Program(call, saw) = UserRepository(call) /\ call.op \in {"upsert", "get"}
    BY <1>6 DEF Program, Offered, Methods
  <2>. QED
    BY <1>6, <2>1 DEF UserRepository
<1>7. CASE call.of = "memberships"
  <2>1. Program(call, saw) = MembershipRepository(call) /\ call.op \in {"upsert", "get", "list"}
    BY <1>7 DEF Program, Offered, Methods
  <2>. QED
    BY <1>7, <2>1 DEF MembershipRepository
<1>8. CASE call.of = "auth_login_attempt_windows"
  <2>1. Program(call, saw) = LoginAttemptRepository(call) /\ call.op \in {"upsert", "get", "clear"}
    BY <1>8 DEF Program, Offered, Methods
  <2>. QED
    BY <1>8, <2>1 DEF LoginAttemptRepository
<1>. QED
  BY <1>1, <1>2, <1>3, <1>4, <1>5, <1>6, <1>7, <1>8

LEMMA FormOfMarked ==
  ASSUME NEW call, NEW saw, NEW mark \in {"revoked", "used"}, call.op \in {"revoke", "use"}
  PROVE  Form(call, saw, Marked(call.of, call, saw, mark))
<1>1. CASE Saw(saw, OwnRow(call)) = NoRow
  <2>1. Marked(call.of, call, saw, mark) = <<OrThrow(Read(Is(OwnRow(call))))>>
    BY <1>1, Joined DEF Marked, GetOne, OwnRow
  <2>. QED
    BY <1>1, <2>1 DEF Form
<1>2. CASE Saw(saw, OwnRow(call)) # NoRow
  <2>1. Marked(call.of, call, saw, mark)
          = <<OrThrow(Read(Is(OwnRow(call)))), Put(OwnRow(call), Over([v |-> mark], saw[OwnRow(call)]))>>
    BY <1>2, Joined DEF Marked, GetOne, OwnRow
  <2>. QED
    BY <1>2, <2>1 DEF Form
<1>. QED
  BY <1>1, <1>2

LEMMA FormOfReaders ==
  ASSUME NEW call, NEW saw, Offered(call),
         call.of \in {"auth_sessions", "auth_password_reset_tokens", "idempotency_keys"}
  PROVE  Form(call, saw, Program(call, saw))
<1>1. CASE call.of = "auth_sessions"
  <2>1. Program(call, saw) = SessionRepository(call, saw) /\ call.op \in {"upsert", "get", "list", "revoke"}
    BY <1>1 DEF Program, Offered, Methods
  <2>2. CASE call.op = "revoke"
    BY <1>1, <2>1, <2>2, FormOfMarked DEF SessionRepository
  <2>3. CASE call.op # "revoke"
    BY <1>1, <2>1, <2>3, ReadsOnly DEF SessionRepository, OwnRow, Upsert, GetOne, List, Form
  <2>. QED
    BY <2>2, <2>3
<1>2. CASE call.of = "auth_password_reset_tokens"
  <2>1. Program(call, saw) = PasswordResetTokenRepository(call, saw) /\ call.op \in {"upsert", "get", "list", "use"}
    BY <1>2 DEF Program, Offered, Methods
  <2>2. CASE call.op = "use"
    BY <1>2, <2>1, <2>2, FormOfMarked DEF PasswordResetTokenRepository
  <2>3. CASE call.op # "use"
    BY <1>2, <2>1, <2>3, ReadsOnly DEF PasswordResetTokenRepository, OwnRow, Upsert, GetOne, List, Form
  <2>. QED
    BY <2>2, <2>3
<1>3. CASE call.of = "idempotency_keys"
  <2>1. Program(call, saw) = IdempotencyRepository(call, saw) /\ call.op \in {"reserve", "get", "complete"}
    BY <1>3 DEF Program, Offered, Methods
  <2>2. CASE call.op = "get"
    BY <1>3, <2>1, <2>2, ReadsOnly DEF IdempotencyRepository, Form
  <2>3. CASE call.op = "complete"
    BY <1>3, <2>1, <2>3 DEF IdempotencyRepository, Form, OwnRow
  <2>4. CASE call.op = "reserve" /\ Saw(saw, OwnRow(call)) = NoRow
    BY <1>3, <2>1, <2>4, Joined DEF IdempotencyRepository, Reserve, Form, OwnRow
  <2>5. CASE call.op = "reserve" /\ Saw(saw, OwnRow(call)) # NoRow
    BY <1>3, <2>1, <2>5, Joined DEF IdempotencyRepository, Reserve, Form, OwnRow
  <2>. QED
    BY <2>1, <2>2, <2>3, <2>4, <2>5
<1>. QED
  BY <1>1, <1>2, <1>3

LEMMA Forms ==
  ASSUME NEW call, NEW saw, Offered(call), ~Transacts(call)
  PROVE  Form(call, saw, Program(call, saw))
<1>1. call.of \in DOMAIN Methods \ {"retention", "schema_migrations"}
  BY DEF Offered, Transacts
<1>2. \/ call.of \in {"tasks", "calendar_events", "working_hours", "audit_events", "integration_states",
                      "users", "memberships", "auth_login_attempt_windows"}
      \/ call.of \in {"auth_sessions", "auth_password_reset_tokens", "idempotency_keys"}
      \/ call.of \in {"import_throttles", "request_throttles", "time_blocks"}
      \/ call.of = "schedule_plans"
  BY <1>1 DEF Methods
<1>3. CASE call.of \in {"import_throttles", "request_throttles", "time_blocks"}
  BY <1>3 DEF Form
<1>4. CASE call.of = "schedule_plans"
  <2>1. Program(call, saw) = SchedulePlanRepository(call) /\ call.op \in {"get", "list"}
    BY <1>4 DEF Program, Offered, Methods, SavesPlan, Transacts
  <2>2. CASE call.op = "get"
    BY <2>1, <2>2, ReadsOnly DEF SchedulePlanRepository, GetSchedulePlan, GetOne, Form
  <2>3. CASE call.op = "list"
    BY <2>1, <2>3, ReadsOnly DEF SchedulePlanRepository, List, Form
  <2>. QED
    BY <2>1, <2>2, <2>3
<1>. QED
  BY <1>2, <1>3, <1>4, FormOfTables, FormOfReaders

\* What a statement of such a program does to the rows, from f to g.
Loose == {"import_throttles", "request_throttles", "time_blocks"}
Effected(s, f, g) ==
  \E w : g = Over(w, f) /\ DOMAIN w = Written(s, f) /\ \A k \in DOMAIN w : w[k] = Value(s, f[k])
AlikeBut(k, f, g) == \A j \in DOMAIN f : j # k => g[j] = f[j]
Wrote(call, saw, n, f, g) ==
  LET s == Program(call, saw)[n]
  IN  /\ Offered(call) /\ ~Transacts(call) /\ n \in 1..Len(Program(call, saw)) /\ ~Reads(s)
      /\ ~Violates(s, f) /\ (s.must => Selected(s.where, f) # {})
      /\ Effected(s, f, g)
OwnResult(call, n, f, r) ==
  \/ call.op \in {"upsert", "put", "append"} /\ r = call.row
  \/ call.op \in {"delete", "clear"} /\ r = NoRow
  \/ call.op = "reserve" /\ f[OwnRow(call)] = NoRow /\ r = call.row
  \/ call.op = "complete" /\ f[OwnRow(call)] # NoRow /\ r = Over([status |-> "done"], f[OwnRow(call)])
  \/ call.op \in {"revoke", "use"} /\ r.v \in {"revoked", "used"}

LEMMA StatementRows ==
  ASSUME NEW k, NEW r, NEW w
  PROVE  /\ Put(k, r).row = r /\ Add(k, r).row = r
         /\ OrThrow(Change(k, r)).row = r /\ OrThrow(Change(k, r)).must
         /\ OrThrow(Drop(w)).must
BY DEF Put, Add, Change, Drop, OrThrow, Plain

LEMMA SavedOutcome ==
  ASSUME NEW s, NEW k, NEW f, NEW g, s.verb \in {"upsert", "insert"}, s.where = Is(k), 
         Effected(s, f, g)
  PROVE  g[k] = s.row /\ AlikeBut(k, f, g)
<1>0. PICK w : g = Over(w, f) /\ DOMAIN w = Written(s, f) /\ \A j \in DOMAIN w : w[j] = Value(s, f[j])
  BY DEF Effected
<1>1. DOMAIN w = {k}
  BY <1>0 DEF Written, Is
<1>2. w[k] = s.row
  BY <1>0, <1>1 DEF Value
<1>3. g = Over(w, f)
  BY <1>0
<1>4. g[k] = s.row
  BY <1>1, <1>2, <1>3 DEF Over
<1>5. AlikeBut(k, f, g)
  BY <1>1, <1>3 DEF Over, AlikeBut
<1>. QED
  BY <1>4, <1>5

LEMMA ChangedOutcome ==
  ASSUME NEW s, NEW k \in Keys, NEW f, NEW g, s.verb = "update", s.where = Is(k), Selected(s.where, f) # {}, 
         Effected(s, f, g)
  PROVE  f[k] # NoRow /\ g[k] = Over(s.row, f[k]) /\ AlikeBut(k, f, g)
<1>0. PICK w : g = Over(w, f) /\ DOMAIN w = Written(s, f) /\ \A j \in DOMAIN w : w[j] = Value(s, f[j])
  BY DEF Effected
<1>1. DOMAIN w = Selected(Is(k), f)
  BY <1>0 DEF Written
<1>2. DOMAIN w = {k} /\ f[k] # NoRow
  BY <1>1, SelectedBy
<1>3. w[k] = Over(s.row, f[k])
  BY <1>0, <1>2 DEF Value
<1>4. g = Over(w, f)
  BY <1>0
<1>. QED
  BY <1>2, <1>3, <1>4 DEF Over, AlikeBut

LEMMA DeletedOutcome ==
  ASSUME NEW s, NEW f, NEW g, s.verb = "delete", Selected(s.where, f) \cap PlanKeys = {},
         Keys \subseteq DOMAIN f, 
         Effected(s, f, g)
  PROVE  \A j \in Keys : g[j] = IF j \in Selected(s.where, f) THEN NoRow ELSE f[j]
<1>0. PICK w : g = Over(w, f) /\ DOMAIN w = Written(s, f) /\ \A j \in DOMAIN w : w[j] = Value(s, f[j])
  BY DEF Effected
<1>1. DOMAIN w = Selected(s.where, f)
  BY <1>0 DEF Written, Cascade
<1>2. \A j \in DOMAIN w : w[j] = NoRow
  BY <1>0 DEF Value
<1>3. g = Over(w, f)
  BY <1>0
<1>. QED
  BY <1>1, <1>2, <1>3 DEF Over

LEMMA Outcome ==
  ASSUME NEW call, NEW saw, NEW n, NEW f, NEW g, Wrote(call, saw, n, f, g), Keys \subseteq DOMAIN f,
         call.of \notin Loose
  PROVE  /\ OwnResult(call, n, f, g[OwnRow(call)])
         /\ \A k \in Keys : g[k] # f[k] => k[1] = call.of /\ (k = OwnRow(call) \/ call.op = "clear")
<1>. DEFINE own == OwnRow(call)  p == Program(call, saw)
<1>1. PICK s : s = p[n]
  OBVIOUS
<1>2. Effected(s, f, g)
  BY <1>1 DEF Wrote
<1>3. /\ Offered(call) /\ n \in 1..Len(p) /\ ~Reads(s) /\ ~Violates(s, f)
      /\ s.must => Selected(s.where, f) # {}
  BY <1>1 DEF Wrote
<1>4. Form(call, saw, p)
  BY Forms DEF Wrote
<1>5. own \in Keys /\ own[1] = call.of
  BY DEF Wrote, Offered, Transacts, OwnRow
<1>. HIDE DEF own
<1>0. s.verb \in {"upsert", "insert"} /\ s.where = Is(own) => g[own] = s.row /\ AlikeBut(own, f, g)
  BY <1>2, SavedOutcome
<1>6. CASE call.op \in {"upsert", "put", "append"} /\ p = <<Put(own, call.row)>>
  <2>1. s = Put(own, call.row)
    BY <1>1, <1>3, <1>6
  <2>2. g[own] = call.row /\ AlikeBut(own, f, g)
    <3>1. s.verb \in {"upsert", "insert"} /\ s.where = Is(own) /\ s.row = call.row
      BY <2>1, Statements, StatementRows
    <3>. QED
      BY <1>0, <3>1
  <2>. QED
    BY <1>5, <1>6, <2>2 DEF OwnResult, AlikeBut, own
<1>7. CASE call.op = "delete" /\ p = <<OrThrow(Drop(Is(own)))>>
  <2>1. s = OrThrow(Drop(Is(own)))
    BY <1>1, <1>3, <1>7
  <2>2. s.verb = "delete" /\ s.where = Is(own) /\ Selected(Is(own), f) # {}
    BY <1>3, <2>1, Statements, StatementRows
  <2>3. Selected(Is(own), f) = {own}
    BY <2>2, SelectedBy
  <2>4. own \notin PlanKeys
    <3>1. call.of \in {"tasks", "calendar_events"}
      BY <1>3, <1>7 DEF Offered, Methods
    <3>. QED
      BY <3>1, <1>5, KeyTables
  <2>5. \A j \in Keys : g[j] = IF j \in Selected(s.where, f) THEN NoRow ELSE f[j]
    BY <1>2, <2>2, <2>3, <2>4, DeletedOutcome
  <2>. QED
    BY <1>5, <1>7, <2>2, <2>3, <2>5 DEF OwnResult, AlikeBut, own
<1>8. CASE call.op = "clear" /\ p = <<Drop(Every(call.of))>>
  <2>1. s = Drop(Every(call.of))
    BY <1>1, <1>3, <1>8
  <2>2. s.verb = "delete" /\ s.where = Every(call.of)
    BY <2>1, Statements
  <2>3. Selected(s.where, f) = {k \in In(call.of) : f[k] # NoRow}
    BY <2>2, SelectedBy
  <2>4. Selected(s.where, f) \cap PlanKeys = {}
    <3>1. call.of = "auth_login_attempt_windows"
      BY <1>3, <1>8 DEF Offered, Methods
    <3>. QED
      BY <3>1, <2>3, KeyTables DEF In
  <2>5. \A j \in Keys : g[j] = IF j \in Selected(s.where, f) THEN NoRow ELSE f[j]
    BY <1>2, <2>2, <2>4, DeletedOutcome
  <2>6. g[own] = NoRow
    BY <1>5, <2>3, <2>5 DEF In
  <2>7. \A k \in Keys : g[k] # f[k] => k[1] = call.of
    BY <2>3, <2>5 DEF In
  <2>. QED
    BY <1>8, <2>6, <2>7 DEF OwnResult, AlikeBut, own
<1>9. CASE call.op = "complete" /\ p = <<OrThrow(Change(own, [status |-> "done"]))>>
  <2>1. s = OrThrow(Change(own, [status |-> "done"]))
    BY <1>1, <1>3, <1>9
  <2>2. s.verb = "update" /\ s.where = Is(own) /\ s.row = [status |-> "done"] /\ Selected(s.where, f) # {}
    BY <1>3, <2>1, Statements, StatementRows
  <2>3. f[own] # NoRow /\ g[own] = Over(s.row, f[own]) /\ AlikeBut(own, f, g)
    BY <1>2, <1>5, <2>2, ChangedOutcome
  <2>. QED
    BY <1>5, <1>9, <2>2, <2>3 DEF OwnResult, AlikeBut, own
<1>10. CASE call.op = "reserve" /\ p = <<Read(Is(own)), Add(own, call.row)>>
  <2>1. s = Add(own, call.row)
    <3>1. s \in {Read(Is(own)), Add(own, call.row)}
      BY <1>1, <1>3, <1>10
    <3>. QED
      BY <1>3, <3>1, Statements DEF Reads
  <2>2. g[own] = call.row /\ AlikeBut(own, f, g)
    <3>1. s.verb \in {"upsert", "insert"} /\ s.where = Is(own) /\ s.row = call.row
      BY <2>1, Statements, StatementRows
    <3>. QED
      BY <1>0, <3>1
  <2>3. f[own] = NoRow
    <3>1. s.verb = "insert" /\ s.where.key = own
      <4>1. s.verb = "insert" /\ s.where = Is(own)
        BY <2>1, Statements
      <4>. QED
        BY <4>1 DEF Is
    <3>. QED
      BY <1>3, <3>1 DEF Violates
  <2>. QED
    BY <1>5, <1>10, <2>2, <2>3 DEF OwnResult, AlikeBut, own
<1>11. CASE /\ call.op \in {"revoke", "use"}
            /\ \E mark \in {"revoked", "used"} : p = <<OrThrow(Read(Is(own))), Put(own, Over([v |-> mark], saw[own]))>>
  <2>1. PICK mark \in {"revoked", "used"} : p = <<OrThrow(Read(Is(own))), Put(own, Over([v |-> mark], saw[own]))>>
    BY <1>11
  <2>2. PICK r : r = Over([v |-> mark], saw[own])
    OBVIOUS
  <2>3. r.v = mark
    BY <2>2 DEF Over
  <2>4. s = Put(own, r)
    <3>1. s \in {OrThrow(Read(Is(own))), Put(own, r)}
      BY <1>1, <1>3, <2>1, <2>2
    <3>. QED
      BY <1>3, <3>1, Statements DEF Reads
  <2>5. g[own] = r /\ AlikeBut(own, f, g)
    <3>1. s.verb \in {"upsert", "insert"} /\ s.where = Is(own) /\ s.row = r
      BY <2>4, Statements, StatementRows
    <3>. QED
      <4>1. g[own] = s.row /\ AlikeBut(own, f, g)
        BY <1>0, <3>1
      <4>. QED
        BY <3>1, <4>1
  <2>. QED
    BY <1>5, <1>11, <2>3, <2>5 DEF OwnResult, AlikeBut, own
<1>12. ~(OnlyReads(p) \/ p = <<Read(Is(own))>> \/ p = <<OrThrow(Read(Is(own)))>>)
  <2>1. ~OnlyReads(p)
    BY <1>1, <1>3 DEF OnlyReads
  <2>. QED
    BY <2>1, ReadsOnly
<1>. QED
  BY <1>4, <1>6, <1>7, <1>8, <1>9, <1>10, <1>11, <1>12 DEF Form, own, Loose

\* What is so of the row of a call that returned after `sent' statements.
PromisedRow(call, sent, r, cleaned) ==
  /\ call.op = "reserve" /\ sent = 2 => {"hash", "old"} \subseteq DOMAIN r /\ r.hash = call.row.hash /\ ~r.old
  /\ call.op = "complete" => IF r = NoRow THEN cleaned ELSE r.status = "done"
  /\ call.op \in {"revoke", "use"} /\ r # NoRow => r.v \in {"revoked", "used"}
  /\ call.op \in {"delete", "clear"} => r = NoRow
  /\ SavesPlan(call) => r = SavedPlan(call)
  /\ call.op \in {"upsert", "put", "append"} /\ ~SavesPlan(call) => r = call.row

\* Whether another call replaces or deletes the row of the call.
Undoes(call, other) ==
  /\ other # call /\ other.of = call.of
  /\ \/ other.op = "clear"
     \/ /\ other.id = call.id
        /\ other.op \in {"upsert", "replace", "put", "append", "revoke", "use", "delete"}

LEMMA TablesOfMethods ==
  ASSUME NEW call, Offered(call)
  PROVE  /\ call.op \in {"reserve", "complete"} => call.of = "idempotency_keys"
         /\ call.of = "idempotency_keys" => call.op \in {"reserve", "complete", "get"}
         /\ call.op \in {"delete", "clear", "revoke", "use"} => call.of \notin {"idempotency_keys", "schedule_plans"}
         /\ Promising(call) => call.of \notin Loose \cup {"retention", "schema_migrations"}
         /\ Promising(call) => call.op \in {"complete", "delete", "clear", "revoke", "use", "reserve", "upsert", "replace", "put", "append"}
         /\ call.op \in {"complete", "delete", "clear", "revoke", "use", "reserve", "put", "append"} => ~SavesPlan(call)
         /\ call.op = "replace" => SavesPlan(call)
BY DEF Offered, Methods, Promising, Loose, SavesPlan

LEMMA NoRowHasNoFields ==
  ASSUME NEW x, x # "absent"
  PROVE  x \notin DOMAIN NoRow
BY DEF NoRow

\* A statement of a call keeps what the call promises.
LEMMA OwnOutcome ==
  ASSUME NEW call, NEW saw, NEW n, NEW f, NEW g, Wrote(call, saw, n, f, g), Keys \subseteq DOMAIN f,
         Promising(call), NEW sent, NEW cleaned
  PROVE  PromisedRow(call, sent, g[OwnRow(call)], cleaned)
<1>1. Offered(call) /\ ~SavesPlan(call)
  BY DEF Wrote, Transacts
<1>2. call.of \notin Loose
  BY <1>1, TablesOfMethods
<1>3. PICK r : r = g[OwnRow(call)]
  OBVIOUS
<1>4. OwnResult(call, n, f, r)
  BY <1>2, <1>3, Outcome
<1>5. CASE call.op = "reserve"
  <2>1. r = call.row /\ {"hash", "old"} \subseteq DOMAIN call.row /\ ~call.row.old
    BY <1>1, <1>4, <1>5 DEF OwnResult, Offered, Promising
  <2>. QED
    BY <1>3, <1>5, <2>1, <1>1 DEF PromisedRow
<1>6. CASE call.op = "complete"
  <2>1. r = Over([status |-> "done"], f[OwnRow(call)])
    BY <1>4, <1>6 DEF OwnResult
  <2>2. "status" \in DOMAIN r /\ r.status = "done"
    BY <2>1 DEF Over
  <2>3. r # NoRow
    BY <2>2, NoRowHasNoFields
  <2>. QED
    BY <1>3, <1>6, <2>2, <2>3, <1>1 DEF PromisedRow
<1>7. CASE call.op \notin {"reserve", "complete"}
  BY <1>1, <1>3, <1>4, <1>7 DEF OwnResult, PromisedRow
<1>. QED
  BY <1>5, <1>6, <1>7

\* So does one of a call that is no rival of it.
LEMMA OtherOutcome ==
  ASSUME NEW other, NEW saw, NEW n, NEW f, NEW g, Wrote(other, saw, n, f, g), Keys \subseteq DOMAIN f,
         NEW call, Offered(call), Promising(call), NEW sent, NEW cleaned, other # call, ~Undoes(call, other),
         PromisedRow(call, sent, f[OwnRow(call)], cleaned),
         ~(cleaned /\ call.op = "complete" /\ other.op = "reserve" /\ other.id = call.id),
         g[OwnRow(call)] # f[OwnRow(call)]
  PROVE  PromisedRow(call, sent, g[OwnRow(call)], cleaned)
<1>. DEFINE own == OwnRow(call)
<1>1. Offered(other) /\ ~SavesPlan(other) /\ ~Transacts(other)
  BY DEF Wrote, Transacts
<1>2. own \in Keys /\ own[1] = call.of /\ call.of \notin Loose
  BY TablesOfMethods DEF OwnRow, Offered
<1>3. other.of = call.of
  <2>1. other.of \in Loose => g[own] = f[own]
    <3>1. SUFFICES ASSUME other.of \in Loose, g[own] # f[own] PROVE FALSE
      OBVIOUS
    <3>2. PICK s : s = Program(other, saw)[n]
      OBVIOUS
    <3>3. PICK w : g = Over(w, f) /\ DOMAIN w = Written(s, f)
      BY <3>2 DEF Wrote, Effected
    <3>4. own \in Written(s, f)
      BY <3>1, <3>3, <1>2 DEF Over
    <3>5. own[1] \in Tables(other)
      BY <3>2, <3>4, WrittenTables DEF Wrote
    <3>. QED
      BY <3>1, <3>5, <1>1, <1>2 DEF Tables, Transacts
  <2>2. other.of \notin Loose
    BY <2>1
  <2>. QED
    BY <1>2, <2>2, Outcome
<1>4. OwnResult(other, n, f, g[OwnRow(other)]) /\ (own = OwnRow(other) \/ other.op = "clear")
  BY <1>2, <1>3, Outcome
<1>5. other.op # "clear" /\ own = OwnRow(other) /\ other.id = call.id
  <2>1. other.op # "clear"
    BY <1>3 DEF Undoes
  <2>. QED
    BY <1>4, <2>1 DEF OwnRow
<1>6. OwnResult(other, n, f, g[own])
  BY <1>4, <1>5
<1>7. other.op \in {"reserve", "complete"}
  BY <1>3, <1>5, <1>6 DEF OwnResult, Undoes
<1>8. call.op \in {"reserve", "complete"} /\ ~SavesPlan(call)
  BY <1>1, <1>3, <1>7, TablesOfMethods DEF Promising
<1>9. PICK r, q : r = f[own] /\ q = g[own]
  OBVIOUS
<1>10. CASE other.op = "reserve"
  <2>1. r = NoRow
    BY <1>5, <1>6, <1>9, <1>10 DEF OwnResult
  <2>2. call.op # "complete"
    BY <1>5, <1>9, <1>10, <2>1 DEF PromisedRow
  <2>3. sent # 2
    BY <1>8, <1>9, <2>1, <2>2, NoRowHasNoFields DEF PromisedRow
  <2>. QED
    BY <1>8, <2>2, <2>3 DEF PromisedRow
<1>11. CASE other.op = "complete"
  <2>1. r # NoRow /\ q = Over([status |-> "done"], r)
    BY <1>5, <1>6, <1>9, <1>11 DEF OwnResult
  <2>2. "status" \in DOMAIN q /\ q.status = "done" /\ \A x \in DOMAIN r : x # "status" => x \in DOMAIN q /\ q[x] = r[x]
    BY <2>1 DEF Over
  <2>3. q # NoRow
    BY <2>2, NoRowHasNoFields
  <2>4. CASE call.op = "complete"
    BY <1>8, <1>9, <2>2, <2>3, <2>4 DEF PromisedRow
  <2>5. CASE call.op = "reserve"
    <3>1. SUFFICES ASSUME sent = 2 PROVE {"hash", "old"} \subseteq DOMAIN q /\ q.hash = call.row.hash /\ ~q.old
      BY <1>8, <1>9, <2>5 DEF PromisedRow
    <3>2. {"hash", "old"} \subseteq DOMAIN r /\ r.hash = call.row.hash /\ ~r.old
      BY <1>9, <2>5, <3>1 DEF PromisedRow
    <3>. QED
      BY <2>2, <3>2
  <2>. QED
    BY <1>8, <2>4, <2>5
<1>. QED
  BY <1>7, <1>10, <1>11

\* A statement outside of a transaction that writes is one of a single row.
LEMMA AloneWrote ==
  ASSUME Disciplined, NEW c \in Callers, ~Open(c), NEW view, NEW w, NEW seen, Executes(c, view, w, seen),
         NEW g, g = Over(w, rows)
  PROVE  \/ Reads(Next1(c)) \/ caller[c].call.of = "schema_migrations"
         \/ Wrote(caller[c].call, caller[c].saw, caller[c].pc, rows, g)
<1>. DEFINE call == caller[c].call  n == caller[c].pc  p == Program(call, caller[c].saw)  s == Next1(c)
<1>1. Running(c) /\ Sends(s) /\ view = rows /\ ~Violates(s, view) /\ ~ByCode(c, s, view)
  BY DEF Executes
<1>2. Offered(call) /\ n \in 1..Len(p) /\ s = p[n] /\ ~OpenAt(p, n) /\ p[n] \notin {Begin, Commit}
  BY <1>1, Executed DEF Sends
<1>3. SUFFICES ASSUME ~Reads(s), call.of # "schema_migrations"
               PROVE  Wrote(call, caller[c].saw, n, rows, g)
  OBVIOUS
<1>4. ~SavesPlan(call)
  BY <1>2, PlanAt DEF SaveAt
<1>5. call.of # "retention"
  BY <1>2, <1>3, CleanupAt DEF CleanAt, Reads
<1>6. s.must => Selected(s.where, rows) # {}
  BY <1>1 DEF ByCode
<1>7. Effected(s, rows, g)
  <2>1. DOMAIN w = Written(s, view) /\ \A k \in DOMAIN w : w[k] = Value(s, view[k])
    BY ExecutedWrites
  <2>. QED
    BY <1>1, <2>1 DEF Effected
<1>. QED
  BY <1>1, <1>2, <1>3, <1>4, <1>5, <1>6, <1>7 DEF Wrote, Transacts

\* How rows other than blocks and migrations change.
Stored(c) ==
  /\ SavesPlan(caller[c].call)
  /\ rows'[PlanRow(caller[c].call.id)] = SavedPlan(caller[c].call)
  /\ \A k \in Keys \ BlockKeys : rows'[k] # rows[k] => k = PlanRow(caller[c].call.id)
Swept(c) ==
  /\ caller[c].call.of = "retention" /\ ~caller[c].call.dryRun
  /\ \A k \in Keys \ BlockKeys : rows'[k] # rows[k] => rows[k].old /\ rows'[k] = NoRow
Moves(c) ==
  Running(c) /\ (Stored(c) \/ Swept(c) \/ Wrote(caller[c].call, caller[c].saw, caller[c].pc, rows, rows'))
Others == Keys \ (BlockKeys \cup MigrationRows)

LEMMA CommitMoves ==
  ASSUME PlansInv, NEW c \in Callers, Commits(c), Open(c)
  PROVE  Stored(c) \/ Swept(c) \/ (caller[c].call.of = "schema_migrations" /\ \A k \in Others : rows'[k] = rows[k])
<1>. DEFINE call == caller[c].call  n == caller[c].pc  p == Program(call, caller[c].saw)  W == Writes(c)
<1>1. Disciplined /\ Confined /\ Keys \subseteq DOMAIN rows
  BY DEF PlansInv, Disciplined, Functions
<1>2. Running(c) /\ rows' = Over(W, rows) /\ Next1(c) = Commit
  BY DEF Commits
<1>3. Offered(call) /\ n \in 1..Len(p) /\ p[n] = Commit
  BY <1>1, <1>2, Executed
<1>. HIDE DEF W
<1>4. \A k \in Keys : rows'[k] = IF k \in DOMAIN W THEN W[k] ELSE rows[k]
  BY <1>1, <1>2 DEF Over
<1>5. CASE SavesPlan(call)
  <2>1. SaveAt(p, n, call)
    BY <1>3, <1>5, PlanAt
  <2>2. /\ Begin # Commit /\ Put(PlanRow(call.id), SavedPlan(call)) # Commit /\ Drop(OfPlan(call.id)) # Commit
        /\ \A b : InsertBlock(call.id, b) # Commit
    <3>1. \A b : InsertBlock(call.id, b).verb \in {"throw", "insert"}
      BY DEF InsertBlock, Refusal, Add, Plain
    <3>2. Commit.verb = "COMMIT" /\ Put(PlanRow(call.id), SavedPlan(call)).verb = "upsert" /\ Drop(OfPlan(call.id)).verb = "delete"
      BY DEF Put, Drop, Commit, Plain
    <3>3. Begin # Commit
      BY DEF Begin, Commit, Plain
    <3>. QED
      BY <3>1, <3>2, <3>3
  <2>3. n = Len(call.row.blocks) + 4 /\ Len(call.row.blocks) \in Nat
    <3>1. call.row \in [blocks : Seq({k[2] : k \in BlockKeys} \cup {"foreign"}), old : BOOLEAN]
      BY <1>3, <1>5, SavedPlanKey
    <3>2. call.row.blocks \in Seq({k[2] : k \in BlockKeys} \cup {"foreign"})
      BY <3>1
    <3>. QED
      BY <1>3, <2>1, <2>2, <3>2 DEF SaveAt
  <2>4. SaveState(c, call, n)
    BY <1>5 DEF PlansInv, SaveFit
  <2>5. n >= 3
    BY <2>3
  <2>6. /\ PlanRow(call.id) \in DOMAIN W /\ W[PlanRow(call.id)] = SavedPlan(call)
        /\ DOMAIN W \subseteq BlockKeys \cup {PlanRow(call.id)}
    BY <2>4, <2>5 DEF SaveState, W
  <2>7. PlanRow(call.id) \in Keys
    BY <1>3, <1>5, SavedPlanKey
  <2>. QED
    BY <1>4, <1>5, <2>6, <2>7 DEF Stored
<1>6. CASE call.of = "retention"
  <2>1. CleanAt(p, n)
    BY <1>3, <1>6, CleanupAt
  <2>2. Begin # Commit /\ (\A v : Drop(v) # Commit) /\ Commit.verb # "select"
    BY Statements DEF Begin, Commit, Drop, Plain
  <2>3. n = 18
    BY <1>3, <2>1, <2>2 DEF CleanAt
  <2>4. ~call.dryRun
    <3>1. Len(p) = IF call.dryRun THEN 8 ELSE 18
      <4>1. CleanupShape(call, p)
        BY <1>3, <1>6, CleanupProgram
      <4>. QED
        BY <4>1 DEF CleanupShape
    <3>. QED
      BY <1>3, <2>3, <3>1
  <2>5. CleanState(c, 18)
    BY <1>6, <2>3 DEF PlansInv, CleanFit
  <2>6. (\A k \in DOMAIN W : W[k] = NoRow) /\ \A k \in DOMAIN W \ BlockKeys : rows[k].old
    BY <2>5 DEF CleanState, W
  <2>. QED
    BY <1>4, <1>6, <2>4, <2>6 DEF Swept
<1>7. CASE call.of = "schema_migrations"
  <2>1. \A k \in DOMAIN W : k[1] \in {"ddl", "schema_migrations"}
    BY <1>1, <1>7 DEF Confined, Tables, W
  <2>. QED
    BY <1>4, <1>7, <2>1 DEF Others, MigrationRows
<1>8. Transacts(call)
  <2>1. SUFFICES ASSUME ~Transacts(call) PROVE FALSE
    OBVIOUS
  <2>2. Short(call, p)
    BY <1>3, <2>1, ShortPrograms
  <2>3. Simple(call, p[n])
    BY <1>3, <2>2, ShortFacts
  <2>. QED
    BY <1>3, <2>3, SimpleIsNoBegin
<1>. QED
  BY <1>5, <1>6, <1>7, <1>8 DEF Transacts

LEMMA RowsMove ==
  ASSUME PlansInv, Effect
  PROVE  (\A k \in Others : rows'[k] = rows[k]) \/ \E c \in Callers : Moves(c)
<1>1. Disciplined /\ Keys \subseteq DOMAIN rows
  BY DEF PlansInv, Disciplined, Functions
<1>2. CASE rows' = rows
  BY <1>2
<1>3. ASSUME NEW c \in Callers, Alone(c)
      PROVE  (\A k \in Others : rows'[k] = rows[k]) \/ Moves(c)
  <2>1. PICK view, w, seen : Executes(c, view, w, seen) /\ rows' = Over(w, rows)
    BY <1>3 DEF Alone
  <2>2. PICK g : g = rows'
    OBVIOUS
  <2>3. ~Open(c) /\ Running(c)
    BY <1>3, <2>1 DEF Alone, Executes
  <2>4. \/ Reads(Next1(c)) \/ caller[c].call.of = "schema_migrations"
        \/ Wrote(caller[c].call, caller[c].saw, caller[c].pc, rows, g)
    BY <1>1, <2>1, <2>2, <2>3, AloneWrote
  <2>5. DOMAIN w = Written(Next1(c), view) /\ \A k \in DOMAIN w : k[1] \in Tables(caller[c].call)
    BY <1>1, <2>1, ExecutedWrites
  <2>6. \A k \in Keys : k \notin DOMAIN w => rows'[k] = rows[k]
    BY <1>1, <2>1 DEF Over
  <2>7. CASE Reads(Next1(c))
    <3>1. DOMAIN w = {}
      BY <2>5, <2>7, WrittenBy DEF Reads
    <3>. QED
      BY <2>6, <3>1 DEF Others
  <2>8. CASE caller[c].call.of = "schema_migrations"
    <3>1. DOMAIN w \cap Others = {}
      BY <2>5, <2>8 DEF Tables, Others, MigrationRows
    <3>. QED
      BY <2>6, <3>1 DEF Others
  <2>. QED
    BY <2>2, <2>3, <2>4, <2>7, <2>8 DEF Moves
<1>4. ASSUME NEW c \in Callers, Commits(c), rows' # rows
      PROVE  (\A k \in Others : rows'[k] = rows[k]) \/ Moves(c)
  <2>1. Running(c) /\ Open(c)
    BY <1>4 DEF Commits
  <2>. QED
    BY <1>4, <2>1, CommitMoves DEF Moves
<1>. QED
  BY <1>2, <1>3, <1>4 DEF Effect, Halts, Starts, Connects, Begins, Inside

\* How the answers and the calls change.
Returns(c) ==
  /\ Running(c) /\ answered' = answered \cup {[call |-> caller[c].call, sent |-> caller[c].pc]}
  /\ \/ /\ ~Open(c)
        /\ \E view, w, seen :
             /\ Executes(c, view, w, seen) /\ rows' = Over(w, rows)
             /\ ~(Len(Program(caller[c].call, seen)) > caller[c].pc)
     \/ Commits(c)

LEMMA RunReturns ==
  ASSUME OneClientEach, Disciplined, NEW c \in Callers, Running(c), Run(c, Next1(c))
  PROVE  answered' = answered \/ Returns(c)
<1>. DEFINE r == caller[c]  s == Next1(c)
<1>1. Functions /\ CallerFit(c) /\ ConnectionFit(c)
  BY DEF Disciplined
<1>2. PICK view : view = View(ConnOf(c))
  OBVIOUS
<1>3. PICK w, seen :
        /\ w = [k \in Written(s, view) |-> Value(s, view[k])]
        /\ seen = IF s.verb = "select" THEN Over([k \in Selected(s.where, view) |-> view[k]], r.saw) ELSE r.saw
  OBVIOUS
<1>4. /\ Sends(s) /\ Holders(c, s) = {} /\ ~ByServer(c, s, view) /\ ~ByCode(c, s, view)
      /\ Apply(ConnOf(c), w) /\ Advance(c, seen)
  BY <1>2, <1>3, Zenon DEF Run
<1>5. /\ Offered(r.call) /\ r.pc \in 1..Len(Program(r.call, r.saw))
      /\ s = Program(r.call, r.saw)[r.pc] /\ s \notin {Begin, Commit}
  BY <1>1, <1>4 DEF CallerFit, Live, Running, ProgramOf, Next1, Sends
<1>6. Open(c) <=> ConnOf(c) # None
  BY DEF Open
<1>7. Executes(c, view, w, seen)
  <2>1. view = IF Open(c) THEN Over(Writes(c), rows) ELSE rows
    BY <1>2, <1>6 DEF View, Writes
  <2>2. \A d \in Callers \ {c} : DOMAIN Writes(d) \cap Locks(s, view) = {}
    BY <1>2, <1>4, OthersLockFree
  <2>3. ~Violates(s, view)
    BY <1>4 DEF ByServer
  <2>. QED
    BY <1>3, <1>4, <2>1, <2>2, <2>3 DEF Executes
<1>8. \/ Len(Program(r.call, seen)) > r.pc /\ answered' = answered
      \/ /\ ~(Len(Program(r.call, seen)) > r.pc)
         /\ answered' = answered \cup {[call |-> r.call, sent |-> r.pc]}
  BY <1>4 DEF Advance, Return
<1>9. CASE Open(c)
  <2>1. OpenAt(Program(r.call, r.saw), r.pc)
    BY <1>1, <1>6, <1>9 DEF ConnectionFit, InTransaction, ProgramOf
  <2>2. r.pc + 1 \in 1..Len(Program(r.call, r.saw)) /\ s.verb # "select"
    BY <1>5, <2>1, OpenGoesOn
  <2>3. seen = r.saw /\ Len(Program(r.call, r.saw)) \in Nat
    BY <1>3, <1>5, <2>2, ProgramIsSeq
  <2>4. Len(Program(r.call, seen)) > r.pc
    BY <1>5, <2>2, <2>3
  <2>. QED
    BY <1>8, <2>4
<1>10. CASE ~Open(c)
  <2>1. rows' = Over(w, rows)
    BY <1>4, <1>6, <1>10 DEF Apply
  <2>. QED
    BY <1>7, <1>8, <1>10, <2>1 DEF Returns
<1>. QED
  BY <1>9, <1>10

\* The one call that returns otherwise: an update of a block that found no row.
Idles(c) ==
  /\ Running(c) /\ caller[c].call.of = "time_blocks"
  /\ answered' = answered \cup {[call |-> caller[c].call, sent |-> caller[c].pc]}

LEMMA StepReturns ==
  ASSUME OneClientEach, Disciplined, [Next]_vars
  PROVE  answered' = answered \/ \E c \in Callers : Returns(c) \/ Idles(c)
<1>1. ASSUME NEW c \in Callers, Running(c), CommitIt(c, Next1(c)) PROVE answered' = answered \/ Returns(c)
  <2>1. Commits(c)
    BY <1>1, CommitStep
  <2>2. answered' = answered \/ answered' = answered \cup {[call |-> caller[c].call, sent |-> caller[c].pc]}
    BY <1>1 DEF CommitIt, Advance, Return
  <2>. QED
    BY <1>1, <2>1, <2>2 DEF Returns
<1>2. ASSUME NEW c \in Callers, Running(c), Run(c, Next1(c)) PROVE answered' = answered \/ Returns(c)
  BY <1>2, RunReturns
<1>3. ASSUME NEW c \in Callers, Call(c) \/ Step(c) \/ Fault(c)
      PROVE  answered' = answered \/ Returns(c) \/ Idles(c)
  <2>1. CASE Call(c) \/ Begun(c) \/ Rollback(c) \/ BeginFails(c)
    BY <2>1 DEF Call, Begun, Rollback, BeginFails
  <2>2. ASSUME NEW s, Connect(c, s) \/ ThrowByCode(c, s) \/ ThrowByServer(c, s) \/ StatementFails(c, s) \/ CommitFails(c, s)
        PROVE  answered' = answered
    BY <2>2 DEF Connect, ThrowByCode, ThrowByServer, StatementFails, CommitFails, Throw
  <2>3. ASSUME Running(c), FindsNone(c, Next1(c)) PROVE Idles(c)
    BY <2>3 DEF FindsNone, Return, Idles
  <2>. QED
    BY <1>1, <1>2, <1>3, <2>1, <2>2, <2>3 DEF Step, Fault, Send
<1>. QED
  BY <1>3 DEF Next, vars, Crash

\* A call goes on as the one that was made.
LEMMA CallsMade ==
  ASSUME Disciplined, [Next]_vars
  PROVE  /\ Made \subseteq Made'
         /\ \A d \in Callers : Live(d)' => (Live(d) /\ caller'[d].call = caller[d].call) \/ caller'[d].call \in Made'
<1>. DEFINE Goal == \A d \in Callers : Live(d)' => (Live(d) /\ caller'[d].call = caller[d].call) \/ caller'[d].call \in Made'
<1>1. caller = [c \in Callers |-> caller[c]] /\ IsSeq(made)
  BY DEF Disciplined, Functions
<1>2. ASSUME NEW c \in Callers, NEW v, caller' = [caller EXCEPT ![c] = v],
             v \in {Idle, Undoing} \/ (Live(c) /\ v.call = caller[c].call)
      PROVE  Goal
  <2>1. caller'[c] = v /\ \A d \in Callers \ {c} : caller'[d] = caller[d]
    BY <1>1, <1>2
  <2>. QED
    BY <1>2, <2>1 DEF Live, Idle, Undoing
<1>3. ASSUME NEW c \in Callers, Call(c) PROVE Made \subseteq Made' /\ Goal
  <2>1. PICK call : caller' = [caller EXCEPT ![c] = At(call, 1, <<>>)] /\ made' = Append(made, call)
    BY <1>3 DEF Call
  <2>2. Made' = Made \cup {call}
    <3>1. made' \in Seq({made[i] : i \in DOMAIN made} \cup {call})
      BY <1>1, <2>1 DEF IsSeq
    <3>2. Len(made) \in Nat /\ DOMAIN made = 1..Len(made) /\ DOMAIN made' = 1..Len(made) + 1
      BY <1>1, <2>1, <3>1 DEF IsSeq
    <3>3. made'[Len(made) + 1] = call /\ \A i \in 1..Len(made) : made'[i] = made[i]
      BY <1>1, <2>1 DEF IsSeq
    <3>. QED
      BY <3>2, <3>3 DEF Made
  <2>3. caller'[c].call = call /\ \A d \in Callers \ {c} : caller'[d] = caller[d]
    BY <1>1, <2>1 DEF At
  <2>. QED
    BY <2>2, <2>3 DEF Live
<1>4. ASSUME NEW c \in Callers, Step(c) \/ Fault(c) PROVE made' = made /\ Goal
  <2>1. CASE Begun(c)
    BY <1>2, <2>1 DEF Begun, Live, At
  <2>2. CASE Rollback(c) \/ BeginFails(c)
    BY <1>2, <2>2 DEF Rollback, BeginFails
  <2>3. ASSUME NEW s, Running(c), Connect(c, s) PROVE made' = made /\ Goal
    BY <1>2, <2>3 DEF Connect, Live, Running
  <2>4. ASSUME NEW s, Running(c), ThrowByCode(c, s) \/ ThrowByServer(c, s) \/ StatementFails(c, s)
        PROVE  made' = made /\ Goal
    <3>1. made' = made /\ caller' = [caller EXCEPT ![c] = IF InTransaction(c) THEN Undoing ELSE Idle]
      BY <2>4 DEF ThrowByCode, ThrowByServer, StatementFails, Throw
    <3>. QED
      BY <1>2, <3>1
  <2>5. ASSUME NEW s, CommitFails(c, s) PROVE made' = made /\ Goal
    BY <1>2, <2>5 DEF CommitFails
  <2>6. ASSUME NEW seen, Running(c), Advance(c, seen) PROVE Goal
    <3>1. PICK v : caller' = [caller EXCEPT ![c] = v] /\ (v = Idle \/ v = At(caller[c].call, caller[c].pc + 1, seen))
      BY <1>1, <2>6 DEF Advance, Return
    <3>2. v = Idle \/ (Live(c) /\ v.call = caller[c].call)
      BY <2>6, <3>1 DEF Live, Running, At
    <3>. QED
      BY <1>2, <3>1, <3>2
  <2>7. ASSUME NEW s, Running(c), Run(c, s) PROVE made' = made /\ Goal
    <3>1. made' = made /\ \E seen : Advance(c, seen)
      BY <2>7, Zenon DEF Run
    <3>. QED
      BY <2>6, <2>7, <3>1
  <2>8. ASSUME NEW s, Running(c), CommitIt(c, s) PROVE made' = made /\ Goal
    <3>1. made' = made /\ Advance(c, caller[c].saw)
      BY <2>8 DEF CommitIt
    <3>. QED
      BY <2>6, <2>8, <3>1
  <2>9. ASSUME NEW s, FindsNone(c, s) PROVE made' = made /\ Goal
    BY <1>2, <2>9 DEF FindsNone, Return
  <2>. QED
    BY <1>4, <2>1, <2>2, <2>3, <2>4, <2>5, <2>7, <2>8, <2>9 DEF Step, Fault, Send
<1>5. ASSUME NEW cl \in Clients, Crash(cl) PROVE made' = made /\ Goal
  <2>1. made' = made /\ \A d \in Callers : caller'[d] \in {Idle, caller[d]}
    BY <1>5 DEF Crash
  <2>. QED
    BY <2>1 DEF Live, Idle
<1>6. CASE UNCHANGED vars
  BY <1>6 DEF vars, Live, Made
<1>7. made' = made => Made' = Made
  BY DEF Made
<1>. QED
  BY <1>3, <1>4, <1>5, <1>6, <1>7 DEF Next

\* What a call has promised holds when it returns.
LEMMA PlanRowPromised ==
  ASSUME NEW call, Offered(call), Promising(call), SavesPlan(call), NEW sent, NEW cleaned
  PROVE  PromisedRow(call, sent, SavedPlan(call), cleaned) /\ OwnRow(call) = PlanRow(call.id)
<1>1. call.op \in {"upsert", "replace"} /\ call.of = "schedule_plans"
  BY DEF SavesPlan
<1>. QED
  BY <1>1 DEF PromisedRow, OwnRow, PlanRow

LEMMA LastIsNoRead ==
  ASSUME NEW call, NEW saw, NEW seen, NEW n, NEW f, Offered(call), ~Transacts(call), Promising(call),
         n \in 1..Len(Program(call, saw)), Reads(Program(call, saw)[n]),
         Program(call, saw)[n].must => Selected(Program(call, saw)[n].where, f) # {},
         seen = Over([k \in Selected(Program(call, saw)[n].where, f) |-> f[k]], saw),
         ~(Len(Program(call, seen)) > n), NEW r, NEW cleaned
  PROVE  PromisedRow(call, n, r, cleaned)
<1>. DEFINE p == Program(call, saw)  own == OwnRow(call)
<1>1. PICK s : s = p[n]
  OBVIOUS
<1>0. PICK l : l = Len(Program(call, seen)) /\ ~(l > n)
  OBVIOUS
<1>2. /\ n \in 1..Len(p) /\ Reads(s) /\ (s.must => Selected(s.where, f) # {})
      /\ seen = Over([k \in Selected(s.where, f) |-> f[k]], saw)
  BY <1>1
<1>3. Form(call, saw, p) /\ Form(call, seen, Program(call, seen))
  BY Forms
<1>4. call.of \notin Loose /\ ~SavesPlan(call)
  BY TablesOfMethods DEF Transacts
<1>5. \A k, row, w : ~Reads(Put(k, row)) /\ ~Reads(Add(k, row)) /\ ~Reads(OrThrow(Drop(w))) /\ ~Reads(Drop(w))
                     /\ ~Reads(OrThrow(Change(k, row)))
  BY Statements DEF Reads
<1>. HIDE DEF own
<1>6. CASE call.op = "reserve"
  <2>1. p = <<Read(Is(own))>> \/ p = <<Read(Is(own)), Add(own, call.row)>>
    BY <1>3, <1>4, <1>6 DEF Form, own, Loose
  <2>2. n = 1
    BY <1>1, <1>2, <1>5, <2>1
  <2>. QED
    BY <1>4, <1>6, <2>2 DEF PromisedRow
<1>7. CASE call.op \in {"revoke", "use"}
  <2>1. \/ p = <<OrThrow(Read(Is(own)))>>
        \/ \E row : p = <<OrThrow(Read(Is(own))), Put(own, row)>>
    BY <1>3, <1>4, <1>7 DEF Form, own, Loose
  <2>2. n = 1 /\ s = OrThrow(Read(Is(own)))
    <3>1. CASE p = <<OrThrow(Read(Is(own)))>>
      BY <3>1, <1>1, <1>2
    <3>2. ASSUME NEW row, p = <<OrThrow(Read(Is(own))), Put(own, row)>> PROVE n = 1 /\ s = OrThrow(Read(Is(own)))
      BY <3>2, <1>1, <1>2, <1>5
    <3>. QED
      BY <2>1, <3>1, <3>2
  <2>3. s.must /\ s.where = Is(own)
    BY <2>2 DEF OrThrow, Read, Plain
  <2>4. Selected(s.where, f) = {own} /\ f[own] # NoRow
    BY <1>2, <2>3, SelectedBy
  <2>5. Saw(seen, own) # NoRow
    <3>1. seen = Over([k \in {own} |-> f[k]], saw)
      BY <1>2, <2>4
    <3>2. own \in DOMAIN seen /\ seen[own] = f[own]
      BY <3>1 DEF Over
    <3>. QED
      BY <2>4, <3>2 DEF Saw
  <2>6. \E row : Program(call, seen) = <<OrThrow(Read(Is(own))), Put(own, row)>>
    BY <1>3, <1>4, <1>7, <2>5 DEF Form, own, Loose
  <2>7. l = 2
    BY <1>0, <2>6
  <2>. QED
    BY <1>0, <2>2, <2>7
<1>8. CASE call.op \notin {"reserve", "revoke", "use"}
  <2>1. \E k, row, w : p = <<Put(k, row)>> \/ p = <<OrThrow(Drop(w))>> \/ p = <<Drop(w)>> \/ p = <<OrThrow(Change(k, row))>>
    BY <1>3, <1>4, <1>8, TablesOfMethods DEF Form, Loose
  <2>2. PICK k, row, w : p = <<Put(k, row)>> \/ p = <<OrThrow(Drop(w))>> \/ p = <<Drop(w)>> \/ p = <<OrThrow(Change(k, row))>>
    BY <2>1
  <2>. QED
    BY <1>1, <1>2, <1>5, <2>2
<1>. QED
  BY <1>6, <1>7, <1>8

LEMMA ReturnKeeps ==
  ASSUME PlansInv, NEW c \in Callers, Returns(c), Promising(caller[c].call), NEW cleaned
  PROVE  PromisedRow(caller[c].call, caller[c].pc, rows'[OwnRow(caller[c].call)], cleaned)
<1>1. PICK call, n, saw, s : call = caller[c].call /\ n = caller[c].pc /\ saw = caller[c].saw /\ s = Next1(c)
  OBVIOUS
<1>2. Disciplined /\ Running(c) /\ Keys \subseteq DOMAIN rows
  BY DEF PlansInv, Disciplined, Functions, Returns
<1>3. /\ Offered(call) /\ n \in 1..Len(Program(call, saw)) /\ s = Program(call, saw)[n]
      /\ (Open(c) <=> OpenAt(Program(call, saw), n))
  BY <1>1, <1>2, Executed
<1>4. Promising(call) /\ call.of \notin {"retention", "schema_migrations"}
  BY <1>1, <1>3, TablesOfMethods
<1>5. CASE Commits(c)
  <2>1. s = Commit
    BY <1>1, <1>5 DEF Commits
  <2>2. SavesPlan(call)
    <3>1. SUFFICES ASSUME ~SavesPlan(call) PROVE FALSE
      OBVIOUS
    <3>2. Short(call, Program(call, saw))
      BY <1>3, <1>4, <3>1, ShortPrograms DEF Transacts
    <3>3. Simple(call, s)
      BY <1>3, <3>2, ShortFacts
    <3>. QED
      BY <2>1, <3>3, SimpleIsNoBegin
  <2>3. Open(c)
    <3>1. SaveAt(Program(call, saw), n, call)
      BY <1>3, <2>2, PlanAt
    <3>2. Begin # Commit
      BY DEF Begin, Commit, Plain
    <3>. QED
      BY <1>3, <2>1, <3>1, <3>2 DEF SaveAt
  <2>4. Stored(c)
    BY <1>1, <1>4, <1>5, <2>3, CommitMoves DEF Swept
  <2>. QED
    BY <1>1, <1>3, <1>4, <2>2, <2>4, PlanRowPromised DEF Stored
<1>6. CASE ~Commits(c)
  <2>1. ~Open(c)
    BY <1>6 DEF Returns
  <2>2. PICK view, w, seen :
          Executes(c, view, w, seen) /\ rows' = Over(w, rows) /\ ~(Len(Program(call, seen)) > n)
    BY <1>1, <1>6 DEF Returns
  <2>3. PICK f, g : f = rows /\ g = rows'
    OBVIOUS
  <2>4. Reads(s) \/ Wrote(call, saw, n, f, g)
    BY <1>1, <1>2, <1>4, <2>1, <2>2, <2>3, AloneWrote
  <2>5. CASE Wrote(call, saw, n, f, g)
    BY <1>1, <1>2, <1>4, <2>3, <2>5, OwnOutcome
  <2>6. CASE Reads(s)
    <3>1. view = f /\ (s.must => Selected(s.where, f) # {}) /\ s \notin {Begin, Commit}
      BY <1>1, <2>1, <2>2, <2>3 DEF Executes, ByCode, Sends
    <3>2. seen = Over([k \in Selected(s.where, f) |-> f[k]], saw)
      BY <1>1, <2>2, <2>6, <3>1 DEF Executes, Reads
    <3>3. ~SavesPlan(call)
      BY <1>3, <2>1, <3>1, PlanAt DEF SaveAt
    <3>. QED
      BY <1>1, <1>3, <1>4, <2>2, <2>6, <3>1, <3>2, <3>3, LastIsNoRead DEF Transacts
  <2>. QED
    BY <2>4, <2>5, <2>6
<1>. QED
  BY <1>5, <1>6

\* The invariant: a call in flight was made, and a call that returned and has no
\* rival finds its row as promised.  A completed key may be gone if a clean-up was made.
Cleaned == \E other \in Made : other.of = "retention" /\ ~other.dryRun
CallKept(a) ==
  /\ Offered(a.call)
  /\ Promising(a.call) /\ ~Rival(a.call) => PromisedRow(a.call, a.sent, rows[OwnRow(a.call)], Cleaned)
KeptInv ==
  /\ PlansInv
  /\ \A c \in Callers : Live(c) => caller[c].call \in Made
  /\ \A a \in answered : CallKept(a)

LEMMA RivalsMade ==
  ASSUME NEW call, ~Rival(call), NEW other \in Made
  PROVE  /\ ~Undoes(call, other)
         /\ ~(Cleaned /\ call.op = "complete" /\ other.op = "reserve" /\ other.id = call.id)
BY DEF Rival, Undoes, Cleaned

LEMMA MoreMade ==
  ASSUME Made \subseteq Made', NEW call
  PROVE  (Rival(call) => Rival(call)') /\ (Cleaned => Cleaned')
BY DEF Rival, Cleaned

LEMMA CleanedMore ==
  ASSUME NEW call, NEW sent, NEW r, NEW one, NEW two, PromisedRow(call, sent, r, one), one => two
  PROVE  PromisedRow(call, sent, r, two)
BY DEF PromisedRow

\* The clean-up deletes no row that was promised, except of a completed key.
LEMMA SweptOutcome ==
  ASSUME NEW call, Offered(call), Promising(call), NEW sent, NEW r, PromisedRow(call, sent, r, TRUE), r.old
  PROVE  PromisedRow(call, sent, NoRow, TRUE)
<1>1. CASE call.op \in {"reserve", "upsert", "replace", "put", "append"}
  <2>1. ~call.row.old
    BY <1>1 DEF Promising
  <2>2. CASE SavesPlan(call)
    <3>1. call.row = [blocks |-> call.row.blocks, old |-> call.row.old]
      BY <2>2, SavedPlanKey
    <3>2. SavedPlan(call).old = call.row.old
      BY <3>1 DEF SavedPlan
    <3>. QED
      BY <2>1, <2>2, <3>2 DEF PromisedRow
  <2>3. CASE ~SavesPlan(call)
    BY <1>1, <2>1, <2>3, TablesOfMethods DEF PromisedRow
  <2>. QED
    BY <2>2, <2>3
<1>2. CASE call.op \notin {"reserve", "upsert", "replace", "put", "append"}
  BY <1>2 DEF PromisedRow, SavesPlan
<1>. QED
  BY <1>1, <1>2

LEMMA MoveKeeps ==
  ASSUME PlansInv, \A d \in Callers : Live(d) => caller[d].call \in Made, NEW c \in Callers, Moves(c),
         NEW call, Offered(call), Promising(call), ~Rival(call), NEW sent,
         PromisedRow(call, sent, rows[OwnRow(call)], Cleaned), rows'[OwnRow(call)] # rows[OwnRow(call)]
  PROVE  PromisedRow(call, sent, rows'[OwnRow(call)], Cleaned)
<1>1. PICK other, n, saw, f, g, own, cleaned :
        /\ other = caller[c].call /\ n = caller[c].pc /\ saw = caller[c].saw
        /\ f = rows /\ g = rows' /\ own = OwnRow(call) /\ cleaned = Cleaned
  OBVIOUS
<1>2. other \in Made /\ Keys \subseteq DOMAIN f /\ Offered(other)
  BY <1>1, Executed DEF Moves, Live, Running, PlansInv, Disciplined, Functions
<1>3. own \in Keys \ BlockKeys
  <2>1. own \in Keys /\ own[1] = call.of /\ call.of # "time_blocks"
    BY <1>1, TablesOfMethods DEF Offered, OwnRow, Loose
  <2>. QED
    BY <2>1, KeyTables
<1>4. ~Undoes(call, other) /\ ~(cleaned /\ call.op = "complete" /\ other.op = "reserve" /\ other.id = call.id)
  BY <1>1, <1>2, RivalsMade
<1>5. SUFFICES PromisedRow(call, sent, g[own], cleaned)
  BY <1>1
<1>6. PromisedRow(call, sent, f[own], cleaned) /\ g[own] # f[own]
  BY <1>1
<1>7. CASE Stored(c)
  <2>1. SavesPlan(other) /\ own = PlanRow(other.id) /\ g[own] = SavedPlan(other)
    BY <1>1, <1>3, <1>6, <1>7 DEF Stored
  <2>2. other.of = call.of /\ other.id = call.id
    BY <1>1, <2>1 DEF OwnRow, PlanRow, SavesPlan
  <2>3. other = call
    BY <1>4, <2>1, <2>2 DEF Undoes, SavesPlan
  <2>. QED
    BY <2>1, <2>3, PlanRowPromised
<1>8. CASE Swept(c)
  <2>1. f[own].old /\ g[own] = NoRow /\ cleaned
    BY <1>1, <1>2, <1>3, <1>6, <1>8 DEF Swept, Cleaned
  <2>2. PromisedRow(call, sent, f[own], TRUE)
    BY <1>6, CleanedMore
  <2>3. PromisedRow(call, sent, NoRow, TRUE)
    BY <2>1, <2>2, SweptOutcome
  <2>. QED
    BY <2>1, <2>3, CleanedMore
<1>9. CASE Wrote(other, saw, n, f, g)
  <2>1. CASE other = call
    BY <1>1, <1>2, <1>9, <2>1, OwnOutcome
  <2>2. CASE other # call
    BY <1>1, <1>2, <1>4, <1>6, <1>9, <2>2, OtherOutcome
  <2>. QED
    BY <2>1, <2>2
<1>. QED
  BY <1>1, <1>7, <1>8, <1>9 DEF Moves

LEMMA KeptInvStep ==
  ASSUME OneClientEach, KeptInv, [Next]_vars
  PROVE  KeptInv'
<1>1. PlansInv /\ PlansInv' /\ Disciplined /\ Effect
  BY PlansInvStep, StepEffect DEF KeptInv, PlansInv
<1>2. Made \subseteq Made' /\ \A c \in Callers : Live(c)' => caller'[c].call \in Made'
  BY <1>1, CallsMade DEF KeptInv
<1>3. ASSUME NEW a \in answered PROVE CallKept(a)'
  <2>1. PICK call, sent : call = a.call /\ sent = a.sent
    OBVIOUS
  <2>2. Offered(call)
    BY <1>3, <2>1 DEF KeptInv, CallKept
  <2>3. SUFFICES ASSUME Promising(call), ~Rival(call)' PROVE PromisedRow(call, sent, rows'[OwnRow(call)], Cleaned')
    BY <2>1, <2>2 DEF CallKept
  <2>4. ~Rival(call) /\ (Cleaned => Cleaned')
    BY <1>2, <2>3, MoreMade
  <2>5. PromisedRow(call, sent, rows[OwnRow(call)], Cleaned)
    BY <1>3, <2>1, <2>3, <2>4 DEF KeptInv, CallKept
  <2>6. PromisedRow(call, sent, rows'[OwnRow(call)], Cleaned)
    <3>1. CASE rows'[OwnRow(call)] = rows[OwnRow(call)]
      BY <2>5, <3>1
    <3>2. CASE rows'[OwnRow(call)] # rows[OwnRow(call)]
      <4>1. OwnRow(call) \in Others
        <5>1. call.of \notin {"time_blocks"}
          BY <2>2, <2>3, TablesOfMethods DEF Loose
        <5>2. call.of \in DOMAIN Methods \ {"retention", "schema_migrations"} /\ OwnRow(call) \in Keys
          BY <2>2, <2>3, TablesOfMethods DEF Offered, OwnRow
        <5>3. call.of # "ddl"
          BY <5>2 DEF Methods
        <5>. QED
          BY <5>1, <5>2, <5>3, KeyTables DEF Others, MigrationRows, OwnRow
      <4>2. PICK c \in Callers : Moves(c)
        BY <1>1, <3>2, <4>1, RowsMove
      <4>. QED
        BY <1>1, <2>2, <2>3, <2>4, <2>5, <3>2, <4>2, MoveKeeps DEF KeptInv
    <3>. QED
      BY <3>1, <3>2
  <2>. QED
    BY <2>4, <2>6, CleanedMore
<1>4. ASSUME NEW a \in answered', a \notin answered PROVE CallKept(a)'
  <2>1. PICK c \in Callers : Returns(c) \/ Idles(c)
    BY <1>1, <1>4, StepReturns
  <2>2. a.call = caller[c].call /\ a.sent = caller[c].pc /\ Running(c)
    BY <1>4, <2>1 DEF Returns, Idles
  <2>3. PICK call, sent : call = a.call /\ sent = a.sent
    OBVIOUS
  <2>4. Offered(call)
    BY <1>1, <2>2, <2>3, Executed
  <2>5. CASE Idles(c)
    <3>1. call.of = "time_blocks"
      BY <2>2, <2>3, <2>5 DEF Idles
    <3>2. ~Promising(call)
      BY <2>4, <3>1 DEF Promising, Offered, Methods
    <3>. QED
      BY <2>3, <2>4, <3>2 DEF CallKept
  <2>6. Returns(c) => (Promising(call) => PromisedRow(call, sent, rows'[OwnRow(call)], Cleaned'))
    BY <1>1, <2>2, <2>3, ReturnKeeps
  <2>. QED
    BY <2>1, <2>3, <2>4, <2>5, <2>6 DEF CallKept
<1>. QED
  BY <1>1, <1>2, <1>3, <1>4 DEF KeptInv

LEMMA KeptInvInit == Init => KeptInv
BY PlansInvInit DEF Init, KeptInv, Live, Idle

LEMMA PromiseKept ==
  ASSUME NEW a, Offered(a.call), Promising(a.call), PromisedRow(a.call, a.sent, rows[OwnRow(a.call)], Cleaned)
  PROVE  Kept(a)
<1>1. PICK call, sent, r, cleaned : call = a.call /\ sent = a.sent /\ r = rows[OwnRow(a.call)] /\ cleaned = Cleaned
  OBVIOUS
<1>2. PromisedRow(call, sent, r, cleaned) /\ Offered(call) /\ Promising(call) /\ r = rows[<<call.of, call.id>>]
  BY <1>1 DEF OwnRow
<1>9. call.op \in {"reserve", "complete", "revoke", "use", "delete", "clear"} => call.of # "schedule_plans"
  BY <1>2, TablesOfMethods
<1>3. CASE call.op = "reserve"
  BY <1>1, <1>2, <1>9, <1>3, NoRowHasNoFields DEF PromisedRow, Kept
<1>4. CASE call.op = "complete"
  BY <1>1, <1>2, <1>9, <1>4 DEF PromisedRow, Kept
<1>5. CASE call.op \in {"revoke", "use"}
  BY <1>1, <1>2, <1>9, <1>5 DEF PromisedRow, Kept
<1>6. CASE call.op \in {"delete", "clear"}
  BY <1>1, <1>2, <1>9, <1>6 DEF PromisedRow, Kept
<1>7. CASE SavesPlan(call)
  <2>1. call.row = [blocks |-> call.row.blocks, old |-> call.row.old]
    BY <1>2, <1>7, SavedPlanKey
  <2>2. SavedPlan(call) = [blocks |-> {call.row.blocks[i] : i \in DOMAIN call.row.blocks}, old |-> call.row.old]
    BY <2>1 DEF SavedPlan
  <2>3. r = SavedPlan(call)
    BY <1>2, <1>7 DEF PromisedRow
  <2>4. "blocks" \in DOMAIN r /\ r.blocks = {call.row.blocks[i] : i \in DOMAIN call.row.blocks}
    BY <2>2, <2>3
  <2>5. r # NoRow
    BY <2>4, NoRowHasNoFields
  <2>. QED
    BY <1>1, <1>2, <1>7, <2>4, <2>5 DEF Kept, SavesPlan
<1>8. CASE call.op \in {"upsert", "put", "append"} /\ ~SavesPlan(call)
  <2>1. call.of # "schedule_plans"
    BY <1>2, <1>8 DEF SavesPlan, Offered, Methods
  <2>. QED
    BY <1>1, <1>2, <1>8, <2>1 DEF PromisedRow, Kept
<1>. QED
  BY <1>2, <1>3, <1>4, <1>5, <1>6, <1>7, <1>8, TablesOfMethods

\* What a call that returned has saved stays until a rival call is made or the row
\* is old: it is never part of another caller's transaction, the clean-up spares it,
\* and of two that reserve a key only one inserts it.
THEOREM AcknowledgedKeptHolds ==
  ASSUME OneClientEach
  PROVE  Spec => []AcknowledgedKept
<1>1. Init => KeptInv
  BY KeptInvInit
<1>2. KeptInv /\ [Next]_vars => KeptInv'
  BY KeptInvStep
<1>3. KeptInv => AcknowledgedKept
  BY PromiseKept DEF KeptInv, CallKept, AcknowledgedKept
<1>. QED
  BY <1>1, <1>2, <1>3, PTL DEF Spec
==============================================================================
