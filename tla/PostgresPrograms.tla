--------------------------- MODULE PostgresPrograms ---------------------------
(***************************************************************************)
(* The statements that each method of src/postgres-repositories.ts, the    *)
(* retention clean-up and the migration runner of src/postgres.ts send, in *)
(* order.  A call is a table, a method of its repository and arguments.    *)
(* What a later statement contains may depend on `saw', the rows the call  *)
(* has read so far.                                                        *)
(*                                                                         *)
(* A row is named by its table and its id, in one scope.  A row that       *)
(* the code neither reads before writing nor relates to another is a value *)
(* and whether the retention policy calls it old.                          *)
(***************************************************************************)
EXTENDS Naturals, Sequences, FiniteSets

CONSTANTS Keys,          \* the rows the instance may hold, <<table, id>>
          Versions,      \* the versions of the migration files, in order
          ThrottleLimit  \* what one window of a throttle admits

\* A row is named by its table and its id.  The versions of the files are
\* positive, distinct and in order (sortAndValidatePostgresMigrations).
ASSUME KeysAssumption == \A k \in Keys : k = <<k[1], k[2]>>
ASSUME VersionsAssumption ==
    /\ Versions \in Seq(Nat \ {0})
    /\ \A i, j \in DOMAIN Versions : i < j => Versions[i] < Versions[j]
    /\ \A i \in DOMAIN Versions :
          {<<"schema_migrations", Versions[i]>>, <<"ddl", Versions[i]>>} \subseteq Keys

NoRow == [absent |-> TRUE]

\* f where it is defined, g elsewhere (the provers do not know TLC's @@).
Over(f, g) == IF DOMAIN f = {} THEN g ELSE [x \in DOMAIN f \cup DOMAIN g |-> IF x \in DOMAIN f THEN f[x] ELSE g[x]]

In(table) == {k \in Keys : k[1] = table}
Saw(saw, k) == IF k \in DOMAIN saw THEN saw[k] ELSE NoRow

-----------------------------------------------------------------------------
\* WHERE clauses, and the present rows of `view' that they select.

Is(k)          == [by |-> "key", key |-> k]
Every(table)   == [by |-> "table", table |-> table]
Old(table)     == [by |-> "age", table |-> table]
OfPlan(p)      == [by |-> "plan", plan |-> p]
OfOldPlans     == [by |-> "old plans"]
Listed(ks)     == [by |-> "list", keys |-> ks]

PlanKeys == In("schedule_plans")
BlockKeys == In("time_blocks")
BlocksOf(p, view) == {k \in BlockKeys : view[k] # NoRow /\ view[k].plan = p}
OldRows(table, view) == {k \in In(table) : view[k] # NoRow /\ view[k].old}
Selected(where, view) ==
    CASE where.by = "key"       -> {k \in {where.key} : view[k] # NoRow}
      [] where.by = "list"      -> {k \in where.keys : view[k] # NoRow}
      [] where.by = "table"     -> {k \in In(where.table) : view[k] # NoRow}
      [] where.by = "age"       -> OldRows(where.table, view)
      [] where.by = "plan"      -> BlocksOf(where.plan, view)
      [] where.by = "old plans" -> UNION {BlocksOf(k[2], view) : k \in OldRows("schedule_plans", view)}

-----------------------------------------------------------------------------
\* Statements.  One that `must' select a row makes the method throw otherwise.
\* An update sets the columns of `row' and keeps the others.

Plain(verb)  == [verb |-> verb, where |-> Listed({}), row |-> NoRow, must |-> FALSE]
Begin        == Plain("BEGIN")
Commit       == Plain("COMMIT")
Refusal      == Plain("throw")
Put(k, r)    == [Plain("upsert") EXCEPT !.where = Is(k), !.row = r]
Add(k, r)    == [Plain("insert") EXCEPT !.where = Is(k), !.row = r]
Change(k, r) == [Plain("update") EXCEPT !.where = Is(k), !.row = r]
Drop(where)  == [Plain("delete") EXCEPT !.where = where]
Read(where)  == [Plain("select") EXCEPT !.where = where]
OrThrow(s)   == [s EXCEPT !.must = TRUE]

-----------------------------------------------------------------------------
\* Repositories of single rows.

Upsert(table, call) == <<Put(<<table, call.id>>, call.row)>>
GetOne(table, call) == <<OrThrow(Read(Is(<<table, call.id>>)))>>
List(table)         == <<Read(Every(table))>>

TaskRepository(call) ==
    CASE call.op = "upsert" -> Upsert("tasks", call)
      [] call.op = "get"    -> GetOne("tasks", call)
      [] call.op = "list"   -> List("tasks")
      [] call.op = "delete" -> <<OrThrow(Drop(Is(<<"tasks", call.id>>)))>>

CalendarEventRepository(call) ==
    CASE call.op = "upsert" -> Upsert("calendar_events", call)
      [] call.op = "get"    -> GetOne("calendar_events", call)
      [] call.op = "listForSchedule" -> List("calendar_events")
      [] call.op = "delete" -> <<OrThrow(Drop(Is(<<"calendar_events", call.id>>)))>>

WorkingHoursRepository(call) ==
    IF call.op = "put" THEN Upsert("working_hours", call) ELSE List("working_hours")

AuditEventRepository(call) ==
    IF call.op = "append" THEN Upsert("audit_events", call) ELSE List("audit_events")

IntegrationStateRepository(call) ==
    CASE call.op = "upsert" -> Upsert("integration_states", call)
      [] call.op = "get"    -> GetOne("integration_states", call)
      [] call.op = "list"   -> List("integration_states")

UserRepository(call) ==
    IF call.op = "upsert" THEN Upsert("users", call) ELSE GetOne("users", call)

MembershipRepository(call) ==
    CASE call.op = "upsert" -> Upsert("memberships", call)
      [] call.op = "get"    -> GetOne("memberships", call)
      [] call.op = "list"   -> List("memberships")

\* A session is revoked, and a token used, by reading it and saving what was
\* read with the mark.
Marked(table, call, saw, mark) ==
    LET k == <<table, call.id>>
    IN  GetOne(table, call) \o
        IF Saw(saw, k) = NoRow THEN <<>> ELSE <<Put(k, Over([v |-> mark], saw[k]))>>

SessionRepository(call, saw) ==
    CASE call.op = "upsert" -> Upsert("auth_sessions", call)
      [] call.op = "get"    -> GetOne("auth_sessions", call)
      [] call.op = "list"   -> List("auth_sessions")
      [] call.op = "revoke" -> Marked("auth_sessions", call, saw, "revoked")

PasswordResetTokenRepository(call, saw) ==
    CASE call.op = "upsert" -> Upsert("auth_password_reset_tokens", call)
      [] call.op = "get"    -> GetOne("auth_password_reset_tokens", call)
      [] call.op = "list"   -> List("auth_password_reset_tokens")
      [] call.op = "use"    -> Marked("auth_password_reset_tokens", call, saw, "used")

LoginAttemptRepository(call) ==
    CASE call.op = "upsert" -> Upsert("auth_login_attempt_windows", call)
      [] call.op = "get"    -> List("auth_login_attempt_windows")
      [] call.op = "clear"  -> <<Drop(Every("auth_login_attempt_windows"))>>

\* A throttle is read, counted by the caller and saved.  An old window has ended.
Consumed(k, call, saw) ==
    IF Saw(saw, k) = NoRow \/ saw[k].old THEN call.count ELSE saw[k].v + call.count
ImportThrottleRepository(call, saw) ==
    LET k == <<"import_throttles", call.id>>
    IN  <<Read(Is(k))>> \o
        IF Consumed(k, call, saw) > ThrottleLimit THEN <<>>
        ELSE <<Put(k, [v |-> Consumed(k, call, saw), old |-> FALSE])>>
RequestThrottleRepository(call, saw) ==
    LET k == <<"request_throttles", call.id>>
    IN  IF call.op = "list" THEN List("request_throttles")
        ELSE <<Read(Is(k))>> \o
             IF Consumed(k, call, saw) > ThrottleLimit THEN <<>>
             ELSE <<Put(k, [v |-> Consumed(k, call, saw), old |-> FALSE])>>

\* reserve() answers with the record it finds, or inserts its own;
\* complete() merges its fields into the record that the row holds by then.
\* A bug for the mutants: the insert gives way to a record that came in between.
ReserveOverwriting(call, saw) ==
    LET k == <<"idempotency_keys", call.id>>
    IN  <<Read(Is(k))>> \o IF Saw(saw, k) # NoRow THEN <<>> ELSE <<Put(k, call.row)>>
Reserve(call, saw) ==
    LET k == <<"idempotency_keys", call.id>>
    IN  <<Read(Is(k))>> \o IF Saw(saw, k) # NoRow THEN <<>> ELSE <<Add(k, call.row)>>
IdempotencyRepository(call, saw) ==
    LET k == <<"idempotency_keys", call.id>>
    IN  CASE call.op = "reserve"  -> Reserve(call, saw)
          [] call.op = "get"      -> <<Read(Is(k))>>
          [] call.op = "complete" ->
                <<OrThrow(Change(k, [status |-> "done"]))>>

-----------------------------------------------------------------------------
\* Plans and their blocks.

\* The columns of a block and the copy of it in `data'.
NewBlock(p) == [plan |-> p, time |-> "planned", status |-> "PROPOSED",
                data |-> [time |-> "planned", status |-> "PROPOSED"]]

InsertBlock(p, b) == IF b = "foreign" THEN Refusal ELSE Add(<<"time_blocks", b>>, NewBlock(p))

\* Bugs for the mutants: no transaction; the blocks are cleared after they
\* were inserted.
UpsertSchedulePlanInPieces(call) ==
    <<Put(<<"schedule_plans", call.id>>,
          [call.row EXCEPT !.blocks = {@[i] : i \in DOMAIN @}]),
      Drop(OfPlan(call.id))>>
    \o [i \in DOMAIN call.row.blocks |-> InsertBlock(call.id, call.row.blocks[i])]
UpsertSchedulePlan(call) ==
    <<Begin,
      Put(<<"schedule_plans", call.id>>,
          [call.row EXCEPT !.blocks = {@[i] : i \in DOMAIN @}]),
      Drop(OfPlan(call.id))>>
    \o [i \in DOMAIN call.row.blocks |-> InsertBlock(call.id, call.row.blocks[i])]
    \o <<Commit>>

GetSchedulePlan(call) == GetOne("schedule_plans", call) \o <<Read(OfPlan(call.id))>>

SchedulePlanRepository(call) ==
    CASE call.op \in {"upsert", "replace"} -> UpsertSchedulePlan(call)
      [] call.op = "get"  -> GetSchedulePlan(call)
      [] call.op = "list" -> List("schedule_plans")

\* An update writes the columns it is about, and a copy of the block as it was
\* read before.
BlockColumns(call) ==
    IF call.op = "updateTime" THEN [time |-> call.time] ELSE [status |-> call.status]
TimeBlockRepository(call, saw) ==
    LET k    == <<"time_blocks", call.id>>
        read == GetOne("time_blocks", call)
    IN  IF call.op = "get" \/ Saw(saw, k) = NoRow THEN read
        ELSE read \o <<Change(k, Over(BlockColumns(call), [data |-> Over(BlockColumns(call), saw[k].data)]))>>

-----------------------------------------------------------------------------
\* Clean-up: eight counts, and unless it is a dry run one transaction that
\* deletes what is old by then.

CountedTables == <<"schedule_plans", "idempotency_keys", "auth_sessions",
                   "auth_password_reset_tokens", "auth_login_attempt_windows",
                   "import_throttles", "integration_states", "audit_events">>

Counts == [i \in DOMAIN CountedTables |-> Read(Old(CountedTables[i]))]

\* A bug for the mutants: it deletes the plans it counted.
DeleteExpiredCounted(saw) ==
    LET counted == {k \in DOMAIN saw : k[1] = "schedule_plans"}
    IN  <<Drop(Listed(counted))>>
DeleteExpiredPostgresSchedulePlans(saw) ==
    <<Drop(OfOldPlans), Drop(Old("schedule_plans"))>>

CleanupPostgresRetention(call, saw) ==
    Counts \o
    IF call.dryRun THEN <<>>
    ELSE <<Begin>> \o DeleteExpiredPostgresSchedulePlans(saw)
         \o [i \in 1..6 |-> Drop(Old(CountedTables[i + 1]))] \o <<Commit>>

-----------------------------------------------------------------------------
\* Migrations: the versions the table lacks, each in a transaction with the
\* row that records it.

Ddl(v)     == [Plain("ddl") EXCEPT !.where = Is(<<"ddl", v>>)]
Applied(v) == Add(<<"schema_migrations", v>>, [v |-> v])

\* A bug for the mutants: the version is recorded before the transaction.
ApplyPostgresMigrationRecordedFirst(v) == <<Applied(v), Begin, Ddl(v), Commit>>
ApplyPostgresMigration(v) == <<Begin, Ddl(v), Applied(v), Commit>>

Missing(saw) ==
    LET among[i \in 0..Len(Versions)] ==
            IF i = 0 THEN <<>>
            ELSE IF Saw(saw, <<"schema_migrations", Versions[i]>>) = NoRow
                 THEN Append(among[i - 1], Versions[i]) ELSE among[i - 1]
    IN  among[Len(Versions)]

RunPostgresMigrations(saw) ==
    LET missing == Missing(saw)
    IN  <<Plain("create schema_migrations"), Read(Every("schema_migrations"))>> \o
        [n \in 1..4 * Len(missing) |->
            ApplyPostgresMigration(missing[1 + ((n - 1) \div 4)])[1 + ((n - 1) % 4)]]

-----------------------------------------------------------------------------
Program(call, saw) ==
    CASE call.of = "tasks"                       -> TaskRepository(call)
      [] call.of = "calendar_events"             -> CalendarEventRepository(call)
      [] call.of = "working_hours"               -> WorkingHoursRepository(call)
      [] call.of = "schedule_plans"              -> SchedulePlanRepository(call)
      [] call.of = "time_blocks"                 -> TimeBlockRepository(call, saw)
      [] call.of = "audit_events"                -> AuditEventRepository(call)
      [] call.of = "idempotency_keys"            -> IdempotencyRepository(call, saw)
      [] call.of = "integration_states"          -> IntegrationStateRepository(call)
      [] call.of = "import_throttles"            -> ImportThrottleRepository(call, saw)
      [] call.of = "request_throttles"           -> RequestThrottleRepository(call, saw)
      [] call.of = "users"                       -> UserRepository(call)
      [] call.of = "memberships"                 -> MembershipRepository(call)
      [] call.of = "auth_sessions"               -> SessionRepository(call, saw)
      [] call.of = "auth_password_reset_tokens"  -> PasswordResetTokenRepository(call, saw)
      [] call.of = "auth_login_attempt_windows"  -> LoginAttemptRepository(call)
      [] call.of = "retention"                   -> CleanupPostgresRetention(call, saw)
      [] call.of = "schema_migrations"           -> RunPostgresMigrations(saw)

\* The methods of each repository, and what their arguments are.
Methods ==
    [tasks                      |-> {"upsert", "get", "list", "delete"},
     calendar_events            |-> {"upsert", "get", "listForSchedule", "delete"},
     working_hours              |-> {"put", "list"},
     schedule_plans             |-> {"upsert", "replace", "get", "list"},
     time_blocks                |-> {"get", "updateTime", "updateStatus"},
     audit_events               |-> {"append", "list"},
     idempotency_keys           |-> {"reserve", "get", "complete"},
     integration_states         |-> {"upsert", "get", "list"},
     import_throttles           |-> {"consume"},
     request_throttles          |-> {"consume", "list"},
     users                      |-> {"upsert", "get"},
     memberships                |-> {"upsert", "get", "list"},
     auth_sessions              |-> {"upsert", "get", "list", "revoke"},
     auth_password_reset_tokens |-> {"upsert", "get", "list", "use"},
     auth_login_attempt_windows |-> {"upsert", "get", "clear"},
     retention                  |-> {"cleanup"},
     schema_migrations          |-> {"migrate"}]

SavesPlan(call) == call.of = "schedule_plans" /\ call.op \in {"upsert", "replace"}

Offered(call) ==
    /\ call.of \in DOMAIN Methods
    /\ call.op \in Methods[call.of]
    /\ call.of = "retention" => call.dryRun \in BOOLEAN
    /\ call.of \notin {"retention", "schema_migrations"} => <<call.of, call.id>> \in Keys
    /\ call.op = "reserve" => {"hash", "status", "old"} \subseteq DOMAIN call.row
    /\ SavesPlan(call) =>
          call.row \in [blocks : Seq({k[2] : k \in BlockKeys} \cup {"foreign"}), old : BOOLEAN]
=============================================================================
