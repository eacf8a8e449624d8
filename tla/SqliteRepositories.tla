-------------------------- MODULE SqliteRepositories --------------------------
(***************************************************************************)
(* What the repository methods, the clean-up, the deletion of a workspace  *)
(* and the migrations of src/sqlite.ts make of the content of a database.  *)
(* Each of them is synchronous, on one connection, and changes rows in one *)
(* statement or in one transaction.                                        *)
(*                                                                         *)
(* A database is its applied migrations and its rows; a row is named by    *)
(* its table, its scope and its id.  Of a row the model keeps a value, the *)
(* day `due' from which its retention counts unless it was `closed'        *)
(* (revoked, used, locked until) on another day, the `status' that exempts *)
(* it, and the `token' that no other row of the table may have.            *)
(***************************************************************************)
EXTENDS Integers, FiniteSets

CONSTANTS RowNames,  \* the rows the instance may hold, <<table, scope, id>>
          Versions   \* the versions of the schema's migrations

ASSUME NamesAssumption == \A k \in RowNames : k = <<k[1], k[2], k[3]>>

System == "system"
Absent == [absent |-> TRUE]
None   == "none"
Never  == -1

Present(db, k) == db.rows[k] # Absent
In(db, table, scope) == {k \in RowNames : k[1] = table /\ k[2] = scope /\ Present(db, k)}
Set(db, k, row)  == [db EXCEPT !.rows = [@ EXCEPT ![k] = row]]
Erase(db, names) == [db EXCEPT !.rows = [k \in RowNames |-> IF k \in names THEN Absent ELSE @[k]]]

\* applyMigrations, which every command and the repositories run first.
\* A row of a table that the migration creates is absent until then.
ApplyMigrations(db) == [db EXCEPT !.versions = Versions]

-----------------------------------------------------------------------------
\* A call names its table, its operation, its actor, a scope, an id and what
\* it brings.  It is refused, or done with a new content.

NotDone(db) == [ok |-> FALSE, db |-> db]
Done(db)    == [ok |-> TRUE, db |-> db]
Key(call)   == <<call.table, call.scope, call.id>>
CanAccess(actor, scope) == actor \in {System, scope}

Put(db, call)    == Done(Set(db, Key(call), call.row))
Find(db, call)   == IF Present(db, Key(call)) THEN Done(db) ELSE NotDone(db)
Delete(db, call) == IF Present(db, Key(call)) THEN Done(Erase(db, {Key(call)})) ELSE NotDone(db)
\* ON CONFLICT that leaves some columns as they were inserted.
PutKeeping(db, call, columns) ==
    LET old == db.rows[Key(call)]
    IN  Done(Set(db, Key(call),
                 IF old = Absent THEN call.row
                 ELSE [c \in DOMAIN call.row |-> IF c \in columns THEN old[c] ELSE call.row[c]]))
\* A column that a unique index covers.
Taken(db, call) ==
    \E k \in RowNames \ {Key(call)} : k[1] = call.table /\ Present(db, k)
                                      /\ db.rows[k].token = call.row.token
PutUnique(db, call) == IF Taken(db, call) THEN NotDone(db) ELSE Put(db, call)

Tasks(db, call) ==
    CASE call.op = "upsert" -> Put(db, call)
      [] call.op = "get"    -> Find(db, call)
      [] call.op = "list"   -> Done(db)
      [] call.op = "delete" -> Delete(db, call)
CalendarEvents(db, call) == Tasks(db, call)
WorkingHours(db, call) == IF call.op = "put" THEN Put(db, call) ELSE Done(db)
AuditEvents(db, call) ==
    IF call.op = "append" THEN PutKeeping(db, call, {"due"}) ELSE Done(db)
IntegrationStates(db, call) ==
    CASE call.op = "upsert" -> Put(db, call)
      [] call.op = "get"    -> Find(db, call)
      [] call.op = "list"   -> Done(db)

\* Looked up, then inserted, on the one connection of the application.
Idempotency(db, call) ==
    CASE call.op = "reserve"  -> IF Present(db, Key(call)) THEN Done(db) ELSE Put(db, call)
      [] call.op = "get"      -> Done(db)
      [] call.op = "complete" ->
             IF Present(db, Key(call)) THEN PutKeeping(db, call, {"due"}) ELSE NotDone(db)

\* A throttle's row counts what its window admitted; `window' and `limit' are
\* those of the caller, and `now' is its time.
Consume(db, call) ==
    LET old == db.rows[Key(call)]
        counted == IF old # Absent /\ call.now - old.start < call.window THEN old.value ELSE 0
        start == IF old # Absent /\ call.now - old.start < call.window THEN old.start ELSE call.now
    IN  IF call.count < 0 \/ call.limit <= 0 \/ call.window <= 0 THEN NotDone(db)
        ELSE IF counted + call.count > call.limit THEN Done(db)
        ELSE Done(Set(db, Key(call), [call.row EXCEPT !.value = counted + call.count,
                                                      !.start = start, !.due = call.now]))

Users(db, call)       == IF call.op = "upsert" THEN PutUnique(db, call) ELSE Find(db, call)
Memberships(db, call) == IF call.op = "upsert" THEN Put(db, call) ELSE Find(db, call)
\* revokeSession and markPasswordResetTokenUsed: read by id, then upserted.
Close(db, call) ==
    IF Present(db, Key(call)) THEN Done(Set(db, Key(call), [db.rows[Key(call)] EXCEPT !.closed = call.now]))
    ELSE NotDone(db)
Sessions(db, call) ==
    CASE call.op = "upsert" -> PutUnique(db, call)
      [] call.op = "revoke" -> Close(db, call)
      [] call.op = "get"    -> Find(db, call)
PasswordResetTokens(db, call) ==
    CASE call.op = "upsert" -> PutUnique(db, call)
      [] call.op = "use"    -> Close(db, call)
      [] call.op = "get"    -> Find(db, call)
LoginAttemptWindows(db, call) ==
    CASE call.op = "upsert" -> Put(db, call)
      [] call.op = "clear"  -> Done(Erase(db, In(db, call.table, call.scope)))
      [] call.op = "get"    -> Done(db)

-----------------------------------------------------------------------------
\* Plans.  A plan's data holds its blocks, by their scopes and ids; their
\* columns are rows of time_blocks, which name the plan.

PlanKey(plan) == <<"schedule_plans", plan.scope, plan.id>>
BlockKey(block) == <<"time_blocks", block[1], block[2]>>
BlockRows(db, scope, id) == {k \in In(db, "time_blocks", scope) : db.rows[k].plan = id}

\* An upsert that leaves the rows of blocks which the plan no longer has.
UpsertPlanKeepingBlocks(db, plan) ==
    LET block == [k \in {BlockKey(b) : b \in DOMAIN plan.row.blocks} |-> plan.row.blocks[<<k[2], k[3]>>]]
    IN  Done([db EXCEPT !.rows =
                 [k \in RowNames |-> IF k = PlanKey(plan) THEN plan.row
                                     ELSE IF k \in DOMAIN block THEN [plan |-> plan.id, value |-> block[k]]
                                     ELSE @[k]]])

\* One transaction: the plan, no longer its blocks, and its blocks anew, each
\* of which must be a row of its own.
UpsertPlan(db, plan) ==
    LET rest  == Erase(db, BlockRows(db, plan.scope, plan.id))
        block == [k \in {BlockKey(b) : b \in DOMAIN plan.row.blocks} |-> plan.row.blocks[<<k[2], k[3]>>]]
    IN  IF plan.twice \/ \E k \in DOMAIN block : Present(rest, k) THEN NotDone(db)
        ELSE Done([rest EXCEPT !.rows =
                 [k \in RowNames |-> IF k = PlanKey(plan) THEN plan.row
                                     ELSE IF k \in DOMAIN block THEN [plan |-> plan.id, value |-> block[k]]
                                     ELSE @[k]]])

\* Rows that a get by id may return: without a scope the system gets any.
SelectScopedOrForbidden(db, actor, table, id) ==
    {k \in RowNames : k[1] = table /\ k[3] = id /\ Present(db, k) /\ CanAccess(actor, k[2])}

SchedulePlans(db, call) ==
    CASE call.op = "upsert" -> {UpsertPlan(db, call)}
      [] call.op = "list"   -> {Done(db)}
      [] call.op = "get"    ->
             {IF SelectScopedOrForbidden(db, call.actor, call.table, call.id) = {}
              THEN NotDone(db) ELSE Done(db)}

\* updateTime and updateStatus: the block is read, then its plan by the id in
\* its row, and the plan is stored again with that block for the one it names.
Replaced(blocks, new, value) ==
    [c \in {IF c[2] = new[2] THEN new ELSE c : c \in DOMAIN blocks} |->
        IF c = new THEN value ELSE blocks[c]]
StoreChanged(db, call, b, p) ==
    UpsertPlan(db, [scope |-> p[2], id |-> p[3], twice |-> FALSE,
                    row |-> [db.rows[p] EXCEPT !.blocks = Replaced(@, <<b[2], b[3]>>, call.value)]])
TimeBlocks(db, call) ==
    LET found    == SelectScopedOrForbidden(db, call.actor, "time_blocks", call.id)
        plans(b) == SelectScopedOrForbidden(db, call.actor, "schedule_plans", db.rows[b].plan)
        none     == found = {} \/ \E b \in found : plans(b) = {}
    IN  (IF none THEN {NotDone(db)} ELSE {})
        \cup (IF call.op = "get" THEN {Done(db) : b \in found}
              ELSE UNION {{StoreChanged(db, call, b, p) : p \in plans(b)} : b \in found})

\* The methods of the repositories, by table.  Whoever stores a plan brings blocks of the
\* plan's own scope, as createSchedule makes them: upsertPlan does not compare the two.
Methods ==
    [tasks |-> {"upsert", "get", "list", "delete"},
     calendar_events |-> {"upsert", "get", "list", "delete"},
     working_hours |-> {"put", "get"},
     schedule_plans |-> {"upsert", "get", "list"},
     time_blocks |-> {"get", "updateTime", "updateStatus"},
     audit_events |-> {"append", "list"},
     idempotency_keys |-> {"reserve", "get", "complete"},
     integration_states |-> {"upsert", "get", "list"},
     import_throttles |-> {"consume"}, request_throttles |-> {"consume"},
     auth_users |-> {"upsert", "get"}, workspace_memberships |-> {"upsert", "get"},
     auth_sessions |-> {"upsert", "revoke", "get"},
     auth_password_reset_tokens |-> {"upsert", "use", "get"},
     auth_login_attempt_windows |-> {"upsert", "clear", "get"}]
IsPlan(row, scope) ==
    /\ row = [c \in DOMAIN row |-> row[c]] /\ "blocks" \in DOMAIN row
    /\ row.blocks = [b \in DOMAIN row.blocks |-> row.blocks[b]]
    /\ \A b \in DOMAIN row.blocks : b = <<scope, b[2]>> /\ BlockKey(b) \in RowNames
Offered(call) ==
    /\ call.table \in DOMAIN Methods /\ call.op \in Methods[call.table]
    /\ call.table = "schedule_plans" /\ call.op = "upsert" =>
           Key(call) \in RowNames /\ IsPlan(call.row, call.scope)

Shaped(db) == db = [versions |-> db.versions, rows |-> [k \in RowNames |-> db.rows[k]]]

\* A database that this code has left behind: each block in the data of a plan has its
\* row, and each row is of a block of the plan that it names.
Whole(db) ==
    /\ Shaped(db)
    /\ \A p \in RowNames : p[1] = "schedule_plans" /\ Present(db, p) =>
           /\ IsPlan(db.rows[p], p[2])
           /\ \A b \in DOMAIN db.rows[p].blocks :
                  db.rows[BlockKey(b)] = [plan |-> p[3], value |-> db.rows[p].blocks[b]]
    /\ \A k \in RowNames : k[1] = "time_blocks" /\ Present(db, k) =>
           LET p == <<"schedule_plans", k[2], db.rows[k].plan>>
           IN  p \in RowNames /\ Present(db, p) /\ <<k[2], k[3]>> \in DOMAIN db.rows[p].blocks

\* The outcomes a call may have.
Outcomes(db, call) ==
    IF ~CanAccess(call.actor, call.scope) THEN {NotDone(db)}
    ELSE CASE call.table = "tasks"              -> {Tasks(db, call)}
           [] call.table = "calendar_events"    -> {CalendarEvents(db, call)}
           [] call.table = "working_hours"      -> {WorkingHours(db, call)}
           [] call.table = "schedule_plans"     -> SchedulePlans(db, call)
           [] call.table = "time_blocks"        -> TimeBlocks(db, call)
           [] call.table = "audit_events"       -> {AuditEvents(db, call)}
           [] call.table = "idempotency_keys"   -> {Idempotency(db, call)}
           [] call.table = "integration_states" -> {IntegrationStates(db, call)}
           [] call.table \in {"import_throttles", "request_throttles"} -> {Consume(db, call)}
           [] call.table = "auth_users"         -> {Users(db, call)}
           [] call.table = "workspace_memberships" -> {Memberships(db, call)}
           [] call.table = "auth_sessions"      -> {Sessions(db, call)}
           [] call.table = "auth_password_reset_tokens" -> {PasswordResetTokens(db, call)}
           [] call.table = "auth_login_attempt_windows" -> {LoginAttemptWindows(db, call)}

-----------------------------------------------------------------------------
\* A whole workspace, and what its retention is over.

WorkspaceTables ==
    {"time_blocks", "schedule_plans", "tasks", "calendar_events", "working_hours", "audit_events",
     "idempotency_keys", "integration_states"}
DeleteWorkspace(db, scope) == Erase(db, UNION {In(db, t, scope) : t \in WorkspaceTables})
Exported(db, scope) ==
    [k \in UNION {In(db, t, scope) : t \in WorkspaceTables \ {"time_blocks"}} |-> db.rows[k]]

RetentionDays ==
    [idempotency_keys |-> 30, auth_sessions |-> 30, auth_password_reset_tokens |-> 7,
     auth_login_attempt_windows |-> 14, import_throttles |-> 14,
     integration_states |-> 90, schedule_plans |-> 180]

\* The day from which the retention of a row counts.
Start(row) == IF row.closed # Never THEN row.closed ELSE row.due
\* On the last day of its retention a row is gone already.
ExpiredADayEarly(db, table, scope, asOf) ==
    {k \in In(db, table, scope) : /\ Start(db.rows[k]) <= asOf - RetentionDays[table]
                                  /\ table = "integration_states" => db.rows[k].value # "CONNECTED"}
Expired(db, table, scope, asOf) ==
    {k \in In(db, table, scope) : /\ Start(db.rows[k]) < asOf - RetentionDays[table]
                                  /\ table = "integration_states" => db.rows[k].value # "CONNECTED"}
Eligible(db, scope, asOf) == UNION {Expired(db, t, scope, asOf) : t \in DOMAIN RetentionDays}
DeleteExpiredSchedulePlans(db, scope, asOf) ==
    LET plans == Expired(db, "schedule_plans", scope, asOf)
    IN  Erase(db, plans \cup UNION {BlockRows(db, scope, k[3]) : k \in plans})
CleanupRetention(db, scope, asOf) ==
    Erase(DeleteExpiredSchedulePlans(db, scope, asOf), Eligible(db, scope, asOf))
=============================================================================
