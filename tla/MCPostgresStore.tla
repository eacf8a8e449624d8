--------------------------- MODULE MCPostgresStore ---------------------------
(***************************************************************************)
(* Instances of PostgresStore: two callers, each with a client of its own, *)
(* one row of every table, two plans that share a block, two migrations,   *)
(* and a database that is empty, holds young rows or old ones.             *)
(***************************************************************************)
EXTENDS PostgresStore, TLC

MCVersions == <<1, 2>>

SingleTables == {"tasks", "calendar_events", "working_hours", "audit_events", "users", "memberships",
                 "integration_states", "import_throttles", "request_throttles",
                 "auth_sessions", "auth_password_reset_tokens", "auth_login_attempt_windows"}
MCKeys ==
    {<<t, "r">> : t \in SingleTables}
    \cup {<<"schedule_plans", p>> : p \in {"p1", "p2"}}
    \cup {<<"time_blocks", b>> : b \in {"b1", "b2"}}
    \cup {<<"idempotency_keys", "r">>}
    \cup {<<t, v>> : t \in {"schema_migrations", "ddl"}, v \in {1, 2}}

Row(v, old) == [v |-> v, old |-> old]
Record(hash, old) == [hash |-> hash, status |-> "open", old |-> old]

\* The first migration is applied, and plan p1 has block b1.
Seed(old) ==
    [k \in MCKeys |->
        CASE k[1] = "import_throttles"      -> Row(1, old)
          [] k[1] \in {"tasks", "audit_events", "integration_states", "auth_sessions",
                       "auth_password_reset_tokens", "auth_login_attempt_windows"} -> Row("seed", old)
          [] k[1] = "idempotency_keys"      -> Record("h0", old)
          [] k = <<"schedule_plans", "p1">> -> [blocks |-> {"b1"}, old |-> old]
          [] k = <<"time_blocks", "b1">>    -> NewBlock("p1")
          [] k = <<"schema_migrations", 1>> -> [v |-> 1]
          [] k = <<"ddl", 1>>               -> [runs |-> 1]
          [] OTHER                          -> NoRow]
Empty == [k \in MCKeys |-> NoRow]
MCSeeds == {Empty, Seed(TRUE), Seed(FALSE)}

Save(t) == [of |-> t, op |-> "upsert", id |-> "r", row |-> Row("saved", FALSE)]
Ask(t, op) == [of |-> t, op |-> op, id |-> "r"]
Plan(p, blocks, old) ==
    [of |-> "schedule_plans", op |-> "upsert", id |-> p, row |-> [blocks |-> blocks, old |-> old]]

\* The calls that race with every other.
RacingCalls ==
    {Plan("p1", <<"b1", "b2">>, FALSE), Plan("p2", <<"b2">>, FALSE),
     [of |-> "idempotency_keys", op |-> "reserve", id |-> "r", row |-> Record("h1", FALSE)],
     [of |-> "retention", op |-> "cleanup", id |-> "all", dryRun |-> FALSE],
     [of |-> "schema_migrations", op |-> "migrate", id |-> "all"]}

\* The others: the rest of each repository, a plan that is old, and one that
\* names a block twice or one of another scope.
OtherCalls ==
    {Save(t) : t \in {"tasks", "calendar_events", "integration_states", "users",
                      "memberships", "auth_sessions", "auth_password_reset_tokens", "auth_login_attempt_windows"}}
    \cup {[Save("working_hours") EXCEPT !.op = "put"], [Save("audit_events") EXCEPT !.op = "append"]}
    \cup {Ask(t, "delete") : t \in {"tasks", "calendar_events"}}
    \cup {Ask("auth_sessions", "revoke"), Ask("auth_password_reset_tokens", "use"),
          Ask("auth_login_attempt_windows", "clear"), Ask("idempotency_keys", "get"),
          Ask("idempotency_keys", "complete"), Ask("request_throttles", "list"),
          [of |-> "idempotency_keys", op |-> "reserve", id |-> "r", row |-> Record("h2", FALSE)],
          [of |-> "import_throttles", op |-> "consume", id |-> "r", count |-> 1],
          [of |-> "request_throttles", op |-> "consume", id |-> "r", count |-> 3],
          [of |-> "time_blocks", op |-> "updateTime", id |-> "b1", time |-> "moved"],
          [of |-> "time_blocks", op |-> "updateStatus", id |-> "b1", status |-> "LOCKED"],
          [of |-> "time_blocks", op |-> "get", id |-> "b2"],
          [of |-> "schedule_plans", op |-> "get", id |-> "p1"],
          [of |-> "retention", op |-> "cleanup", id |-> "all", dryRun |-> TRUE],
          Plan("p1", <<"b2">>, TRUE), Plan("p1", <<"b2", "b2">>, FALSE), Plan("p1", <<"b2", "foreign">>, FALSE)}
AnyThenRacing == <<RacingCalls \cup OtherCalls, RacingCalls>>

OneEach == "a" :> "ca" @@ "b" :> "cb"
=============================================================================
