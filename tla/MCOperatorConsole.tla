-------------------------- MODULE MCOperatorConsole --------------------------
(***************************************************************************)
(* Instances of OperatorConsole: two users' workspaces in one database,    *)
(* rows of every table that are older or younger than their retention, a   *)
(* backup of an older schema, every command with its options right, left   *)
(* out, blank, unknown or of another scope, and one call of the            *)
(* application at any moment.                                              *)
(***************************************************************************)
EXTENDS OperatorConsole, FiniteSetsExt

MCVersions == {1, 2}
MCInstant == "2026-07-01" :> 400 @@ "2026-07-01T00:00:00.000Z" :> 400
             @@ "2026-06-01" :> 370 @@ "2026-06-01T00:00:00.000Z" :> 370
MCIsoText == 400 :> "2026-07-01T00:00:00.000Z" @@ 370 :> "2026-06-01T00:00:00.000Z"
MCNumeral == "3" :> "3" @@ "5" :> "5" @@ "05" :> "5"
MCEnvironment == "KEY" :> "a long passphrase" @@ "OTHER" :> "another passphrase" @@ "WEAK" :> "weak"
                 @@ "SCHEDULEOS_POSTGRES_URL" :> "postgres://"

u  == "t/w/u"
u2 == "t/w/u2"

-----------------------------------------------------------------------------
\* Rows.

Row(value, due) == [value |-> value, due |-> due, closed |-> Never]
Plan(blocks, due) == Row(0, due) @@ [blocks |-> blocks]
Throttle(count, start) == Row(count, start) @@ [start |-> start]
Tokened(token, due, closed) == [value |-> 0, due |-> due, closed |-> closed, token |-> token]

MCRowNames ==
    {<<t, u, "r">> : t \in {"tasks", "calendar_events", "working_hours", "audit_events",
        "idempotency_keys", "integration_states", "import_throttles", "request_throttles",
        "auth_users", "workspace_memberships", "auth_login_attempt_windows"}}
    \cup {<<t, u, i>> : t \in {"auth_sessions", "auth_password_reset_tokens"}, i \in {"r", "s"}}
    \cup {<<"schedule_plans", u, p>> : p \in {"p1", "p2"}} \cup {<<"schedule_plans", u2, "p1">>}
    \cup {<<"time_blocks", u, b>> : b \in {"b1", "b2"}} \cup {<<"time_blocks", u2, "b1">>}
    \cup {<<"tasks", u2, "r">>}

B(b) == <<u, b>>
Seeded ==
    [k \in MCRowNames |->
        CASE k = <<"schedule_plans", u, "p1">>  -> Plan(B("b1") :> "open", 100)
          [] k = <<"schedule_plans", u, "p2">>  -> Plan(B("b2") :> "open", 390)
          [] k = <<"schedule_plans", u2, "p1">> -> Plan(<<u2, "b1">> :> "open", 100)
          [] k = <<"time_blocks", u, "b1">>     -> [plan |-> "p1", value |-> "open"]
          [] k = <<"time_blocks", u, "b2">>     -> [plan |-> "p2", value |-> "open"]
          [] k = <<"time_blocks", u2, "b1">>    -> [plan |-> "p1", value |-> "open"]
          [] k[1] = "idempotency_keys"          -> Row(0, 370)
          [] k[1] = "integration_states"        -> Row("REVOKED", 100)
          [] k[1] \in {"import_throttles", "request_throttles"} -> Throttle(1, 385)
          [] k = <<"auth_sessions", u, "r">>    -> Tokened("x", 500, 300)
          [] k = <<"auth_password_reset_tokens", u, "r">> -> Tokened("x", 392, Never)
          [] k[1] \in {"auth_sessions", "auth_password_reset_tokens"} -> Absent
          [] k[1] = "auth_users"                -> Tokened("mail", 0, Never)
          [] k[1] = "auth_login_attempt_windows" -> [Row(3, 300) EXCEPT !.closed = 395]
          [] OTHER                              -> Row(0, 100)]
Young(rows) == [k \in MCRowNames |-> IF k[1] \in {"schedule_plans", "idempotency_keys"}
                                     THEN [rows[k] EXCEPT !.due = 399] ELSE rows[k]]
Now(rows)   == Database([versions |-> {1, 2}, rows |-> rows])
\* A backup from before the second migration, which adds the tables of auth.
Early == Database([versions |-> {1}, rows |->
             [k \in MCRowNames |-> IF k[1] \in {"auth_sessions", "auth_password_reset_tokens", "auth_users",
                                     "auth_login_attempt_windows", "workspace_memberships"}
                                   THEN Absent ELSE Seeded[k]]])

MCPaths == {"live.db", "old.db", "sealed", "new", "new.plain", "sealed.plain", "out"}
MCFiles ==
    {[p \in MCPaths |->
        CASE p = "live.db" -> Now(live) [] p = "old.db" -> Early
          [] p = "sealed" -> Sealed("a long passphrase", Early) [] OTHER -> NoFile] :
        live \in {Seeded, Young(Seeded)}}

-----------------------------------------------------------------------------
\* Calls of the application.

Ask(t, op) == [table |-> t, op |-> op, actor |-> u, scope |-> u, id |-> "r", row |-> Row(1, 400),
               twice |-> FALSE, value |-> "done", now |-> 400, window |-> 10, limit |-> 2, count |-> 1]
StorePlan(p, blocks) == [Ask("schedule_plans", "upsert") EXCEPT !.id = p, !.row = Plan(blocks, 400)]
MCCalls ==
    {Ask(t, op) : t \in {"tasks", "calendar_events"}, op \in {"upsert", "delete", "get", "list"}}
    \cup {Ask("working_hours", "put"), Ask("audit_events", "append"), 
          [Ask("integration_states", "upsert") EXCEPT !.row = Row("CONNECTED", 400)],
          Ask("idempotency_keys", "reserve"), Ask("idempotency_keys", "complete"),
          Ask("workspace_memberships", "upsert"), Ask("auth_login_attempt_windows", "clear"),
          Ask("auth_login_attempt_windows", "upsert"),
          Ask("auth_sessions", "revoke"), Ask("auth_password_reset_tokens", "use"),
          [Ask("import_throttles", "consume") EXCEPT !.row = Throttle(0, 0)],
          [Ask("request_throttles", "consume") EXCEPT !.row = Throttle(0, 0), !.now = 390, !.count = 2]}
    \cup {[Ask(t, "upsert") EXCEPT !.id = "s", !.row = Tokened(h, 450, Never)] :
             t \in {"auth_sessions", "auth_password_reset_tokens"}, h \in {"x", "y"}}
    \cup {StorePlan("p1", B("b1") :> "open" @@ B("b2") :> "open"), StorePlan("p2", B("b2") :> "new"),
          StorePlan("p2", << >>), StorePlan("p1", B("b2") :> "moved"),
          [StorePlan("p1", B("b1") :> "open") EXCEPT !.twice = TRUE]}
    \cup {[Ask("time_blocks", "updateStatus") EXCEPT !.id = "b1", !.actor = a] : a \in {u, System}}
    \cup {[Ask("tasks", "delete") EXCEPT !.actor = u2]}

-----------------------------------------------------------------------------
\* Lines.

ScopeArgs(id) == <<"--tenant-id", "t", "--workspace-id", "w", "--user-id", id>>
On(path) == <<"--database", path>> \o ScopeArgs("u")
AsOfArgs == <<"--as-of", "2026-07-01">>
Confirm(text) == <<"--confirm", text>>
Restore(from, to) == <<"sqlite:restore", "--backup", from, "--restore", to>> \o ScopeArgs("u")
Overwriting(to) == <<"--overwrite">> \o Confirm("t/w/u/overwrite/" \o to)
CleanUp == <<"retention:sqlite-cleanup">> \o On("live.db")

MCLines ==
    {<<"sqlite:backup", "--database", "live.db", "--backup", "new">> \o key :
        key \in {<< >>, <<"--encrypt-key-env", "KEY">>, <<"--encrypt-key-env", "WEAK">>}}
    \cup {Restore("old.db", "out"), Restore("old.db", "live.db"), Restore("new", "live.db") \o Overwriting("live.db"),
          Restore("old.db", "live.db") \o Overwriting("out"), Restore("sealed", "live.db") \o Overwriting("live.db"),
          Restore("sealed", "live.db") \o Overwriting("live.db") \o <<"--decrypt-key-env", "KEY">>,
          Restore("sealed", "out") \o <<"--decrypt-key-env", "OTHER">>}
    \cup {<<"sqlite:export">> \o On("live.db") \o to : to \in {<< >>, <<"--output", "out">>}}
    \cup {<<"sqlite:delete-workspace">> \o On("live.db") \o c : c \in {<< >>, Confirm(u), Confirm(u2)}}
    \cup {CleanUp \o AsOfArgs \o c :
             c \in {<< >>, <<"--apply">>, <<"--apply">> \o Confirm("t/w/u/2026-07-01"),
                    <<"--apply">> \o Confirm("t/w/u/2026-06-01T00:00:00.000Z"),
                    <<"--apply">> \o Confirm("t/w/u/2026-07-01T00:00:00.000Z")}}
    \cup {<<"retention:postgres-cleanup">> \o ScopeArgs("u") \o AsOfArgs,
          <<"postgres:migrate">>, <<"postgres:migrate", "--dry-run">>, <<"postgres:migrate", "--migrations-dir">>}
    \cup {<<"retention:operator-packet", "--backend", b>> \o On("live.db") \o AsOfArgs \o <<"--json">> :
             b \in {"sqlite", "postgres"}}

-----------------------------------------------------------------------------
\* Lines of packets: one that is right, and what becomes of it.

Sample(o) ==
    CASE o = "--tenant-id" -> "t" [] o = "--workspace-id" -> "w" [] o = "--user-id" -> "u"
      [] o \in {"--as-of", "--window-end"} -> "2026-07-01" [] o = "--window-start" -> "2026-06-01"
      [] o = "--backend" -> "sqlite" [] o = "--failure-class" -> "privacy" [] o = "--status" -> "REVIEWED"
      [] o \in Limits -> "05" [] OTHER -> "given for " \o o
Values(name) ==
    [o \in Packets[name].args.required |-> IF o = "--environment" THEN "production" ELSE Sample(o)]
LineOf(name, values) ==
    FoldSet(LAMBDA o, line : line \o <<o, values[o]>>, <<name, "--json">>, DOMAIN values)
Perturbed(name) ==
    {Values(name)}
    \cup {[p \in DOMAIN Values(name) \ {o} |-> Values(name)[p]] : o \in DOMAIN Values(name)}
    \cup {[Values(name) EXCEPT ![o] = bad] : o \in DOMAIN Values(name), bad \in {"", " "}}
MCFirstLines ==
    UNION {{LineOf(name, values) : values \in Perturbed(name)} : name \in DOMAIN Packets}
    \cup UNION {{<<name>> \o Tail(Tail(LineOf(name, Values(name)))), LineOf(name, Values(name)) \o <<"--scope">>,
                 LineOf(name, Values(name)) \o <<"--user-id">>} : name \in DOMAIN Packets}
    \cup {LineOf(name, Values(name) @@ [o \in Packets[name].args.optional |-> Sample(o)]) :
             name \in DOMAIN Packets}
    \cup {<<"help">>, <<"retention:policy", "--as-of", "soon">>, <<"retention:policy", "", "--json">>}

-----------------------------------------------------------------------------
\* Lines, what is printed for them, and what is printed for that.
AndPrinted(typed) ==
    typed \cup UNION {Printed(line[1], Parse(line)) :
                         line \in {l \in typed : l[1] \in DOMAIN Packets /\ Parse(l).ok}}
ASSUME AsidesAssumption == AsidesSpared(AndPrinted(AndPrinted(FirstLines \cup Lines)))
=============================================================================
