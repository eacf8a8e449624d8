--------------------------- MODULE OperatorConsole ---------------------------
(***************************************************************************)
(* An operator who types command lines of src/cli.ts, one after the other, *)
(* beside an application that uses the SQLite repositories.  A command     *)
(* that is not refused runs in steps; the application's calls come between *)
(* them, and a step may fail.  Files hold databases, sealed backups and    *)
(* exports.                                                                *)
(*                                                                         *)
(* What postgres:migrate and retention:postgres-cleanup do to PostgreSQL   *)
(* is the subject of PostgresStore; here they have a client.  The cipher   *)
(* is external: a sealed file opens with the passphrase that sealed it.    *)
(***************************************************************************)
EXTENDS CommandLine, SqliteRepositories

CONSTANTS Paths,      \* of files; a temporary plain copy of `p' is Aside(p)
          Live,       \* the database of the application
          Files,      \* the files at the start, one function for each start
          Short,      \* passphrases of fewer than 16 characters
          FirstLines, \* lines of which the operator types only one
          Lines,      \* lines the operator may type besides those printed for him
          Calls,      \* calls the application may make
          MaxLines, MaxCalls, MaxFaults \* bounds

ASSUME LiveAssumption == Live \in Paths
ASSUME CallsAssumption == \A call \in Calls : Offered(call)

VARIABLES files,   \* by path
          command, \* the command that runs
          result,  \* what the last command came to
          client,  \* the PostgreSQL client of the command that runs
          beside,  \* what the application's file was while it wrote beside a copy
          lines, calls, faults \* how many there were

vars == <<files, command, result, client, beside, lines, calls, faults>>

Aside(path)   == path \o ".plain"
NoFile        == [kind |-> "none"]
Damaged       == [kind |-> "damaged"]
Database(db)  == [kind |-> "database", db |-> db]
\* A database, to SQLite: but it was copied beside a writer and has some of its pages from
\* before and some from after.
Torn(db)      == [kind |-> "torn", db |-> db]
IsDatabase(file) == file.kind \in {"database", "torn"}
Sealed(p, f)  == [kind |-> "sealed", passphrase |-> p, content |-> f]
Export(rows)  == [kind |-> "export", rows |-> rows]

Idle     == [name |-> "", parsed |-> Refused, todo |-> << >>, failed |-> FALSE]
Came(line, exit) == [line |-> line, exit |-> exit, shown |-> << >>, commands |-> {}]

\* What was left behind before: whole databases, but for torn ones, also in sealed
\* backups, which are made of databases and not of sealed files.
Readable(file) ==
    /\ file.kind = "database" => Whole(file.db)
    /\ file.kind = "torn" => Shaped(file.db)
Sound(file) ==
    /\ Readable(file)
    /\ file.kind = "sealed" => file.content.kind # "sealed" /\ Readable(file.content)
ASSUME FilesAssumption ==
    \A start \in Files : start = [p \in Paths |-> start[p]] /\ \A p \in Paths : Sound(start[p])

-----------------------------------------------------------------------------
\* Before a command starts.

\* requireDestructiveConfirmation, where a command asks for it.
Approved(name, parsed) ==
    LET v == parsed.values
    IN  CASE name = "sqlite:restore" ->
             "--overwrite" \in parsed.flags => Confirms(parsed, RestoreOverwriteConfirmation(v))
          [] name = "sqlite:delete-workspace" -> Confirms(parsed, ScopedConfirmation(v))
          [] name \in {"retention:sqlite-cleanup", "retention:postgres-cleanup"} ->
             "--apply" \in parsed.flags => Confirms(parsed, TimedScopedConfirmation(v))
          [] OTHER -> TRUE

\* The steps of a command.
Program(name, parsed) ==
    LET gives(option) == option \in DOMAIN parsed.values
        flag(f) == f \in parsed.flags
    IN  CASE name = "sqlite:backup" ->
             IF gives("--encrypt-key-env")
             THEN <<"checkpoint", "copy", "seal", "remove">>
             ELSE <<"checkpoint", "copy">>
          [] name = "sqlite:restore" -> <<"look", "fill", "migrate", "export">>
          [] name = "sqlite:export" ->
             IF gives("--output") THEN <<"migrate", "export", "write">> ELSE <<"migrate", "export">>
          [] name = "sqlite:delete-workspace" -> <<"migrate", "delete">>
          [] name = "retention:sqlite-cleanup" ->
             IF flag("--apply") THEN <<"migrate", "count", "clean">> ELSE <<"migrate", "count">>
          [] name = "retention:postgres-cleanup" -> <<"connect", "run", "end">>
          [] name = "postgres:migrate" ->
             IF flag("--dry-run") THEN <<"load">> ELSE <<"load", "connect", "run", "end">>
          [] OTHER -> << >>

\* (mutant) An encrypted backup that fails keeps its plain copy.
FinallyNothing(step, parsed) == IF step = "run" THEN <<"end">> ELSE << >>
\* The steps that follow a failed one, in a `finally'.
Finally(step, parsed) ==
    IF step = "run" THEN <<"end">>
    ELSE IF step \in {"copy", "seal"} /\ "--encrypt-key-env" \in DOMAIN parsed.values
         THEN <<"remove">>
    ELSE << >>

-----------------------------------------------------------------------------
\* What a step makes of the files.  It fails when there is no outcome.

Source(v)    == IF "--database" \in DOMAIN v THEN v["--database"] ELSE v["--backup"]
Target(c)    ==
    LET v == c.parsed.values
    IN  IF c.name = "sqlite:restore" THEN v["--restore"]
        ELSE IF c.name = "sqlite:export" THEN v["--output"]
        ELSE IF "--encrypt-key-env" \in DOMAIN v THEN Aside(v["--backup"]) ELSE v["--backup"]
OpenedBy(c)  == IF c.name = "sqlite:restore" THEN Target(c) ELSE Source(c.parsed.values)
ScopeOf(v)   == ScopedConfirmation(v)
AsOf(v)      == Instant[v["--as-of"]]

\* new DatabaseSync creates the file it does not find.
Opened(file) ==
    IF file.kind = "none" THEN [versions |-> {}, rows |-> [k \in RowNames |-> Absent]] ELSE file.db
Opens(file)  == file.kind = "none" \/ IsDatabase(file)
\* What is at a path; the instance has no other files than those of Paths.
At(path) == IF path \in Paths THEN files[path] ELSE NoFile
Written(path, file) == [files EXCEPT ![path] = file]
Changed(file, db)   == IF file.kind = "torn" THEN Torn(db) ELSE Database(db)
Stored(path, db)    == Written(path, Changed(At(path), db))

\* copyFile, and the decryption of a backup, take no lock: beside a writer of the file that
\* is read, or of the one that is written, the copy is as the source was before or after,
\* or has of each row that was written meanwhile the one or the other, or cannot be opened.
Beside(c) == beside # {} /\ Live \in {Source(c.parsed.values), Target(c)}
Sources(c, content) ==
    {content} \cup (IF Beside(c) /\ Source(c.parsed.values) = Live THEN beside ELSE {})
Mixtures(content) ==
    LET dbs   == {f.db : f \in beside \cup {content}}
        moved == {k \in RowNames : \E f, g \in beside : f.db.rows[k] # g.db.rows[k]}
    IN  {[content.db EXCEPT !.rows = [k \in RowNames |-> IF k \in moved THEN of[k].rows[k] ELSE @[k]]] :
            of \in [moved -> dbs]}
Copies(c, content) ==
    IF ~Beside(c) THEN {content}
    ELSE Sources(c, content) \cup {Damaged}
         \cup (IF IsDatabase(content)
               THEN {Torn(db) : db \in Mixtures(content) \ {f.db : f \in Sources(c, content)}} ELSE {})

Unsealed(v) ==
    LET sealed == At(v["--backup"]) passphrase == Environment[v["--decrypt-key-env"]]
    IN  IF sealed.kind = "sealed" /\ sealed.passphrase = passphrase /\ passphrase \notin Short
        THEN {sealed.content} ELSE {}
Fillings(v) ==
    IF "--decrypt-key-env" \in DOMAIN v THEN Unsealed(v)
    ELSE {At(v["--backup"])} \ {NoFile}

Outcome(c, step) ==
    LET v == c.parsed.values
        opened == At(OpenedBy(c))
        on(db) == IF Opens(opened) THEN {Stored(OpenedBy(c), db)} ELSE {}
    IN  CASE step = "checkpoint" -> on(Opened(opened))
          [] step = "copy" -> {Written(Target(c), f) : f \in Copies(c, At(Source(v)))}
          [] step = "seal" ->
             {Written(v["--backup"], Sealed(p, At(Aside(v["--backup"])))) :
                 p \in {Environment[v["--encrypt-key-env"]]} \ Short}
          [] step = "remove" -> {Written(Aside(v["--backup"]), NoFile)}
          [] step = "look" ->
             IF At(Target(c)) = NoFile \/ "--overwrite" \in c.parsed.flags THEN {files} ELSE {}
          [] step = "fill"    -> {Written(Target(c), f) : f \in UNION {Copies(c, content) : content \in Fillings(v)}}
          [] step = "migrate" -> on(ApplyMigrations(Opened(opened)))
          [] step = "write"   -> {Written(Target(c), Export(Exported(opened.db, ScopeOf(v))))}
          [] step = "delete"  -> on(DeleteWorkspace(Opened(opened), ScopeOf(v)))
          [] step = "clean"   -> on(CleanupRetention(Opened(opened), ScopeOf(v), AsOf(v)))
          [] step = "connect" -> IF "SCHEDULEOS_POSTGRES_URL" \in DOMAIN Environment THEN {files} ELSE {}
          [] step \in {"export", "count", "load", "run", "end"} -> {files}

\* A failure of the disk, of SQLite or of PostgreSQL.  A file that was being
\* written is damaged or as it was; a transaction is rolled back.
Broken(c, step) ==
    {files} \cup (IF step \in {"copy", "fill", "write"} THEN {Written(Target(c), Damaged)}
                  ELSE IF step = "seal" THEN {Written(c.parsed.values["--backup"], Damaged)}
                  ELSE {})

-----------------------------------------------------------------------------
Init ==
    /\ files \in Files
    /\ command = Idle /\ result = Came(<< >>, 0) /\ client = "none" /\ beside = {}
    /\ lines = 0 /\ calls = 0 /\ faults = 0

\* The operator types a line.  A packet is printed at once.
Type ==
    /\ command = Idle
    /\ lines < MaxLines
    /\ \E only \in IF lines = 0 THEN BOOLEAN ELSE {FALSE} :
       \E line \in IF only THEN FirstLines ELSE Lines \cup result.commands :
         LET name == line[1] parsed == Parse(line)
         IN  /\ lines' = IF only THEN MaxLines ELSE lines + 1
             /\ IF ~parsed.ok THEN command' = Idle /\ result' = Came(line, 1)
                ELSE IF name \in DOMAIN Packets THEN
                    /\ command' = Idle
                    /\ result' = [line |-> line, exit |-> 0, shown |-> Shown(name, parsed),
                                  commands |-> Printed(name, parsed)]
                ELSE IF ~Approved(name, parsed) THEN command' = Idle /\ result' = Came(line, 1)
                ELSE /\ result' = Came(line, 0)
                     /\ command' = IF Program(name, parsed) = << >> THEN Idle
                                   ELSE [Idle EXCEPT !.name = name, !.parsed = parsed,
                                                     !.todo = Program(name, parsed)]
    /\ UNCHANGED <<files, client, beside, calls, faults>>

\* The steps that are left, or the end of the command.
Continue(todo, failed) ==
    /\ command' = IF todo = << >> THEN Idle
                  ELSE [command EXCEPT !.todo = todo, !.failed = failed]
    /\ result' = [result EXCEPT !.exit = IF failed THEN 1 ELSE 0]
    /\ beside' = {}
    /\ UNCHANGED <<lines, calls>>

Step ==
    /\ command # Idle
    /\ LET step == Head(command.todo)
       IN  /\ files' \in Outcome(command, step)
           /\ client' = CASE step = "connect" -> "open" [] step = "end" -> "none" [] OTHER -> client
    /\ Continue(Tail(command.todo), command.failed)
    /\ UNCHANGED faults

\* A step that has no outcome, and one that is disturbed.
StepFails ==
    /\ command # Idle
    /\ Outcome(command, Head(command.todo)) = {}
    /\ Continue(Finally(Head(command.todo), command.parsed), TRUE)
    /\ UNCHANGED <<files, client, faults>>
Disturbed ==
    /\ command # Idle
    /\ Head(command.todo) \notin {"remove", "end"}
    /\ faults < MaxFaults
    /\ faults' = faults + 1
    /\ files' \in Broken(command, Head(command.todo))
    /\ Continue(Finally(Head(command.todo), command.parsed), TRUE)
    /\ UNCHANGED client

\* A call of the application, as long as its database is one.
Call ==
    /\ calls < MaxCalls
    /\ command # Idle \/ lines < MaxLines
    /\ IsDatabase(files[Live]) /\ files[Live].db.versions = Versions
    /\ \E call \in Calls : \E outcome \in Outcomes(files[Live].db, call) :
          files' = Stored(Live, outcome.db)
    /\ beside' = IF command # Idle /\ Head(command.todo) \in {"copy", "fill"}
                 THEN beside \cup {files[Live], files'[Live]} ELSE {}
    /\ calls' = calls + 1
    /\ UNCHANGED <<command, result, client, lines, faults>>

Next == Type \/ Step \/ StepFails \/ Disturbed \/ Call

Spec == Init /\ [][Next]_vars

-----------------------------------------------------------------------------
\* Properties.

Databases == {files[p].db : p \in {q \in Paths : files[q].kind = "database"}}

\* In every database, whatever was restored, deleted or cleaned up, the rows
\* of time_blocks are the blocks in the data of the plans they name: each way
\* of changing a plan writes both (upsertPlan, deleteExpiredSchedulePlans).
\* Nothing is said of a torn copy, nor of what is made of it later.
Agree(db) ==
    LET present(table) == {k \in RowNames : k[1] = table /\ Present(db, k)}
        rows == {<<k, db.rows[k].plan, db.rows[k].value>> : k \in present("time_blocks")}
        data == UNION {{<<BlockKey(b), p[3], db.rows[p].blocks[b]>> : b \in DOMAIN db.rows[p].blocks} :
                          p \in present("schedule_plans")}
    IN  data = rows
PlanRowsAgree == \A db \in Databases : Agree(db)

\* A row that a command takes from a database was given up by name: the line
\* confirms the row's scope, or its scope and a time at which its retention is
\* over, or the replacement of that database's file in the scope it names.  A
\* backup or an export replaces the file that it is to write, without any question.
Words(line) == {line[i] : i \in 1 .. Len(line)}
Gives(line, option, word) == \E i \in 2 .. Len(line) : line[i - 1] = option /\ line[i] = word
Confirmed(line, text) == Gives(line, "--confirm", text)
Over(db, k, day) ==
    LET plan == <<"schedule_plans", k[2], db.rows[k].plan>>
        kept == IF k[1] = "time_blocks" THEN plan ELSE k
    IN  kept[1] \in DOMAIN RetentionDays /\ Start(db.rows[kept]) < day - RetentionDays[kept[1]]
MayLose(line, path, k) ==
    \/ line[1] = "sqlite:delete-workspace" /\ Confirmed(line, k[2])
    \/ /\ line[1] = "retention:sqlite-cleanup"
       /\ \E day \in DOMAIN IsoText : Confirmed(line, k[2] \o "/" \o IsoText[day])
                                      /\ Over(files[path].db, k, day)
    \/ /\ line[1] = "sqlite:restore"
       /\ \E t, w, i \in Words(line) :
             /\ Gives(line, "--tenant-id", t) /\ Gives(line, "--workspace-id", w) /\ Gives(line, "--user-id", i)
             /\ Confirmed(line, t \o "/" \o w \o "/" \o i \o "/overwrite/" \o path)
    \/ /\ line[1] = "sqlite:backup"
       /\ \E word \in Words(line) : Gives(line, "--backup", word) /\ path \in {word, Aside(word)}
    \/ line[1] = "sqlite:export" /\ Gives(line, "--output", path)
Loses(path, k) ==
    /\ IsDatabase(files[path]) /\ Present(files[path].db, k)
    /\ ~IsDatabase(files'[path]) \/ files'[path].db.rows[k] = Absent
DestructionConfirmed ==
    [][command' # command =>
          \A p \in Paths, k \in RowNames : Loses(p, k) => MayLose(result.line, p, k)]_vars

\* When a command has ended, also by an error, it has left no plain copy of
\* the database beside its encrypted backup, and no open client.
NothingLeftBehind ==
    command = Idle => client = "none" /\ \A p \in Paths : Aside(p) \in Paths => files[Aside(p)] = NoFile

\* Lines that can be typed: sequences of words, closed under what packets print for them.
Typable(typed) ==
    /\ FirstLines \cup Lines \subseteq typed
    /\ \A line \in typed : line \in Seq(STRING) \ {<< >>}
    /\ \A line \in typed :
          line[1] \in DOMAIN Packets /\ Parse(line).ok => Printed(line[1], Parse(line)) \subseteq typed

\* NothingLeftBehind presupposes that the names of plain copies are left to the backups: no
\* file has such a name at the start, it is not that of the application's database, and no
\* line that can be typed names one.
IsAside(path) == \E p \in Paths : path = Aside(p)
NamesNoAside(line) ==
    \A o \in DOMAIN Parse(line).values :
        o \in {"--database", "--backup", "--restore", "--output"} => ~IsAside(Parse(line).values[o])
AsidesSpared(typed) ==
    /\ Typable(typed) /\ \A line \in typed : NamesNoAside(line)
    /\ ~IsAside(Live)
    /\ \A start \in Files : \A p \in Paths : IsAside(p) => start[p] = NoFile

\* The command lines that a JSON packet prints run as they stand ("Run the dry-run command and
\* save the JSON output.", src/src/cli.ts 1038), all but that of the delivery packet: their
\* parser accepts them, a clean-up among them brings its confirmation, and they are about the
\* scope, time and database of the packet, as it shows them or else as its line gave them.
Accepted(line) == Parse(line).ok /\ Approved(line[1], Parse(line))
Agrees(line) ==
    LET given == Parse(result.line).values IN
    \A o \in DOMAIN Parse(line).values \cap DOMAIN given :
       Parse(line).values[o] = IF o \in DOMAIN result.shown THEN result.shown[o] ELSE given[o]
PrintedLinesRun ==
    result.shown # << >> /\ (\E i \in DOMAIN result.line : result.line[i] = "--json") =>
        \A c \in result.commands :
           result.line[1] # "public-events:delivery-operator-packet" => Accepted(c) /\ Agrees(c)
=============================================================================
