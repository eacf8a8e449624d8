---------------------------- MODULE PostgresStore ----------------------------
(***************************************************************************)
(* The PostgreSQL repositories at work: callers that send the statements   *)
(* of PostgresPrograms through a PgPostgresQueryClient, which runs each on *)
(* the connection that its transaction checked out, or else on any         *)
(* connection of its pool and commits it at once.                          *)
(*                                                                         *)
(* The server (external) is at READ COMMITTED: a statement sees what is    *)
(* committed and what its own transaction wrote, waits for rows that       *)
(* another transaction has written, and fails if it closes a circle of     *)
(* waits.  A failed statement spoils its transaction.  Statements may also *)
(* fail for reasons of their own, a COMMIT may be applied and yet not      *)
(* answered, and a process may die between any two steps.                  *)
(***************************************************************************)
EXTENDS PostgresPrograms

CONSTANTS Callers,      \* concurrent calls of repository methods
          Clients,      \* PgPostgresQueryClient objects, one process each
          ClientOf,     \* the client each caller uses
          Connections,  \* connections the pools can open
          Calls,        \* the calls that may come first, second, ...
          Seeds,        \* what the database may hold before
          MaxFaults     \* bound: failed statements and crashes

None == "none"

\* A process has one client and may use it for several calls at a time.
ASSUME ClientsAssumption ==
    /\ ClientOf \in [Callers -> Clients]
    /\ None \notin Clients \cup Connections

ASSUME CallsAssumption ==
    /\ Calls \in Seq({Calls[n] : n \in DOMAIN Calls})
    /\ \A n \in DOMAIN Calls : \A call \in Calls[n] : Offered(call)

VARIABLES
    rows,    \* the committed rows: key -> row or NoRow
    conn,    \* connection -> the client that holds it, its writes, whether spoilt
    tx,      \* client -> transactionClient, the connection of its transaction
    caller,  \* caller -> its call, the next statement and what it has read
    answered,\* the calls that returned, with how many statements they sent
    made,    \* the calls made, in order
    faults

vars == <<rows, conn, tx, caller, answered, made, faults>>

-----------------------------------------------------------------------------
\* A database that this code has left behind, where it starts and what it keeps:
\* its plans list exactly their blocks, and each migration has run as recorded.
Whole(db) ==
    /\ \A k \in PlanKeys : db[k] # NoRow => {b[2] : b \in BlocksOf(k[2], db)} = db[k].blocks
    /\ \A k \in BlockKeys : db[k] # NoRow =>
         LET p == <<"schedule_plans", db[k].plan>> IN p \in Keys /\ db[p] # NoRow
Migrated(db) ==
    /\ \A i \in DOMAIN Versions :
         IF db[<<"schema_migrations", Versions[i]>>] = NoRow
         THEN db[<<"ddl", Versions[i]>>] = NoRow
         ELSE db[<<"ddl", Versions[i]>>] = [runs |-> 1]
    /\ \A i, j \in DOMAIN Versions :
         i < j /\ db[<<"schema_migrations", Versions[j]>>] # NoRow
            => db[<<"schema_migrations", Versions[i]>>] # NoRow

ASSUME SeedsAssumption ==
    \A seed \in Seeds :
        /\ seed = [k \in Keys |-> seed[k]]
        /\ \A k \in BlockKeys : seed[k] # NoRow => "plan" \in DOMAIN seed[k]
        /\ Whole(seed) /\ Migrated(seed)

-----------------------------------------------------------------------------
\* The server.

Free == [by |-> None, writes |-> <<>>, spoilt |-> FALSE]
Opened(cl) == [Free EXCEPT !.by = cl]

View(i) == IF i = None THEN rows ELSE Over(conn[i].writes, rows)
Touched(i) == DOMAIN conn[i].writes

\* What a statement writes: deleting a plan deletes its blocks.
Cascade(keys, view) ==
    keys \cup UNION {BlocksOf(k[2], view) : k \in keys \cap PlanKeys}
Written(s, view) ==
    CASE s.verb \in {"upsert", "insert", "ddl"} -> {s.where.key}
      [] s.verb = "update" -> Selected(s.where, view)
      [] s.verb = "delete" -> Cascade(Selected(s.where, view), view)
      [] OTHER             -> {}
Value(s, was) ==
    CASE s.verb = "delete" -> NoRow
      [] s.verb = "update" -> Over(s.row, was)
      [] s.verb = "ddl"    -> [runs |-> IF was = NoRow THEN 1 ELSE was.runs + 1]
      [] OTHER             -> s.row

\* A block can only be inserted for a plan that exists, and waits for one that
\* is being deleted.
Parent(s) ==
    IF s.verb = "insert" /\ s.where.key[1] = "time_blocks"
    THEN {<<"schedule_plans", s.row.plan>>} ELSE {}
Locks(s, view) == Written(s, view) \cup Parent(s)

\* The server's errors: a key that exists, a block without its plan.
Violates(s, view) ==
    /\ s.verb = "insert"
    /\ view[s.where.key] # NoRow \/ \E p \in Parent(s) : view[p] = NoRow

-----------------------------------------------------------------------------
\* The callers.

Idle == [phase |-> "idle"]
Undoing == [phase |-> "undo"]
At(call, pc, saw) == [phase |-> "running", call |-> call, pc |-> pc, saw |-> saw]
Busy == {c \in Callers : caller[c].phase # "idle"}
ConnOf(c) == tx[ClientOf[c]]
ProgramOf(c) == Program(caller[c].call, caller[c].saw)
Next1(c) == ProgramOf(c)[caller[c].pc]

Running(c) == caller[c].phase = "running"

\* Between a BEGIN of its own that succeeded and its COMMIT.
OpenAt(program, pc) ==
    \E i \in 1..pc - 1 : program[i] = Begin /\ \A j \in i..pc - 1 : program[j] # Commit
InTransaction(c) == Running(c) /\ OpenAt(ProgramOf(c), caller[c].pc)

\* The connections that hold a row which the statement writes.
Holders(c, s) ==
    LET others == {i \in Connections \ {ConnOf(c)} : Touched(i) # {}}
    IN  IF others = {} THEN {}
        ELSE LET locks == Locks(s, View(ConnOf(c)))
             IN  {i \in others : Touched(i) \cap locks # {}}
\* A circle of waits: each of a set of callers waits for a connection that a
\* transaction of the set holds.
Deadlocked(c) ==
    \E S \in SUBSET Callers :
        /\ c \in S
        /\ \A d \in S : Running(d) /\ \E e \in S : ConnOf(e) \in Holders(d, Next1(d))

\* A call that has run its last statement returns.
Return(c) ==
    /\ caller' = [caller EXCEPT ![c] = Idle]
    /\ answered' = answered \cup {[call |-> caller[c].call, sent |-> caller[c].pc]}
Advance(c, saw) ==
    IF Len(Program(caller[c].call, saw)) > caller[c].pc
    THEN /\ caller' = [caller EXCEPT ![c] = At(@.call, @.pc + 1, saw)]
         /\ UNCHANGED answered
    ELSE Return(c)

\* An error: the catch block of a transaction rolls it back, any other call ends.
Throw(c) ==
    /\ caller' = [caller EXCEPT ![c] = IF InTransaction(c) THEN Undoing ELSE Idle]
    /\ UNCHANGED answered

\* The client gives its connection back.
Release(cl, i) ==
    /\ conn' = [conn EXCEPT ![i] = Free]
    /\ tx' = [tx EXCEPT ![cl] = None]

-----------------------------------------------------------------------------
Init ==
    /\ rows \in Seeds
    /\ conn = [i \in Connections |-> Free]
    /\ tx = [cl \in Clients |-> None]
    /\ caller = [c \in Callers |-> Idle]
    /\ answered = {}
    /\ made = <<>>
    /\ faults = 0

Call(c) ==
    /\ caller[c] = Idle
    /\ Len(made) < Len(Calls)
    /\ \E call \in Calls[Len(made) + 1] :
         /\ caller' = [caller EXCEPT ![c] = At(call, 1, <<>>)]
         /\ made' = Append(made, call)
    /\ UNCHANGED <<rows, conn, tx, answered, faults>>

\* BEGIN waits for a connection of the pool, and for its answer.
Connect(c, s) ==
    /\ s = Begin
    /\ ConnOf(c) = None
    /\ \E i \in Connections : conn[i] = Free
    /\ LET i == CHOOSE j \in Connections : conn[j] = Free
       IN  /\ conn' = [conn EXCEPT ![i] = Opened(ClientOf[c])]
           /\ caller' = [caller EXCEPT ![c] =
                [phase |-> "connecting", call |-> @.call, pc |-> @.pc, saw |-> @.saw, conn |-> i]]
    /\ UNCHANGED <<rows, tx, answered, made, faults>>

\* Only then is it the connection of the client's transaction.
Begun(c) ==
    /\ caller[c].phase = "connecting"
    /\ tx' = [tx EXCEPT ![ClientOf[c]] = caller[c].conn]
    /\ caller' = [caller EXCEPT ![c] = At(@.call, @.pc + 1, @.saw)]
    /\ UNCHANGED <<rows, conn, answered, made, faults>>

BeginFails(c) ==
    /\ caller[c].phase = "connecting"
    /\ faults < MaxFaults
    /\ conn' = [conn EXCEPT ![caller[c].conn] = Free]
    /\ caller' = [caller EXCEPT ![c] = Idle]
    /\ faults' = faults + 1
    /\ UNCHANGED <<rows, tx, answered, made>>

\* A statement that succeeds, in the client's transaction or by itself.
Apply(i, written) ==
    IF i = None
    THEN /\ rows' = Over(written, rows)
         /\ UNCHANGED conn
    ELSE /\ conn' = [conn EXCEPT ![i] = [by |-> @.by, writes |-> Over(written, @.writes), spoilt |-> @.spoilt]]
         /\ UNCHANGED rows

ByCode(c, s, view) ==
    \/ s.verb = "throw"
    \/ s.must /\ Selected(s.where, view) = {}
    \/ s = Begin /\ ConnOf(c) # None
ByServer(c, s, view) ==
    \/ Violates(s, view)
    \/ ConnOf(c) # None /\ conn[ConnOf(c)].spoilt

Sends(s) == s \notin {Begin, Commit}
Made == {made[i] : i \in DOMAIN made}

Run(c, s) ==
    /\ Sends(s)
    /\ Holders(c, s) = {}
    /\ \E view \in {View(ConnOf(c))} :
         /\ ~ByServer(c, s, view)
         /\ ~ByCode(c, s, view)
         /\ Apply(ConnOf(c), [k \in Written(s, view) |-> Value(s, view[k])])
         /\ Advance(c, IF s.verb = "select" THEN Over([k \in Selected(s.where, view) |-> view[k]], caller[c].saw)
                       ELSE caller[c].saw)
    /\ UNCHANGED <<tx, made, faults>>

\* An update of a block that waited while the upsert of its plan deleted the row
\* and inserted it again changes nothing, and its call returns all the same: the
\* row it waited for is gone, and the one that came is too new for it to see.
FindsNone(c, s) ==
    /\ s.verb = "update" /\ caller[c].call.of = "time_blocks"
    /\ ConnOf(c) = None
    /\ Holders(c, s) = {}
    /\ \E other \in Made : SavesPlan(other) /\ \E i \in DOMAIN other.row.blocks : other.row.blocks[i] = caller[c].call.id
    /\ Return(c)
    /\ UNCHANGED <<rows, conn, tx, made, faults>>

\* The code throws: not found, a block of another scope, or a BEGIN on a client
\* that is in a transaction, outside of any catch.
ThrowByCode(c, s) ==
    /\ Holders(c, s) = {}
    /\ ByCode(c, s, View(ConnOf(c)))
    /\ Throw(c)
    /\ UNCHANGED <<rows, conn, tx, made, faults>>

Spoil(i) == conn' = IF i = None THEN conn ELSE [conn EXCEPT ![i] = [by |-> @.by, writes |-> @.writes, spoilt |-> TRUE]]

\* The server refuses the statement: an error of its own, or the deadlock.
ThrowByServer(c, s) ==
    /\ Sends(s)
    /\ \/ /\ Holders(c, s) = {}
          /\ ByServer(c, s, View(ConnOf(c)))
       \/ Deadlocked(c)
    /\ Spoil(ConnOf(c))
    /\ Throw(c)
    /\ UNCHANGED <<rows, tx, made, faults>>

StatementFails(c, s) ==
    /\ Sends(s)
    /\ faults < MaxFaults
    /\ s.verb # "throw"
    /\ Spoil(ConnOf(c))
    /\ Throw(c)
    /\ faults' = faults + 1
    /\ UNCHANGED <<rows, tx, made>>

\* A COMMIT of a spoilt transaction rolls back, and says nothing.
CommitIt(c, s) ==
    /\ s = Commit
    /\ LET i == ConnOf(c)
       IN  IF i = None THEN UNCHANGED <<rows, conn, tx>>
           ELSE /\ rows' = IF conn[i].spoilt THEN rows ELSE Over(conn[i].writes, rows)
                /\ Release(ClientOf[c], i)
    /\ Advance(c, caller[c].saw)
    /\ UNCHANGED <<made, faults>>

\* A COMMIT that is not answered may have been applied; the ROLLBACK that
\* follows finds no transaction.
CommitFails(c, s) ==
    /\ s = Commit
    /\ ConnOf(c) # None
    /\ faults < MaxFaults
    /\ LET i == ConnOf(c)
       IN  /\ rows' \in {rows, IF conn[i].spoilt THEN rows ELSE Over(conn[i].writes, rows)}
           /\ Release(ClientOf[c], i)
    /\ caller' = [caller EXCEPT ![c] = Undoing]
    /\ faults' = faults + 1
    /\ UNCHANGED <<answered, made>>

\* The catch block: ROLLBACK, then the error goes on to the caller.  A bug for
\* the mutants: the connection is not given back.
RollbackHolding(c) ==
    /\ caller[c].phase = "undo"
    /\ caller' = [caller EXCEPT ![c] = Idle]
    /\ tx' = [tx EXCEPT ![ClientOf[c]] = None]
    /\ UNCHANGED <<rows, conn, answered, made, faults>>
Rollback(c) ==
    /\ caller[c].phase = "undo"
    /\ caller' = [caller EXCEPT ![c] = Idle]
    /\ IF ConnOf(c) = None THEN UNCHANGED <<conn, tx>> ELSE Release(ClientOf[c], ConnOf(c))
    /\ UNCHANGED <<rows, answered, made, faults>>

\* A process dies: the server rolls back what its connections have open.
Crash(cl) ==
    /\ faults < MaxFaults
    /\ \E c \in Busy : ClientOf[c] = cl
    /\ caller' = [c \in Callers |-> IF ClientOf[c] = cl THEN Idle ELSE caller[c]]
    /\ conn' = [i \in Connections |-> IF conn[i].by = cl THEN Free ELSE conn[i]]
    /\ tx' = [tx EXCEPT ![cl] = None]
    /\ faults' = faults + 1
    /\ UNCHANGED <<rows, answered, made>>

Send(c, s) ==
    \/ Connect(c, s) \/ Run(c, s) \/ FindsNone(c, s)
    \/ ThrowByCode(c, s) \/ ThrowByServer(c, s) \/ CommitIt(c, s)
Step(c) ==
    \/ Running(c) /\ \E s \in {Next1(c)} : Send(c, s)
    \/ Begun(c)
    \/ Rollback(c)
Fault(c) ==
    \/ Running(c) /\ \E s \in {Next1(c)} : StatementFails(c, s) \/ CommitFails(c, s)
    \/ BeginFails(c)

Next ==
    \/ \E c \in Callers : Call(c) \/ Step(c) \/ Fault(c)
    \/ \E cl \in Clients : Crash(cl)

\* The runtime serves every callback; the server answers, grants a lock that is
\* free and ends a deadlock.  Calls are finite, so that it is enough that some
\* call goes on while one can.
Spec == Init /\ [][Next]_vars /\ WF_vars(\E c \in Callers : Step(c))

-----------------------------------------------------------------------------
\* A committed plan has the blocks that its own data lists, and no block is
\* without its plan: whatever else runs, fails or dies, a plan and its blocks
\* are replaced and cleaned up together (upsertSchedulePlan, retention).
PlansWhole == Whole(rows)

\* The SQL of a migration takes effect at most once, exactly when its version
\* is recorded, and never before that of an earlier version: two operators may
\* migrate at the same time, and either may die (runPostgresMigrations).
MigratedOnce == Migrated(rows)

\* What a returned call has promised of the rows.
Kept(a) ==
    LET k == <<a.call.of, a.call.id>>
    IN  CASE a.call.op = "reserve" -> a.sent = 2 => (rows[k] # NoRow /\ rows[k].hash = a.call.row.hash)
          [] a.call.op = "complete" -> rows[k] # NoRow => rows[k].status = "done"
          [] a.call.op \in {"revoke", "use"} -> rows[k] # NoRow => rows[k].v \in {"revoked", "used"}
          [] a.call.op \in {"delete", "clear"} -> rows[k] = NoRow
          [] a.call.of = "schedule_plans" ->
                rows[k] # NoRow /\ rows[k].blocks = {a.call.row.blocks[i] : i \in DOMAIN a.call.row.blocks}
          [] OTHER -> rows[k] = a.call.row
Promising(call) ==
    \/ call.op \in {"complete", "delete", "clear", "revoke", "use"}
    \/ call.op \in {"reserve", "upsert", "replace", "put", "append"} /\ ~call.row.old
\* The calls that may undo it: another one that saves or deletes the same row; and
\* for a completed key a clean-up, if the key may be reserved anew after it.
Rival(call) ==
    \/ \E other \in Made :
         /\ other # call /\ other.of = call.of
         /\ \/ other.op = "clear"
            \/ /\ other.id = call.id
               /\ other.op \in {"upsert", "replace", "put", "append", "revoke", "use", "delete"}
    \/ /\ call.op = "complete"
       /\ \E other \in Made : other.of = "retention" /\ ~other.dryRun
       /\ \E other \in Made : other.op = "reserve" /\ other.id = call.id

\* What a call that returned has saved stays until a call that saves or deletes
\* the same row is made, or the row is old: no rollback, fault or clean-up of
\* another caller takes it, and no two callers both reserve a key.  It holds for
\* callers that have a client each, such as processes; of two callers that share
\* one, the statements of either go into the transaction that the other has open
\* (PgPostgresQueryClient.query).
AcknowledgedKept ==
    \A a \in answered : Promising(a.call) /\ ~Rival(a.call) => Kept(a)

\* A clean-up removes only what is old when it commits, although it counted and
\* reported earlier, and others replace plans meanwhile.
OldRow(k) ==
    IF k[1] = "time_blocks" THEN rows[<<"schedule_plans", rows[k].plan>>].old ELSE rows[k].old
CleanupSparesYoung ==
    [][\A c \in Callers :
          /\ caller[c].phase = "running"
          /\ caller[c].call.of = "retention"
          /\ caller'[c] # caller[c]
          => \A k \in Keys : rows[k] # NoRow /\ rows'[k] = NoRow => OldRow(k)]_vars

\* Every call ends, also when it waits for rows, deadlocks, fails or its COMMIT
\* is not answered: no transaction keeps its locks and its connection for ever.
CallsEnd == \A c \in Callers : caller[c] # Idle ~> caller[c] = Idle
=============================================================================
