-------------------------------- MODULE Imports --------------------------------
(***************************************************************************)
(* The imports of the API (src/src/api.ts): tasks from JSON, CSV and       *)
(* OwnerOps rows, guidance for tasks, calendar events from an ICS file and *)
(* from ConnectOS.  Each is a loop whose every turn writes the whole store *)
(* (src/src/repositories.ts, src/src/store.ts).                            *)
(*                                                                         *)
(* No other request runs meanwhile, but the process may die between two    *)
(* writes, and a write may fail: memory keeps the change, the file does    *)
(* not.  The loops over task rows catch that like any error of a row; the  *)
(* others end their request.  A dry run writes nothing and is left out;    *)
(* whether an import is let in is decided in Throttles.                    *)
(***************************************************************************)
EXTENDS Integers, Sequences, FiniteSets

CONSTANTS
  Scope,         \* tenant, workspace and user
  External,      \* ids that the source gives to its rows
  IdOf,          \* sanitizeId: the id of the item that stands for a row
  Request,       \* [kind, scope, rows, cancelled]; a row is [external, valid]
  Absent, Idle,
  MaxRequests,   \* bound on requests
  MaxFaults      \* bound on crashes and failed writes

Kind == {"tasks", "guidance", "ics", "connectos"}
Row == [external : External, valid : BOOLEAN]

ASSUME RequestAssumption ==
  /\ DOMAIN IdOf = External
  /\ \A r \in Request :
       /\ r.kind \in Kind /\ r.scope \in Scope
       /\ r.rows \in Seq(Row) /\ r.cancelled \in Seq(External)
       /\ r.kind # "tasks" => \A i \in DOMAIN r.rows : r.rows[i].valid
       /\ r.kind # "ics" => r.cancelled = <<>>
ASSUME BoundAssumption == MaxRequests \in Nat /\ MaxFaults \in Nat

Number == 1..MaxRequests
Id == {IdOf[x] : x \in External}
\* Ids of events name their source; guidance names tasks.
Origin(kind) == IF kind = "guidance" THEN "tasks" ELSE kind
Source == {"tasks", "ics", "connectos"}
Key == Scope \X Source \X Id
\* created is createdAt, by is what the last request wrote: both name the request.
Item == [created : Number, by : Number]

ASSUME AbsentAssumption == Absent \notin Item

VARIABLES
  memory, disk,   \* the store in the process and in its file: [items, audit]
  serving,        \* the request under way, or Idle
  requests,       \* number of requests so far
  faults,         \* number of crashes and failed writes
  answered        \* history: what the answers called imported, until it is deleted

vars == <<memory, disk, serving, requests, faults, answered>>

-----------------------------------------------------------------------------
KeyOf(r, external) == <<r.scope, Origin(r.kind), IdOf[external]>>
Held(store, scope) == {k \in Key : k[1] = scope /\ store.items[k] # Absent}

\* writeStore; `failed' is where the request goes on when it throws.
Write(store, done, failed) ==
  /\ memory' = store
  /\ \/ disk' = store /\ serving' = done /\ UNCHANGED faults
     \/ /\ faults < MaxFaults /\ faults' = faults + 1
        /\ serving' = failed
        /\ UNCHANGED disk

\* repository.upsert and delete: an item under its key.
Put(store, key, item) == [store EXCEPT !.items = [store.items EXCEPT ![key] = item]]

\* auditEvents.append: an event takes the place of the one with its id, whoever's it is.
Appended(store, id, scope) ==
  [store EXCEPT !.audit = {e \in @ : e.id # id} \union {[id |-> id, scope |-> scope, by |-> requests]}]

\* Ids of audit events: those of imported tasks name no time.
ImportAudit(key, updated) == <<key[2], key[3], IF updated THEN "updated" ELSE "created">>
TimedAudit(key, action) == <<key[2], key[3], action, requests>>

ThisRow == serving.request.rows[serving.i]
Current == KeyOf(serving.request, ThisRow.external)
\* (mutant) Rows are looked up before the first of them is written.
FoundOnFirstLook == serving.known[serving.i]

\* repository.list and find, before the row is written
Found == memory.items[Current] # Absent

InLoop(stage) == serving # Idle /\ serving.stage = stage

\* The next turn of the loop
Turn(s) == [s EXCEPT !.i = @ + 1, !.stage = "row", !.found = FALSE]
\* catch (error): the row is reported, the loop goes on.
Caught(s) == [Turn(s) EXCEPT !.errors = @ + 1, !.clean = FALSE]
Counted(s, updated) ==
  [s EXCEPT !.created = IF updated THEN @ ELSE @ + 1, !.updated = IF updated THEN @ + 1 ELSE @]
Reported(s, key, created, audit) ==
  [s EXCEPT !.imported = @ \union {[key |-> key, by |-> requests, created |-> created, audit |-> audit]}]

-----------------------------------------------------------------------------
Init ==
  /\ memory = [items |-> [k \in Key |-> Absent], audit |-> {}]
  /\ disk = memory
  /\ serving = Idle
  /\ requests = 0 /\ faults = 0
  /\ answered = {}

\* ConnectOS rows are looked up before any of them is written
\* (classifyCalendarEventImports).
Started(r) ==
  [request |-> r, stage |-> "row", i |-> 1, found |-> FALSE, created |-> 0, updated |-> 0,
   errors |-> 0, clean |-> TRUE, before |-> Held(memory, r.scope), imported |-> {}, gone |-> <<>>,
   known |-> [i \in DOMAIN r.rows |-> memory.items[KeyOf(r, r.rows[i].external)] # Absent]]

\* The request is let in: by its throttle, which writes, or because none is configured.
Begin(r) ==
  /\ serving = Idle /\ requests < MaxRequests
  /\ requests' = requests + 1
  /\ \/ Write(memory, Started(r), Idle)
     \/ serving' = Started(r) /\ UNCHANGED <<memory, disk, faults>>
  /\ UNCHANGED answered

RejectRow ==
  /\ InLoop("row") /\ serving.i <= Len(serving.request.rows)
  /\ ~ThisRow.valid
  /\ serving' = [Turn(serving) EXCEPT !.errors = @ + 1]
  /\ UNCHANGED <<memory, disk, requests, faults, answered>>

\* applyScheduleGuidance to a task that is not there: 404, the rest is not applied.
MissTask ==
  /\ InLoop("row") /\ serving.i <= Len(serving.request.rows)
  /\ serving.request.kind = "guidance" /\ ~Found
  /\ serving' = Idle
  /\ UNCHANGED <<memory, disk, requests, faults, answered>>

InTasks == serving.request.kind \in {"tasks", "guidance"}

\* (mutant) A task that is imported again is created anew.
SavedAnew(item) == [created |-> requests, by |-> requests]

\* task.createdAt = existingTask.createdAt
Saved(item) == [created |-> IF item = Absent THEN requests ELSE item.created, by |-> requests]

\* upsertImportedTask; applyScheduleGuidance and tasks.upsert.
SaveTask ==
  /\ InLoop("row") /\ serving.i <= Len(serving.request.rows)
  /\ InTasks /\ ThisRow.valid
  /\ serving.request.kind = "guidance" => Found
  /\ Write(Put(memory, Current, Saved(memory.items[Current])),
           [serving EXCEPT !.stage = "audit", !.found = Found],
           IF serving.request.kind = "tasks" THEN Caught(serving) ELSE Idle)
  /\ UNCHANGED <<requests, answered>>

\* The row counts only when its audit event is written, too.
AuditTask ==
  LET id == IF serving.request.kind = "tasks" THEN ImportAudit(Current, serving.found)
            ELSE TimedAudit(Current, "guidance")
  IN  /\ InLoop("audit")
      /\ Write(Appended(memory, id, serving.request.scope),
               Turn(Counted(Reported(serving, Current, memory.items[Current].created, id), serving.found)),
               IF serving.request.kind = "tasks" THEN Caught(serving) ELSE Idle)
      /\ UNCHANGED <<requests, answered>>

EventAction(known) == IF known THEN "changed" ELSE "imported"

\* The first loop of upsertCalendarEvents: an event is replaced as a whole.
SaveEvent ==
  LET id == IF serving.request.kind = "connectos"
              THEN TimedAudit(Current, EventAction(serving.known[serving.i])) ELSE Absent
  IN  /\ InLoop("row") /\ serving.i <= Len(serving.request.rows)
      /\ ~InTasks
      /\ Write(Put(memory, Current, [created |-> requests, by |-> requests]),
               Turn(Counted(Reported(serving, Current, requests, id), Found)), Idle)
      /\ UNCHANGED <<requests, answered>>

EndRows ==
  /\ InLoop("row") /\ serving.i > Len(serving.request.rows)
  /\ serving' = [serving EXCEPT !.stage = IF InTasks THEN "answer" ELSE "cancel", !.i = 1]
  /\ UNCHANGED <<memory, disk, requests, faults, answered>>

NotOf(k, reports) == {a \in reports : a.key # k}

\* The second loop: what is not there is passed over.
CancelEvent ==
  /\ InLoop("cancel") /\ serving.i <= Len(serving.request.cancelled)
  /\ LET k == KeyOf(serving.request, serving.request.cancelled[serving.i])
         next == [serving EXCEPT !.i = @ + 1, !.imported = NotOf(k, @)]
     IN  IF memory.items[k] = Absent
         THEN serving' = next /\ UNCHANGED <<memory, disk, faults, answered>>
         ELSE /\ Write(Put(memory, k, Absent), [next EXCEPT !.gone = Append(@, k)], Idle)
              /\ answered' = NotOf(k, answered)
  /\ UNCHANGED requests

EndCancelled ==
  /\ InLoop("cancel") /\ serving.i > Len(serving.request.cancelled)
  /\ serving' = [serving EXCEPT !.stage = "log", !.i = 1]
  /\ UNCHANGED <<memory, disk, requests, faults, answered>>

\* The audit events of deleted events (ICS), or of all rows as they were first looked up
\* (appendConnectOsCalendarImportAuditEvents).
Evidence ==
  IF serving.request.kind = "ics"
    THEN [i \in DOMAIN serving.gone |-> TimedAudit(serving.gone[i], "changed")]
    ELSE [i \in DOMAIN serving.request.rows |->
            TimedAudit(KeyOf(serving.request, serving.request.rows[i].external),
                       EventAction(serving.known[i]))]

AuditEvent ==
  /\ InLoop("log") /\ serving.i <= Len(Evidence)
  /\ Write(Appended(memory, Evidence[serving.i], serving.request.scope),
           [serving EXCEPT !.i = @ + 1], Idle)
  /\ UNCHANGED <<requests, answered>>

EndLog ==
  /\ InLoop("log") /\ serving.i > Len(Evidence)
  /\ serving' = [serving EXCEPT !.stage = "answer"]
  /\ UNCHANGED <<memory, disk, requests, faults, answered>>

Answer ==
  /\ InLoop("answer")
  /\ answered' = answered \union serving.imported
  /\ serving' = Idle
  /\ UNCHANGED <<memory, disk, requests, faults>>

\* DELETE /api/tasks/:id; the audit events of the task stay.
DeleteTask(k) ==
  /\ serving = Idle /\ k[2] = "tasks" /\ memory.items[k] # Absent
  /\ Write(Put(memory, k, Absent), Idle, Idle)
  /\ answered' = NotOf(k, answered)
  /\ UNCHANGED requests

\* The process dies and starts again from its file.
Crash ==
  /\ faults < MaxFaults /\ faults' = faults + 1
  /\ memory' = disk
  /\ serving' = Idle
  /\ UNCHANGED <<disk, requests, answered>>

Next ==
  \/ \E r \in Request : Begin(r)
  \/ RejectRow \/ MissTask \/ SaveTask \/ AuditTask \/ SaveEvent
  \/ EndRows \/ CancelEvent \/ EndCancelled \/ AuditEvent \/ EndLog \/ Answer
  \/ \E k \in Key : DeleteTask(k)
  \/ Crash

Spec == Init /\ [][Next]_vars

-----------------------------------------------------------------------------
Stage == {"row", "audit", "cancel", "log", "answer"}
AuditId == (Source \X Id \X {"created", "updated"})
             \union (Source \X Id \X {"guidance", "imported", "changed"} \X Number)
Store == [items : [Key -> Item \union {Absent}],
          audit : SUBSET [id : AuditId, scope : Scope, by : Number]]
Report == [key : Key, by : Number, created : Number, audit : AuditId \union {Absent}]
Serving ==
  [request : Request, stage : Stage, i : Nat \ {0}, found : BOOLEAN, created : Nat,
   updated : Nat, errors : Nat, clean : BOOLEAN, before : SUBSET Key,
   imported : SUBSET Report, gone : Seq(Key), known : Seq(BOOLEAN)]

TypeOK ==
  /\ memory \in Store /\ disk \in Store
  /\ serving \in Serving \union {Idle}
  /\ requests \in 0..MaxRequests /\ faults \in 0..MaxFaults
  /\ answered \subseteq Report
  /\ serving # Idle => /\ requests > 0
                      /\ Len(serving.known) = Len(serving.request.rows)

\* What the counts of an answer are worth (createdCount, updatedCount, errors): every row
\* is counted once, and the scope has as many more items as the answer says, also when rows
\* share an id or an event is imported and cancelled at once.  After failed writes it may
\* have more, but each of them is a row that was reported as an error.
CountsMatch ==
  InLoop("answer") =>
    LET now == Cardinality(Held(memory, serving.request.scope))
        told == Cardinality(serving.before) + serving.created - Len(serving.gone)
    IN  /\ serving.created + serving.updated + serving.errors = Len(serving.request.rows)
        /\ now - told \in 0..serving.errors
        /\ serving.clean => now = told

\* What an answer called imported is in the file with its evidence, whatever dies or fails
\* afterwards, until it is deleted: written by that request or a later one, a task with
\* the createdAt that was answered.  The audit event is there under its id, although it may
\* be another scope's by now: ids of imported tasks differ by source and action alone.
ImportsKept ==
  \A a \in answered :
    /\ disk.items[a.key] # Absent
    /\ disk.items[a.key].by >= a.by
    /\ a.key[2] = "tasks" => disk.items[a.key].created = a.created
    /\ a.audit # Absent => \E e \in disk.audit : e.id = a.audit /\ e.by >= a.by
===============================================================================
