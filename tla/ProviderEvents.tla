---------------------------- MODULE ProviderEvents ----------------------------
(***************************************************************************)
(* The requests by which providers deliver events (src/src/api.ts): sync   *)
(* checkpoints, revocations of an integration, and signed webhook tasks.   *)
(* Each reserves the event's key in the idempotency records, changes an    *)
(* integration state or a task, completes the record and appends an audit  *)
(* event, and every one of these steps writes the whole store to disk      *)
(* (src/src/repositories.ts, src/src/store.ts).                            *)
(*                                                                         *)
(* A request is not interrupted by another, but the process may die        *)
(* between two of its steps, and a write to disk may fail: the request     *)
(* then ends with an error while memory keeps the change.  Providers send  *)
(* any event at any time and as often as they like.  Retention clean-up    *)
(* removes old records and states, as of a time the administrator names.   *)
(***************************************************************************)
EXTENDS Integers

CONSTANTS
  Event,        \* what may be delivered: [kind, key, name, target, status, content, sentAt],
                \* name is how the audit event of a checkpoint or revocation calls it
  Account,      \* external accounts, the targets of checkpoints and revocations
  Task,         \* ids of the tasks, the targets of webhooks
  RecordDays,   \* retention of completed or expired idempotency records
  StateDays,    \* retention of integration states that are not connected
  Window,       \* replay window of signed webhooks
  NoRecord, NoState, NoTask, Idle,
  Unset,        \* a field that is not there
  Horizon,      \* bound on the clock
  MaxFaults     \* bound on crashes and failed writes

Kind == {"checkpoint", "revocation", "webhook"}
Key == {e.key : e \in Event}
Time == 0..Horizon

\* Names of audit events (taskImportAuditEvent, syncCheckpointAuditEvent): a webhook's
\* has only the task and whether it was there; the others' have the provider's source
\* and event id, but not the account, and the time.
AuditId == ({"webhook"} \X Task \X {"created", "updated"})
             \union ({"checkpoint", "revocation"} \X {e.name : e \in {f \in Event : f.kind # "webhook"}}
                        \X Time)

ASSUME EventAssumption ==
  /\ \A e \in Event :
       /\ e.kind \in Kind
       /\ e.kind = "webhook" => e.target \in Task /\ e.sentAt \in Int
       /\ e.kind # "webhook" => e.target \in Account
       /\ e.kind = "checkpoint" => e.status \in {"CONNECTED", "DISCONNECTED", "ERROR"}
  \* The key of a checkpoint or a revocation names its kind and account.
  /\ \A e, f \in Event : e.key = f.key => e.kind = f.kind /\ (e.kind # "webhook" => e.target = f.target)

ASSUME RetentionAssumption ==
  /\ RecordDays \in Nat /\ StateDays \in Nat /\ Window \in Nat
  /\ RecordDays <= StateDays

ASSUME BoundAssumption == Horizon \in Nat /\ MaxFaults \in Nat

Record == [request : Event, status : {"IN_PROGRESS"}, at : Int \union {Unset}]
            \union [request : Event, status : {"COMPLETED"}, at : Time]
State == [status : {"CONNECTED", "DISCONNECTED", "ERROR"},
          cursor : {e.content : e \in Event} \union {Unset}, updated : Time]
Store == [records : [Key -> Record \union {NoRecord}],
          states : [Account -> State \union {NoState}],
          tasks : [Task -> Event \union {NoTask}],
          audit : SUBSET [id : AuditId, event : Event]]
Service == [event : Event, step : {"reserved", "saved", "completed"},
            change : {"created", "updated"}]

ASSUME SentinelAssumption ==
  /\ NoRecord \notin Record /\ NoState \notin State /\ NoTask \notin Event
  /\ Unset \notin Int \union AuditId /\ Idle \notin Service

VARIABLES
  memory, disk,   \* the store in the process and in its file:
                  \* [records, states, tasks, audit]
  serving,        \* the request under way [event, step, change], or Idle
  now,            \* the clock
  faults,         \* number of crashes and failed writes
  taken,          \* history: how often an event took effect since its record was removed
  acknowledged,   \* history: keys answered 201, since their records were removed
  evidence,       \* history: the audit event named in the last 201 of each key
  stranded        \* history: keys whose request was cut short

vars == <<memory, disk, serving, now, faults, taken, acknowledged, evidence, stranded>>
history == <<taken, acknowledged, evidence>>

-----------------------------------------------------------------------------
\* writeStore: the file is replaced as a whole; or the write fails, the request ends
\* with an error, and only memory has changed.
Write(store, keys, next) ==
  /\ memory' = store
  /\ \/ /\ disk' = store
        /\ serving' = next
        /\ UNCHANGED <<faults, stranded>>
     \/ /\ faults < MaxFaults
        /\ faults' = faults + 1
        /\ serving' = Idle
        /\ stranded' = stranded \union keys
        /\ UNCHANGED disk

At(e, step, change) == [event |-> e, step |-> step, change |-> change]

Disconnected(store, account) ==
  store.states[account] # NoState /\ store.states[account].status = "DISCONNECTED"

\* The integration state a checkpoint saves, and the one a revocation saves.
CheckpointState(e) == [status |-> e.status, cursor |-> e.content, updated |-> now]
RevokedState == [status |-> "DISCONNECTED", cursor |-> Unset, updated |-> now]

\* What the event changes: integrationStates.upsert, or upsertImportedTask.
Effect(store, e) ==
  CASE e.kind = "checkpoint" -> [store EXCEPT !.states[e.target] = CheckpointState(e)]
    [] e.kind = "revocation" -> [store EXCEPT !.states[e.target] = RevokedState]
    [] e.kind = "webhook" -> [store EXCEPT !.tasks[e.target] = e]

\* upsertImportedTask: whether the task was there.
Change(store, e) ==
  IF e.kind = "webhook" /\ store.tasks[e.target] # NoTask THEN "updated" ELSE "created"

\* idempotency.reserve; only a webhook's record expires.
Reserved(store, e) ==
  [store EXCEPT !.records[e.key] =
     [request |-> e, status |-> "IN_PROGRESS",
      at |-> IF e.kind = "webhook" THEN e.sentAt + Window ELSE Unset]]

Completed(store, e) ==
  [store EXCEPT !.records[e.key] = [request |-> e, status |-> "COMPLETED", at |-> now]]

-----------------------------------------------------------------------------
Init ==
  /\ memory = [records |-> [k \in Key |-> NoRecord], states |-> [a \in Account |-> NoState],
               tasks |-> [t \in Task |-> NoTask], audit |-> {}]
  /\ disk = memory
  /\ serving = Idle /\ now = 0 /\ faults = 0
  /\ taken = [k \in Key |-> 0]
  /\ acknowledged = {} /\ evidence = [k \in Key |-> Unset] /\ stranded = {}

\* What is checked before the event's key is reserved.
InReplayWindow(e) == now - e.sentAt \in -Window..Window
Admitted(e) ==
  /\ e.kind = "checkpoint" => ~Disconnected(memory, e.target)
  /\ e.kind = "webhook" => InReplayWindow(e)

\* (mutant) The integration is looked at after the reservation.
ReceiveThenCheck(e) ==
  /\ serving = Idle
  /\ e.kind = "webhook" => Admitted(e)
  /\ memory.records[e.key] = NoRecord
  /\ Write(Reserved(memory, e), {e.key}, IF Admitted(e) THEN At(e, "reserved", "created") ELSE Idle)
  /\ UNCHANGED <<now, history>>

\* (mutant) A reservation that was not completed is taken over.
ReceiveUncompleted(e) ==
  /\ serving = Idle
  /\ Admitted(e)
  /\ memory.records[e.key] # NoRecord => memory.records[e.key].status = "IN_PROGRESS"
  /\ Write(Reserved(memory, e), {e.key}, At(e, "reserved", "created"))
  /\ UNCHANGED <<now, history>>

Receive(e) ==
  /\ serving = Idle
  /\ Admitted(e)
  /\ memory.records[e.key] = NoRecord
  /\ Write(Reserved(memory, e), {e.key}, At(e, "reserved", "created"))
  /\ UNCHANGED <<now, history>>

\* The event is answered 200 with "idempotent: true": its key was reserved for the same
\* request, and there is a current state to return.  Nothing changes.
AnsweredAsDuplicate(e) ==
  /\ Admitted(e)
  /\ e.kind # "webhook"
  /\ memory.records[e.key] # NoRecord
  /\ memory.records[e.key].request = e
  /\ memory.states[e.target] # NoState

TakeEffect ==
  /\ serving # Idle /\ serving.step = "reserved"
  /\ Write(Effect(memory, serving.event), {serving.event.key},
           At(serving.event, "saved", Change(memory, serving.event)))
  /\ taken' = [taken EXCEPT ![serving.event.key] = @ + 1]
  /\ UNCHANGED <<now, acknowledged, evidence>>

Complete ==
  /\ serving # Idle /\ serving.step = "saved"
  /\ Write(Completed(memory, serving.event), {serving.event.key},
           At(serving.event, "completed", serving.change))
  /\ UNCHANGED <<now, history>>

\* The audit event that ends the request, and the store with it: it replaces the one
\* that has its name.
AuditEvent(service) ==
  [id |-> IF service.event.kind = "webhook"
            THEN <<"webhook", service.event.target, service.change>>
            ELSE <<service.event.kind, service.event.name, now>>,
   event |-> service.event]
Audited(store, audit) ==
  [store EXCEPT !.audit = {a \in @ : a.id # audit.id} \union {audit}]

\* (mutant) The answer is sent whether or not the write succeeds.
AuditUnchecked ==
  /\ serving # Idle /\ serving.step = "completed"
  /\ Write(Audited(memory, AuditEvent(serving)), {serving.event.key}, Idle)
  /\ acknowledged' = acknowledged \union {serving.event.key}
  /\ evidence' = [evidence EXCEPT ![serving.event.key] = AuditEvent(serving).id]
  /\ UNCHANGED <<now, taken>>

\* auditEvents.append, and the answer 201 if the write succeeds.
Audit ==
  /\ serving # Idle /\ serving.step = "completed"
  /\ Write(Audited(memory, AuditEvent(serving)), {serving.event.key}, Idle)
  /\ IF faults' = faults
       THEN /\ acknowledged' = acknowledged \union {serving.event.key}
            /\ evidence' = [evidence EXCEPT ![serving.event.key] = AuditEvent(serving).id]
       ELSE UNCHANGED <<acknowledged, evidence>>
  /\ UNCHANGED <<now, taken>>

\* idempotencyEligible: a request that was cut short is kept forever, unless it expires.
Expired(record, asOf) ==
  /\ record # NoRecord
  /\ record.at # Unset
  /\ record.at < asOf - RecordDays

\* (mutant) A state goes as soon as it is not connected.
OutdatedAtOnce(state, asOf) ==
  /\ state # NoState
  /\ state.status # "CONNECTED"
  /\ state.updated < asOf

\* integrationEligible
Outdated(state, asOf) ==
  /\ state # NoState
  /\ state.status # "CONNECTED"
  /\ state.updated < asOf - StateDays

Pruned(store, asOf) ==
  [store EXCEPT
     !.records = [k \in Key |-> IF Expired(@[k], asOf) THEN NoRecord ELSE @[k]],
     !.states = [a \in Account |-> IF Outdated(@[a], asOf) THEN NoState ELSE @[a]]]

\* POST /api/retention/cleanup: memory is pruned, and written with the audit event.
Cleanup(asOf) ==
  LET removed == {k \in Key : Expired(memory.records[k], asOf)} IN
  /\ serving = Idle
  /\ Write(Pruned(memory, asOf), {}, Idle)
  /\ taken' = [k \in Key |-> IF k \in removed THEN 0 ELSE taken[k]]
  /\ acknowledged' = acknowledged \ removed
  /\ evidence' = [k \in Key |-> IF k \in removed THEN Unset ELSE evidence[k]]
  /\ UNCHANGED now

\* The process dies and starts again from its file.
Crash ==
  /\ faults < MaxFaults
  /\ faults' = faults + 1
  /\ memory' = disk
  /\ stranded' = IF serving = Idle THEN stranded ELSE stranded \union {serving.event.key}
  /\ serving' = Idle
  /\ UNCHANGED <<disk, now, history>>

Tick ==
  /\ serving = Idle /\ now < Horizon
  /\ now' = now + 1
  /\ UNCHANGED <<memory, disk, serving, faults, history, stranded>>

Next ==
  \/ \E e \in Event : Receive(e)
  \/ TakeEffect \/ Complete \/ Audit
  \/ \E asOf \in 0..Horizon + StateDays + 1 : Cleanup(asOf)
  \/ Crash \/ Tick

Spec == Init /\ [][Next]_vars

-----------------------------------------------------------------------------
\* Types; a record is kept under the key of its request.
TypeOK ==
  /\ memory \in Store /\ disk \in Store
  /\ \A k \in Key : /\ memory.records[k] # NoRecord => memory.records[k].request.key = k
                    /\ disk.records[k] # NoRecord => disk.records[k].request.key = k
  /\ serving \in Service \union {Idle}
  /\ now \in Time /\ faults \in 0..MaxFaults
  /\ taken \in [Key -> Nat]
  /\ acknowledged \in SUBSET Key /\ stranded \in SUBSET Key
  /\ evidence \in [Key -> AuditId \union {Unset}]

\* While the record of an event is kept it takes effect at most once, whatever is
\* sent again, dies or fails (docs/integrations/calendar-providers.md:78), and it is
\* answered as new only when it has.
Promise == INSTANCE AtMostOnce
TakesEffectOnce == Promise!Spec

\* A completed record, in memory or in the file, stands for something: the task or the
\* integration state is there, and a revoked integration is still disconnected.  It
\* rests on states being retained at least as long as records, and on the refusal of
\* checkpoints once disconnected.
RecordHasEffect(store, record) ==
  record # NoRecord /\ record.status = "COMPLETED" =>
    IF record.request.kind = "webhook"
      THEN store.tasks[record.request.target] # NoTask
      ELSE /\ store.states[record.request.target] # NoState
           /\ store.states[record.request.target].updated >= record.at
           /\ record.request.kind = "revocation" => Disconnected(store, record.request.target)
CompletedHasEffect ==
  \A store \in {memory, disk} : \A k \in Key : RecordHasEffect(store, store.records[k])

\* An event that was answered 201 is completed in the file until retention removes its
\* record, and the file has the audit event that the answer named, through any crash;
\* that event is its own or that of a later delivery whose audit event has the same name.
AcknowledgedSurvives ==
  \A k \in acknowledged :
    /\ disk.records[k] # NoRecord
    /\ disk.records[k].status = "COMPLETED"
    /\ \E a \in disk.audit : a.id = evidence[k]

\* Only a crash or a failed write leaves a reservation behind without its completion:
\* no check that comes after the reservation refuses the request.
OnlyFaultsStrand ==
  \A k \in Key :
    \/ memory.records[k] = NoRecord
    \/ memory.records[k].status = "COMPLETED"
    \/ k \in stranded
    \/ serving # Idle /\ serving.event.key = k

\* An event that would be answered as a duplicate was taken
\* (docs/integrations/calendar-providers.md:98: "Exact duplicate deliveries return the
\* saved state with `idempotent: true`").
DuplicateWasTaken ==
  \A e \in Event : serving = Idle /\ AnsweredAsDuplicate(e) => taken[e.key] > 0
===============================================================================
