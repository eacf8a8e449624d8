------------------------- MODULE ProviderEventsProofs -------------------------
(***************************************************************************)
(* For every set of events, accounts and tasks, every retention in which   *)
(* states are kept at least as long as records, and any number of crashes  *)
(* and failed writes: events take effect at most once, completed records   *)
(* stand for an effect, and acknowledged events survive.                   *)
(***************************************************************************)
EXTENDS ProviderEvents, TLAPS

\* Whether the effect of e is in the store, as of now.
Effected(store, e) ==
  IF e.kind = "webhook"
    THEN store.tasks[e.target] # NoTask
    ELSE /\ store.states[e.target] # NoState
         /\ store.states[e.target].updated = now
         /\ e.kind = "revocation" => Disconnected(store, e.target)

\* What holds of the store in memory and of the one in the file alike.
RecordInv(store, k) ==
  /\ RecordHasEffect(store, store.records[k])
  /\ store.records[k] # NoRecord =>
       /\ store.records[k].status = "COMPLETED" => store.records[k].at <= now
       /\ \/ store.records[k].status = "COMPLETED"
          \/ k \in stranded
          \/ serving # Idle /\ serving.event.key = k
  /\ taken[k] # 0 => store.records[k] # NoRecord
  /\ k \in acknowledged =>
       /\ store.records[k] # NoRecord
       /\ store.records[k].status = "COMPLETED"
       /\ \E a \in store.audit : a.id = evidence[k]

StoreInv(store) == \A k \in Key : RecordInv(store, k)

\* Where the request under way stands; the file holds all it has written.
ServingInv ==
  serving # Idle =>
    /\ disk = memory
    /\ memory.records[serving.event.key] # NoRecord
    /\ memory.records[serving.event.key].request = serving.event
    /\ serving.step = "reserved" =>
         /\ memory.records[serving.event.key].status = "IN_PROGRESS"
         /\ taken[serving.event.key] = 0
         /\ serving.event.kind = "checkpoint" => ~Disconnected(memory, serving.event.target)
    /\ serving.step = "saved" =>
         /\ memory.records[serving.event.key].status = "IN_PROGRESS"
         /\ taken[serving.event.key] = 1
         /\ Effected(memory, serving.event)
    /\ serving.step = "completed" =>
         /\ memory.records[serving.event.key].status = "COMPLETED"
         /\ taken[serving.event.key] = 1

TakenInv == /\ \A k \in Key : taken[k] \in {0, 1}
            /\ \A k \in acknowledged : taken[k] = 1

IInv == TypeOK /\ StoreInv(memory) /\ StoreInv(disk) /\ ServingInv /\ TakenInv

-----------------------------------------------------------------------------
LEMMA KeyOfEvent == \A e \in Event : e.key \in Key
BY DEF Key

\* An event's effect on a store.
LEMMA EffectFacts ==
  ASSUME NEW store \in Store, NEW e \in Event, now \in Time
  PROVE  /\ Effect(store, e) \in Store
         /\ Effect(store, e).records = store.records
         /\ Effect(store, e).audit = store.audit
         /\ Effected(Effect(store, e), e)
         /\ \A t \in Task : store.tasks[t] # NoTask => Effect(store, e).tasks[t] # NoTask
         /\ \A a \in Account :
              \/ Effect(store, e).states[a] = store.states[a]
              \/ /\ e.kind # "webhook" /\ e.target = a
                 /\ Effect(store, e).states[a] # NoState
                 /\ Effect(store, e).states[a].updated = now
                 /\ e.kind = "revocation" => Effect(store, e).states[a].status = "DISCONNECTED"
<1>1. e.kind \in {"checkpoint", "revocation", "webhook"}
  BY EventAssumption DEF Kind
<1>2. CASE e.kind = "webhook"
  <2>1. e.target \in Task
    BY <1>2, EventAssumption
  <2>2. Effect(store, e) = [store EXCEPT !.tasks[e.target] = e]
    BY <1>2 DEF Effect
  <2>. QED BY <1>2, <2>1, <2>2, SentinelAssumption DEF Store, Effected
<1>3. CASE e.kind = "revocation"
  <2>1. e.target \in Account
    BY <1>3, EventAssumption
  <2>. DEFINE new == [status |-> "DISCONNECTED", cursor |-> Unset, updated |-> now]
  <2>2. Effect(store, e) = [store EXCEPT !.states[e.target] = new]
    BY <1>3 DEF Effect, RevokedState
  <2>3. new \in State
    BY DEF State
  <2>4. new # NoState /\ new.updated = now /\ new.status = "DISCONNECTED"
    BY <2>3, SentinelAssumption
  <2>. HIDE DEF new
  <2>. QED BY <1>3, <2>1, <2>2, <2>3, <2>4 DEF Store, Effected, Disconnected
<1>4. CASE e.kind = "checkpoint"
  <2>1. e.target \in Account /\ e.status \in {"CONNECTED", "DISCONNECTED", "ERROR"}
    BY <1>4, EventAssumption
  <2>. DEFINE new == [status |-> e.status, cursor |-> e.content, updated |-> now]
  <2>2. Effect(store, e) = [store EXCEPT !.states[e.target] = new]
    BY <1>4 DEF Effect, CheckpointState
  <2>3. new \in State
    BY <2>1 DEF State
  <2>4. new # NoState /\ new.updated = now
    BY <2>3, SentinelAssumption
  <2>. HIDE DEF new
  <2>. QED BY <1>4, <2>1, <2>2, <2>3, <2>4 DEF Store, Effected
<1>. QED BY <1>1, <1>2, <1>3, <1>4

\* The stores that reserve and complete a record.
LEMMA ReservedFacts ==
  ASSUME NEW store \in Store, NEW e \in Event
  PROVE  /\ Reserved(store, e) \in Store
         /\ Reserved(store, e).records[e.key] \in Record
         /\ Reserved(store, e).records[e.key] # NoRecord
         /\ Reserved(store, e).records[e.key].request = e
         /\ Reserved(store, e).records[e.key].status = "IN_PROGRESS"
         /\ \A k \in Key : k # e.key => Reserved(store, e).records[k] = store.records[k]
         /\ Reserved(store, e).states = store.states
         /\ Reserved(store, e).tasks = store.tasks
         /\ Reserved(store, e).audit = store.audit
<1>. DEFINE at == IF e.kind = "webhook" THEN e.sentAt + Window ELSE Unset
            new == [request |-> e, status |-> "IN_PROGRESS", at |-> at]
<1>1. at \in Int \union {Unset}
  BY EventAssumption, RetentionAssumption
<1>2. Reserved(store, e) = [store EXCEPT !.records[e.key] = new]
  BY DEF Reserved
<1>. HIDE DEF at
<1>3. new \in Record
  BY <1>1 DEF Record
<1>4. new # NoRecord /\ new.request = e /\ new.status = "IN_PROGRESS"
  BY <1>3, SentinelAssumption
<1>. HIDE DEF new
<1>. QED BY <1>2, <1>3, <1>4, KeyOfEvent DEF Store

LEMMA CompletedFacts ==
  ASSUME NEW store \in Store, NEW e \in Event, now \in Time
  PROVE  /\ Completed(store, e) \in Store
         /\ Completed(store, e).records[e.key] # NoRecord
         /\ Completed(store, e).records[e.key].request = e
         /\ Completed(store, e).records[e.key].status = "COMPLETED"
         /\ Completed(store, e).records[e.key].at = now
         /\ \A k \in Key : k # e.key => Completed(store, e).records[k] = store.records[k]
         /\ Completed(store, e).states = store.states
         /\ Completed(store, e).tasks = store.tasks
         /\ Completed(store, e).audit = store.audit
<1>. DEFINE new == [request |-> e, status |-> "COMPLETED", at |-> now]
<1>1. new \in Record
  BY DEF Record
<1>2. new # NoRecord /\ new.request = e /\ new.status = "COMPLETED" /\ new.at = now
  BY <1>1, SentinelAssumption
<1>3. Completed(store, e) = [store EXCEPT !.records[e.key] = new]
  BY DEF Completed
<1>. HIDE DEF new
<1>. QED BY <1>1, <1>2, <1>3, KeyOfEvent DEF Store

\* What retention leaves of a store.
LEMMA PrunedFacts ==
  ASSUME NEW store \in Store, NEW asOf \in Int
  PROVE  /\ Pruned(store, asOf) \in Store
         /\ \A k \in Key : Pruned(store, asOf).records[k] =
              IF Expired(store.records[k], asOf) THEN NoRecord ELSE store.records[k]
         /\ \A a \in Account : Pruned(store, asOf).states[a] =
              IF Outdated(store.states[a], asOf) THEN NoState ELSE store.states[a]
         /\ Pruned(store, asOf).tasks = store.tasks
         /\ Pruned(store, asOf).audit = store.audit
BY DEF Pruned, Store

-----------------------------------------------------------------------------
LEMMA InitInv == Init => IInv
<1>. SUFFICES ASSUME Init PROVE IInv
  OBVIOUS
<1>1. memory \in Store
  BY DEF Init, Store
<1>2. TypeOK
  BY <1>1, BoundAssumption DEF Init, TypeOK, Time
<1>. QED BY <1>2 DEF Init, IInv, StoreInv, RecordInv, RecordHasEffect, ServingInv, TakenInv

\* A write leaves in the file what memory holds, or what the file held.
LEMMA WriteCases ==
  ASSUME NEW store, NEW keys, NEW next, Write(store, keys, next)
  PROVE  /\ memory' = store
         /\ \/ disk' = memory' /\ serving' = next /\ faults' = faults /\ stranded' = stranded
            \/ /\ disk' = disk /\ serving' = Idle /\ stranded' = stranded \union keys
               /\ faults < MaxFaults /\ faults' = faults + 1
BY DEF Write

LEMMA ReceiveInv ==
  ASSUME IInv, NEW e \in Event, Receive(e)
  PROVE  IInv'
<1>. USE DEF IInv
<1>. DEFINE new == Reserved(memory, e)
<1>1. /\ memory' = new
      /\ \/ disk' = memory' /\ serving' = At(e, "reserved", "created") /\ faults' = faults /\ stranded' = stranded
         \/ /\ disk' = disk /\ serving' = Idle /\ stranded' = stranded \union {e.key}
            /\ faults < MaxFaults /\ faults' = faults + 1
  BY WriteCases DEF Receive
<1>2. /\ serving = Idle /\ Admitted(e) /\ memory.records[e.key] = NoRecord
      /\ now' = now /\ taken' = taken /\ acknowledged' = acknowledged /\ evidence' = evidence
  BY DEF Receive, history
<1>3. memory \in Store /\ disk \in Store /\ e.key \in Key
  BY KeyOfEvent DEF TypeOK
<1>4. /\ new \in Store
      /\ new.records[e.key] # NoRecord
      /\ new.records[e.key].request = e
      /\ new.records[e.key].status = "IN_PROGRESS"
      /\ \A k \in Key : k # e.key => new.records[k] = memory.records[k]
      /\ new.states = memory.states /\ new.tasks = memory.tasks /\ new.audit = memory.audit
  BY <1>3, ReservedFacts
<1>. HIDE DEF new
<1>5. At(e, "reserved", "created") \in Service /\ At(e, "reserved", "created") # Idle
      /\ At(e, "reserved", "created").event = e /\ At(e, "reserved", "created").step = "reserved"
  BY SentinelAssumption DEF At, Service
<1>6. TypeOK'
  BY <1>1, <1>2, <1>3, <1>4, <1>5, BoundAssumption DEF TypeOK
<1>7. taken[e.key] = 0 /\ e.key \notin acknowledged
  BY <1>2, <1>3 DEF StoreInv, RecordInv, TakenInv, TypeOK
<1>8. StoreInv(memory)'
  <2>. SUFFICES ASSUME NEW k \in Key PROVE RecordInv(memory, k)'
    BY DEF StoreInv
  <2>1. CASE k = e.key
    BY <2>1, <1>1, <1>2, <1>4, <1>5, <1>7 DEF RecordInv, RecordHasEffect
  <2>2. CASE k # e.key
    <3>1. RecordInv(memory, k)
      BY DEF StoreInv
    <3>2. memory'.records[k] = memory.records[k]
      BY <2>2, <1>1, <1>4
    <3>3. RecordHasEffect(memory', memory'.records[k])
      BY <3>1, <3>2, <1>1, <1>4 DEF RecordInv, RecordHasEffect, Disconnected
    <3>. QED BY <3>1, <3>2, <3>3, <1>1, <1>2, <1>4, <1>5 DEF RecordInv
  <2>. QED BY <2>1, <2>2
<1>9. StoreInv(disk)'
  <2>1. CASE disk' = memory'
    BY <2>1, <1>8 DEF StoreInv, RecordInv
  <2>2. CASE disk' = disk /\ stranded' = stranded \union {e.key}
    BY <2>2, <1>2, <1>7 DEF StoreInv, RecordInv
  <2>. QED BY <1>1, <2>1, <2>2
<1>10. ServingInv'
  BY <1>1, <1>2, <1>3, <1>4, <1>5, <1>7 DEF ServingInv, Admitted, Disconnected
<1>11. TakenInv'
  BY <1>2 DEF TakenInv
<1>. QED BY <1>6, <1>8, <1>9, <1>10, <1>11

\* The request of a kept record, and its target.
LEMMA RecordTarget ==
  ASSUME NEW store \in Store, NEW k \in Key, store.records[k] # NoRecord
  PROVE  /\ store.records[k].request \in Event
         /\ store.records[k].request.kind = "webhook" => store.records[k].request.target \in Task
         /\ store.records[k].request.kind # "webhook" => store.records[k].request.target \in Account
         /\ store.records[k].status = "COMPLETED" => store.records[k].at \in Time
<1>1. store.records[k] \in Record
  BY DEF Store
<1>2. store.records[k].request \in Event
  BY <1>1 DEF Record
<1>3. store.records[k].status = "COMPLETED" => store.records[k].at \in Time
  BY <1>1 DEF Record
<1>. QED BY <1>2, <1>3, EventAssumption

LEMMA TakeEffectInv ==
  ASSUME IInv, TakeEffect
  PROVE  IInv'
<1>. USE DEF IInv
<1>. DEFINE e == serving.event
            new == Effect(memory, e)
<1>1. /\ memory' = new
      /\ \/ disk' = memory' /\ serving' = At(e, "saved", Change(memory, e)) /\ faults' = faults /\ stranded' = stranded
         \/ /\ disk' = disk /\ serving' = Idle /\ stranded' = stranded \union {e.key}
            /\ faults < MaxFaults /\ faults' = faults + 1
  BY WriteCases DEF TakeEffect
<1>2. /\ serving # Idle /\ serving.step = "reserved"
      /\ taken' = [taken EXCEPT ![e.key] = @ + 1]
      /\ now' = now /\ acknowledged' = acknowledged /\ evidence' = evidence
  BY DEF TakeEffect
<1>3. /\ memory \in Store /\ disk \in Store /\ e \in Event /\ e.key \in Key /\ now \in Time
      /\ taken \in [Key -> Nat]
  BY <1>2, KeyOfEvent DEF TypeOK, Service
<1>4. /\ new \in Store
      /\ new.records = memory.records /\ new.audit = memory.audit
      /\ Effected(new, e)
      /\ \A t \in Task : memory.tasks[t] # NoTask => new.tasks[t] # NoTask
      /\ \A a \in Account :
           \/ new.states[a] = memory.states[a]
           \/ /\ e.kind # "webhook" /\ e.target = a
              /\ new.states[a] # NoState
              /\ new.states[a].updated = now
              /\ e.kind = "revocation" => new.states[a].status = "DISCONNECTED"
  BY <1>3, EffectFacts
<1>5. /\ disk = memory
      /\ memory.records[e.key] # NoRecord
      /\ memory.records[e.key].request = e
      /\ memory.records[e.key].status = "IN_PROGRESS"
      /\ taken[e.key] = 0
      /\ e.kind = "checkpoint" => ~Disconnected(memory, e.target)
  BY <1>2 DEF ServingInv
<1>. HIDE DEF new, e
<1>15. Change(memory, e) \in {"created", "updated"}
  BY DEF Change
<1>6. At(e, "saved", Change(memory, e)) \in Service /\ At(e, "saved", Change(memory, e)) # Idle
      /\ At(e, "saved", Change(memory, e)).event = e /\ At(e, "saved", Change(memory, e)).step = "saved"
  BY <1>3, <1>15, SentinelAssumption DEF At, Service
<1>7. TypeOK'
  BY <1>1, <1>2, <1>3, <1>4, <1>6, BoundAssumption DEF TypeOK
<1>8. taken'[e.key] = 1 /\ \A k \in Key : k # e.key => taken'[k] = taken[k]
  BY <1>2, <1>3, <1>5
<1>9. e.key \notin acknowledged
  BY <1>3, <1>5 DEF TakenInv
<1>10. ASSUME NEW k \in Key
       PROVE  RecordHasEffect(new, memory.records[k])
  <2>. SUFFICES ASSUME memory.records[k] # NoRecord, memory.records[k].status = "COMPLETED"
                PROVE  RecordHasEffect(new, memory.records[k])
    BY DEF RecordHasEffect
  <2>. DEFINE r == memory.records[k]
  <2>1. /\ r.request.kind = "webhook" => r.request.target \in Task
        /\ r.request.kind # "webhook" => r.request.target \in Account
        /\ r.at \in Time
    BY <1>3, RecordTarget
  <2>2. RecordHasEffect(memory, r) /\ r.at <= now
    BY DEF StoreInv, RecordInv
  <2>3. e.kind \in {"checkpoint", "revocation", "webhook"}
    BY <1>3, EventAssumption DEF Kind
  <2>4. r # NoRecord /\ r.status = "COMPLETED"
    OBVIOUS
  <2>. SUFFICES RecordHasEffect(new, r)
    OBVIOUS
  <2>. HIDE DEF r
  <2>5. CASE r.request.kind = "webhook"
    BY <2>1, <2>2, <2>4, <2>5, <1>4 DEF RecordHasEffect
  <2>6. CASE r.request.kind # "webhook"
    <3>1. CASE new.states[r.request.target] = memory.states[r.request.target]
      BY <3>1, <2>2, <2>4, <2>6 DEF RecordHasEffect, Disconnected
    <3>2. CASE /\ e.kind # "webhook" /\ e.target = r.request.target
               /\ new.states[r.request.target] # NoState
               /\ new.states[r.request.target].updated = now
               /\ e.kind = "revocation" => new.states[r.request.target].status = "DISCONNECTED"
      BY <3>2, <2>1, <2>2, <2>3, <2>4, <2>6, <1>3, <1>5 DEF RecordHasEffect, Disconnected, Time
    <3>. QED BY <2>1, <2>6, <3>1, <3>2, <1>4
  <2>. QED BY <2>5, <2>6
<1>11. StoreInv(memory)'
  <2>. SUFFICES ASSUME NEW k \in Key PROVE RecordInv(memory, k)'
    BY DEF StoreInv
  <2>1. RecordInv(memory, k)
    BY DEF StoreInv
  <2>2. RecordHasEffect(memory', memory'.records[k])
    BY <1>1, <1>4, <1>10
  <2>. QED BY <2>1, <2>2, <1>1, <1>2, <1>4, <1>5, <1>6, <1>8 DEF RecordInv, e
<1>12. StoreInv(disk)'
  <2>1. CASE disk' = memory'
    BY <2>1, <1>11 DEF StoreInv, RecordInv
  <2>2. CASE disk' = disk /\ serving' = Idle /\ stranded' = stranded \union {e.key}
    <3>. SUFFICES ASSUME NEW k \in Key PROVE RecordInv(disk, k)'
      BY DEF StoreInv
    <3>1. RecordInv(disk, k)
      BY DEF StoreInv
    <3>. QED BY <2>2, <3>1, <1>2, <1>5, <1>8 DEF RecordInv, e
  <2>. QED BY <1>1, <2>1, <2>2
<1>13. ServingInv'
  <2>1. CASE serving' = Idle
    BY <2>1 DEF ServingInv
  <2>2. CASE disk' = memory' /\ serving' = At(e, "saved", Change(memory, e))
    <3>1. /\ e.kind = "webhook" => memory'.tasks[e.target] # NoTask
          /\ e.kind # "webhook" =>
               /\ memory'.states[e.target] # NoState
               /\ memory'.states[e.target].updated = now'
               /\ e.kind = "revocation" => Disconnected(memory', e.target)
      BY <1>1, <1>2, <1>4 DEF Effected
    <3>. QED BY <2>2, <3>1, <1>1, <1>2, <1>4, <1>5, <1>6, <1>8 DEF ServingInv, Effected
  <2>. QED BY <1>1, <2>1, <2>2
<1>14. TakenInv'
  BY <1>2, <1>8, <1>9 DEF TakenInv, TypeOK
<1>. QED BY <1>7, <1>11, <1>12, <1>13, <1>14

LEMMA CompleteInv ==
  ASSUME IInv, Complete
  PROVE  IInv'
<1>. USE DEF IInv
<1>. DEFINE e == serving.event
            new == Completed(memory, e)
<1>1. /\ memory' = new
      /\ \/ disk' = memory' /\ serving' = At(e, "completed", serving.change) /\ faults' = faults /\ stranded' = stranded
         \/ /\ disk' = disk /\ serving' = Idle /\ stranded' = stranded \union {e.key}
            /\ faults < MaxFaults /\ faults' = faults + 1
  BY WriteCases DEF Complete
<1>2. /\ serving # Idle /\ serving.step = "saved"
      /\ now' = now /\ taken' = taken /\ acknowledged' = acknowledged /\ evidence' = evidence
  BY DEF Complete, history
<1>3. /\ memory \in Store /\ disk \in Store /\ e \in Event /\ e.key \in Key /\ now \in Time
      /\ serving.change \in {"created", "updated"}
  BY <1>2, KeyOfEvent DEF TypeOK, Service
<1>4. /\ new \in Store
      /\ new.records[e.key] # NoRecord
      /\ new.records[e.key].request = e
      /\ new.records[e.key].status = "COMPLETED"
      /\ new.records[e.key].at = now
      /\ \A k \in Key : k # e.key => new.records[k] = memory.records[k]
      /\ new.states = memory.states /\ new.tasks = memory.tasks /\ new.audit = memory.audit
  BY <1>3, CompletedFacts
<1>5. /\ disk = memory
      /\ memory.records[e.key] # NoRecord
      /\ memory.records[e.key].status = "IN_PROGRESS"
      /\ taken[e.key] = 1
      /\ Effected(memory, e)
  BY <1>2 DEF ServingInv
<1>6. e.key \notin acknowledged
  BY <1>3, <1>5 DEF StoreInv, RecordInv
<1>. HIDE DEF new, e
<1>7. At(e, "completed", serving.change) \in Service /\ At(e, "completed", serving.change) # Idle
      /\ At(e, "completed", serving.change).event = e /\ At(e, "completed", serving.change).step = "completed"
  BY <1>3, SentinelAssumption DEF At, Service
<1>8. TypeOK'
  BY <1>1, <1>2, <1>3, <1>4, <1>7, BoundAssumption DEF TypeOK
<1>9. StoreInv(memory)'
  <2>. SUFFICES ASSUME NEW k \in Key PROVE RecordInv(memory, k)'
    BY DEF StoreInv
  <2>1. CASE k = e.key
    <3>1. RecordHasEffect(memory', memory'.records[k])
      BY <2>1, <1>1, <1>3, <1>4, <1>5 DEF RecordHasEffect, Effected, Disconnected, Time
    <3>. QED BY <2>1, <3>1, <1>1, <1>2, <1>3, <1>4, <1>6 DEF RecordInv, Time
  <2>2. CASE k # e.key
    <3>1. RecordInv(memory, k)
      BY DEF StoreInv
    <3>2. memory'.records[k] = memory.records[k]
      BY <2>2, <1>1, <1>4
    <3>3. RecordHasEffect(memory', memory'.records[k])
      BY <3>1, <3>2, <1>1, <1>4 DEF RecordInv, RecordHasEffect, Disconnected
    <3>. QED BY <2>2, <3>1, <3>2, <3>3, <1>1, <1>2, <1>4, <1>7 DEF RecordInv, e
  <2>. QED BY <2>1, <2>2
<1>10. StoreInv(disk)'
  <2>1. CASE disk' = memory'
    BY <2>1, <1>9 DEF StoreInv, RecordInv
  <2>2. CASE disk' = disk /\ serving' = Idle /\ stranded' = stranded \union {e.key}
    <3>. SUFFICES ASSUME NEW k \in Key PROVE RecordInv(disk, k)'
      BY DEF StoreInv
    <3>1. RecordInv(disk, k)
      BY DEF StoreInv
    <3>. QED BY <2>2, <3>1, <1>2, <1>6 DEF RecordInv, e
  <2>. QED BY <1>1, <2>1, <2>2
<1>11. ServingInv'
  BY <1>1, <1>2, <1>3, <1>4, <1>5, <1>7 DEF ServingInv
<1>12. TakenInv'
  BY <1>2 DEF TakenInv
<1>. QED BY <1>8, <1>9, <1>10, <1>11, <1>12

\* The audit event of a request, and a store with it.
LEMMA AuditEventFacts ==
  ASSUME NEW service \in Service, now \in Time
  PROVE  AuditEvent(service) \in [id : AuditId, event : Event]
<1>1. service.event \in Event /\ service.change \in {"created", "updated"}
  BY DEF Service
<1>2. CASE service.event.kind = "webhook"
  BY <1>1, <1>2, EventAssumption DEF AuditEvent, AuditId
<1>3. CASE service.event.kind # "webhook"
  <2>1. service.event.kind \in {"checkpoint", "revocation"}
    BY <1>1, <1>3, EventAssumption DEF Kind
  <2>. QED BY <1>1, <1>3, <2>1 DEF AuditEvent, AuditId
<1>. QED BY <1>2, <1>3

LEMMA AuditedFacts ==
  ASSUME NEW store \in Store, NEW audit \in [id : AuditId, event : Event]
  PROVE  /\ Audited(store, audit) \in Store
         /\ Audited(store, audit).records = store.records
         /\ Audited(store, audit).states = store.states
         /\ Audited(store, audit).tasks = store.tasks
         /\ \E a \in Audited(store, audit).audit : a.id = audit.id
         /\ \A a \in store.audit : \E b \in Audited(store, audit).audit : b.id = a.id
<1>. DEFINE new == {a \in store.audit : a.id # audit.id} \union {audit}
<1>1. Audited(store, audit) = [store EXCEPT !.audit = new]
  BY DEF Audited
<1>2. new \in SUBSET [id : AuditId, event : Event]
  BY DEF Store
<1>3. audit \in new /\ \A a \in store.audit : \E b \in new : b.id = a.id
  OBVIOUS
<1>. HIDE DEF new
<1>4. /\ Audited(store, audit) \in Store /\ Audited(store, audit).audit = new
      /\ Audited(store, audit).records = store.records
      /\ Audited(store, audit).states = store.states
      /\ Audited(store, audit).tasks = store.tasks
  BY <1>1, <1>2 DEF Store
<1>. QED BY <1>3, <1>4

LEMMA AuditInv ==
  ASSUME IInv, Audit
  PROVE  IInv'
<1>. USE DEF IInv
<1>. DEFINE e == serving.event
            audit == AuditEvent(serving)
            new == Audited(memory, audit)
<1>1. /\ memory' = new
      /\ serving' = Idle
      /\ \/ disk' = memory' /\ faults' = faults /\ stranded' = stranded
         \/ /\ disk' = disk /\ stranded' = stranded \union {e.key}
            /\ faults < MaxFaults /\ faults' = faults + 1
  BY WriteCases DEF Audit
<1>2. /\ serving # Idle /\ serving.step = "completed"
      /\ now' = now /\ taken' = taken
      /\ IF faults' = faults
           THEN /\ acknowledged' = acknowledged \union {e.key}
                /\ evidence' = [evidence EXCEPT ![e.key] = audit.id]
           ELSE acknowledged' = acknowledged /\ evidence' = evidence
  BY DEF Audit
<1>3. /\ memory \in Store /\ disk \in Store /\ e \in Event /\ e.key \in Key /\ faults \in Nat
      /\ serving \in Service /\ now \in Time /\ evidence \in [Key -> AuditId \union {Unset}]
  BY <1>2, KeyOfEvent DEF TypeOK, Service
<1>11. audit \in [id : AuditId, event : Event]
  BY <1>3, AuditEventFacts
<1>4. /\ new \in Store
      /\ new.records = memory.records /\ new.states = memory.states /\ new.tasks = memory.tasks
      /\ \E a \in new.audit : a.id = audit.id
      /\ \A a \in memory.audit : \E b \in new.audit : b.id = a.id
  BY <1>3, <1>11, AuditedFacts
<1>5. /\ disk = memory
      /\ memory.records[e.key] # NoRecord
      /\ memory.records[e.key].request = e
      /\ memory.records[e.key].status = "COMPLETED"
      /\ taken[e.key] = 1
  BY <1>2 DEF ServingInv
<1>. HIDE DEF new, audit, e
<1>6. TypeOK'
  BY <1>1, <1>2, <1>3, <1>4, <1>11, BoundAssumption DEF TypeOK
<1>7. StoreInv(memory)'
  <2>. SUFFICES ASSUME NEW k \in Key PROVE RecordInv(memory, k)'
    BY DEF StoreInv
  <2>1. RecordInv(memory, k)
    BY DEF StoreInv
  <2>2. RecordHasEffect(memory', memory'.records[k])
    BY <2>1, <1>1, <1>4 DEF RecordInv, RecordHasEffect, Disconnected
  <2>3. k \in acknowledged' => \E a \in new.audit : a.id = evidence'[k]
    BY <2>1, <1>2, <1>3, <1>4 DEF RecordInv
  <2>. QED BY <2>1, <2>2, <2>3, <1>1, <1>2, <1>4, <1>5 DEF RecordInv, e
<1>8. StoreInv(disk)'
  <2>1. CASE disk' = memory'
    BY <2>1, <1>7 DEF StoreInv, RecordInv
  <2>2. CASE disk' = disk /\ faults' = faults + 1 /\ stranded' = stranded \union {e.key}
    <3>. SUFFICES ASSUME NEW k \in Key PROVE RecordInv(disk, k)'
      BY DEF StoreInv
    <3>1. RecordInv(disk, k) /\ acknowledged' = acknowledged /\ evidence' = evidence
      BY <2>2, <1>2, <1>3 DEF StoreInv
    <3>. QED BY <2>2, <3>1, <1>1, <1>2 DEF RecordInv, e
  <2>. QED BY <1>1, <2>1, <2>2
<1>9. ServingInv'
  BY <1>1 DEF ServingInv
<1>10. TakenInv'
  BY <1>2, <1>5 DEF TakenInv
<1>. QED BY <1>6, <1>7, <1>8, <1>9, <1>10

LEMMA CleanupInv ==
  ASSUME IInv, NEW asOf \in Int, Cleanup(asOf)
  PROVE  IInv'
<1>. USE DEF IInv
<1>. DEFINE new == Pruned(memory, asOf)
            removed == {k \in Key : Expired(memory.records[k], asOf)}
<1>1. /\ memory' = new
      /\ serving' = Idle
      /\ \/ disk' = memory' /\ faults' = faults /\ stranded' = stranded
         \/ /\ disk' = disk /\ stranded' = stranded \union {}
            /\ faults < MaxFaults /\ faults' = faults + 1
  BY WriteCases DEF Cleanup
<1>2. /\ serving = Idle
      /\ taken' = [k \in Key |-> IF k \in removed THEN 0 ELSE taken[k]]
      /\ acknowledged' = acknowledged \ removed
      /\ evidence' = [k \in Key |-> IF k \in removed THEN Unset ELSE evidence[k]]
      /\ now' = now
  BY DEF Cleanup
<1>3. memory \in Store /\ disk \in Store /\ now \in Time
  BY DEF TypeOK
<1>4. /\ new \in Store
      /\ \A k \in Key : new.records[k] =
           IF Expired(memory.records[k], asOf) THEN NoRecord ELSE memory.records[k]
      /\ \A a \in Account : new.states[a] =
           IF Outdated(memory.states[a], asOf) THEN NoState ELSE memory.states[a]
      /\ new.tasks = memory.tasks /\ new.audit = memory.audit
  BY <1>3, PrunedFacts
<1>5. \A k \in Key : k \in removed <=> Expired(memory.records[k], asOf)
  OBVIOUS
<1>6. removed \subseteq Key
  OBVIOUS
<1>. HIDE DEF new, removed
<1>7. TypeOK'
  BY <1>1, <1>2, <1>3, <1>4, <1>6, BoundAssumption DEF TypeOK
<1>8. StoreInv(memory)'
  <2>. SUFFICES ASSUME NEW k \in Key PROVE RecordInv(memory, k)'
    BY DEF StoreInv
  <2>1. RecordInv(memory, k)
    BY DEF StoreInv
  <2>2. CASE k \in removed
    BY <2>2, <1>1, <1>2, <1>4, <1>5 DEF RecordInv, RecordHasEffect
  <2>3. CASE k \notin removed
    <3>1. memory'.records[k] = memory.records[k] /\ ~Expired(memory.records[k], asOf)
      BY <2>3, <1>1, <1>4, <1>5
    <3>2. RecordHasEffect(memory', memory.records[k])
      <4>. SUFFICES ASSUME memory.records[k] # NoRecord, memory.records[k].status = "COMPLETED"
                    PROVE  RecordHasEffect(memory', memory.records[k])
        BY DEF RecordHasEffect
      <4>. DEFINE r == memory.records[k]
      <4>1. /\ r.request.kind = "webhook" => r.request.target \in Task
            /\ r.request.kind # "webhook" => r.request.target \in Account
            /\ r.at \in Time
        BY <1>3, RecordTarget
      <4>2. RecordHasEffect(memory, r) /\ r # NoRecord /\ r.status = "COMPLETED" /\ ~Expired(r, asOf)
        BY <2>1, <3>1 DEF RecordInv
      <4>. SUFFICES RecordHasEffect(memory', r)
        OBVIOUS
      <4>. HIDE DEF r
      <4>3. CASE r.request.kind = "webhook"
        BY <4>2, <4>3, <1>1, <1>4 DEF RecordHasEffect
      <4>4. CASE r.request.kind # "webhook"
        <5>. DEFINE st == memory.states[r.request.target]
        <5>1. st # NoState /\ st.updated >= r.at /\ r.request.target \in Account
          BY <4>1, <4>2, <4>4 DEF RecordHasEffect
        <5>2. st \in State
          BY <5>1, <1>3 DEF Store
        <5>3. st.updated \in Int /\ r.at \in Int
          BY <5>2, <4>1 DEF State, Time
        <5>4. r.at >= asOf - RecordDays
          BY <4>2, <5>3, RetentionAssumption, SentinelAssumption DEF Expired
        <5>5. st.updated >= asOf - StateDays
          BY <5>1, <5>3, <5>4, RetentionAssumption
        <5>6. ~Outdated(st, asOf)
          BY <5>3, <5>5, RetentionAssumption DEF Outdated
        <5>7. memory'.states[r.request.target] = st
          BY <5>1, <5>6, <1>1, <1>4
        <5>. QED BY <4>2, <4>4, <5>7 DEF RecordHasEffect, Disconnected
      <4>. QED BY <4>3, <4>4
    <3>. QED BY <2>1, <2>3, <3>1, <3>2, <1>1, <1>2, <1>4 DEF RecordInv
  <2>. QED BY <2>2, <2>3
<1>9. StoreInv(disk)'
  <2>1. CASE disk' = memory'
    BY <2>1, <1>8 DEF StoreInv, RecordInv
  <2>2. CASE disk' = disk /\ stranded' = stranded \union {}
    <3>. SUFFICES ASSUME NEW k \in Key PROVE RecordInv(disk, k)'
      BY DEF StoreInv
    <3>1. RecordInv(disk, k)
      BY DEF StoreInv
    <3>2. taken'[k] # 0 => taken[k] # 0
      BY <1>2
    <3>. QED BY <2>2, <3>1, <3>2, <1>1, <1>2 DEF RecordInv
  <2>. QED BY <1>1, <2>1, <2>2
<1>10. ServingInv'
  BY <1>1 DEF ServingInv
<1>11. TakenInv'
  BY <1>2, <1>6 DEF TakenInv, TypeOK
<1>. QED BY <1>7, <1>8, <1>9, <1>10, <1>11

LEMMA CrashInv ==
  ASSUME IInv, Crash
  PROVE  IInv'
<1>. USE DEF IInv
<1>1. TypeOK'
  <2>1. serving # Idle => serving.event.key \in Key
    BY KeyOfEvent DEF TypeOK, Service
  <2>. QED BY <2>1, BoundAssumption DEF Crash, history, TypeOK, Store
<1>2. StoreInv(disk)'
  <2>. SUFFICES ASSUME NEW k \in Key PROVE RecordInv(disk, k)'
    BY DEF StoreInv
  <2>1. RecordInv(disk, k)
    BY DEF StoreInv
  <2>. QED BY <2>1 DEF RecordInv, Crash, history
<1>3. StoreInv(memory)'
  BY <1>2 DEF StoreInv, RecordInv, Crash
<1>. QED BY <1>1, <1>2, <1>3 DEF Crash, history, ServingInv, TakenInv

LEMMA TickInv ==
  ASSUME IInv, Tick
  PROVE  IInv'
<1>. USE DEF IInv
<1>1. TypeOK'
  BY BoundAssumption DEF Tick, history, TypeOK, Time
<1>2. ASSUME NEW store \in Store, store \in {memory, disk}, NEW k \in Key
      PROVE  /\ store.records[k] # NoRecord /\ store.records[k].status = "COMPLETED"
                  => store.records[k].at <= now'
  BY <1>2, RecordTarget DEF Tick, StoreInv, RecordInv, TypeOK, Time
<1>3. StoreInv(memory)' /\ StoreInv(disk)'
  BY <1>2 DEF Tick, history, StoreInv, RecordInv, TypeOK
<1>. QED BY <1>1, <1>3 DEF Tick, history, ServingInv, TakenInv

-----------------------------------------------------------------------------
\* The inductive invariant.
THEOREM Inductive == Spec => []IInv
<1>1. IInv /\ [Next]_vars => IInv'
  <2>. SUFFICES ASSUME IInv, [Next]_vars PROVE IInv'
    OBVIOUS
  <2>1. ASSUME NEW e \in Event, Receive(e) PROVE IInv'
    BY <2>1, ReceiveInv
  <2>2. CASE TakeEffect
    BY <2>2, TakeEffectInv
  <2>3. CASE Complete
    BY <2>3, CompleteInv
  <2>4. CASE Audit
    BY <2>4, AuditInv
  <2>5. ASSUME NEW asOf \in 0..Horizon + StateDays + 1, Cleanup(asOf) PROVE IInv'
    BY <2>5, CleanupInv
  <2>6. CASE Crash
    BY <2>6, CrashInv
  <2>7. CASE Tick
    BY <2>7, TickInv
  <2>8. CASE UNCHANGED vars
    BY <2>8 DEF vars, IInv, TypeOK, StoreInv, RecordInv, ServingInv, Effected, TakenInv
  <2>. QED BY <2>1, <2>2, <2>3, <2>4, <2>5, <2>6, <2>7, <2>8 DEF Next
<1>. QED BY <1>1, InitInv, PTL DEF Spec

\* Every variable keeps its type.
THEOREM TypeCorrect == Spec => []TypeOK
BY Inductive, PTL DEF IInv

\* A completed record, in memory or in the file, stands for a task or an integration
\* state, and a revoked integration stays disconnected (recordSyncCheckpoint,
\* recordIntegrationRevocation, cleanupLocalStoreRetention).
THEOREM CompletedRecords == Spec => []CompletedHasEffect
<1>1. IInv => CompletedHasEffect
  BY DEF IInv, StoreInv, RecordInv, CompletedHasEffect
<1>. QED BY <1>1, Inductive, PTL

\* What was answered 201 is completed in the file, which has the audit event that the
\* answer named, or a later one of the same name (writeStore, auditEvents.append).
THEOREM AcknowledgedEvents == Spec => []AcknowledgedSurvives
<1>1. IInv => AcknowledgedSurvives
  BY DEF IInv, TypeOK, StoreInv, RecordInv, AcknowledgedSurvives
<1>. QED BY <1>1, Inductive, PTL

\* Only a crash or a failed write leaves a reservation behind.
THEOREM StrandedReservations == Spec => []OnlyFaultsStrand
<1>1. IInv => OnlyFaultsStrand
  BY DEF IInv, StoreInv, RecordInv, OnlyFaultsStrand
<1>. QED BY <1>1, Inductive, PTL

\* Every event takes effect at most once, and is acknowledged only after it has: each
\* step is one of AtMostOnce, or a stutter.
THEOREM AtMostOnceEffect == Spec => TakesEffectOnce
<1>1. Init => Promise!Init
  BY DEF Init, Promise!Init
<1>2. IInv /\ [Next]_vars => [Promise!Next]_<<taken, acknowledged>>
  <2>. SUFFICES ASSUME IInv, [Next]_vars PROVE [Promise!Next]_<<taken, acknowledged>>
    OBVIOUS
  <2>. USE DEF IInv, history
  <2>1. CASE \E e \in Event : Receive(e)
    BY <2>1 DEF Receive
  <2>2. CASE TakeEffect
    <3>1. serving.event.key \in Key /\ taken[serving.event.key] = 0
      BY <2>2, KeyOfEvent DEF TakeEffect, ServingInv, TypeOK, Service
    <3>2. Promise!Take(serving.event.key)
      BY <2>2, <3>1 DEF TakeEffect, Promise!Take, TypeOK
    <3>. QED BY <3>1, <3>2 DEF Promise!Next
  <2>3. CASE Complete
    BY <2>3 DEF Complete
  <2>4. CASE Audit
    <3>1. serving.event.key \in Key /\ taken[serving.event.key] = 1
      BY <2>4, KeyOfEvent DEF Audit, ServingInv, TypeOK, Service
    <3>2. CASE faults' = faults
      BY <2>4, <3>1, <3>2 DEF Audit, Promise!Acknowledge, Promise!Next
    <3>3. CASE faults' # faults
      BY <2>4, <3>3 DEF Audit
    <3>. QED BY <3>2, <3>3
  <2>5. ASSUME NEW asOf \in 0..Horizon + StateDays + 1, Cleanup(asOf)
        PROVE  Promise!Next
    <3>. DEFINE removed == {k \in Key : Expired(memory.records[k], asOf)}
    <3>1. removed \in SUBSET Key
      OBVIOUS
    <3>2. Promise!Forget(removed)
      BY <2>5 DEF Cleanup, Promise!Forget
    <3>. HIDE DEF removed
    <3>. QED BY <3>1, <3>2 DEF Promise!Next
  <2>6. CASE Crash
    BY <2>6 DEF Crash
  <2>7. CASE Tick
    BY <2>7 DEF Tick
  <2>8. CASE UNCHANGED vars
    BY <2>8 DEF vars
  <2>. QED BY <2>1, <2>2, <2>3, <2>4, <2>5, <2>6, <2>7, <2>8 DEF Next
<1>. QED BY <1>1, <1>2, Inductive, PTL DEF Spec, TakesEffectOnce, Promise!Spec
===============================================================================
