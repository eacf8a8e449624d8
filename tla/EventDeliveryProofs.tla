-------------------------- MODULE EventDeliveryProofs --------------------------
(***************************************************************************)
(* For any events, targets, subscriptions and requests, and any number of  *)
(* deliveries, crashes and failed writes: every delivery is recorded once, *)
(* is still with its request or was left unrecorded by a fault, and the    *)
(* record of attempts can be trusted (DeliveryLog).                        *)
(***************************************************************************)
EXTENDS EventDelivery, SequenceTheorems, FiniteSetTheorems, WellFoundedInduction, TLAPS

SendSet == [event : Event, number : Nat \ {0}]
BatchSet == [target : Target, sends : Seq(SendSet)]

\* The record has the failure that a delivery retries, if it is not the first.
Due1(record, target, send) ==
  send.number = 1
  \/ \E i \in 1..Len(record) : /\ record[i].event = send.event
                               /\ record[i].target = target
                               /\ record[i].number + 1 = send.number
                               /\ record[i].outcome = "RETRYABLE"

\* What is still to be sent is due.
PlansDue ==
  \A r \in Request : \A b \in 1..Len(batches[r]) : \A k \in 1..Len(batches[r][b].sends) :
    Due1(log, batches[r][b].target, batches[r][b].sends[k])

\* What was sent and is not recorded yet was due, and is acknowledged if it says so.
Sound(record, acknowledged, attempt) ==
  /\ Due1(record, attempt.target, attempt)
  /\ attempt.outcome = "DELIVERED" => <<attempt.event, attempt.target>> \in acknowledged

AnswersSound ==
  \A r \in Request : \A k \in 1..Len(answered[r]) : Sound(log, received, answered[r][k])

\* Delivery ids are used once: in the record, by one request, or lost.
Distinct(attempts) ==
  \A i, j \in 1..Len(attempts) : attempts[i].id = attempts[j].id => i = j
Apart(first, second) ==
  \A i \in 1..Len(first), j \in 1..Len(second) : first[i].id # second[j].id
HasId(attempts, d) == \E i \in 1..Len(attempts) : attempts[i].id = d

IdsOnce ==
  /\ Distinct(log)
  /\ \A r \in Request : Distinct(answered[r]) /\ Apart(log, answered[r])
  /\ \A r, q \in Request : r # q => Apart(answered[r], answered[q])
  /\ \A d \in lost : ~HasId(log, d) /\ \A r \in Request : ~HasId(answered[r], d)

NoneForgotten ==
  \A d \in 1..sent : HasId(log, d) \/ d \in lost \/ \E r \in Request : HasId(answered[r], d)

IInv == TypeOK /\ PlansDue /\ AnswersSound /\ IdsOnce /\ NoneForgotten

-----------------------------------------------------------------------------
\* A set of naturals that is not empty has a least element.
LEMMA LeastNatural ==
  ASSUME NEW A \in SUBSET Nat, A # {}
  PROVE  \E m \in A : \A k \in A : m <= k
<1>. DEFINE R == {p \in Nat \X Nat : p[1] < p[2]}
<1>1. IsWellFoundedOn(R, Nat)
  BY NatLessThanWellFounded DEF OpToRel
<1>2. PICK m \in A : \A y \in A : ~ (<<y, m>> \in R)
  <2>. HIDE DEF R
  <2>. QED BY <1>1, WFMin
<1>3. ASSUME NEW k \in A PROVE m <= k
  <2>1. ASSUME k < m PROVE <<k, m>> \in R
    <3>1. <<k, m>> \in Nat \X Nat /\ <<k, m>>[1] < <<k, m>>[2]
      BY <2>1
    <3>. QED BY <3>1
  <2>2. ~(k < m)
    <3>. HIDE DEF R
    <3>. QED BY <1>2, <2>1
  <2>. QED BY <2>2
<1>. QED BY <1>3


\* What Kept returns has elements of both the sequence and the set.
LEMMA KeptFacts ==
  ASSUME NEW E, NEW S, NEW seq \in Seq(E)
  PROVE  Kept(seq, S) \in Seq(E \intersect S)
<1>. DEFINE V == Seq(E \intersect S)
            Turn(f, k) == IF k = 0 THEN <<>>
                          ELSE IF seq[k] \in S THEN Append(f[k - 1], seq[k]) ELSE f[k - 1]
<1>0. Len(seq) \in Nat /\ \A k \in 1..Len(seq) : seq[k] \in E
  OBVIOUS
<1>1. ASSUME NEW n \in 0..Len(seq)
      PROVE  \E f \in [0..n -> V] : \A k \in 0..n : f[k] = Turn(f, k)
  <2>. DEFINE Good(i) == \E f \in [0..i -> V] : \A k \in 0..i : f[k] = Turn(f, k)
              A == {i \in 0..Len(seq) : ~Good(i)}
  <2>. SUFFICES A = {}
    OBVIOUS
  <2>. SUFFICES ASSUME A # {} PROVE FALSE
    OBVIOUS
  <2>1. PICK m \in A : \A i \in A : m <= i
    <3>. HIDE DEF Good
    <3>1. A \in SUBSET Nat
      BY <1>0
    <3>. HIDE DEF A
    <3>. QED BY <3>1, LeastNatural
  <2>2. m # 0
    <3>. SUFFICES ASSUME m = 0 PROVE Good(0)
      OBVIOUS
    <3>. DEFINE f == [k \in 0..0 |-> <<>>]
    <3>1. f \in [0..0 -> V] /\ \A k \in 0..0 : f[k] = Turn(f, k)
      OBVIOUS
    <3>. QED BY <3>1
  <2>3. PICK g \in [0..(m - 1) -> V] : \A k \in 0..(m - 1) : g[k] = Turn(g, k)
    <3>1. m - 1 \in 0..Len(seq) /\ ~(m <= m - 1)
      BY <1>0, <2>1, <2>2
    <3>2. m - 1 \notin A
      <4>. HIDE DEF A
      <4>. QED BY <2>1, <3>1
    <3>. QED BY <3>1, <3>2
  <2>. DEFINE last == IF seq[m] \in S THEN Append(g[m - 1], seq[m]) ELSE g[m - 1]
              h == [k \in 0..m |-> IF k < m THEN g[k] ELSE last]
  <2>4. last \in V
    <3>1. m \in 1..Len(seq) /\ m - 1 \in 0..(m - 1)
      BY <1>0, <2>1, <2>2
    <3>2. seq[m] \in E /\ g[m - 1] \in V
      BY <1>0, <2>3, <3>1
    <3>. QED BY <3>2
  <2>5. h \in [0..m -> V]
    BY <2>1, <2>2, <2>3, <2>4
  <2>6. ASSUME NEW k \in 0..m PROVE h[k] = Turn(h, k)
    <3>1. CASE k = m
      BY <3>1, <2>1, <2>2
    <3>2. CASE k # m
      <4>1. k \in 0..(m - 1) /\ h[k] = g[k] /\ (k # 0 => h[k - 1] = g[k - 1])
        BY <3>2, <2>1, <2>2
      <4>. QED BY <4>1, <2>3
    <3>. QED BY <3>1, <3>2
  <2>7. Good(m)
    BY <2>5, <2>6
  <2>. QED BY <2>1, <2>7
<1>. DEFINE F == CHOOSE f : f = [k \in 0..Len(seq) |-> Turn(f, k)]
<1>2. PICK f \in [0..Len(seq) -> V] : \A k \in 0..Len(seq) : f[k] = Turn(f, k)
  <2>1. Len(seq) \in 0..Len(seq)
    BY <1>0
  <2>. HIDE DEF V, Turn
  <2>. QED BY <1>1, <2>1
<1>3. f = [k \in 0..Len(seq) |-> Turn(f, k)]
  BY <1>2
<1>4. F = [k \in 0..Len(seq) |-> Turn(F, k)]
  BY <1>3
<1>5. F[Len(seq)] \in V
  <2>. HIDE DEF F
  <2>. DEFINE A == {i \in 0..Len(seq) : F[i] \notin V}
  <2>. SUFFICES ASSUME A # {} PROVE FALSE
    BY <1>0
  <2>1. PICK m \in A : \A i \in A : m <= i
    <3>1. A \in SUBSET Nat
      BY <1>0
    <3>. HIDE DEF A
    <3>. QED BY <3>1, LeastNatural
  <2>2. F[m] = Turn(F, m)
    BY <1>4, <2>1
  <2>3. m # 0 => F[m - 1] \in V /\ seq[m] \in E
    BY <1>0, <2>1
  <2>4. F[m] \in V
    BY <2>2, <2>3
  <2>. QED BY <2>1, <2>4
<1>6. Kept(seq, S) = F[Len(seq)]
  BY DEF Kept
<1>. QED BY <1>5, <1>6

\* The attempts and batches of a state.
LEMMA TypeFacts ==
  ASSUME TypeOK, NEW r \in Request
  PROVE  /\ answered[r] \in Seq(Attempt) /\ Len(answered[r]) \in Nat
         /\ batches[r] \in Seq(BatchSet) /\ Len(batches[r]) \in Nat
         /\ log \in Seq(Attempt) /\ Len(log) \in Nat
         /\ \A b \in 1..Len(batches[r]) : batches[r][b] \in BatchSet
<1>1. answered[r] \in Seq(Attempt) /\ log \in Seq(Attempt)
  BY DEF TypeOK
<1>2. batches \in [Request -> Seq(BatchSet)]
  BY DEF TypeOK, BatchSet, SendSet
<1>3. batches[r] \in Seq(BatchSet)
  BY <1>2
<1>. HIDE DEF Attempt, BatchSet
<1>. QED BY <1>1, <1>3, LenProperties, ElementOfSeq

\* What the file may be when n attempts are recorded.
FileSet(n) == [events : Seq(Event), subscriptions : Seq([id : Subscription, enabled : BOOLEAN]),
               attempts : 0..n]

LEMMA FileGrows ==
  ASSUME NEW m \in Nat, NEW n \in Nat, m <= n, NEW file \in FileSet(m)
  PROVE  file \in FileSet(n)
BY DEF FileSet

LEMMA FileFacts ==
  ASSUME TypeOK
  PROVE  /\ disk \in FileSet(Len(log)) /\ Memory \in FileSet(Len(log))
         /\ disk.attempts \in 0..Len(log) /\ Len(log) \in Nat
         /\ disk.events \in Seq(Event)
         /\ disk.subscriptions \in Seq([id : Subscription, enabled : BOOLEAN])
<1>1. log \in Seq(Attempt)
  BY DEF TypeOK
<1>. HIDE DEF Attempt
<1>2. Len(log) \in Nat
  BY <1>1, LenProperties
<1>3. disk \in FileSet(Len(log))
  BY DEF TypeOK, FileSet
<1>4. Memory \in FileSet(Len(log))
  BY <1>2 DEF TypeOK, FileSet, Memory
<1>. QED BY <1>2, <1>3, <1>4 DEF FileSet

\* A longer record has every failure that a shorter one had.
Longer(record, longer) ==
  /\ Len(record) \in Nat /\ Len(longer) \in Nat /\ Len(record) <= Len(longer)
  /\ \A i \in 1..Len(record) : longer[i] = record[i]

LEMMA DueStays ==
  ASSUME NEW record, NEW longer, Longer(record, longer), NEW target, NEW send,
         Due1(record, target, send)
  PROVE  Due1(longer, target, send)
BY DEF Longer, Due1

\* A request that holds no attempts.
NothingHeld ==
  /\ Distinct(<<>>) /\ \A d : ~HasId(<<>>, d)
  /\ \A other : Apart(<<>>, other) /\ Apart(other, <<>>)

LEMMA NothingHeldFact == NothingHeld
BY DEF NothingHeld, Distinct, HasId, Apart

-----------------------------------------------------------------------------
LEMMA InitInv == Init => IInv
<1>. SUFFICES ASSUME Init PROVE IInv
  OBVIOUS
<1>1. TypeOK
  BY DeliveryAssumption DEF Init, TypeOK
<1>. QED BY <1>1 DEF Init, IInv, PlansDue, AnswersSound, IdsOnce, NoneForgotten, Distinct, Apart, HasId

\* A step that leaves the record, what was sent and what was answered alone.
LEMMA PlanStep ==
  ASSUME IInv, TypeOK', PlansDue',
         UNCHANGED <<log, answered, sent, lost, received>>
  PROVE  IInv'
BY DEF IInv, AnswersSound, IdsOnce, NoneForgotten

\* A request begins with a plan of deliveries that are due.
LEMMA StartInv ==
  ASSUME IInv, NEW r \in Request, NEW plan \in Seq(BatchSet), Start(r, plan),
         \A b \in 1..Len(plan) : \A k \in 1..Len(plan[b].sends) :
           Due1(log, plan[b].target, plan[b].sends[k])
  PROVE  IInv'
<1>. DEFINE kept == {plan[i] : i \in {j \in DOMAIN plan : plan[j].sends # <<>>}}
            rest == Kept(plan, kept)
<1>1. batches' = [batches EXCEPT ![r] = rest]
  BY DEF Start
<1>2. rest \in Seq(BatchSet \intersect kept)
  BY KeptFacts
<1>3. rest \in Seq(BatchSet) /\ Len(rest) \in Nat /\ \A b \in 1..Len(rest) : rest[b] \in kept
  <2>. HIDE DEF kept, rest, BatchSet
  <2>. QED BY <1>2, SeqMonotonic, LenProperties, ElementOfSeq
<1>4. \A b \in 1..Len(rest) : \A k \in 1..Len(rest[b].sends) :
        Due1(log, rest[b].target, rest[b].sends[k])
  <2>1. DOMAIN plan = 1..Len(plan)
    OBVIOUS
  <2>2. \A batch \in kept : \A k \in 1..Len(batch.sends) : Due1(log, batch.target, batch.sends[k])
    BY <2>1
  <2>. HIDE DEF kept, rest
  <2>. QED BY <1>3, <2>2
<1>5. batches \in [Request -> Seq(BatchSet)]
  BY DEF IInv, TypeOK, BatchSet, SendSet
<1>. HIDE DEF rest
<1>6. batches' \in [Request -> Seq(BatchSet)]
  BY <1>1, <1>3, <1>5
<1>7. \A q \in Request : q # r => batches'[q] = batches[q]
  BY <1>1, <1>5
<1>8. batches'[r] = rest
  BY <1>1, <1>5
<1>9. answered[r] = <<>>
  BY DEF Start, IdleRequests, IInv, TypeOK
<1>10. TypeOK'
  BY <1>6, <1>7, <1>9 DEF Start, IInv, TypeOK, Attempt, BatchSet, SendSet
<1>11. PlansDue'
  BY <1>4, <1>7, <1>8 DEF Start, IInv, PlansDue
<1>. QED BY <1>10, <1>11, PlanStep DEF Start

\* First attempts are always due.
LEMMA FirstFacts ==
  ASSUME NEW es \in Seq(Event), NEW target
  PROVE  /\ FirstAttempts(es) \in Seq(SendSet)
         /\ \A k \in 1..Len(FirstAttempts(es)) : Due1(log, target, FirstAttempts(es)[k])
<1>1. Len(es) \in Nat /\ \A i \in 1..Len(es) : es[i] \in Event
  BY LenProperties, ElementOfSeq
<1>2. \A i \in 1..Len(es) : First(es[i]) \in SendSet /\ First(es[i]).number = 1
  BY <1>1 DEF First, SendSet
<1>3. FirstAttempts(es) = [i \in 1..Len(es) |-> First(es[i])]
  BY DEF FirstAttempts
<1>. HIDE DEF SendSet
<1>4. FirstAttempts(es) \in Seq(SendSet) /\ Len(FirstAttempts(es)) = Len(es)
  BY <1>1, <1>2, <1>3
<1>5. \A k \in 1..Len(FirstAttempts(es)) : FirstAttempts(es)[k].number = 1
  BY <1>1, <1>2, <1>3, <1>4
<1>. QED BY <1>4, <1>5 DEF Due1

LEMMA EventsForFacts ==
  ASSUME IInv, NEW s
  PROVE  EventsFor(s) \in Seq(Event)
<1>1. Kept(events, Wants[s]) \in Seq(Event \intersect Wants[s])
  BY KeptFacts DEF IInv, TypeOK
<1>. QED BY <1>1, SeqMonotonic DEF EventsFor

LEMMA UpToFacts ==
  ASSUME NEW E, NEW seq \in Seq(E), NEW n \in Nat
  PROVE  UpTo(n, seq) \in Seq(E)
<1>. DEFINE m == IF n < Len(seq) THEN n ELSE Len(seq)
<1>1. Len(seq) \in Nat /\ \A i \in 1..Len(seq) : seq[i] \in E
  BY LenProperties, ElementOfSeq
<1>2. m \in Nat /\ \A i \in 1..m : seq[i] \in E
  BY <1>1
<1>. HIDE DEF m
<1>3. SubSeq(seq, 1, m) \in Seq(E)
  BY <1>2, SubSeqProperties
<1>. QED BY <1>3 DEF UpTo, m

\* One batch that is due.
LEMMA OneBatchInv ==
  ASSUME IInv, NEW r \in Request, NEW target \in Target, NEW sends \in Seq(SendSet),
         \A k \in 1..Len(sends) : Due1(log, target, sends[k]),
         Start(r, << [target |-> target, sends |-> sends] >>)
  PROVE  IInv'
<1>. DEFINE batch == [target |-> target, sends |-> sends]
            plan == <<batch>>
<1>1. batch \in BatchSet /\ batch.target = target /\ batch.sends = sends
  BY DEF BatchSet
<1>2. Start(r, plan)
  OBVIOUS
<1>. HIDE DEF batch
<1>3. plan \in Seq(BatchSet) /\ Len(plan) = 1 /\ plan[1] = batch
  BY <1>1
<1>4. \A b \in 1..Len(plan) : b = 1
  BY <1>3
<1>. HIDE DEF plan
<1>. QED BY <1>1, <1>2, <1>3, <1>4, StartInv

LEMMA DeliverAllInv ==
  ASSUME IInv, NEW r \in Request, NEW target \in Target, DeliverAll(r, target)
  PROVE  IInv'
<1>1. events \in Seq(Event)
  BY DEF IInv, TypeOK
<1>. QED BY <1>1, FirstFacts, OneBatchInv DEF DeliverAll

LEMMA DeliverInv ==
  ASSUME IInv, NEW r \in Request, NEW s \in Subscription, Deliver(r, s)
  PROVE  IInv'
<1>1. TargetOf[s] \in Target
  BY DeliveryAssumption
<1>. QED BY <1>1, EventsForFacts, FirstFacts, OneBatchInv DEF Deliver

LEMMA DeliverReadyInv ==
  ASSUME IInv, NEW r \in Request, DeliverReady(r)
  PROVE  IInv'
<1>. DEFINE enabled == Kept(subscriptions, [id : Subscription, enabled : {TRUE}])
            ready == UpTo(MaxSubscriptions, enabled)
            Sends(i) == FirstAttempts(UpTo(MaxEvents, EventsFor(ready[i].id)))
            Ready(i) == [target |-> TargetOf[ready[i].id], sends |-> Sends(i)]
            plan == [i \in DOMAIN ready |-> Ready(i)]
<1>1. Start(r, plan)
  BY DEF DeliverReady
<1>. DEFINE Entry == [id : Subscription, enabled : BOOLEAN] \intersect [id : Subscription, enabled : {TRUE}]
<1>2. enabled \in Seq(Entry)
  BY KeptFacts DEF IInv, TypeOK
<1>3. ready \in Seq(Entry)
  <2>. HIDE DEF enabled, Entry
  <2>. QED BY <1>2, UpToFacts, DeliveryAssumption
<1>4. /\ Len(ready) \in Nat /\ DOMAIN ready = 1..Len(ready)
      /\ \A i \in 1..Len(ready) : ready[i] \in Entry
  <2>. HIDE DEF ready, Entry
  <2>. QED BY <1>3, LenProperties, ElementOfSeq
<1>. HIDE DEF ready
<1>5. ASSUME NEW i \in 1..Len(ready)
      PROVE  /\ Ready(i) \in BatchSet
             /\ \A k \in 1..Len(Ready(i).sends) : Due1(log, Ready(i).target, Ready(i).sends[k])
  <2>1. TargetOf[ready[i].id] \in Target
    BY <1>4, DeliveryAssumption
  <2>2. UpTo(MaxEvents, EventsFor(ready[i].id)) \in Seq(Event)
    BY EventsForFacts, UpToFacts, DeliveryAssumption
  <2>3. /\ Sends(i) \in Seq(SendSet)
        /\ \A k \in 1..Len(Sends(i)) : Due1(log, TargetOf[ready[i].id], Sends(i)[k])
    BY <2>2, FirstFacts
  <2>. HIDE DEF Sends
  <2>. QED BY <2>1, <2>3 DEF BatchSet
<1>. HIDE DEF Ready
<1>6. plan = [i \in 1..Len(ready) |-> Ready(i)]
  BY <1>4
<1>7. plan \in Seq(BatchSet) /\ Len(plan) = Len(ready)
  <2>. HIDE DEF BatchSet
  <2>. QED BY <1>4, <1>5, <1>6
<1>8. \A b \in 1..Len(plan) : \A k \in 1..Len(plan[b].sends) :
        Due1(log, plan[b].target, plan[b].sends[k])
  BY <1>5, <1>6, <1>7
<1>. HIDE DEF plan
<1>. QED BY <1>1, <1>7, <1>8, StartInv

\* What is retried is the failure that makes it due.
LEMMA RetryDueInv ==
  ASSUME IInv, NEW r \in Request, NEW target \in Target, NEW asOf, RetryDue(r, target, asOf)
  PROVE  IInv'
<1>. DEFINE dueFor(i) == {k \in Due(target, asOf) : SameDelivery(i, k)}
            indexes == [i \in DOMAIN log |-> i]
            chosen == {i \in DOMAIN log : dueFor(i) # {} /\ \A j \in 1..i - 1 : ~SameDelivery(i, j)}
            retried == Kept(indexes, chosen)
            Failure(i) == CHOOSE k \in dueFor(i) : TRUE
            retry(i) == [event |-> log[i].event, number |-> log[Failure(i)].number + 1]
            sends == [k \in DOMAIN retried |-> retry(retried[k])]
<1>1. Start(r, << [target |-> target, sends |-> sends] >>)
  BY DEF RetryDue
<1>2. log \in Seq(Attempt) /\ Len(log) \in Nat /\ DOMAIN log = 1..Len(log)
      /\ \A i \in 1..Len(log) : log[i] \in Attempt
  <2>1. log \in Seq(Attempt)
    BY DEF IInv, TypeOK
  <2>. HIDE DEF Attempt
  <2>. QED BY <2>1, LenProperties, ElementOfSeq
<1>3. indexes \in Seq(1..Len(log))
  BY <1>2
<1>4. retried \in Seq((1..Len(log)) \intersect chosen)
  <2>. HIDE DEF indexes, chosen
  <2>. QED BY <1>3, KeptFacts
<1>5. /\ Len(retried) \in Nat /\ DOMAIN retried = 1..Len(retried)
      /\ \A k \in 1..Len(retried) : retried[k] \in 1..Len(log) /\ retried[k] \in chosen
  <2>. HIDE DEF retried, chosen
  <2>. QED BY <1>4, LenProperties, ElementOfSeq
<1>6. ASSUME NEW i \in 1..Len(log), i \in chosen
      PROVE  retry(i) \in SendSet /\ Due1(log, target, retry(i))
  <2>1. Failure(i) \in dueFor(i)
    BY <1>6
  <2>. DEFINE f == Failure(i)
  <2>2. /\ f \in 1..Len(log) /\ log[f].target = target /\ log[f].outcome = "RETRYABLE"
        /\ log[f].event = log[i].event
    BY <1>2, <2>1 DEF Due, Latest, SameDelivery
  <2>. HIDE DEF f
  <2>3. log[f] \in Attempt /\ log[i] \in Attempt
    BY <1>2, <2>2
  <2>4. log[f].number \in Nat \ {0} /\ log[i].event \in Event
    BY <2>3 DEF Attempt
  <2>5. retry(i) = [event |-> log[i].event, number |-> log[f].number + 1]
    BY DEF f
  <2>. HIDE DEF retry
  <2>6. retry(i).event = log[i].event /\ retry(i).number = log[f].number + 1
    BY <2>5
  <2>7. retry(i) \in SendSet
    BY <2>4, <2>5 DEF SendSet
  <2>8. Due1(log, target, retry(i))
    BY <1>2, <2>2, <2>6 DEF Due1
  <2>. QED BY <2>7, <2>8
<1>7. ASSUME NEW k \in 1..Len(retried)
      PROVE  retry(retried[k]) \in SendSet /\ Due1(log, target, retry(retried[k]))
  BY <1>5, <1>6
<1>8. sends = [k \in 1..Len(retried) |-> retry(retried[k])]
  BY <1>5
<1>. HIDE DEF retry, retried
<1>9. sends \in Seq(SendSet) /\ Len(sends) = Len(retried)
  <2>. HIDE DEF SendSet
  <2>. QED BY <1>5, <1>7, <1>8
<1>10. \A k \in 1..Len(sends) : Due1(log, target, sends[k])
  BY <1>7, <1>8, <1>9
<1>. HIDE DEF sends
<1>. QED BY <1>1, <1>9, <1>10, OneBatchInv

-----------------------------------------------------------------------------
\* What is an attempt stays one as time passes and deliveries are sent.
LEMMA AttemptGrows ==
  ASSUME TypeOK, sent' \in Nat, sent <= sent', now' \in Nat, now <= now'
  PROVE  Attempt \subseteq Attempt' /\ Seq(Attempt) \subseteq Seq(Attempt')
<1>1. Attempt \subseteq Attempt'
  BY DEF TypeOK, Attempt
<1>. HIDE DEF Attempt
<1>. QED BY <1>1, SeqMonotonic

\* A request sends its next delivery, under a new id.
LEMMA SendInv ==
  ASSUME IInv, NEW r \in Request, Send(r)
  PROVE  IInv'
<1>. DEFINE batch == batches[r][1]
            send == Head(batch.sends)
            attempt == [id |-> sent + 1, event |-> send.event, target |-> batch.target,
                        number |-> send.number, at |-> now, outcome |-> "RETRYABLE"]
            left == [batch EXCEPT !.sends = Tail(batch.sends)]
            begun == [batches[r] EXCEPT ![1] = left]
            more == Append(answered[r], attempt)
<1>1. TypeOK
  BY DEF IInv
<1>2. /\ batches[r] \in Seq(BatchSet) /\ Len(batches[r]) \in Nat \ {0} /\ Batch(r) = batch
      /\ batch \in BatchSet
  <2>1. batches[r] # <<>>
    BY DEF Send, Sending
  <2>2. batches[r] \in Seq(BatchSet) /\ Len(batches[r]) \in Nat
        /\ \A b \in 1..Len(batches[r]) : batches[r][b] \in BatchSet
    BY <1>1, TypeFacts
  <2>. HIDE DEF BatchSet
  <2>3. Len(batches[r]) # 0
    BY <2>1, <2>2, EmptySeq
  <2>. QED BY <2>1, <2>2, <2>3, HeadTailProperties DEF Batch
<1>3. /\ batch.sends \in Seq(SendSet) /\ batch.target \in Target /\ batch.sends # <<>>
  BY <1>2 DEF BatchSet, Send, Sending
<1>4. /\ Len(batch.sends) \in Nat \ {0} /\ send = batch.sends[1] /\ send \in SendSet
      /\ Tail(batch.sends) \in Seq(SendSet) /\ Len(Tail(batch.sends)) = Len(batch.sends) - 1
      /\ \A k \in 1..Len(Tail(batch.sends)) : Tail(batch.sends)[k] = batch.sends[k + 1]
  <2>. HIDE DEF SendSet, batch
  <2>. QED BY <1>3, LenProperties, EmptySeq, HeadTailProperties, ElementOfSeq
<1>5. sent \in Nat /\ now \in Nat /\ sent' = sent + 1 /\ now' = now /\ log' = log
      /\ lost' = lost /\ received' = received
  BY <1>1 DEF TypeOK, Send
<1>6. send.event \in Event /\ send.number \in Nat \ {0}
  BY <1>4 DEF SendSet
<1>. HIDE DEF send
<1>7. attempt \in Attempt' /\ attempt.id = sent + 1 /\ attempt.outcome = "RETRYABLE"
      /\ attempt.event = send.event /\ attempt.number = send.number /\ attempt.target = batch.target
  BY <1>3, <1>5, <1>6 DEF Attempt, Outcome
<1>8. answered' = [answered EXCEPT ![r] = more]
  BY <1>2 DEF Send, send
<1>. HIDE DEF attempt
<1>9. Seq(Attempt) \subseteq Seq(Attempt') /\ Attempt \subseteq Attempt'
  BY <1>1, <1>5, AttemptGrows
<1>10. /\ more \in Seq(Attempt') /\ Len(more) = Len(answered[r]) + 1
       /\ \A k \in 1..Len(answered[r]) : more[k] = answered[r][k]
       /\ more[Len(answered[r]) + 1] = attempt /\ Len(answered[r]) \in Nat
  <2>1. answered[r] \in Seq(Attempt') /\ Len(answered[r]) \in Nat
    BY <1>1, <1>9, TypeFacts
  <2>. HIDE DEF Attempt
  <2>. QED BY <2>1, <1>7, AppendProperties
<1>11. left = [target |-> batch.target, sends |-> Tail(batch.sends)]
  <2>. HIDE DEF batch
  <2>1. \A v : [batch EXCEPT !.sends = v] = [target |-> batch.target, sends |-> v]
    BY <1>2 DEF BatchSet
  <2>. QED BY <2>1
<1>12. batches' = [batches EXCEPT ![r] = begun]
  BY Zenon DEF Send
<1>13. left \in BatchSet /\ left.target = batch.target /\ left.sends = Tail(batch.sends)
  BY <1>3, <1>4, <1>11 DEF BatchSet
<1>. HIDE DEF left
<1>14. begun \in Seq(BatchSet) /\ Len(begun) = Len(batches[r]) /\ begun[1] = left
       /\ \A b \in 1..Len(begun) : b # 1 => begun[b] = batches[r][b]
  <2>. HIDE DEF BatchSet, batch
  <2>. QED BY <1>2, <1>13, ExceptSeq
<1>. HIDE DEF begun, more
<1>15. batches \in [Request -> Seq(BatchSet)] /\ answered \in [Request -> Seq(Attempt)]
       /\ waiting \in [Request -> BOOLEAN]
  BY <1>1 DEF TypeOK, BatchSet, SendSet
<1>16. /\ batches' \in [Request -> Seq(BatchSet)] /\ answered' \in [Request -> Seq(Attempt')]
       /\ batches'[r] = begun /\ answered'[r] = more
       /\ \A q \in Request : q # r => batches'[q] = batches[q] /\ answered'[q] = answered[q]
  <2>. HIDE DEF Attempt
  <2>. QED BY <1>8, <1>9, <1>10, <1>12, <1>14, <1>15
<1>17. waiting' \in [Request -> BOOLEAN] /\ \A q \in Request : q # r => waiting'[q] = waiting[q]
  BY <1>15 DEF Send
<1>18. more # <<>> /\ begun # <<>>
  <2>. HIDE DEF Attempt, BatchSet
  <2>1. Len(more) # 0 /\ Len(begun) # 0
    BY <1>2, <1>10, <1>14
  <2>. QED BY <2>1, <1>10, <1>14, EmptySeq
<1>19. TypeOK'
  <2>1. batches' \in [Request -> Seq([target : Target, sends : Seq([event : Event, number : Nat \ {0}])])]
    BY <1>16 DEF BatchSet, SendSet
  <2>2. log' \in Seq(Attempt')
    BY <1>1, <1>5, <1>9 DEF TypeOK
  <2>3. \A q \in Request : (waiting'[q] => answered'[q] # <<>>) /\ (answered'[q] # <<>> => batches'[q] # <<>>)
    BY <1>1, <1>16, <1>17, <1>18 DEF TypeOK
  <2>4. lost' \subseteq 1..sent'
    BY <1>1, <1>5 DEF TypeOK
  <2>5. now' \in 0..Horizon /\ crashes' \in 0..MaxCrashes /\ failures' \in 0..MaxFailures /\ sent' \in Nat
        /\ events' \in Seq(Event) /\ subscriptions' \in Seq([id : Subscription, enabled : BOOLEAN])
    BY <1>1 DEF TypeOK, Send
  <2>6. disk' \in [events : Seq(Event), subscriptions : Seq([id : Subscription, enabled : BOOLEAN]),
                   attempts : 0..Len(log')]
    BY <1>1, <1>5 DEF TypeOK, Send
  <2>. HIDE DEF Attempt
  <2>. QED BY <2>1, <2>2, <2>3, <2>4, <2>5, <2>6, <1>16, <1>17 DEF TypeOK
<1>20. PlansDue'
  <2>1. ASSUME NEW q \in Request, NEW b \in 1..Len(batches'[q]), NEW k \in 1..Len(batches'[q][b].sends)
        PROVE  Due1(log, batches'[q][b].target, batches'[q][b].sends[k])
    <3>1. CASE q # r
      BY <3>1, <1>16 DEF IInv, PlansDue
    <3>2. CASE q = r /\ b # 1
      BY <3>2, <1>14, <1>16 DEF IInv, PlansDue
    <3>3. CASE q = r /\ b = 1
      <4>1. batches'[q][b] = left
        BY <3>3, <1>14, <1>16
      <4>2. k \in 1..Len(Tail(batch.sends)) /\ k + 1 \in 1..Len(batch.sends)
        BY <4>1, <1>4, <1>13
      <4>3. Due1(log, batch.target, batch.sends[k + 1])
        BY <4>2, <1>2 DEF IInv, PlansDue
      <4>. QED BY <4>1, <4>2, <4>3, <1>4, <1>13
    <3>. QED BY <3>1, <3>2, <3>3
  <2>. QED BY <2>1, <1>5 DEF PlansDue
<1>21. AnswersSound'
  <2>1. Due1(log, batch.target, send)
    <3>1. 1 \in 1..Len(batches[r]) /\ 1 \in 1..Len(batch.sends)
      BY <1>2, <1>4
    <3>2. Due1(log, batch.target, batch.sends[1])
      BY <3>1 DEF IInv, PlansDue
    <3>. QED BY <3>2, <1>4
  <2>2. Sound(log, received, attempt)
    BY <2>1, <1>7 DEF Sound, Due1
  <2>3. ASSUME NEW q \in Request, NEW k \in 1..Len(answered'[q])
        PROVE  Sound(log, received, answered'[q][k])
    <3>1. CASE q # r
      BY <3>1, <1>16 DEF IInv, AnswersSound
    <3>2. CASE q = r /\ k \in 1..Len(answered[r])
      BY <3>2, <1>10, <1>16 DEF IInv, AnswersSound
    <3>3. CASE q = r /\ k = Len(answered[r]) + 1
      BY <3>3, <2>2, <1>10, <1>16
    <3>. QED BY <3>1, <3>2, <3>3, <1>10, <1>16
  <2>. QED BY <2>3, <1>5 DEF AnswersSound
<1>22. /\ \A i \in 1..Len(log) : log[i].id \in 1..sent
       /\ \A q \in Request : \A i \in 1..Len(answered[q]) : answered[q][i].id \in 1..sent
  <2>1. log \in Seq(Attempt)
    BY <1>1 DEF TypeOK
  <2>2. \A x \in Attempt : x.id \in 1..sent
    BY DEF Attempt
  <2>. HIDE DEF Attempt
  <2>. QED BY <2>1, <2>2, <1>15, ElementOfSeq
<1>23. IdsOnce'
  <2>1. Distinct(log) /\ \A d \in lost : ~HasId(log, d) /\ d \in 1..sent
    BY <1>1 DEF IInv, IdsOnce, TypeOK
  <2>0. \A k \in 1..Len(more) :
          \/ k \in 1..Len(answered[r]) /\ more[k] = answered[r][k] /\ more[k].id \in 1..sent
          \/ k = Len(answered[r]) + 1 /\ more[k].id = sent + 1
    <3>1. \A k \in 1..Len(more) : k \in 1..Len(answered[r]) \/ k = Len(answered[r]) + 1
      BY <1>10
    <3>2. \A k \in 1..Len(answered[r]) : more[k] = answered[r][k] /\ more[k].id \in 1..sent
      BY <1>10, <1>22
    <3>. QED BY <3>1, <3>2, <1>7, <1>10
  <2>9. sent + 1 \notin 1..sent
    BY <1>5
  <2>2. Distinct(more) /\ Apart(log, more)
    <3>1. Distinct(answered[r]) /\ Apart(log, answered[r])
      BY DEF IInv, IdsOnce
    <3>2. Distinct(more)
      BY <3>1, <2>0, <2>9 DEF Distinct
    <3>3. Apart(log, more)
      BY <3>1, <2>0, <2>9, <1>22 DEF Apart
    <3>. QED BY <3>2, <3>3
  <2>3. \A q \in Request : q # r => Apart(answered[q], more) /\ Apart(more, answered[q])
    <3>1. \A q \in Request : q # r => Apart(answered[q], answered[r]) /\ Apart(answered[r], answered[q])
      BY DEF IInv, IdsOnce
    <3>2. ASSUME NEW q \in Request, q # r, NEW i \in 1..Len(answered[q]), NEW k \in 1..Len(more)
          PROVE  answered[q][i].id # more[k].id
      <4>1. answered[q][i].id \in 1..sent
        BY <1>22
      <4>2. CASE k \in 1..Len(answered[r]) /\ more[k] = answered[r][k]
        BY <3>1, <3>2, <4>2 DEF Apart
      <4>. QED BY <4>1, <4>2, <2>0, <2>9
    <3>. QED BY <3>2 DEF Apart
  <2>4. \A d \in lost : ~HasId(more, d)
    <3>1. \A d \in lost : ~HasId(answered[r], d)
      BY DEF IInv, IdsOnce
    <3>. QED BY <3>1, <2>1, <2>0, <2>9 DEF HasId
  <2>. QED BY <2>1, <2>2, <2>3, <2>4, <1>5, <1>16 DEF IInv, IdsOnce
<1>24. NoneForgotten'
  <2>1. HasId(more, sent + 1) /\ \A d : HasId(answered[r], d) => HasId(more, d)
    BY <1>7, <1>10 DEF HasId
  <2>2. ASSUME NEW d \in 1..sent'
        PROVE  HasId(log, d) \/ d \in lost \/ \E q \in Request : HasId(answered'[q], d)
    <3>1. CASE d = sent + 1
      BY <3>1, <2>1, <1>16
    <3>2. CASE d \in 1..sent
      BY <3>2, <2>1, <1>16 DEF IInv, NoneForgotten
    <3>. QED BY <3>1, <3>2, <1>5
  <2>. QED BY <2>2, <1>5 DEF NoneForgotten
<1>. QED BY <1>19, <1>20, <1>21, <1>23, <1>24 DEF IInv

\* The answer to the last attempt of a request changes its outcome and nothing else.
LEMMA AnswerInv ==
  ASSUME IInv, NEW r \in Request, NEW outcome \in Outcome, Answer(r, outcome)
  PROVE  IInv'
<1>. DEFINE last == Len(answered[r])
            attempt == answered[r][last]
            known == [attempt EXCEPT !.outcome = outcome]
            changed == [answered[r] EXCEPT ![last] = known]
<1>1. TypeOK
  BY DEF IInv
<1>2. answered[r] \in Seq(Attempt) /\ last \in Nat \ {0} /\ attempt \in Attempt
  <2>1. answered[r] # <<>> /\ answered[r] \in Seq(Attempt)
    BY <1>1, TypeFacts DEF TypeOK, Answer
  <2>. HIDE DEF Attempt
  <2>2. last \in Nat \ {0}
    BY <2>1, EmptySeq
  <2>. QED BY <2>1, <2>2, ElementOfSeq
<1>3. UNCHANGED <<events, subscriptions, log, disk, batches, now, crashes, failures, planned, sent, lost>>
  BY DEF Answer
<1>4. answered' = [answered EXCEPT ![r] = changed]
  BY Zenon DEF Answer
<1>5. waiting' = [waiting EXCEPT ![r] = FALSE] /\ received \subseteq received'
      /\ (outcome = "DELIVERED" => <<attempt.event, attempt.target>> \in received')
  BY DEF Answer
<1>. HIDE DEF attempt
<1>6. /\ known \in Attempt /\ known.outcome = outcome
      /\ known.id = attempt.id /\ known.event = attempt.event
      /\ known.target = attempt.target /\ known.number = attempt.number
  BY <1>2 DEF Attempt
<1>. HIDE DEF known, Attempt
<1>7. /\ changed \in Seq(Attempt) /\ Len(changed) = last /\ changed[last] = known
      /\ \A i \in 1..last : i # last => changed[i] = answered[r][i]
  BY <1>2, <1>6, ExceptSeq
<1>8. \A i \in 1..last : changed[i].id = answered[r][i].id
  BY <1>6, <1>7 DEF attempt
<1>9. changed # <<>>
  BY <1>2, <1>7, EmptySeq
<1>. HIDE DEF changed
<1>10. Attempt' = Attempt
  BY <1>3 DEF Attempt
<1>11. /\ answered \in [Request -> Seq(Attempt)] /\ answered' \in [Request -> Seq(Attempt)]
       /\ answered'[r] = changed
       /\ \A q \in Request : q # r => answered'[q] = answered[q]
  BY <1>1, <1>4, <1>7 DEF TypeOK
<1>12. waiting' \in [Request -> BOOLEAN] /\ \A q \in Request : waiting'[q] => waiting[q]
  BY <1>1, <1>5 DEF TypeOK
<1>13. TypeOK'
  <2>1. \A q \in Request : (waiting'[q] => answered'[q] # <<>>) /\ (answered'[q] # <<>> => batches'[q] # <<>>)
    <3>1. batches[r] # <<>>
      BY <1>1 DEF TypeOK, Answer
    <3>. QED BY <1>1, <1>3, <1>9, <1>11, <1>12, <3>1 DEF TypeOK
  <2>. QED BY <2>1, <1>1, <1>3, <1>10, <1>11, <1>12 DEF TypeOK
<1>14. PlansDue'
  BY <1>3 DEF IInv, PlansDue
<1>15. AnswersSound'
  <2>1. ASSUME NEW q \in Request, NEW k \in 1..Len(answered'[q])
        PROVE  Sound(log, received', answered'[q][k])
    <3>1. CASE q # r \/ k # last
      <4>1. k \in 1..Len(answered[q]) /\ answered'[q][k] = answered[q][k]
        BY <3>1, <1>7, <1>11
      <4>. QED BY <4>1, <1>5 DEF IInv, AnswersSound, Sound
    <3>2. CASE q = r /\ k = last
      <4>1. answered'[q][k] = known
        BY <3>2, <1>7, <1>11
      <4>2. Due1(log, attempt.target, attempt)
        <5>1. last \in 1..Len(answered[r])
          BY <1>2
        <5>2. Sound(log, received, answered[r][last])
          BY <5>1 DEF IInv, AnswersSound
        <5>. QED BY <5>2 DEF Sound, attempt
      <4>. QED BY <4>1, <4>2, <1>5, <1>6 DEF Sound, Due1
    <3>. QED BY <3>1, <3>2
  <2>. QED BY <2>1, <1>3 DEF AnswersSound
<1>16. \A q \in Request : /\ Len(answered'[q]) = Len(answered[q])
                          /\ \A i \in 1..Len(answered[q]) : answered'[q][i].id = answered[q][i].id
  BY <1>7, <1>8, <1>11
<1>17. IdsOnce' /\ NoneForgotten'
  <2>1. /\ \A q \in Request : Distinct(answered'[q]) <=> Distinct(answered[q])
        /\ \A q \in Request : Apart(log, answered'[q]) <=> Apart(log, answered[q])
        /\ \A q \in Request : \A d : HasId(answered'[q], d) <=> HasId(answered[q], d)
    BY <1>16 DEF Distinct, Apart, HasId
  <2>2. \A q, p \in Request : Apart(answered'[q], answered'[p]) <=> Apart(answered[q], answered[p])
    BY <1>16 DEF Apart
  <2>3. IdsOnce'
    BY <2>1, <2>2, <1>3 DEF IInv, IdsOnce
  <2>4. NoneForgotten'
    BY <2>1, <1>3 DEF IInv, NoneForgotten
  <2>. QED BY <2>3, <2>4
<1>. QED BY <1>13, <1>14, <1>15, <1>17 DEF IInv

-----------------------------------------------------------------------------
\* The record with a first part of what a request was answered.
LEMMA LongerRecord ==
  ASSUME IInv, NEW r \in Request, NEW part \in Seq(Attempt), Len(part) <= Len(answered[r]),
         \A i \in 1..Len(part) : part[i] = answered[r][i],
         NEW longer, longer = log \o part
  PROVE  /\ longer \in Seq(Attempt) /\ Longer(log, longer) /\ Distinct(longer)
         /\ Len(longer) = Len(log) + Len(part)
         /\ \A i \in 1..Len(part) : longer[Len(log) + i] = part[i]
         /\ \A d : HasId(longer, d) <=> HasId(log, d) \/ HasId(part, d)
<1>1. log \in Seq(Attempt) /\ Len(log) \in Nat /\ Len(part) \in Nat /\ Len(answered[r]) \in Nat
  <2>1. TypeOK
    BY DEF IInv
  <2>. HIDE DEF Attempt
  <2>. QED BY <2>1, TypeFacts, LenProperties
<1>. HIDE DEF Attempt
<1>2. /\ longer \in Seq(Attempt) /\ Len(longer) = Len(log) + Len(part)
      /\ \A i \in 1..Len(log) + Len(part) :
           longer[i] = IF i <= Len(log) THEN log[i] ELSE part[i - Len(log)]
  BY <1>1, ConcatProperties
<1>3. \A i \in 1..Len(log) : longer[i] = log[i]
  BY <1>1, <1>2
<1>4. \A i \in 1..Len(part) : longer[Len(log) + i] = part[i]
  <2>. TAKE i \in 1..Len(part)
  <2>1. Len(log) + i \in 1..Len(log) + Len(part) /\ ~(Len(log) + i <= Len(log))
        /\ Len(log) + i - Len(log) = i
    BY <1>1
  <2>. QED BY <2>1, <1>2
<1>5. \A i \in 1..Len(longer) : i \in 1..Len(log) \/ \E k \in 1..Len(part) : i = Len(log) + k
  <2>. SUFFICES ASSUME NEW i \in 1..Len(longer), i \notin 1..Len(log)
                PROVE  \E k \in 1..Len(part) : i = Len(log) + k
    OBVIOUS
  <2>1. i - Len(log) \in 1..Len(part) /\ i = Len(log) + (i - Len(log))
    BY <1>1, <1>2
  <2>. QED BY <2>1
<1>6. \A i \in 1..Len(part) : i \in 1..Len(answered[r])
  BY <1>1
<1>7. Distinct(longer)
  <2>. SUFFICES ASSUME NEW i \in 1..Len(longer), NEW j \in 1..Len(longer), longer[i].id = longer[j].id
                PROVE  i = j
    BY DEF Distinct
  <2>1. Distinct(log) /\ Distinct(answered[r]) /\ Apart(log, answered[r])
    BY DEF IInv, IdsOnce
  <2>2. CASE i \in 1..Len(log) /\ j \in 1..Len(log)
    BY <2>1, <2>2, <1>3 DEF Distinct
  <2>3. CASE i \in 1..Len(log) /\ j \notin 1..Len(log)
    <3>1. PICK k \in 1..Len(part) : j = Len(log) + k
      BY <2>3, <1>5
    <3>2. longer[i] = log[i] /\ longer[j] = answered[r][k] /\ k \in 1..Len(answered[r])
      BY <2>3, <3>1, <1>3, <1>4, <1>6
    <3>. QED BY <2>1, <2>3, <3>2 DEF Apart
  <2>4. CASE i \notin 1..Len(log) /\ j \in 1..Len(log)
    <3>1. PICK k \in 1..Len(part) : i = Len(log) + k
      BY <2>4, <1>5
    <3>2. longer[j] = log[j] /\ longer[i] = answered[r][k] /\ k \in 1..Len(answered[r])
      BY <2>4, <3>1, <1>3, <1>4, <1>6
    <3>. QED BY <2>1, <2>4, <3>2 DEF Apart
  <2>5. CASE i \notin 1..Len(log) /\ j \notin 1..Len(log)
    <3>1. PICK k \in 1..Len(part), m \in 1..Len(part) : i = Len(log) + k /\ j = Len(log) + m
      BY <2>5, <1>5
    <3>2. /\ longer[i] = answered[r][k] /\ k \in 1..Len(answered[r])
          /\ longer[j] = answered[r][m] /\ m \in 1..Len(answered[r])
      BY <3>1, <1>4, <1>6
    <3>. QED BY <2>1, <3>1, <3>2 DEF Distinct
  <2>. QED BY <2>2, <2>3, <2>4, <2>5
<1>8. ASSUME NEW d
      PROVE  HasId(longer, d) <=> HasId(log, d) \/ HasId(part, d)
  <2>1. ASSUME HasId(longer, d) PROVE HasId(log, d) \/ HasId(part, d)
    BY <2>1, <1>3, <1>4, <1>5 DEF HasId
  <2>2. ASSUME HasId(log, d) PROVE HasId(longer, d)
    <3>1. \A i \in 1..Len(log) : i \in 1..Len(longer)
      BY <1>1, <1>2
    <3>. QED BY <2>2, <3>1, <1>3 DEF HasId
  <2>3. ASSUME HasId(part, d) PROVE HasId(longer, d)
    <3>1. \A i \in 1..Len(part) : Len(log) + i \in 1..Len(longer)
      BY <1>1, <1>2
    <3>. QED BY <2>3, <3>1, <1>4 DEF HasId
  <2>. QED BY <2>1, <2>2, <2>3
<1>9. Longer(log, longer)
  BY <1>1, <1>2, <1>3 DEF Longer
<1>. QED BY <1>2, <1>4, <1>7, <1>8, <1>9

\* The attempts of a batch are recorded, and its request goes on to the next batch.
LEMMA RecordInv ==
  ASSUME IInv, NEW r \in Request, Record(r)
  PROVE  IInv'
<1>1. TypeOK
  BY DEF IInv
<1>2. /\ log' = log \o answered[r] /\ answered' = [answered EXCEPT ![r] = <<>>]
      /\ batches' = [batches EXCEPT ![r] = Tail(batches[r])] /\ ~waiting[r]
      /\ UNCHANGED <<events, subscriptions, waiting, now, crashes, failures, planned, sent, lost, received>>
      /\ disk' = [events |-> events, subscriptions |-> subscriptions, attempts |-> Len(log')]
  BY DEF Record, Recording, Memory
<1>3. answered[r] \in Seq(Attempt) /\ Len(answered[r]) \in Nat
      /\ batches[r] \in Seq(BatchSet) /\ batches[r] # <<>> /\ Len(batches[r]) \in Nat
  BY <1>1, TypeFacts DEF Record, Recording
<1>4. /\ log' \in Seq(Attempt) /\ Longer(log, log') /\ Distinct(log')
      /\ \A d : HasId(log', d) <=> HasId(log, d) \/ HasId(answered[r], d)
  <2>1. Len(answered[r]) <= Len(answered[r])
    BY <1>3
  <2>. DEFINE longer == log'
  <2>2. longer = log \o answered[r]
    BY <1>2
  <2>. HIDE DEF Attempt, longer
  <2>3. /\ longer \in Seq(Attempt) /\ Longer(log, longer) /\ Distinct(longer)
        /\ \A d : HasId(longer, d) <=> HasId(log, d) \/ HasId(answered[r], d)
    BY <2>1, <2>2, <1>3, LongerRecord
  <2>. QED BY <2>3 DEF longer
<1>5. Attempt' = Attempt
  BY <1>2 DEF Attempt
<1>6. /\ Tail(batches[r]) \in Seq(BatchSet) /\ Len(Tail(batches[r])) = Len(batches[r]) - 1
      /\ \A b \in 1..Len(Tail(batches[r])) : Tail(batches[r])[b] = batches[r][b + 1]
  <2>. HIDE DEF BatchSet
  <2>. QED BY <1>3, HeadTailProperties
<1>7. batches \in [Request -> Seq(BatchSet)] /\ answered \in [Request -> Seq(Attempt)]
  BY <1>1 DEF TypeOK, BatchSet, SendSet
<1>8. /\ batches' \in [Request -> Seq(BatchSet)] /\ answered' \in [Request -> Seq(Attempt)]
      /\ batches'[r] = Tail(batches[r]) /\ answered'[r] = <<>>
      /\ \A q \in Request : q # r => batches'[q] = batches[q] /\ answered'[q] = answered[q]
  <2>. HIDE DEF Attempt, BatchSet
  <2>. QED BY <1>2, <1>6, <1>7, EmptySeq
<1>9. TypeOK'
  <2>1. batches' \in [Request -> Seq([target : Target, sends : Seq([event : Event, number : Nat \ {0}])])]
    BY <1>8 DEF BatchSet, SendSet
  <2>2. \A q \in Request : (waiting'[q] => answered'[q] # <<>>) /\ (answered'[q] # <<>> => batches'[q] # <<>>)
    BY <1>1, <1>2, <1>8 DEF TypeOK
  <2>3. disk' \in [events : Seq(Event), subscriptions : Seq([id : Subscription, enabled : BOOLEAN]),
                   attempts : 0..Len(log')]
    <3>1. Len(log') \in 0..Len(log')
      BY <1>4 DEF Longer
    <3>. QED BY <3>1, <1>1, <1>2 DEF TypeOK
  <2>. HIDE DEF Attempt
  <2>. QED BY <2>1, <2>2, <2>3, <1>1, <1>2, <1>4, <1>5, <1>8 DEF TypeOK
<1>10. PlansDue'
  <2>1. ASSUME NEW q \in Request, NEW b \in 1..Len(batches'[q]), NEW k \in 1..Len(batches'[q][b].sends)
        PROVE  Due1(log, batches'[q][b].target, batches'[q][b].sends[k])
    <3>1. CASE q # r
      BY <3>1, <1>8 DEF IInv, PlansDue
    <3>2. CASE q = r
      <4>1. b + 1 \in 1..Len(batches[r]) /\ batches'[q][b] = batches[r][b + 1]
        BY <3>2, <1>3, <1>6, <1>8
      <4>. QED BY <4>1 DEF IInv, PlansDue
    <3>. QED BY <3>1, <3>2
  <2>. QED BY <2>1, <1>4, DueStays DEF PlansDue
<1>11. AnswersSound'
  <2>1. ASSUME NEW q \in Request, NEW k \in 1..Len(answered'[q])
        PROVE  Sound(log, received, answered'[q][k])
    <3>1. q # r
      <4>1. Len(<<>>) = 0
        OBVIOUS
      <4>. QED BY <4>1, <1>8
    <3>. QED BY <3>1, <1>8 DEF IInv, AnswersSound
  <2>. QED BY <2>1, <1>2, <1>4, DueStays DEF AnswersSound, Sound
<1>12. NothingHeld
  BY NothingHeldFact
<1>13. IdsOnce'
  <2>1. \A q \in Request : Distinct(answered'[q])
    BY <1>8, <1>12 DEF NothingHeld, IInv, IdsOnce
  <2>2. \A q, p \in Request : q # p => Apart(answered'[q], answered'[p])
    BY <1>8, <1>12 DEF NothingHeld, IInv, IdsOnce
  <2>3. ASSUME NEW q \in Request, NEW i \in 1..Len(log'), NEW j \in 1..Len(answered'[q])
        PROVE  log'[i].id # answered'[q][j].id
    <3>1. q # r /\ answered'[q] = answered[q]
      <4>1. Len(<<>>) = 0
        OBVIOUS
      <4>. QED BY <4>1, <1>8
    <3>2. Apart(log, answered[q]) /\ Apart(answered[r], answered[q])
      BY <3>1 DEF IInv, IdsOnce
    <3>3. HasId(log', log'[i].id)
      BY DEF HasId
    <3>4. HasId(log, log'[i].id) \/ HasId(answered[r], log'[i].id)
      BY <3>3, <1>4
    <3>. QED BY <3>1, <3>2, <3>4 DEF Apart, HasId
  <2>4. \A d \in lost : ~HasId(log', d) /\ \A q \in Request : ~HasId(answered'[q], d)
    BY <1>4, <1>8, <1>12 DEF NothingHeld, IInv, IdsOnce
  <2>. QED BY <2>1, <2>2, <2>3, <2>4, <1>2, <1>4 DEF IdsOnce, Apart
<1>14. NoneForgotten'
  <2>1. ASSUME NEW d \in 1..sent
        PROVE  HasId(log', d) \/ d \in lost \/ \E q \in Request : HasId(answered'[q], d)
    BY <1>4, <1>8 DEF IInv, NoneForgotten
  <2>. QED BY <2>1, <1>2 DEF NoneForgotten
<1>. QED BY <1>9, <1>10, <1>11, <1>13, <1>14 DEF IInv

\* The first n attempts of a request.
LEMMA FirstPart ==
  ASSUME TypeOK, NEW r \in Request, NEW n \in DOMAIN answered[r]
  PROVE  LET part == SubSeq(answered[r], 1, n)
         IN  /\ part \in Seq(Attempt) /\ Len(part) = n /\ n \in 1..Len(answered[r])
             /\ \A i \in 1..n : part[i] = answered[r][i]
             /\ part # <<>> /\ Len(part) <= Len(answered[r])
<1>. DEFINE part == SubSeq(answered[r], 1, n)
<1>1. answered[r] \in Seq(Attempt) /\ Len(answered[r]) \in Nat
  BY TypeFacts
<1>. HIDE DEF Attempt
<1>2. n \in 1..Len(answered[r]) /\ \A i \in 1..n : answered[r][i] \in Attempt
  BY <1>1, LenProperties, ElementOfSeq
<1>3. part \in Seq(Attempt) /\ Len(part) = n /\ \A i \in 1..n : part[i] = answered[r][i]
  <2>1. n \in Int /\ 1 \in Int /\ 1 <= n /\ n - 1 + 1 = n /\ \A i \in 1..n : 1 + i - 1 = i
    BY <1>1, <1>2
  <2>. QED BY <2>1, <1>2, SubSeqProperties
<1>. HIDE DEF part
<1>4. part # <<>> /\ Len(part) <= Len(answered[r])
  BY <1>1, <1>2, <1>3, EmptySeq
<1>. QED BY <1>2, <1>3, <1>4 DEF part

\* A write fails while a batch is recorded: what comes after it is lost, and its request
\* ends.
LEMMA FailRecordInv ==
  ASSUME IInv, NEW r \in Request, FailRecord(r)
  PROVE  IInv'
<1>1. TypeOK
  BY DEF IInv
<1>2. /\ answered' = [answered EXCEPT ![r] = <<>>] /\ batches' = [batches EXCEPT ![r] = <<>>]
      /\ ~waiting[r]
      /\ UNCHANGED <<events, subscriptions, waiting, now, crashes, planned, sent, received>>
  BY DEF FailRecord, Recording
<1>3. PICK n \in DOMAIN answered[r] :
        /\ log' = log \o SubSeq(answered[r], 1, n)
        /\ disk' = IF n = 1 THEN disk ELSE [Memory EXCEPT !.attempts = @ + n - 1]
        /\ lost' = lost \union {answered[r][i].id : i \in n + 1..Len(answered[r])}
  BY DEF FailRecord
<1>4. failures' \in 0..MaxFailures
  <2>1. failures \in 0..MaxFailures /\ failures < MaxFailures /\ failures' = failures + 1
    BY <1>1 DEF TypeOK, FailRecord
  <2>. QED BY <2>1, DeliveryAssumption
<1>. DEFINE part == SubSeq(answered[r], 1, n)
            longer == log'
            rest == {answered[r][i].id : i \in n + 1..Len(answered[r])}
<1>5. /\ part \in Seq(Attempt) /\ Len(part) = n /\ n \in 1..Len(answered[r])
      /\ \A i \in 1..n : part[i] = answered[r][i]
      /\ part # <<>> /\ Len(part) <= Len(answered[r]) /\ Len(answered[r]) \in Nat
  BY <1>1, FirstPart, TypeFacts
<1>6. longer = log \o part
  BY <1>3
<1>7. lost' = lost \union rest
  BY <1>3
<1>. HIDE DEF part, longer, Attempt
<1>8. /\ longer \in Seq(Attempt) /\ Longer(log, longer) /\ Distinct(longer)
      /\ Len(longer) = Len(log) + n
      /\ \A d : HasId(longer, d) <=> HasId(log, d) \/ HasId(part, d)
  BY <1>5, <1>6, LongerRecord
<1>9. Attempt' = Attempt
  BY <1>2 DEF Attempt
<1>10. batches \in [Request -> Seq(BatchSet)] /\ answered \in [Request -> Seq(Attempt)]
  BY <1>1 DEF TypeOK, BatchSet, SendSet
<1>11. /\ batches' \in [Request -> Seq(BatchSet)] /\ answered' \in [Request -> Seq(Attempt)]
       /\ batches'[r] = <<>> /\ answered'[r] = <<>>
       /\ \A q \in Request : q # r => batches'[q] = batches[q] /\ answered'[q] = answered[q]
  <2>. HIDE DEF BatchSet
  <2>. QED BY <1>2, <1>10, EmptySeq
\* The ids of the request are now recorded or lost.
<1>12. \A d : HasId(part, d) => HasId(answered[r], d)
  <2>1. \A i \in 1..n : i \in 1..Len(answered[r])
    BY <1>5
  <2>. QED BY <2>1, <1>5 DEF HasId
<1>13. \A d : HasId(answered[r], d) => HasId(part, d) \/ d \in rest
  <2>. SUFFICES ASSUME NEW i \in 1..Len(answered[r])
                PROVE  HasId(part, answered[r][i].id) \/ answered[r][i].id \in rest
    BY DEF HasId
  <2>1. CASE i <= n
    BY <2>1, <1>5 DEF HasId
  <2>2. CASE ~(i <= n)
    BY <2>2, <1>5
  <2>. QED BY <2>1, <2>2
<1>14. \A d \in rest : HasId(answered[r], d) /\ ~HasId(part, d)
  <2>. SUFFICES ASSUME NEW i \in n + 1..Len(answered[r])
                PROVE  HasId(answered[r], answered[r][i].id) /\ ~HasId(part, answered[r][i].id)
    OBVIOUS
  <2>1. i \in 1..Len(answered[r]) /\ \A k \in 1..n : k # i /\ k \in 1..Len(answered[r])
    BY <1>5
  <2>2. Distinct(answered[r])
    BY DEF IInv, IdsOnce
  <2>. QED BY <2>1, <2>2, <1>5 DEF HasId, Distinct
<1>15. \A i \in 1..Len(answered[r]) : answered[r][i].id \in 1..sent
  <2>1. \A x \in Attempt : x.id \in 1..sent
    BY DEF Attempt
  <2>. QED BY <2>1, <1>10, ElementOfSeq
<1>16. TypeOK'
  <2>1. batches' \in [Request -> Seq([target : Target, sends : Seq([event : Event, number : Nat \ {0}])])]
    BY <1>11 DEF BatchSet, SendSet
  <2>2. \A q \in Request : (waiting'[q] => answered'[q] # <<>>) /\ (answered'[q] # <<>> => batches'[q] # <<>>)
    BY <1>1, <1>2, <1>11 DEF TypeOK
  <2>3. lost' \subseteq 1..sent
    <3>1. rest \subseteq 1..sent
      BY <1>5, <1>15
    <3>. QED BY <3>1, <1>1, <1>7 DEF TypeOK
  <2>4. disk' \in FileSet(Len(longer))
    <3>1. disk \in FileSet(Len(log)) /\ Len(log) \in Nat
      BY <1>1, FileFacts
    <3>2. CASE n = 1
      BY <3>1, <3>2, <1>3, <1>5, <1>8, FileGrows
    <3>3. CASE n # 1
      <4>1. disk' = [events |-> events, subscriptions |-> subscriptions, attempts |-> Len(log) + n - 1]
        BY <3>3, <1>3 DEF Memory
      <4>2. Len(log) + n - 1 \in 0..Len(longer)
        BY <3>1, <1>5, <1>8
      <4>. QED BY <4>1, <4>2, <1>1 DEF FileSet, TypeOK
    <3>. QED BY <3>2, <3>3
  <2>. QED BY <2>1, <2>2, <2>3, <2>4, <1>1, <1>2, <1>4, <1>8, <1>9, <1>11 DEF TypeOK, FileSet, longer
<1>17. PlansDue'
  <2>1. ASSUME NEW q \in Request, NEW b \in 1..Len(batches'[q]), NEW k \in 1..Len(batches'[q][b].sends)
        PROVE  Due1(log, batches'[q][b].target, batches'[q][b].sends[k])
    <3>1. q # r
      <4>1. Len(<<>>) = 0
        OBVIOUS
      <4>. QED BY <4>1, <1>11
    <3>. QED BY <3>1, <1>11 DEF IInv, PlansDue
  <2>2. ASSUME NEW q \in Request, NEW b \in 1..Len(batches'[q]), NEW k \in 1..Len(batches'[q][b].sends)
        PROVE  Due1(longer, batches'[q][b].target, batches'[q][b].sends[k])
    BY <2>1, <2>2, <1>8, DueStays
  <2>. QED BY <2>2 DEF PlansDue, longer
<1>18. AnswersSound'
  <2>1. ASSUME NEW q \in Request, NEW k \in 1..Len(answered'[q])
        PROVE  Sound(longer, received, answered'[q][k])
    <3>1. q # r
      <4>1. Len(<<>>) = 0
        OBVIOUS
      <4>. QED BY <4>1, <1>11
    <3>2. Sound(log, received, answered'[q][k])
      BY <3>1, <1>11 DEF IInv, AnswersSound
    <3>. QED BY <3>2, <1>8, DueStays DEF Sound
  <2>. QED BY <2>1, <1>2 DEF AnswersSound, longer
<1>19. NothingHeld
  BY NothingHeldFact
<1>20. IdsOnce'
  <2>1. \A q \in Request : Distinct(answered'[q])
    BY <1>11, <1>19 DEF NothingHeld, IInv, IdsOnce
  <2>2. \A q, p \in Request : q # p => Apart(answered'[q], answered'[p])
    BY <1>11, <1>19 DEF NothingHeld, IInv, IdsOnce
  <2>3. ASSUME NEW q \in Request PROVE Apart(longer, answered'[q])
    <3>1. CASE q = r
      BY <3>1, <1>11, <1>19 DEF NothingHeld
    <3>2. CASE q # r
      <4>1. Apart(log, answered[q]) /\ Apart(answered[r], answered[q]) /\ answered'[q] = answered[q]
        BY <3>2, <1>11 DEF IInv, IdsOnce
      <4>2. \A i \in 1..Len(longer) : HasId(log, longer[i].id) \/ HasId(answered[r], longer[i].id)
        BY <1>8, <1>12 DEF HasId
      <4>. QED BY <4>1, <4>2 DEF Apart, HasId
    <3>. QED BY <3>1, <3>2
  <2>4. ASSUME NEW d \in lost' PROVE ~HasId(longer, d) /\ \A q \in Request : ~HasId(answered'[q], d)
    <3>1. CASE d \in lost
      <4>1. ~HasId(log, d) /\ \A q \in Request : ~HasId(answered[q], d)
        BY <3>1 DEF IInv, IdsOnce
      <4>. QED BY <4>1, <1>8, <1>11, <1>12, <1>19 DEF NothingHeld
    <3>2. CASE d \in rest
      <4>1. HasId(answered[r], d) /\ ~HasId(part, d)
        BY <3>2, <1>14
      <4>2. Apart(log, answered[r]) /\ \A q \in Request : q # r => Apart(answered[r], answered[q])
        BY DEF IInv, IdsOnce
      <4>3. ~HasId(log, d) /\ \A q \in Request : q # r => ~HasId(answered[q], d)
        BY <4>1, <4>2 DEF Apart, HasId
      <4>. QED BY <4>1, <4>3, <1>8, <1>11, <1>19 DEF NothingHeld
    <3>. QED BY <3>1, <3>2, <1>7
  <2>. QED BY <2>1, <2>2, <2>3, <2>4, <1>8 DEF IdsOnce, longer
<1>21. NoneForgotten'
  <2>1. ASSUME NEW d \in 1..sent
        PROVE  HasId(longer, d) \/ d \in lost' \/ \E q \in Request : HasId(answered'[q], d)
    <3>1. HasId(log, d) \/ d \in lost \/ \E q \in Request : HasId(answered[q], d)
      BY DEF IInv, NoneForgotten
    <3>. QED BY <3>1, <1>7, <1>8, <1>11, <1>13
  <2>. QED BY <2>1, <1>2 DEF NoneForgotten, longer
<1>. QED BY <1>16, <1>17, <1>18, <1>20, <1>21 DEF IInv

\* Neither a request that gives up nor a change to what may be sent plans a delivery.
LEMMA AbandonInv ==
  ASSUME IInv, NEW r \in Request, Abandon(r)
  PROVE  IInv'
<1>1. batches \in [Request -> Seq(BatchSet)] /\ TypeOK
  BY DEF IInv, TypeOK, BatchSet, SendSet
<1>2. /\ batches' = [batches EXCEPT ![r] = <<>>] /\ answered[r] = <<>>
      /\ UNCHANGED <<events, subscriptions, log, disk, answered, waiting, now, crashes, failures, planned, sent, lost, received>>
  BY DEF Abandon
<1>3. /\ batches' \in [Request -> Seq(BatchSet)] /\ batches'[r] = <<>>
      /\ \A q \in Request : q # r => batches'[q] = batches[q]
  <2>. HIDE DEF BatchSet
  <2>. QED BY <1>1, <1>2, EmptySeq
<1>4. TypeOK'
  <2>1. batches' \in [Request -> Seq([target : Target, sends : Seq([event : Event, number : Nat \ {0}])])]
    BY <1>3 DEF BatchSet, SendSet
  <2>2. \A q \in Request : answered'[q] # <<>> => batches'[q] # <<>>
    BY <1>1, <1>2, <1>3 DEF TypeOK
  <2>3. Attempt' = Attempt
    BY <1>2 DEF Attempt
  <2>. HIDE DEF Attempt
  <2>. QED BY <2>1, <2>2, <2>3, <1>1, <1>2 DEF TypeOK
<1>5. PlansDue'
  <2>1. Len(<<>>) = 0
    OBVIOUS
  <2>2. ASSUME NEW q \in Request, NEW b \in 1..Len(batches'[q]), NEW k \in 1..Len(batches'[q][b].sends)
        PROVE  Due1(log, batches'[q][b].target, batches'[q][b].sends[k])
    <3>1. q # r
      BY <2>1, <1>3
    <3>. QED BY <3>1, <1>3 DEF IInv, PlansDue
  <2>. QED BY <2>2, <1>2 DEF PlansDue
<1>. QED BY <1>2, <1>4, <1>5, PlanStep

\* Whatever part of a batch is recorded when the process dies, the rest is lost.
LEMMA CrashInv ==
  ASSUME IInv, Crash
  PROVE  IInv'
<1>1. TypeOK
  BY DEF IInv
<1>2. /\ batches' = [q \in Request |-> <<>>] /\ answered' = [q \in Request |-> <<>>]
      /\ waiting' = [q \in Request |-> FALSE]
      /\ lost' = (1..sent) \ {log'[i].id : i \in DOMAIN log'}
      /\ UNCHANGED <<now, planned, sent, received>>
  BY DEF Crash
<1>3. crashes' \in 0..MaxCrashes /\ failures' \in 0..MaxFailures
  BY <1>1, DeliveryAssumption DEF TypeOK, Crash
<1>4. /\ log' \in Seq(Attempt) /\ Distinct(log')
      /\ events' \in Seq(Event) /\ subscriptions' \in Seq([id : Subscription, enabled : BOOLEAN])
      /\ disk' \in FileSet(Len(log'))
  <2>1. CASE /\ log' = SubSeq(log, 1, disk.attempts) /\ UNCHANGED disk
             /\ events' = disk.events /\ subscriptions' = disk.subscriptions
    <3>. DEFINE n == disk.attempts
                shorter == log'
    <3>1. n \in 0..Len(log) /\ Len(log) \in Nat /\ disk \in FileSet(Len(log)) /\ log \in Seq(Attempt)
      BY <1>1, FileFacts DEF TypeOK
    <3>2. shorter = SubSeq(log, 1, n)
      BY <2>1
    <3>3. disk' = disk /\ events' = disk.events /\ subscriptions' = disk.subscriptions
      BY <2>1
    <3>. HIDE DEF Attempt, n, shorter
    <3>4. shorter \in Seq(Attempt) /\ Len(shorter) = n /\ \A i \in 1..n : shorter[i] = log[i]
      <4>1. \A i \in 1..n : log[i] \in Attempt
        BY <3>1, ElementOfSeq
      <4>2. n \in Int /\ 1 \in Int /\ \A i \in 1..n : 1 + i - 1 = i
        BY <3>1
      <4>3. n < 1 => n = 0
        BY <3>1
      <4>. QED BY <3>2, <4>1, <4>2, <4>3, SubSeqProperties
    <3>5. Distinct(shorter)
      <4>1. Distinct(log) /\ \A i \in 1..n : i \in 1..Len(log)
        BY <3>1 DEF IInv, IdsOnce
      <4>. QED BY <4>1, <3>4 DEF Distinct
    <3>6. disk' \in FileSet(n)
      BY <3>1, <3>3 DEF FileSet, n
    <3>7. events' \in Seq(Event) /\ subscriptions' \in Seq([id : Subscription, enabled : BOOLEAN])
      BY <1>1, <3>3, FileFacts
    <3>. QED BY <3>4, <3>5, <3>6, <3>7 DEF shorter
  <2>2. CASE /\ \E r \in Request :
                  Recording(r) /\ \E n \in DOMAIN answered[r] : log' = log \o SubSeq(answered[r], 1, n)
             /\ disk' = Memory' /\ UNCHANGED <<events, subscriptions>>
    <3>1. PICK r \in Request : \E n \in DOMAIN answered[r] : log' = log \o SubSeq(answered[r], 1, n)
      BY <2>2
    <3>2. PICK n \in DOMAIN answered[r] : log' = log \o SubSeq(answered[r], 1, n)
      BY <3>1
    <3>. DEFINE part == SubSeq(answered[r], 1, n)
                longer == log'
    <3>3. part \in Seq(Attempt) /\ Len(part) <= Len(answered[r]) /\ \A i \in 1..Len(part) : part[i] = answered[r][i]
      BY <1>1, FirstPart
    <3>4. longer = log \o part
      BY <3>2
    <3>. HIDE DEF part, longer, Attempt
    <3>5. longer \in Seq(Attempt) /\ Distinct(longer) /\ Len(longer) \in Nat
      BY <3>3, <3>4, LongerRecord, LenProperties
    <3>6. disk' = [events |-> events, subscriptions |-> subscriptions, attempts |-> Len(longer)]
      BY <2>2 DEF Memory, longer
    <3>7. disk' \in FileSet(Len(longer))
      <4>1. Len(longer) \in 0..Len(longer)
        BY <3>5
      <4>. QED BY <4>1, <3>6, <1>1 DEF FileSet, TypeOK
    <3>. QED BY <3>5, <3>7, <2>2, <1>1 DEF longer, TypeOK
  <2>. QED BY <2>1, <2>2 DEF Crash
<1>5. Attempt' = Attempt
  BY <1>2 DEF Attempt
<1>6. NothingHeld /\ \A q \in Request : answered'[q] = <<>> /\ batches'[q] = <<>> /\ ~waiting'[q]
  BY <1>2, NothingHeldFact
<1>7. TypeOK'
  <2>1. /\ answered' \in [Request -> Seq(Attempt)] /\ waiting' \in [Request -> BOOLEAN]
        /\ batches' \in [Request -> Seq(BatchSet)]
    <3>. HIDE DEF Attempt, BatchSet
    <3>. QED BY <1>2, EmptySeq
  <2>2. batches' \in [Request -> Seq([target : Target, sends : Seq([event : Event, number : Nat \ {0}])])]
    BY <2>1 DEF BatchSet, SendSet
  <2>3. lost' \subseteq 1..sent
    BY <1>2
  <2>. HIDE DEF Attempt
  <2>. QED BY <2>1, <2>2, <2>3, <1>1, <1>2, <1>3, <1>4, <1>5, <1>6 DEF TypeOK, FileSet
<1>8. PlansDue' /\ AnswersSound'
  <2>1. Len(<<>>) = 0
    OBVIOUS
  <2>. QED BY <2>1, <1>6 DEF PlansDue, AnswersSound
<1>9. DOMAIN log' = 1..Len(log')
  <2>. HIDE DEF Attempt
  <2>. QED BY <1>4, LenProperties
<1>10. \A d \in 1..sent : d \in lost' <=> ~HasId(log', d)
  BY <1>2, <1>9 DEF HasId
<1>11. IdsOnce' /\ NoneForgotten'
  <2>1. \A d \in lost' : ~HasId(log', d)
    BY <1>2, <1>10
  <2>. QED BY <2>1, <1>2, <1>4, <1>6, <1>10 DEF NothingHeld, IdsOnce, NoneForgotten
<1>. QED BY <1>7, <1>8, <1>11 DEF IInv

\* Neither the clock nor what happens elsewhere touches a delivery.
LEMMA ElsewhereInv ==
  ASSUME IInv, UNCHANGED <<log, batches, answered, waiting, sent, lost, received, crashes>>,
         disk' \in FileSet(Len(log)), failures' \in 0..MaxFailures,
         events' \in Seq(Event), subscriptions' \in Seq([id : Subscription, enabled : BOOLEAN]),
         now' \in 0..Horizon, now <= now'
  PROVE  IInv'
<1>1. Seq(Attempt) \subseteq Seq(Attempt')
  <2>1. TypeOK
    BY DEF IInv
  <2>2. sent' \in Nat /\ sent <= sent' /\ now' \in Nat
    BY <2>1, DeliveryAssumption DEF TypeOK
  <2>. QED BY <2>1, <2>2, AttemptGrows
<1>2. TypeOK'
  <2>1. log \in Seq(Attempt') /\ answered \in [Request -> Seq(Attempt')]
    <3>1. log \in Seq(Attempt) /\ answered \in [Request -> Seq(Attempt)]
      BY DEF IInv, TypeOK
    <3>. HIDE DEF Attempt
    <3>. QED BY <3>1, <1>1
  <2>. QED BY <2>1 DEF IInv, TypeOK, FileSet
<1>3. PlansDue'
  BY DEF IInv, PlansDue
<1>. QED BY <1>2, <1>3, PlanStep

\* Written or not, the file is one for the record as it is.
LEMMA PersistFacts ==
  ASSUME IInv, Persist, events' \in Seq(Event), log' = log,
         subscriptions' \in Seq([id : Subscription, enabled : BOOLEAN])
  PROVE  disk' \in FileSet(Len(log)) /\ failures' \in 0..MaxFailures
<1>1. disk \in FileSet(Len(log)) /\ Len(log) \in Nat /\ failures \in 0..MaxFailures
  BY FileFacts DEF IInv, TypeOK
<1>2. CASE disk' = Memory' /\ UNCHANGED failures
  <2>1. disk' = [events |-> events', subscriptions |-> subscriptions', attempts |-> Len(log)]
    BY <1>2 DEF Memory
  <2>2. Len(log) \in 0..Len(log)
    BY <1>1
  <2>. QED BY <2>1, <2>2, <1>1, <1>2 DEF FileSet
<1>3. CASE failures < MaxFailures /\ failures' = failures + 1 /\ UNCHANGED disk
  BY <1>1, <1>3, DeliveryAssumption
<1>. QED BY <1>2, <1>3 DEF Persist

LEMMA HappenInv ==
  ASSUME IInv, NEW e \in Event, Happen(e)
  PROVE  IInv'
<1>1. events' \in Seq(Event)
  BY AppendProperties DEF IInv, TypeOK, Happen
<1>2. now \in 0..Horizon /\ subscriptions \in Seq([id : Subscription, enabled : BOOLEAN])
  BY DEF IInv, TypeOK
<1>3. now <= now
  BY <1>2, DeliveryAssumption
<1>4. disk' \in FileSet(Len(log)) /\ failures' \in 0..MaxFailures
  BY <1>1, <1>2, PersistFacts DEF Happen
<1>. QED BY <1>1, <1>2, <1>3, <1>4, ElsewhereInv DEF Happen, underWay

LEMMA PutSubscriptionInv ==
  ASSUME IInv, NEW s \in Subscription, NEW enabled \in BOOLEAN, PutSubscription(s, enabled)
  PROVE  IInv'
<1>. DEFINE Entry == [id : Subscription, enabled : BOOLEAN]
            others == [id : Subscription \ {s}, enabled : BOOLEAN]
            entry == [id |-> s, enabled |-> enabled]
            rest == Kept(subscriptions, others)
<1>1. subscriptions \in Seq(Entry) /\ now \in 0..Horizon /\ events \in Seq(Event)
  BY DEF IInv, TypeOK
<1>2. entry \in Entry
  OBVIOUS
<1>3. subscriptions' = <<entry>> \o rest
  BY DEF PutSubscription, Changed
<1>. HIDE DEF Entry, others, entry
<1>4. rest \in Seq(Entry \intersect others)
  BY <1>1, KeptFacts
<1>5. rest \in Seq(Entry)
  BY <1>4, SeqMonotonic
<1>. HIDE DEF rest
<1>6. <<entry>> \in Seq(Entry)
  BY <1>2
<1>7. subscriptions' \in Seq(Entry)
  BY <1>3, <1>5, <1>6, ConcatProperties
<1>8. now <= now
  BY <1>1, DeliveryAssumption
<1>9. disk' \in FileSet(Len(log)) /\ failures' \in 0..MaxFailures
  BY <1>1, <1>7, PersistFacts DEF PutSubscription, Entry
<1>. QED BY <1>1, <1>7, <1>8, <1>9, ElsewhereInv DEF PutSubscription, underWay, Entry

LEMMA PersistElsewhereInv ==
  ASSUME IInv, PersistElsewhere
  PROVE  IInv'
<1>1. /\ events \in Seq(Event) /\ subscriptions \in Seq([id : Subscription, enabled : BOOLEAN])
      /\ now \in 0..Horizon /\ now <= now /\ failures \in 0..MaxFailures
  BY DeliveryAssumption DEF IInv, TypeOK
<1>2. disk' \in FileSet(Len(log))
  BY FileFacts DEF IInv, PersistElsewhere
<1>. QED BY <1>1, <1>2, ElsewhereInv DEF PersistElsewhere, underWay

LEMMA TickInv ==
  ASSUME IInv, Tick
  PROVE  IInv'
<1>1. now' \in 0..Horizon /\ now <= now'
  BY DeliveryAssumption DEF IInv, TypeOK, Tick
<1>2. events \in Seq(Event) /\ subscriptions \in Seq([id : Subscription, enabled : BOOLEAN])
  BY DEF IInv, TypeOK
<1>3. disk \in FileSet(Len(log)) /\ failures \in 0..MaxFailures
  BY FileFacts DEF IInv, TypeOK
<1>. QED BY <1>1, <1>2, <1>3, ElsewhereInv DEF Tick, underWay

-----------------------------------------------------------------------------
\* IInv is inductive: every step keeps it, and so it always holds.
THEOREM Inductive == Spec => []IInv
<1>1. IInv /\ [Next]_vars => IInv'
  <2>. SUFFICES ASSUME IInv, [Next]_vars PROVE IInv'
    OBVIOUS
  <2>1. ASSUME NEW e \in Event, Happen(e) PROVE IInv'
    BY <2>1, HappenInv
  <2>2. ASSUME NEW s \in Subscription, NEW enabled \in BOOLEAN, PutSubscription(s, enabled) PROVE IInv'
    BY <2>2, PutSubscriptionInv
  <2>3. ASSUME NEW r \in Request, NEW t \in Target, DeliverAll(r, t) PROVE IInv'
    BY <2>3, DeliverAllInv
  <2>4. ASSUME NEW r \in Request, NEW t \in Target, NEW asOf \in 0..Horizon + RetryDelay, RetryDue(r, t, asOf)
        PROVE  IInv'
    BY <2>4, RetryDueInv
  <2>5. ASSUME NEW r \in Request, NEW s \in Subscription, Deliver(r, s) PROVE IInv'
    BY <2>5, DeliverInv
  <2>6. ASSUME NEW r \in Request, DeliverReady(r) PROVE IInv'
    BY <2>6, DeliverReadyInv
  <2>7. ASSUME NEW r \in Request, Send(r) PROVE IInv'
    BY <2>7, SendInv
  <2>8. ASSUME NEW r \in Request, Record(r) PROVE IInv'
    BY <2>8, RecordInv
  <2>9. ASSUME NEW r \in Request, Abandon(r) PROVE IInv'
    BY <2>9, AbandonInv
  <2>10. ASSUME NEW r \in Request, NEW outcome \in Outcome, Answer(r, outcome) PROVE IInv'
    BY <2>10, AnswerInv
  <2>11. CASE Crash
    BY <2>11, CrashInv
  <2>12. CASE Tick
    BY <2>12, TickInv
  <2>13. CASE UNCHANGED vars
    <3>1. /\ UNCHANGED <<log, batches, answered, waiting, sent, lost, received, crashes>>
          /\ events' = events /\ subscriptions' = subscriptions /\ now' = now
          /\ disk' = disk /\ failures' = failures
      BY <2>13 DEF vars, underWay
    <3>2. /\ events \in Seq(Event) /\ subscriptions \in Seq([id : Subscription, enabled : BOOLEAN])
          /\ now \in 0..Horizon /\ now <= now
          /\ failures \in 0..MaxFailures
      BY DeliveryAssumption DEF IInv, TypeOK
    <3>3. disk \in FileSet(Len(log))
      BY FileFacts DEF IInv
    <3>. QED BY <3>1, <3>2, <3>3, ElsewhereInv
  <2>14. ASSUME NEW r \in Request, FailRecord(r) PROVE IInv'
    BY <2>14, FailRecordInv
  <2>15. CASE PersistElsewhere
    BY <2>15, PersistElsewhereInv
  <2>. QED BY <2>1, <2>2, <2>3, <2>4, <2>5, <2>6, <2>7, <2>8, <2>9, <2>10, <2>11, <2>12, <2>13, <2>14,
              <2>15 DEF Next
<1>. QED BY <1>1, InitInv, PTL DEF Spec

\* Batches, attempts and the record are what they are meant to be: every delivery has
\* one of the ids handed out, and a request that waits has sent something.
THEOREM TypeCorrect == Spec => []TypeOK
<1>1. IInv => TypeOK
  BY DEF IInv
<1>. QED BY Inductive, <1>1, PTL

-----------------------------------------------------------------------------
\* At most one element of S has what is asked for: there are as many as there are.
LEMMA CountOne ==
  ASSUME NEW A, NEW x, x \in A, \A y \in A : y = x
  PROVE  Cardinality(A) = 1
<1>1. A = {x}
  OBVIOUS
<1>. QED BY <1>1, FS_Singleton

LEMMA CountNone ==
  ASSUME NEW A, \A y : y \notin A
  PROVE  Cardinality(A) = 0
<1>1. A = {}
  OBVIOUS
<1>. QED BY <1>1, FS_EmptySet

\* No delivery is recorded twice, and none disappears: each is in the record once, still
\* with exactly one request, or was left unrecorded by a crash or a failed write.
THEOREM AllAccounted == Spec => []EverySendAccounted
<1>1. ASSUME IInv PROVE EverySendAccounted
  <2>. SUFFICES ASSUME NEW d \in 1..sent PROVE Accounted(d)
    BY DEF EverySendAccounted
  <2>. DEFINE recorded == {i \in DOMAIN log : log[i].id = d}
              holders == {r \in Request : d \in Ids(answered[r])}
  <2>1. DOMAIN log = 1..Len(log) /\ \A r \in Request : DOMAIN answered[r] = 1..Len(answered[r])
    <3>1. log \in Seq(Attempt) /\ \A r \in Request : answered[r] \in Seq(Attempt)
      BY <1>1 DEF IInv, TypeOK
    <3>. HIDE DEF Attempt
    <3>. QED BY <3>1, LenProperties
  <2>2. \A r \in Request : r \in holders <=> HasId(answered[r], d)
    BY <2>1 DEF Ids, HasId
  <2>3. IdsOnce /\ (HasId(log, d) \/ d \in lost \/ \E r \in Request : HasId(answered[r], d))
    BY <1>1 DEF IInv, NoneForgotten
  <2>4. HasId(log, d) => Cardinality(recorded) = 1
    <3>. SUFFICES ASSUME HasId(log, d) PROVE Cardinality(recorded) = 1
      OBVIOUS
    <3>1. PICK i \in 1..Len(log) : log[i].id = d
      BY DEF HasId
    <3>2. i \in recorded
      BY <3>1, <2>1
    <3>3. ASSUME NEW j \in recorded PROVE j = i
      BY <3>1, <2>1, <2>3 DEF IdsOnce, Distinct
    <3>4. recorded = {i}
      BY <3>2, <3>3
    <3>. HIDE DEF recorded
    <3>. QED BY <3>4, FS_Singleton
  <2>5. ~HasId(log, d) => Cardinality(recorded) = 0
    <3>. SUFFICES ASSUME ~HasId(log, d) PROVE Cardinality(recorded) = 0
      OBVIOUS
    <3>1. \A i : i \notin recorded
      BY <2>1 DEF HasId
    <3>. HIDE DEF recorded
    <3>. QED BY <3>1, CountNone
  <2>6. (\E r \in Request : HasId(answered[r], d)) => Cardinality(holders) = 1
    <3>. SUFFICES ASSUME NEW r \in Request, HasId(answered[r], d) PROVE Cardinality(holders) = 1
      OBVIOUS
    <3>1. r \in holders
      BY <2>2
    <3>2. ASSUME NEW q \in holders PROVE q = r
      <4>1. q \in Request /\ HasId(answered[q], d)
        BY <2>2
      <4>. QED BY <4>1, <2>3 DEF IdsOnce, Apart, HasId
    <3>. HIDE DEF holders
    <3>. QED BY <3>1, <3>2, CountOne
  <2>7. (\A r \in Request : ~HasId(answered[r], d)) => Cardinality(holders) = 0
    <3>. SUFFICES ASSUME \A r \in Request : ~HasId(answered[r], d) PROVE Cardinality(holders) = 0
      OBVIOUS
    <3>1. \A r : r \notin holders
      BY <2>2
    <3>. HIDE DEF holders
    <3>. QED BY <3>1, CountNone
  <2>8. HasId(log, d) => d \notin lost /\ \A r \in Request : ~HasId(answered[r], d)
    BY <2>3 DEF IdsOnce, Apart, HasId
  <2>9. d \in lost => \A r \in Request : ~HasId(answered[r], d)
    BY <2>3 DEF IdsOnce
  <2>. HIDE DEF recorded, holders
  <2>10. Cardinality(recorded) + Cardinality(holders) + (IF d \in lost THEN 1 ELSE 0) = 1
    BY <2>3, <2>4, <2>5, <2>6, <2>7, <2>8, <2>9
  <2>. QED BY <2>10 DEF Accounted, recorded, holders
<1>. QED BY <1>1, Inductive, PTL

-----------------------------------------------------------------------------
\* Recording the first attempts of a batch is a Record of the abstract log.
LEMMA RecordIsTrusted ==
  ASSUME IInv, NEW r \in Request, NEW part \in Seq(Attempt), part # <<>>,
         Len(part) <= Len(answered[r]), \A i \in 1..Len(part) : part[i] = answered[r][i],
         log' = log \o part, received' = received, disk'.attempts \in disk.attempts..Len(log')
  PROVE  Trusted!Record
<1>. DEFINE longer == log'
            n == Len(part)
<1>1. Len(log) \in Nat /\ Len(answered[r]) \in Nat /\ n \in Nat \ {0} /\ n <= Len(answered[r])
  <2>1. TypeOK
    BY DEF IInv
  <2>. HIDE DEF Attempt
  <2>. QED BY <2>1, TypeFacts, EmptySeq
<1>2. longer = log \o part
  OBVIOUS
<1>. HIDE DEF Attempt, longer
<1>3. /\ Longer(log, longer) /\ Len(longer) = Len(log) + n
      /\ \A i \in 1..n : longer[Len(log) + i] = part[i]
  <2>. HIDE DEF n
  <2>1. Longer(log, longer)
    BY <1>2, LongerRecord
  <2>2. Len(longer) = Len(log) + Len(part)
    BY <1>2, LongerRecord
  <2>3. \A i \in 1..Len(part) : longer[Len(log) + i] = part[i]
    BY <1>2, LongerRecord
  <2>. QED BY <2>1, <2>2, <2>3 DEF n
<1>4. ASSUME NEW i \in Len(log) + 1..Len(longer)
      PROVE  /\ longer[i].outcome = "DELIVERED" => <<longer[i].event, longer[i].target>> \in received
             /\ Trusted!Earned(longer[i])
  <2>. DEFINE k == i - Len(log)
  <2>1. k \in 1..n /\ i = Len(log) + k /\ k \in 1..Len(answered[r])
    BY <1>1, <1>3
  <2>2. longer[i] = answered[r][k]
    BY <2>1, <1>3
  <2>3. Sound(log, received, longer[i])
    BY <2>1, <2>2 DEF IInv, AnswersSound
  <2>. QED BY <2>3 DEF Sound, Due1, Trusted!Earned
<1>5. Len(longer) > Len(log) /\ \A i \in 1..Len(log) : longer[i] = log[i]
  BY <1>1, <1>3 DEF Longer
<1>6. disk'.attempts \in disk.attempts..Len(longer)
  BY DEF longer
<1>. QED BY <1>4, <1>5, <1>6 DEF Trusted!Record, longer

LEMMA StartLeaves ==
  ASSUME NEW r, NEW plan, Start(r, plan)
  PROVE  UNCHANGED <<log, disk, received>>
BY DEF Start

\* The audit events implement the record that can be trusted (DeliveryLog): whatever
\* requests overlap, whichever writes fail and whenever the process dies, an attempt is
\* recorded as DELIVERED only if it was acknowledged, and as a retry only of a recorded
\* failure worth retrying, and nothing that was saved is taken out again.
THEOREM LogIsHonest == Spec => HonestLog
<1>1. Init => Trusted!Init
  BY DEF Init, Trusted!Init
<1>2. IInv /\ [Next]_vars => [Trusted!Next]_<<log, disk.attempts, received>>
  <2>. SUFFICES ASSUME IInv, [Next]_vars
                PROVE  Trusted!Next \/ UNCHANGED <<log, disk.attempts, received>>
    OBVIOUS
  <2>0. /\ disk.attempts \in 0..Len(log) /\ Len(log) \in Nat /\ log \in Seq(Attempt)
        /\ \A r \in Request : answered[r] \in Seq(Attempt) /\ Len(answered[r]) \in Nat
    BY FileFacts, TypeFacts DEF IInv, TypeOK
  <2>1. ASSUME NEW r \in Request, Record(r)
        PROVE  Trusted!Next \/ UNCHANGED <<log, disk.attempts, received>>
    <3>. DEFINE longer == log'
    <3>1. longer = log \o answered[r] /\ received' = received
          /\ disk' = [events |-> events, subscriptions |-> subscriptions, attempts |-> Len(longer)]
      BY <2>1 DEF Record, Memory
    <3>. HIDE DEF Attempt, longer
    <3>2. CASE answered[r] = <<>>
      <4>1. longer = log
        BY <2>0, <3>1, <3>2, ConcatEmptySeq
      <4>. QED BY <4>1, <3>1 DEF Trusted!Next, Trusted!Save, longer
    <3>3. CASE answered[r] # <<>>
      <4>1. Len(answered[r]) <= Len(answered[r]) /\ Len(longer) = Len(log) + Len(answered[r])
        BY <2>0, <3>1, ConcatProperties
      <4>2. disk'.attempts \in disk.attempts..Len(longer)
        BY <4>1, <3>1, <2>0
      <4>3. Trusted!Record
        BY <4>1, <4>2, <3>1, <3>3, <2>0, RecordIsTrusted DEF longer
      <4>. QED BY <4>3 DEF Trusted!Next
    <3>. QED BY <3>2, <3>3
  <2>9. ASSUME NEW r \in Request, NEW n \in DOMAIN answered[r], received' = received,
               log' = log \o SubSeq(answered[r], 1, n), disk'.attempts \in {disk.attempts, Len(log) + n - 1, Len(log')}
        PROVE  Trusted!Next
    <3>. DEFINE part == SubSeq(answered[r], 1, n)
                longer == log'
    <3>1. /\ part \in Seq(Attempt) /\ Len(part) = n /\ n \in 1..Len(answered[r])
          /\ \A i \in 1..n : part[i] = answered[r][i]
          /\ part # <<>> /\ Len(part) <= Len(answered[r])
      BY FirstPart DEF IInv
    <3>2. longer = log \o part /\ received' = received
      BY <2>9
    <3>3. disk'.attempts \in {disk.attempts, Len(log) + n - 1, Len(longer)}
      BY <2>9
    <3>. HIDE DEF Attempt, part, longer
    <3>4. Len(longer) = Len(log) + n
      BY <2>0, <3>1, <3>2, ConcatProperties
    <3>5. disk'.attempts \in disk.attempts..Len(longer)
      BY <2>0, <3>1, <3>3, <3>4
    <3>6. Trusted!Record
      BY <3>1, <3>2, <3>5, RecordIsTrusted DEF longer
    <3>. QED BY <3>6 DEF Trusted!Next
  <2>10. ASSUME NEW r \in Request, FailRecord(r)
         PROVE  Trusted!Next
    <3>1. PICK n \in DOMAIN answered[r] :
            /\ log' = log \o SubSeq(answered[r], 1, n)
            /\ disk' = IF n = 1 THEN disk ELSE [Memory EXCEPT !.attempts = @ + n - 1]
      BY <2>10 DEF FailRecord
    <3>2. received' = received
      BY <2>10 DEF FailRecord
    <3>3. disk'.attempts \in {disk.attempts, Len(log) + n - 1}
      <4>1. n # 1 => disk' = [events |-> events, subscriptions |-> subscriptions, attempts |-> Len(log) + n - 1]
        BY <3>1 DEF Memory
      <4>. QED BY <4>1, <3>1
    <3>. QED BY <3>1, <3>2, <3>3, <2>9
  <2>2. ASSUME NEW r \in Request, NEW outcome \in Outcome, Answer(r, outcome)
        PROVE  (\E event \in Event, target \in Target : Trusted!Receive(event, target))
               \/ UNCHANGED <<log, disk.attempts, received>>
    <3>. DEFINE attempt == answered[r][Len(answered[r])]
    <3>1. log' = log /\ disk' = disk /\ received' = IF outcome = "DELIVERED"
                                    THEN received \union {<<attempt.event, attempt.target>>} ELSE received
      BY <2>2 DEF Answer
    <3>2. attempt \in Attempt
      <4>1. answered[r] # <<>> /\ answered[r] \in Seq(Attempt)
        BY <2>2, TypeFacts DEF IInv, TypeOK, Answer
      <4>. HIDE DEF Attempt
      <4>2. Len(answered[r]) \in 1..Len(answered[r])
        <5>1. Len(answered[r]) \in Nat \ {0}
          BY <4>1, EmptySeq
        <5>. QED BY <5>1
      <4>. QED BY <4>1, <4>2, ElementOfSeq
    <3>. HIDE DEF attempt
    <3>3. attempt.event \in Event /\ attempt.target \in Target
      BY <3>2 DEF Attempt
    <3>4. outcome = "DELIVERED" => Trusted!Receive(attempt.event, attempt.target)
      BY <3>1 DEF Trusted!Receive
    <3>. QED BY <3>1, <3>3, <3>4
  <2>3. CASE Crash
    <3>1. received' = received
      BY <2>3 DEF Crash
    <3>2. CASE log' = SubSeq(log, 1, disk.attempts) /\ UNCHANGED disk
      BY <3>1, <3>2 DEF Trusted!Next, Trusted!Forget
    <3>3. CASE /\ \E r \in Request :
                    Recording(r) /\ \E n \in DOMAIN answered[r] : log' = log \o SubSeq(answered[r], 1, n)
               /\ disk' = Memory'
      <4>1. PICK r \in Request : \E n \in DOMAIN answered[r] : log' = log \o SubSeq(answered[r], 1, n)
        BY <3>3
      <4>2. PICK n \in DOMAIN answered[r] : log' = log \o SubSeq(answered[r], 1, n)
        BY <4>1
      <4>3. disk'.attempts = Len(log')
        BY <3>3 DEF Memory
      <4>. QED BY <4>2, <4>3, <3>1, <2>9
    <3>. QED BY <2>3, <3>2, <3>3 DEF Crash
  <2>4. ASSUME log' = log, received' = received, disk' = disk \/ disk' = Memory'
        PROVE  Trusted!Next \/ UNCHANGED <<log, disk.attempts, received>>
    <3>1. CASE disk' = Memory'
      <4>1. disk'.attempts = Len(log)
        BY <3>1, <2>4 DEF Memory
      <4>. QED BY <4>1, <2>4 DEF Trusted!Next, Trusted!Save
    <3>. QED BY <2>4, <3>1
  <2>5. \/ \E r \in Request : Record(r) \/ FailRecord(r)
        \/ \E r \in Request, outcome \in Outcome : Answer(r, outcome)
        \/ Crash
        \/ log' = log /\ received' = received /\ (disk' = disk \/ disk' = Memory')
    <3>1. ASSUME NEW r \in Request, NEW t \in Target, DeliverAll(r, t)
          PROVE  UNCHANGED <<log, disk, received>>
      BY <3>1, StartLeaves DEF DeliverAll
    <3>2. ASSUME NEW r \in Request, NEW t \in Target, NEW asOf, RetryDue(r, t, asOf)
          PROVE  UNCHANGED <<log, disk, received>>
      BY <3>2, StartLeaves DEF RetryDue
    <3>3. ASSUME NEW r \in Request, NEW s \in Subscription, Deliver(r, s)
          PROVE  UNCHANGED <<log, disk, received>>
      BY <3>3, StartLeaves DEF Deliver
    <3>4. ASSUME NEW r \in Request, DeliverReady(r)
          PROVE  UNCHANGED <<log, disk, received>>
      BY <3>4, StartLeaves DEF DeliverReady
    <3>5. ASSUME NEW r \in Request, Send(r) \/ Abandon(r)
          PROVE  UNCHANGED <<log, disk, received>>
      BY <3>5 DEF Send, Abandon
    <3>6. ASSUME NEW s \in Subscription, NEW enabled \in BOOLEAN, PutSubscription(s, enabled)
          PROVE  UNCHANGED <<log, received>> /\ (disk' = disk \/ disk' = Memory')
      BY <3>6 DEF PutSubscription, Persist
    <3>7. ASSUME NEW e \in Event, Happen(e)
          PROVE  UNCHANGED <<log, received>> /\ (disk' = disk \/ disk' = Memory')
      BY <3>7 DEF Happen, Persist
    <3>8. Tick \/ UNCHANGED vars => UNCHANGED <<log, disk, received>>
      BY DEF Tick, vars
    <3>9. PersistElsewhere => UNCHANGED <<log, received>> /\ disk' = Memory'
      BY DEF PersistElsewhere, Memory
    <3>. QED BY <3>1, <3>2, <3>3, <3>4, <3>5, <3>6, <3>7, <3>8, <3>9 DEF Next
  <2>. QED BY <2>1, <2>2, <2>3, <2>4, <2>5, <2>10 DEF Trusted!Next
<1>. QED BY <1>1, <1>2, Inductive, PTL DEF Spec, HonestLog, Trusted!Spec
===============================================================================
