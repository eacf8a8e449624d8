----------------------------- MODULE EventDelivery -----------------------------
(***************************************************************************)
(* Delivery of public events to webhooks (src/src/api.ts).  Events,        *)
(* subscriptions and delivery attempts are all read back from the audit    *)
(* events.  A request (deliver, deliver-ready, retry-due, or an explicit   *)
(* delivery) reads them once, sends one event after another, waiting for   *)
(* each answer, and records the attempts of a batch when all were sent.    *)
(* Other requests run during each wait, and the process may die at any     *)
(* time.  Every change writes the whole store to the file, also what an    *)
(* earlier write that failed left in memory only; a process that starts    *)
(* again has what is in the file.                                          *)
(***************************************************************************)
EXTENDS Naturals, Sequences, FiniteSets, FiniteSetsExt

CONSTANTS
  Event,             \* the public events
  Target,            \* URLs that events are sent to
  Subscription,      \* ids of the subscriptions
  TargetOf, Wants,   \* a subscription's target, and the events its filters let through
  Request,           \* requests that may be under way at the same time
  MaxSubscriptions, MaxEvents,   \* limits named by deliver-ready requests
  RetryDelay,        \* time until a failed delivery is due again
  Horizon, MaxSends, MaxCrashes, MaxFailures  \* bounds: clock, deliveries, crashes, failed writes

ASSUME DeliveryAssumption ==
  /\ TargetOf \in [Subscription -> Target]
  /\ Wants \in [Subscription -> SUBSET Event]
  /\ MaxSubscriptions \in Nat \ {0} /\ MaxEvents \in Nat \ {0}
  /\ RetryDelay \in Nat \ {0}
  /\ Horizon \in Nat /\ MaxSends \in Nat
  /\ MaxCrashes \in Nat /\ MaxFailures \in Nat

Outcome == {"DELIVERED", "RETRYABLE", "REJECTED"}

VARIABLES
  events,        \* the public events so far, oldest first
  subscriptions, \* [id, enabled], the most recently changed first
  log,           \* the recorded attempts, oldest first
  disk,          \* the file's events and subscriptions, and how many attempts it has
  batches,       \* for each request the batches it still has to send: [target, sends]
  answered,      \* for each request the attempts of its first batch so far
  waiting,       \* for each request whether it waits for the answer to its last attempt
  now, crashes, failures,
  planned,       \* deliveries that requests have planned so far, for the bound
  sent,          \* number of deliveries sent; each has its number as delivery id
  lost,          \* history: deliveries that a crash or a failed write left unrecorded
  received       \* history: <<event, target>> that a receiver has acknowledged

underWay == <<batches, answered, waiting>>
vars == <<events, subscriptions, log, disk, underWay, now, crashes, failures, planned, sent, lost, received>>

-----------------------------------------------------------------------------
IdleRequests == {r \in Request : batches[r] = <<>>}

\* Array.filter: the elements that are in S, in their order.
Kept(seq, S) ==
  LET upTo[n \in 0..Len(seq)] ==
        IF n = 0 THEN <<>>
        ELSE IF seq[n] \in S THEN Append(upTo[n - 1], seq[n]) ELSE upTo[n - 1]
  IN  upTo[Len(seq)]

First(e) == [event |-> e, number |-> 1]
FirstAttempts(es) == [i \in 1..Len(es) |-> First(es[i])]

\* matchesPublicEventSubscriptionDeliveryFilters
EventsFor(s) == Kept(events, Wants[s])

\* Attempts of the same event and target.
SameDelivery(i, j) == log[i].event = log[j].event /\ log[i].target = log[j].target

\* latestByEventAndTarget: the attempt that was sent last; of those sent at the same
\* time the one that was recorded last.
Latest ==
  {i \in DOMAIN log : \A j \in DOMAIN log :
     SameDelivery(i, j) => log[j].at < log[i].at \/ (log[j].at = log[i].at /\ j <= i)}

\* (mutant) A failure that is not worth retrying is due as well.
DueAfterAnyFailure(target, asOf) ==
  {i \in Latest : /\ log[i].target = target
                  /\ log[i].outcome # "DELIVERED"
                  /\ log[i].at + RetryDelay <= asOf}

\* duePublicEventWebhookDeliveryAttempts; the caller names the target and the time.
Due(target, asOf) ==
  {i \in Latest : /\ log[i].target = target
                  /\ log[i].outcome = "RETRYABLE"
                  /\ log[i].at + RetryDelay <= asOf}

-----------------------------------------------------------------------------
Init ==
  /\ events = <<>> /\ subscriptions = <<>> /\ log = <<>>
  /\ batches = [r \in Request |-> <<>>]
  /\ answered = [r \in Request |-> <<>>]
  /\ waiting = [r \in Request |-> FALSE]
  /\ disk = [events |-> <<>>, subscriptions |-> <<>>, attempts |-> 0]
  /\ now = 0 /\ crashes = 0 /\ failures = 0 /\ planned = 0 /\ sent = 0
  /\ lost = {} /\ received = {}

\* What a write of the whole store puts into the file; the attempts in the file are always
\* the oldest of those in memory.
Memory == [events |-> events, subscriptions |-> subscriptions, attempts |-> Len(log)]

\* A change writes the store.  A write that fails leaves the change in memory.
Persist ==
  \/ disk' = Memory' /\ UNCHANGED failures
  \/ failures < MaxFailures /\ failures' = failures + 1 /\ UNCHANGED disk

\* Something else is changed, for which the store is written.
PersistElsewhere ==
  /\ disk' = Memory
  /\ UNCHANGED <<events, subscriptions, log, underWay, now, crashes, failures, planned, sent, lost, received>>

\* When no request may begin within the bound, nobody reads events or subscriptions.
SomeLeft == planned < MaxSends

\* Something happens that is a public event.
Happen(e) ==
  /\ SomeLeft
  /\ \A i \in DOMAIN events : events[i] # e
  /\ events' = Append(events, e)
  /\ UNCHANGED <<subscriptions, log, underWay, now, crashes, planned, sent, lost, received>>
  /\ Persist

\* currentPublicEventWebhookSubscriptions after a change: the most recently changed first.
Changed(s, enabled) ==
  <<[id |-> s, enabled |-> enabled]>> \o Kept(subscriptions, [id : Subscription \ {s}, enabled : BOOLEAN])

\* A subscription is registered, enabled or not, or its status is set, also to what it
\* was.
PutSubscription(s, enabled) ==
  /\ SomeLeft
  /\ subscriptions' = Changed(s, enabled)
  /\ UNCHANGED <<events, log, underWay, now, crashes, planned, sent, lost, received>>
  /\ Persist

\* A request begins that plans deliveries, as many as the bound still lets it.
Start(r, plan) ==
  /\ r \in IdleRequests /\ SomeLeft
  /\ planned' = planned + MapThenSumSet(LAMBDA i : Len(plan[i].sends), DOMAIN plan)
  /\ planned' <= MaxSends
  /\ batches' = [batches EXCEPT ![r] = Kept(plan, {plan[i] : i \in {j \in DOMAIN plan : plan[j].sends # <<>>}})]
  /\ UNCHANGED <<events, subscriptions, log, disk, answered, waiting, now, crashes, failures, sent, lost, received>>

\* POST .../webhook-deliveries: all events to a target the caller names (the filters a
\* request may name itself are left out, here and below).
DeliverAll(r, target) ==
  Start(r, << [target |-> target, sends |-> FirstAttempts(events)] >>)

\* POST .../webhook-subscriptions/deliver
Deliver(r, s) ==
  /\ \E i \in DOMAIN subscriptions : subscriptions[i] = [id |-> s, enabled |-> TRUE]
  /\ Start(r, << [target |-> TargetOf[s], sends |-> FirstAttempts(EventsFor(s))] >>)

UpTo(n, seq) == SubSeq(seq, 1, IF n < Len(seq) THEN n ELSE Len(seq))

\* POST .../webhook-subscriptions/deliver-ready: the first events of the first
\* subscriptions that are enabled, all as they are now.
DeliverReady(r) ==
  LET ready == UpTo(MaxSubscriptions, Kept(subscriptions, [id : Subscription, enabled : {TRUE}]))
  IN  Start(r, [i \in DOMAIN ready |->
                  [target |-> TargetOf[ready[i].id],
                   sends |-> FirstAttempts(UpTo(MaxEvents, EventsFor(ready[i].id)))]])

\* POST .../webhook-deliveries/retry-due, as of any time the caller names; in the order
\* in which the events were first attempted.
RetryDue(r, target, asOf) ==
  LET dueFor(i) == {k \in Due(target, asOf) : SameDelivery(i, k)}
      retried == Kept([i \in DOMAIN log |-> i],
                   {i \in DOMAIN log : dueFor(i) # {} /\ \A j \in 1..i - 1 : ~SameDelivery(i, j)})
      retry(i) == [event |-> log[i].event,
                   number |-> log[CHOOSE k \in dueFor(i) : TRUE].number + 1]
  IN  Start(r, << [target |-> target, sends |-> [k \in DOMAIN retried |-> retry(retried[k])]] >>)

-----------------------------------------------------------------------------
Batch(r) == Head(batches[r])
Sending(r) == batches[r] # <<>> /\ Batch(r).sends # <<>>

\* deliverPublicEventsToWebhook: the next event is sent, with the time of sending.
Send(r) ==
  LET send == Head(Batch(r).sends)
  IN  /\ Sending(r) /\ ~waiting[r]
      /\ sent' = sent + 1
      /\ answered' = [answered EXCEPT ![r] = Append(@,
           [id |-> sent + 1, event |-> send.event, target |-> Batch(r).target,
            number |-> send.number, at |-> now, outcome |-> "RETRYABLE"])]
      /\ batches' = [batches EXCEPT ![r][1].sends = Tail(@)]
      /\ waiting' = [waiting EXCEPT ![r] = TRUE]
      /\ UNCHANGED <<events, subscriptions, log, disk, now, crashes, failures, planned, lost, received>>

\* (mutant) An attempt without an answer is not reported by the loop.
AnswerOrForget(r, outcome) ==
  LET last == Len(answered[r])
      attempt == answered[r][last]
  IN  /\ waiting[r]
      /\ answered' = [answered EXCEPT ![r] =
           IF outcome = "RETRYABLE" THEN SubSeq(@, 1, last - 1)
                                    ELSE [@ EXCEPT ![last].outcome = outcome]]
      /\ waiting' = [waiting EXCEPT ![r] = FALSE]
      /\ received' = IF outcome = "DELIVERED"
                      THEN received \union {<<attempt.event, attempt.target>>} ELSE received
      /\ UNCHANGED <<events, subscriptions, log, disk, batches, now, crashes, failures, planned, sent, lost>>

\* The receiver's answer, or none: a network error is worth retrying, and so is an
\* answer 408, 429 or 5xx; any other refusal is not.
Answer(r, outcome) ==
  LET last == Len(answered[r])
      attempt == answered[r][last]
  IN  /\ waiting[r]
      /\ answered' = [answered EXCEPT ![r][last].outcome = outcome]
      /\ waiting' = [waiting EXCEPT ![r] = FALSE]
      /\ received' = IF outcome = "DELIVERED"
                      THEN received \union {<<attempt.event, attempt.target>>} ELSE received
      /\ UNCHANGED <<events, subscriptions, log, disk, batches, now, crashes, failures, planned, sent, lost>>

\* Every event of the batch was sent and answered.
Recording(r) == batches[r] # <<>> /\ Batch(r).sends = <<>> /\ ~waiting[r]

\* The attempts of a batch are recorded, the store being written for each, and the next
\* batch begins.
Record(r) ==
  /\ Recording(r)
  /\ log' = log \o answered[r]
  /\ answered' = [answered EXCEPT ![r] = <<>>]
  /\ batches' = [batches EXCEPT ![r] = Tail(@)]
  /\ UNCHANGED <<events, subscriptions, waiting, now, crashes, failures, planned, sent, lost, received>>
  /\ disk' = Memory'

\* The write for the n-th attempt of a batch fails: memory has the attempt and the file
\* those before it; the request ends with an error, and the rest of its batch, although
\* sent, is never recorded.
FailRecord(r) ==
  /\ Recording(r)
  /\ failures < MaxFailures /\ failures' = failures + 1
  /\ \E n \in DOMAIN answered[r] :
       /\ log' = log \o SubSeq(answered[r], 1, n)
       /\ disk' = IF n = 1 THEN disk ELSE [Memory EXCEPT !.attempts = @ + n - 1]
       /\ lost' = lost \union {answered[r][i].id : i \in n + 1..Len(answered[r])}
  /\ answered' = [answered EXCEPT ![r] = <<>>]
  /\ batches' = [batches EXCEPT ![r] = <<>>]
  /\ UNCHANGED <<events, subscriptions, waiting, now, crashes, planned, sent, received>>

\* The target or the secret of the next batch is not available, or is not the one that
\* was registered: the request ends with an error, and the batches left are not sent.
Abandon(r) ==
  /\ batches[r] # <<>> /\ answered[r] = <<>>
  /\ batches' = [batches EXCEPT ![r] = <<>>]
  /\ UNCHANGED <<events, subscriptions, log, disk, answered, waiting, now, crashes, failures,
                 planned, sent, lost, received>>

\* The process dies and starts again with what is in the file: the last state that was
\* written, or one with any first part of a batch that was being recorded.
Crash ==
  /\ IdleRequests # Request \/ disk # Memory
  /\ crashes < MaxCrashes /\ crashes' = crashes + 1
  /\ \/ /\ log' = SubSeq(log, 1, disk.attempts)
        /\ events' = disk.events /\ subscriptions' = disk.subscriptions
        /\ UNCHANGED disk
     \/ /\ \E r \in Request :
             Recording(r) /\ \E n \in DOMAIN answered[r] : log' = log \o SubSeq(answered[r], 1, n)
        /\ UNCHANGED <<events, subscriptions>>
        /\ disk' = Memory'
  /\ lost' = (1..sent) \ {log'[i].id : i \in DOMAIN log'}
  /\ batches' = [r \in Request |-> <<>>]
  /\ answered' = [r \in Request |-> <<>>]
  /\ waiting' = [r \in Request |-> FALSE]
  /\ UNCHANGED <<now, failures, planned, sent, received>>

\* The clock, which a delivery reads when it is sent: before the first one and, within the
\* bound, after the last one it makes no difference.
Tick ==
  /\ sent \in 1..MaxSends - 1
  /\ now < Horizon /\ now' = now + 1
  /\ UNCHANGED <<events, subscriptions, log, disk, underWay, crashes, failures, planned, sent, lost, received>>

Next ==
  \/ \E e \in Event : Happen(e)
  \/ \E s \in Subscription, enabled \in BOOLEAN : PutSubscription(s, enabled)
  \/ \E r \in Request :
       \/ \E t \in Target : \/ DeliverAll(r, t)
                            \/ \E asOf \in 0..Horizon + RetryDelay : RetryDue(r, t, asOf)
       \/ \E s \in Subscription : Deliver(r, s)
       \/ DeliverReady(r) \/ Send(r) \/ Record(r) \/ FailRecord(r) \/ Abandon(r)
       \/ \E outcome \in Outcome : Answer(r, outcome)
  \/ PersistElsewhere \/ Crash \/ Tick

Spec == Init /\ [][Next]_vars

-----------------------------------------------------------------------------
Attempt == [id : 1..sent, event : Event, target : Target, number : Nat \ {0},
            at : 0..now, outcome : Outcome]

TypeOK ==
  /\ events \in Seq(Event)
  /\ subscriptions \in Seq([id : Subscription, enabled : BOOLEAN])
  /\ log \in Seq(Attempt)
  /\ disk \in [events : Seq(Event), subscriptions : Seq([id : Subscription, enabled : BOOLEAN]),
               attempts : 0..Len(log)]
  /\ batches \in [Request -> Seq([target : Target,
                                  sends : Seq([event : Event, number : Nat \ {0}])])]
  /\ answered \in [Request -> Seq(Attempt)]
  /\ waiting \in [Request -> BOOLEAN]
  /\ \A r \in Request : waiting[r] => answered[r] # <<>>
  /\ \A r \in Request : answered[r] # <<>> => batches[r] # <<>>
  /\ now \in 0..Horizon /\ crashes \in 0..MaxCrashes /\ failures \in 0..MaxFailures /\ sent \in Nat
  /\ lost \subseteq 1..sent

\* Every delivery that was sent is recorded exactly once, is still with its request, or
\* was left unrecorded by a fault: the process died before it was in the file, or the
\* write for an earlier attempt of its batch failed.  None is dropped by its answer, by
\* the failure of another delivery, or by another request, and none is recorded again
\* when the process starts anew.
Ids(attempts) == {attempts[i].id : i \in DOMAIN attempts}
Accounted(d) ==
  LET recorded == {i \in DOMAIN log : log[i].id = d}
      holders == {r \in Request : d \in Ids(answered[r])}
  IN  Cardinality(recorded) + Cardinality(holders) + (IF d \in lost THEN 1 ELSE 0) = 1
EverySendAccounted == \A d \in 1..sent : Accounted(d)

\* The record of attempts is one to be trusted (DeliveryLog), whatever requests overlap,
\* whichever writes fail, whenever the process dies, and whichever subscriptions change
\* meanwhile.
Trusted == INSTANCE DeliveryLog WITH saved <- disk.attempts
HonestLog == Trusted!Spec
===============================================================================
