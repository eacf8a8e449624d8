------------------------------ MODULE DeliveryLog ------------------------------
(***************************************************************************)
(* What the record of webhook deliveries may be trusted for, however the   *)
(* deliveries are made: an attempt that is recorded as DELIVERED was       *)
(* acknowledged, and an attempt numbered n + 1 stands behind a recorded    *)
(* attempt numbered n that failed in a way worth retrying.  Of what was    *)
(* saved nothing is ever taken out of the record.                          *)
(***************************************************************************)
EXTENDS Naturals, Sequences

CONSTANTS Event, Target

VARIABLES
  log,       \* the recorded attempts, oldest first
  saved,     \* how many of them cannot be forgotten
  received   \* <<event, target>>: what a receiver has acknowledged

Earned(attempt) ==
  \/ attempt.number = 1
  \/ \E i \in 1..Len(log) : /\ log[i].event = attempt.event
                            /\ log[i].target = attempt.target
                            /\ log[i].number + 1 = attempt.number
                            /\ log[i].outcome = "RETRYABLE"

Init == log = <<>> /\ saved = 0 /\ received = {}

Receive(event, target) ==
  /\ received' = received \union {<<event, target>>}
  /\ UNCHANGED <<log, saved>>

Record ==
  /\ Len(log') > Len(log)
  /\ \A i \in 1..Len(log) : log'[i] = log[i]
  /\ \A i \in Len(log) + 1..Len(log') :
       /\ log'[i].outcome = "DELIVERED" => <<log'[i].event, log'[i].target>> \in received
       /\ Earned(log'[i])
  /\ saved' \in saved..Len(log')
  /\ UNCHANGED received

Save == saved' = Len(log) /\ UNCHANGED <<log, received>>

\* Attempts that were not saved are forgotten.
Forget == log' = SubSeq(log, 1, saved) /\ UNCHANGED <<saved, received>>

Next ==
  \/ Record \/ Save \/ Forget
  \/ \E event \in Event, target \in Target : Receive(event, target)

Spec == Init /\ [][Next]_<<log, saved, received>>
===============================================================================
