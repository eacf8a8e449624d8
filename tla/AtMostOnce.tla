------------------------------ MODULE AtMostOnce ------------------------------
(***************************************************************************)
(* What a provider may rely on when it delivers an event again and again:  *)
(* the event is taken at most once, and is acknowledged as new only after  *)
(* it was taken.  Retention may forget an event, which may then be taken   *)
(* again.                                                                  *)
(***************************************************************************)
EXTENDS Naturals

CONSTANT Key   \* what tells one event from another

VARIABLES
  taken,        \* how often each event was taken since it was last forgotten
  acknowledged  \* the events the provider was told were taken

Init == /\ taken = [k \in Key |-> 0]
        /\ acknowledged = {}

Take(k) == /\ taken[k] = 0
           /\ taken' = [taken EXCEPT ![k] = 1]
           /\ UNCHANGED acknowledged

Acknowledge(k) == /\ taken[k] = 1
                  /\ acknowledged' = acknowledged \union {k}
                  /\ UNCHANGED taken

Forget(S) == /\ taken' = [k \in Key |-> IF k \in S THEN 0 ELSE taken[k]]
             /\ acknowledged' = acknowledged \ S

Next == \/ \E k \in Key : Take(k) \/ Acknowledge(k)
        \/ \E S \in SUBSET Key : Forget(S)

Spec == Init /\ [][Next]_<<taken, acknowledged>>
===============================================================================
