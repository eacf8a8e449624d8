---------------------------- MODULE MCEventDelivery ----------------------------
(* Two events and two requests at a time; two subscriptions to one target, one   *)
(* with a filter.  In the small instance, one event and one subscription.        *)
EXTENDS EventDelivery, TLC

MCTargetOf == [all |-> "hook", plans |-> "hook"]
MCWants == [all |-> {"accepted", "imported"}, plans |-> {"accepted"}]
RequestsAlike == Permutations(Request)
===============================================================================
