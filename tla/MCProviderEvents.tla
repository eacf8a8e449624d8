--------------------------- MODULE MCProviderEvents ---------------------------
(* Deliveries for one account and one task: two checkpoints that share an    *)
(* event id, of which one reports an error, a revocation, and two signed     *)
(* webhooks.  Time is counted in units of thirty days.                       *)
EXTENDS ProviderEvents

Checkpoint(id, cursor, status) ==
  [kind |-> "checkpoint", key |-> <<"sync", "calendar", id>>, name |-> id,
   target |-> "calendar", status |-> status, content |-> cursor]
Webhook(id) ==
  [kind |-> "webhook", key |-> <<"webhook", id>>, target |-> "task", sentAt |-> 0,
   content |-> 0]

MCEvent == {
  Checkpoint("e1", 1, "CONNECTED"), Checkpoint("e1", 2, "ERROR"),
  [kind |-> "revocation", key |-> <<"integration-revoked", "calendar", "e3">>,
   name |-> "e3", target |-> "calendar", content |-> 0],
  Webhook("e4"), Webhook("e5")}
===============================================================================
