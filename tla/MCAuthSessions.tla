---------------------------- MODULE MCAuthSessions ----------------------------
(* An owner of both workspaces of a tenant and an editor of one. *)
EXTENDS AuthSessions, TLC

Active(role) == [role |-> role, status |-> "ACTIVE"]
MCInitialMember ==
  [u \in User |-> [w \in Workspace |->
     IF u = "ann" THEN Active(IF w = "w1" THEN "OWNER" ELSE "EDITOR")
     ELSE IF w = "w1" THEN Active("ADMIN") ELSE NoMember]]

MCAsked == {Active("OWNER"), [role |-> "EDITOR", status |-> "SUSPENDED"]}

\* Of changes of credentials and faults at most three, in any order and of any kind; beside
\* the change of a membership, one.
FewAtATime == changes + faults + 2 * edits <= 3

Interchangeable == Permutations(SessionId)
===============================================================================
