---------------------------- MODULE MCPlanLifecycle ----------------------------
(* Two plans of overlapping ranges, a task of one piece and one of two, whose   *)
(* ids differ only in a character that a calendar event's id may not have.      *)
EXTENDS PlanLifecycle, TLC

I(s, e) == [start |-> s, end |-> e]

MCDaypart == {}
MCOffsets == [d \in {} |-> 0]
MCPieces == "draft.1" :> 1 @@ "draft_1" :> 2
MCTask == DOMAIN MCPieces
MCPlanRange == [today |-> I(1, 4), tomorrow |-> I(3, 4)]
MCPlanId == DOMAIN MCPlanRange
MCEventId(block, calendar) == <<calendar, "draft_1", block[2]>>
Event(name, calendar, s, e) ==
  [id |-> <<calendar, name>>, calendar |-> calendar, start |-> s, end |-> e]
MCOtherEvents == {Event("meeting", "work", 2, 3)}
MCMoveTargets == {I(2, 3)}
=============================================================================
