----------------------------- MODULE MCSlotSearch -----------------------------
(* Instances of SlotSearch for TLC: a day of 6 units, two dayparts, up to two  *)
(* windows and two busy blocks.                                                *)
EXTENDS SlotSearch

MCDaypart == {"MORNING", "AFTERNOON"}
MCDaypartFrom == [MORNING |-> 2, AFTERNOON |-> 4]
MCDaypartTo == [MORNING |-> 4, AFTERNOON |-> 6]

I(s, e) == [start |-> s, end |-> e]

MCWindows == {<<I(1, 4), I(4, 8)>>, <<I(1, 5), I(7, 11)>>}
BusyIntervals == {I(s, s + n) : s \in {1, 2, 3, 7}, n \in 0..2}
MCBusy ==
  {<<>>} \cup {<<x>> : x \in BusyIntervals} \cup
  {p \in BusyIntervals \X BusyIntervals : p[1].start <= p[2].start}

MCCalls ==
  {[windows |-> ws, busy |-> bs, duration |-> d, earliest |-> e,
    latest |-> l, dayparts |-> ps] :
     ws \in MCWindows, bs \in MCBusy, d \in {1, 2}, e \in {0, 2}, l \in {6, 10},
     ps \in {{}, MCDaypart}}
=============================================================================
