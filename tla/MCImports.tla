------------------------------- MODULE MCImports -------------------------------
(* Two users of one workspace import from the same sources.  Two of three      *)
(* external ids are spelt alike once they are sanitized.                       *)
EXTENDS Imports

MCScope == {"jordan", "casey"}
MCIdOf == [x \in {"A/1", "A-1", "B"} |-> IF x = "B" THEN "B" ELSE "A_1"]

Good(external) == [external |-> external, valid |-> TRUE]
Bad(external) == [external |-> external, valid |-> FALSE]
Import(kind, scope, rows, cancelled) ==
  [kind |-> kind, scope |-> scope, rows |-> rows, cancelled |-> cancelled]

MCRequest ==
  {Import("tasks", scope, rows, <<>>) :
     scope \in MCScope, rows \in {<<Good("A/1")>>, <<Good("A/1"), Good("A-1")>>, <<Bad("B"), Good("A/1"), Good("B")>>}}
  \union {Import("guidance", "jordan", <<Good("A/1"), Good("B")>>, <<>>),
          Import("connectos", "jordan", <<Good("A/1"), Good("A-1")>>, <<>>)}
  \union {Import("ics", "jordan", rows, cancelled) :
            rows \in {<<>>, <<Good("A/1"), Good("B")>>}, cancelled \in {<<>>, <<"B">>, <<"A/1", "A-1">>}}
===============================================================================
