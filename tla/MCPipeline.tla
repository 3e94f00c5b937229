------------------------------ MODULE MCPipeline ------------------------------
(***************************************************************************)
(* The modules of MCLayout, loaded with no address for some intervals, or  *)
(* with an address for each: ten bytes apart, so that a section that is    *)
(* split around another one overlaps it.  In some the data block overlaps  *)
(* the code it would come after.                                           *)
(***************************************************************************)
EXTENDS Pipeline

MCCode    == {"c1", "c2", "c3"}
MCData    == {"d1"}
MCSymExpr == {"x1"}
MCProxy   == {"p1"}
MCSecName == <<"s1", "s2">>
MCEntry   == {"c1", "c3"}

M == INSTANCE MCLayout WITH Modules <- {}, pc <- layout

Spread == [i \in 1 .. 3 |-> 10 * i]

Overlapping(m) == [m EXCEPT !.off = [x \in DOMAIN m.off |->
                     IF x \in {"d1", "x1"} THEN m.off[x] \div 2 ELSE m.off[x]]]

MCModules ==
  UNION {{m, [m EXCEPT !.addr = Spread], Overlapping(m)} : m \in M!MCModules}
===============================================================================
