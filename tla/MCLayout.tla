------------------------------- MODULE MCLayout -------------------------------
(***************************************************************************)
(* Small modules for Layout: three byte intervals in up to two sections,   *)
(* three code blocks spread over them, a data block with a symbolic        *)
(* expression on it before or after the code of an interval, and at most   *)
(* one fallthrough edge out of each code block, to any other.  Renaming    *)
(* the code blocks lets each placement be non-decreasing.                  *)
(***************************************************************************)
EXTENDS Layout, Sequences

MCCode    == {"c1", "c2", "c3"}
MCData    == {"d1"}
MCSymExpr == {"x1"}
MCProxy   == {"p1"}
NoFall    == "none"

CodeSeq == <<"c1", "c2", "c3">>

(* c2 is two bytes long, everything else one.  An interval holds its code   *)
(* blocks in the order c1, c2, c3; d1 comes before or after them; x1 is on  *)
(* d1.                                                                      *)
Bytes(S) == Cardinality(S) + (IF 2 \in S THEN 1 ELSE 0)
Holds(place, i)      == {n \in 1 .. 3 : place[CodeSeq[n]] = i}
Total(place, dat, i) == Bytes(Holds(place, i)) + (IF dat.bi = i THEN 1 ELSE 0)
CodeOff(place, dat, n) ==
  LET i == place[CodeSeq[n]]
  IN  Bytes({k \in Holds(place, i) : k < n})
        + (IF dat.bi = i /\ dat.first THEN 1 ELSE 0)
DataOff(place, dat) == IF dat.first THEN 0 ELSE Bytes(Holds(place, dat.bi))

MkModule(s, place, dat, falls) ==
  [sec  |-> s,
   size |-> [i \in Interval |-> Total(place, dat, i)],
   \* the first interval has an address, the others have none
   addr |-> [i \in Interval |-> IF i = 1 THEN 5 ELSE NoAddr],
   bi   |-> [x \in Item |-> IF x \in Code THEN place[x] ELSE dat.bi],
   off  |-> [x \in Item |->
               IF x \in Code THEN CodeOff(place, dat, CHOOSE n \in 1 .. 3 : CodeSeq[n] = x)
               ELSE DataOff(place, dat)],
   len  |-> [x \in Item |-> IF x = "c2" THEN 2 ELSE 1],
   edges |-> {[src |-> c, dst |-> falls[c], fall |-> TRUE] :
                c \in {d \in Code : falls[d] # NoFall}}
             \cup {[src |-> "c1", dst |-> "c3", fall |-> FALSE]}]

Sectionings == {<<1, 1, 1>>, <<1, 2, 1>>, <<2, 1, 1>>}

Placements ==
  {p \in [Code -> Interval] : p["c1"] <= p["c2"] /\ p["c2"] <= p["c3"]}

Fallthroughs ==
  {f \in [Code -> Code \cup {NoFall, "p1"}] :
     (\A c \in Code : f[c] # c) /\ f["c1"] # "p1" /\ f["c2"] # "p1"}

MCModules ==
  {MkModule(s, place, dat, f) :
     s \in Sectionings, place \in Placements, f \in Fallthroughs,
     dat \in [bi : {1, 3}, first : BOOLEAN]}

(* Modules in which every fallthrough edge leaves the end of an interval    *)
(* for the start of another one of the same section.                        *)
ChainModules ==
  {m \in MCModules : \A e \in m.edges : e.fall =>
     /\ e.dst \in MCCode /\ m.sec[m.bi[e.dst]] = m.sec[m.bi[e.src]]
     /\ m.off[e.src] + m.len[e.src] = m.size[m.bi[e.src]] /\ m.off[e.dst] = 0}
===============================================================================
