---------------------------- MODULE MCPrettyPrint ----------------------------
(***************************************************************************)
(* Small modules for PrettyPrint: two code blocks and a data block in two  *)
(* sections that touch each other or not, blocks of zero to two bytes that *)
(* overlap in every way, a symbol at every address or at none, and a few   *)
(* printing policies.  The first section may be empty, at the start of the *)
(* second one.  The second section starts at a multiple of 16, as          *)
(* PlaceKept asks; the first one does not.                                 *)
(***************************************************************************)
EXTENDS PrettyPrint

MCCode    == {"c1", "c2"}
MCData    == {"d1"}
MCSection == {"s1", "s2"}

(* gap is the number of bytes between the sections; the first one is empty  *)
(* if it is negative.                                                       *)
Base(gap) == [s \in MCSection |-> IF s = "s1" /\ gap >= 0 THEN 30 - gap ELSE 32]
Extent(gap) == [s \in MCSection |-> IF s = "s2" THEN 3 ELSE IF gap >= 0 THEN 2 ELSE 0]

(* Where a block can be: inside a section. *)
Spots == [addr : 28 .. 34, size : 0 .. 2]

Fits(gap, sp) ==
  \E s \in MCSection : /\ Base(gap)[s] <= sp.addr
                       /\ sp.addr < Base(gap)[s] + Extent(gap)[s]
                       /\ sp.addr + sp.size <= Base(gap)[s] + Extent(gap)[s]

(* What the policy says of a module whose first code block is at a, the     *)
(* second at b, where t is the address the data block points to.            *)
PolicyNames == {"all", "debug", "functions", "sections"}

Policy(name, a, b, t) ==
  LET all == [skipSec |-> {}, arraySec |-> {}, entries |-> {}, skipFn |-> {},
              target |-> NoTarget, debug |-> FALSE]
  IN  CASE name = "all"       -> all
        [] name = "debug"     -> [all EXCEPT !.entries = {a, b}, !.skipSec = {"s1"},
                                             !.debug = TRUE]
        [] name = "functions" -> [all EXCEPT !.entries = {a, b}, !.skipFn = {a}]
        [] name = "sections"  -> [all EXCEPT !.skipSec = {"s1"}, !.arraySec = {"s2"},
                                             !.target = t]

(* Of the assembler for x86-64; ".string" and no directive are errors.      *)
Width == [d \in Directive |-> CASE d = "byte" -> 1 [] d = "word" -> 2 [] d = "long" -> 4
                                 [] d = "quad" -> 8 [] OTHER -> 0]

(* What kind of data d1 holds: bytes, a string with its zero, one without,  *)
(* only zeros, or a symbol.                                                 *)
Kinds == {"bytes", "string", "unterminated", "zeros", "symbol"}

(* With bytes, each code block is a procedure; otherwise a procedure starts *)
(* with c1 and ends with c2.                                                *)
Directives(c, size, kind) ==
  LET start == [at |-> 0, op |-> "startproc"]
      mid   == [at |-> 1, op |-> "other"]
      end   == [at |-> size, op |-> "endproc"]
  IN  CASE kind = "bytes" -> <<start, end>>
        [] kind # "bytes" /\ c = "c1" -> <<start>>
        [] OTHER -> IF size = 2 THEN <<mid, end>> ELSE <<end>>

(* Capstone decodes all of the code, but if the data is bad, c2 loses its   *)
(* last byte.                                                               *)
Image(gap, found, c1, c2, d1, name, named, kind) ==
  LET pol   == Policy(name, c1.addr, c2.addr, Base(gap)["s1"])
      exact == kind # "unterminated"
  IN
  [addr      |-> [b \in Block |-> CASE b = "c1" -> c1.addr [] b = "c2" -> c2.addr
                                    [] b = "d1" -> d1.addr],
   size      |-> [b \in Block |-> CASE b = "c1" -> c1.size [] b = "c2" -> c2.size
                                    [] b = "d1" -> d1.size],
   base      |-> Base(gap),
   extent    |-> Extent(gap),
   found     |-> found,
   skipSec   |-> pol.skipSec,
   arraySec  |-> pol.arraySec,
   entries   |-> pol.entries,
   skipFn    |-> pol.skipFn,
   syms      |-> IF named THEN 0 .. 36 ELSE {},
   nops      |-> [c \in Code |-> IF c = "c1" /\ kind \in {"zeros", "string"}
                                 THEN 0 .. (c1.size - 1) ELSE {}],
   nopSize   |-> IF kind = "string" THEN 4 ELSE 1,
   cfi       |-> [c \in Code |-> Directives(c, IF c = "c1" THEN c1.size ELSE c2.size, kind)],
   insns     |-> [c \in Code |-> IF c = "c1" THEN {0} \ {c1.size}
                                 ELSE 0 .. (c2.size - (IF exact THEN 1 ELSE 2))],
   decoded   |-> [c \in Code |-> IF c = "c1" THEN c1.size
                                 ELSE IF exact \/ c2.size = 0 THEN c2.size
                                 ELSE c2.size - 1],
   zeros     |-> [d \in Data |-> CASE kind = "zeros" -> d1.size
                                    [] kind = "string" /\ d1.size > 0 -> 1
                                    [] OTHER -> 0],
   encoding  |-> [d \in Data |-> IF kind \in {"string", "unterminated"} THEN "string" ELSE "none"],
   symbolic  |-> IF kind = "symbol" \/ pol.target # NoTarget THEN Data ELSE {},
   width     |-> Width,
   remarks   |-> IF kind = "symbol" THEN Data ELSE {},
   target    |-> [d \in Data |-> pol.target],
   debug     |-> pol.debug]

(* Which of the sections are found first at their start.                    *)
Firsts(gap) == IF gap < 0 THEN {{"s1"}, {"s2"}} ELSE {MCSection}

(* The two code blocks are alike but for their instructions: c1 is first.   *)
Shapes ==
  {b \in [gap : {-1, 0, 1}, found : (SUBSET MCSection) \ {{}},
          c1 : Spots, c2 : Spots, d1 : Spots] :
     /\ b.found \in Firsts(b.gap) /\ b.c1.addr <= b.c2.addr
     /\ Fits(b.gap, b.c1) /\ Fits(b.gap, b.c2) /\ Fits(b.gap, b.d1)}

(* Data that is printed alike is varied under one policy only.              *)
Variants ==
  (PolicyNames \X {"bytes", "unterminated", "symbol"}) \cup ({"all"} \X Kinds)

MCImages ==
  {Image(b.gap, b.found, b.c1, b.c2, b.d1, v[1], named, v[2]) :
     b \in Shapes, v \in Variants, named \in BOOLEAN}

(* Of these, those without empty blocks, printed completely. *)
FullImages ==
  {im \in MCImages : /\ \A b \in MCCode \cup MCData : im.size[b] > 0
                     /\ im.skipSec = {} /\ im.skipFn = {} /\ ~im.debug}
===============================================================================
