------------------------------- MODULE Pipeline -------------------------------
(***************************************************************************)
(* What the drivers gtirb-pprinter and gtirb-binary-printer do with each   *)
(* module of the IR: lay it out if it has no valid layout, then print it.  *)
(* The module composes Layout and PrettyPrint: the printer's image of the  *)
(* module is a function of the state the layout leaves behind.             *)
(***************************************************************************)
EXTENDS Integers, FiniteSetsExt

CONSTANTS
  NI, NS, Code, Data, SymExpr, Proxy, Modules,  \* as in Layout
  SecName,  \* the names of the sections: a sequence of length NS
  Entry     \* the code blocks that are entries of functions

ASSUME EntryAssumption == Entry \subseteq Code /\ Code \cap Data = {}

VARIABLES
  mod, sec, addr, size, bytes, bi, off, cur, it, A,  \* as in Layout, with its pc
  layout,                                            \* ... under this name
  img, status, last, curSec, filled, labels,         \* as in PrettyPrint,
  commented, lost, unwind, written, printer,         \* with its content and pc
  stage  \* what main is doing with the module

layoutVars  == <<mod, sec, addr, size, bytes, bi, off, cur, it, A, layout>>
printerVars == <<img, status, last, curSec, filled, labels, commented, lost,
                 unwind, written, printer>>
vars        == <<layoutVars, printerVars, stage>>

(* The components, with what is proved about them. *)
L == INSTANCE LayoutProofs WITH pc <- layout

ASSUME LayoutAssumption == L!SizesAssumption /\ L!ModulesAssumption

Named == {SecName[s] : s \in 1 .. NS}

(* A name is that of one section. *)
ASSUME NamedAssumption ==
  /\ \A s, t \in 1 .. NS : SecName[s] = SecName[t] => s = t
  /\ "none" \notin Named

P == INSTANCE PrettyPrintProofs WITH
       Section <- Named, Images <- {}, content <- written, pc <- printer

-------------------------------------------------------------------------------
(* The module as the printer sees it *)

(* The live intervals of a section. *)
Within(s) == {i \in L!Interval : sec[i] = s}

(* The byte interval of every block has an address. *)
Addressed == \A i \in L!Interval : L!Live(i) => addr[i] # L!NoAddr

(* Where an item is in memory. *)
At(x) == addr[bi[x]] + off[x]

(* A section reaches from its first interval to the end of its last one.    *)
(* Without an interval it has no address.                                   *)
SectBase(s) == IF Within(s) = {} THEN L!NoAddr ELSE Min({addr[i] : i \in Within(s)})
SectEnd(s)  ==
  IF Within(s) = {} THEN L!NoAddr ELSE Max({addr[i] + size[i] : i \in Within(s)})

NumberOf(n) == CHOOSE s \in 1 .. NS : SecName[s] = n

(* All is printed, and all of it has a symbol.  Code is decoded completely, *)
(* as one instruction for each block, and data is zeros.                    *)
Image ==
  [addr      |-> [b \in L!Block |-> At(b)],
   size      |-> [b \in L!Block |-> mod.len[b]],
   base      |-> [n \in Named |-> SectBase(NumberOf(n))],
   extent    |-> [n \in Named |-> SectEnd(NumberOf(n)) - SectBase(NumberOf(n))],
   found     |-> {n \in Named : \A m \in Named :
                    SectBase(NumberOf(m)) = SectBase(NumberOf(n)) => NumberOf(n) <= NumberOf(m)},
   skipSec   |-> {}, arraySec |-> {}, skipFn |-> {},
   entries   |-> {At(c) : c \in Entry},
   syms      |-> {At(b) : b \in L!Block},
   insns     |-> [c \in Code |-> {0}],
   decoded   |-> [c \in Code |-> mod.len[c]],
   nops      |-> [c \in Code |-> {}], nopSize |-> 1, cfi |-> [c \in Code |-> <<>>],
   zeros     |-> [d \in Data |-> mod.len[d]],
   encoding  |-> [d \in Data |-> "none"],
   symbolic  |-> {}, remarks |-> {},
   width     |-> [x \in P!Directive |-> 0],
   target    |-> [d \in Data |-> P!NoTarget],
   debug     |-> FALSE]

(* The printer has no module yet. *)
NoImage == [addr |-> <<>>, size |-> <<>>]

Init ==
  /\ L!Init
  /\ P!Start(NoImage)
  /\ stage = "loaded"

(* Module::getAddress: "invalid layouts [...] in which an interval has no   *)
(* address".                                                                *)
NeedsLayout == \E i \in L!Interval : addr[i] = L!NoAddr

LayOut ==
  /\ stage = "loaded" /\ NeedsLayout
  /\ L!BeginLayout
  /\ stage' = "layout"
  /\ UNCHANGED printerVars

KeepLayout ==
  /\ stage = "loaded" /\ ~NeedsLayout
  /\ stage' = "ready"
  /\ UNCHANGED <<layoutVars, printerVars>>

RunLayout ==
  /\ stage = "layout"
  /\ L!LayoutStep
  /\ UNCHANGED <<printerVars, stage>>

(* main does not look at what layoutModule returns. *)
Laid ==
  /\ stage = "layout" /\ layout \in {"laid", "failed"}
  /\ stage' = "ready"
  /\ UNCHANGED <<layoutVars, printerVars>>

(* What print takes for granted of a module: addresses, and sections that   *)
(* do not overlap.                                                          *)
Printable == Addressed /\ P!WellFormed(Image)

PrintModule ==
  /\ stage = "ready" /\ Printable
  /\ img' = Image
  /\ stage' = "printing"
  /\ UNCHANGED <<layoutVars, status, last, curSec, filled, labels, commented,
                 lost, unwind, written, printer>>

(* print on another module: it reads addresses that are not there, or finds *)
(* several sections at one.  What becomes of it is left open.               *)
Misprint ==
  /\ stage = "ready" /\ ~Printable
  /\ stage' = "undefined"
  /\ UNCHANGED <<layoutVars, printerVars>>

RunPrint ==
  /\ stage = "printing"
  /\ P!Next
  /\ UNCHANGED <<layoutVars, stage>>

Next == LayOut \/ KeepLayout \/ RunLayout \/ Laid \/ PrintModule \/ Misprint \/ RunPrint

Spec == Init /\ [][Next]_vars
-------------------------------------------------------------------------------
Printed == stage = "printing" /\ printer = "done"

(* Blocks of one interval were loaded side by side. *)
LoadedDisjoint ==
  \A x, y \in L!Block : x # y /\ mod.bi[x] = mod.bi[y] =>
    \/ mod.off[x] + mod.len[x] <= mod.off[y]
    \/ mod.off[y] + mod.len[y] <= mod.off[x]

(* A module that was laid out successfully can be printed, and its blocks   *)
(* overlap only where they did within an interval before: if nowhere, every *)
(* block is in the listing, whatever addresses the module was loaded with.  *)
AllListed ==
  layout = "laid" =>
    /\ stage # "undefined"
    /\ LoadedDisjoint /\ Printed => \A b \in L!Block : status[b] = "printed"

(* Where block b is in the listing. *)
PlacesOf(b) == {x \in written : x.block = b}

(* The edges between intervals along which code falls through. *)
Falls == {e \in mod.edges : e.fall /\ e.dst \in Code /\ mod.bi[e.src] # mod.bi[e.dst]}

(* They do not lead in circles.                                             *)
Acyclic ==
  \E rank \in [L!Interval -> L!Interval] :
    \A e \in Falls : rank[mod.bi[e.src]] < rank[mod.bi[e.dst]]

(* Code that falls through still does in the listing: when the interval of  *)
(* its only code block is merged with that of its target, the target is in  *)
(* the same section, right behind it but for the alignment of a function.   *)
FallsThrough ==
  Printed /\ layout = "laid" /\ LoadedDisjoint /\ Acyclic =>
    \A e \in Falls :
      (\A c \in Code : mod.bi[c] = mod.bi[e.src] => c = e.src) /\ bi[e.src] = bi[e.dst]
      => \E x \in PlacesOf(e.src), y \in PlacesOf(e.dst) :
           /\ x.sec = y.sec
           /\ y.pos = LET end == x.pos + mod.len[e.src]
                      IN  IF e.dst \in Entry THEN P!Aligned(end, At(e.dst)) ELSE end

(* Every interval was loaded with a block at its start. *)
IntervalsLed ==
  \A i \in L!Interval : \E b \in L!Block :
    mod.bi[b] = i /\ mod.off[b] = 0 /\ mod.len[b] > 0

(* Through merges, new addresses and the search for sections by address,    *)
(* what is printed goes to the section it was loaded in.                    *)
LoadedSection ==
  IntervalsLed =>
    \A x \in written : x.sec = SecName[mod.sec[mod.bi[x.block]]]
===============================================================================
