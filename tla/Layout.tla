-------------------------------- MODULE Layout --------------------------------
(***************************************************************************)
(* gtirb_layout: laying out one GTIRB module.                              *)
(*                                                                         *)
(* layoutModule walks the sections of the module; in each it first calls   *)
(* findAndMergeBIs, which joins byte intervals whose code falls through    *)
(* from one to the other, and then gives every byte interval an address.   *)
(* removeModuleLayout takes the addresses away again.  The two functions   *)
(* can follow each other any number of times on one module, since the      *)
(* gtirb-layout tool reads and writes the module as a file.                *)
(*                                                                         *)
(* Sections are numbered in the order in which the module lists them and   *)
(* byte intervals in the order in which their sections list them, so an    *)
(* iterator over the intervals of section s is a number in 1 .. NI + 1     *)
(* that passes over the intervals of other sections.                       *)
(***************************************************************************)
EXTENDS Integers, FiniteSetsExt

CONSTANTS
  NI,       \* number of byte intervals of the loaded module
  NS,       \* number of its sections
  Code,     \* its code blocks
  Data,     \* its data blocks
  SymExpr,  \* its symbolic expressions, each at an offset of an interval
  Proxy,    \* its proxy blocks: targets of edges with no place in memory
  Modules   \* the loaded modules to consider: records of ModuleType

Interval == 1 .. NI
Sect     == 1 .. NS
Block    == Code \cup Data
Item     == Block \cup SymExpr  \* everything that sits at an offset of an interval

NoAddr == -1  \* std::nullopt as the address of a byte interval
Gone   == 0   \* the section of an interval that was removed from its section

ModuleType ==
  [sec   : [Interval -> Sect],
   size  : [Interval -> Nat],
   addr  : [Interval -> Nat \cup {NoAddr}],
   bi    : [Item -> Interval],  \* the interval that holds an item ...
   off   : [Item -> Nat],       \* ... and the offset it has there
   len   : [Item -> Nat],       \* bytes the item covers
   edges : SUBSET [src : Code, dst : Code \cup Proxy, fall : BOOLEAN]]

ASSUME SizesAssumption == NI \in Nat /\ NS \in Nat

(* No item reaches past the end of its interval. *)
InBounds(m) == \A x \in Item : m.off[x] + m.len[x] <= m.size[m.bi[x]]

ASSUME ModulesAssumption ==
  Modules \subseteq ModuleType /\ \A m \in Modules : InBounds(m)

VARIABLES
  mod,    \* the module as it was loaded; its blocks' sizes and its CFG never change
  sec,    \* Section of each byte interval
  addr,   \* ByteInterval::getAddress
  size,   \* ByteInterval::getSize
  bytes,  \* the content of each byte interval, a function on its offsets
  bi,     \* the byte interval of each item
  off,    \* the offset of each item in its byte interval
  pc,     \* what the library is doing
  cur,    \* the section the outer loop is at
  it,     \* the byte interval the inner loop is at
  A       \* the next free address

content == <<sec, size, bytes, bi, off>>
vars    == <<mod, addr, content, pc, cur, it, A>>

(* A byte is named by the place it was loaded at. *)
LoadedBytes(m) == [i \in Interval |-> [k \in 0 .. (m.size[i] - 1) |-> <<i, k>>]]

Init ==
  /\ mod \in Modules
  /\ sec = mod.sec /\ addr = mod.addr /\ size = mod.size
  /\ bytes = LoadedBytes(mod)
  /\ bi = mod.bi /\ off = mod.off
  /\ pc = "idle" /\ cur = 1 /\ it = 1 /\ A = 0

-------------------------------------------------------------------------------
(* findAndMergeBIs *)

CodeIn(i) == {c \in Code : bi[c] = i}

(* The front and the back of SourceBI.code_blocks(), ordered by offset. *)
Fronts(i) == {c \in CodeIn(i) : \A d \in CodeIn(i) : off[c] <= off[d]}
Backs(i)  == {c \in CodeIn(i) : \A d \in CodeIn(i) : off[d] <= off[c]}

(* The edges the loop over getOutgoingEdges does not `continue` past.  The  *)
(* loop asks for the edges of the interval's FIRST code block.              *)
Pending(i, c) ==
  {e \in mod.edges : e.src = c /\ e.fall /\ (e.dst \in Code => bi[e.dst] # i)}

(* Mutant of Mergeable: an edge from the middle of the interval is merged.  *)
Mergeable_AnyEnd(i, back, dst) ==
  dst \in Code /\ sec[bi[dst]] = cur /\ off[dst] = 0

(* The checks made before merging, on the interval's LAST code block.       *)
Mergeable(i, back, dst) ==
  /\ dst \in Code
  /\ sec[bi[dst]] = cur
  /\ off[back] + mod.len[back] = size[i]
  /\ off[dst] = 0

(* Mutants of MergeInto: BaseOffset is read after setSize; only the code    *)
(* blocks are moved behind the bytes that are already there; none are.      *)
MergeInto_NoBase(i, j) ==
  /\ size'  = [size EXCEPT ![i] = size[i] + size[j]]
  /\ bi'    = [x \in Item |-> IF bi[x] = j THEN i ELSE bi[x]]
  /\ off'   = off
  /\ bytes' = [bytes EXCEPT ![i] =
                 [k \in 0 .. (size[i] + size[j] - 1) |->
                    IF k < size[i] THEN bytes[i][k] ELSE bytes[j][k - size[i]]]]
  /\ sec'   = [sec EXCEPT ![j] = Gone]

MergeInto_LateBase(i, j) ==
  /\ size'  = [size EXCEPT ![i] = size[i] + size[j]]
  /\ bi'    = [x \in Item |-> IF bi[x] = j THEN i ELSE bi[x]]
  /\ off'   = [x \in Item |-> IF bi[x] = j THEN size[i] + size[j] + off[x] ELSE off[x]]
  /\ bytes' = [bytes EXCEPT ![i] =
                 [k \in 0 .. (size[i] + size[j] - 1) |->
                    IF k < size[i] THEN bytes[i][k] ELSE bytes[j][k - size[i]]]]
  /\ sec'   = [sec EXCEPT ![j] = Gone]

MergeInto_CodeOnly(i, j) ==
  /\ size'  = [size EXCEPT ![i] = size[i] + size[j]]
  /\ bi'    = [x \in Item |-> IF bi[x] = j THEN i ELSE bi[x]]
  /\ off'   = [x \in Item |-> IF bi[x] = j /\ x \in Code
                              THEN size[i] + off[x] ELSE off[x]]
  /\ bytes' = [bytes EXCEPT ![i] =
                 [k \in 0 .. (size[i] + size[j] - 1) |->
                    IF k < size[i] THEN bytes[i][k] ELSE bytes[j][k - size[i]]]]
  /\ sec'   = [sec EXCEPT ![j] = Gone]

(* The whole merge: interval j is appended to interval i and removed. *)
MergeInto(i, j) ==
  /\ size'  = [size EXCEPT ![i] = size[i] + size[j]]
  /\ bi'    = [x \in Item |-> IF bi[x] = j THEN i ELSE bi[x]]
  /\ off'   = [x \in Item |-> IF bi[x] = j THEN size[i] + off[x] ELSE off[x]]
  /\ bytes' = [bytes EXCEPT ![i] =
                 [k \in 0 .. (size[i] + size[j] - 1) |->
                    IF k < size[i] THEN bytes[i][k] ELSE bytes[j][k - size[i]]]]
  /\ sec'   = [sec EXCEPT ![j] = Gone]

(* Mutant of Pass: an interval without code blocks is not skipped. *)
Pass_NeedsCode ==
  /\ pc = "scan" /\ it \in Interval
  /\ sec[it] # cur \/ \E c \in Fronts(it) : Pending(it, c) = {}
  /\ it' = it + 1
  /\ UNCHANGED <<mod, addr, content, pc, cur, A>>

(* This interval is of another section, has no code, or needs no merge. *)
Pass ==
  /\ pc = "scan" /\ it \in Interval
  /\ \/ sec[it] # cur
     \/ CodeIn(it) = {}
     \/ \E c \in Fronts(it) : Pending(it, c) = {}
  /\ it' = it + 1
  /\ UNCHANGED <<mod, addr, content, pc, cur, A>>

(* Merge the target's interval into this one and start over. *)
Merge ==
  /\ pc = "scan" /\ it \in Interval /\ sec[it] = cur
  /\ \E c \in Fronts(it), back \in Backs(it) : \E e \in Pending(it, c) :
       /\ Mergeable(it, back, e.dst)
       /\ MergeInto(it, bi[e.dst])
  /\ it' = 1
  /\ UNCHANGED <<mod, addr, pc, cur, A>>

(* An edge into a proxy block, into another section, or between blocks that *)
(* do not touch: findAndMergeBIs and layoutModule return false.             *)
Reject ==
  /\ pc = "scan" /\ it \in Interval /\ sec[it] = cur
  /\ \E c \in Fronts(it), back \in Backs(it) : \E e \in Pending(it, c) :
       ~ Mergeable(it, back, e.dst)
  /\ pc' = "failed"
  /\ UNCHANGED <<mod, addr, content, cur, it, A>>

(* Mutant of EndScan: the last interval is never looked at. *)
EndScan_Early ==
  /\ pc = "scan" /\ it = NI
  /\ pc' = "assign" /\ it' = 1
  /\ UNCHANGED <<mod, addr, content, cur, A>>

EndScan ==
  /\ pc = "scan" /\ it = NI + 1
  /\ pc' = "assign" /\ it' = 1
  /\ UNCHANGED <<mod, addr, content, cur, A>>

-------------------------------------------------------------------------------
(* The loops of layoutModule and removeModuleLayout *)

BeginLayout ==
  /\ pc \in {"idle", "laid", "removed"}
  /\ pc' = IF NS = 0 THEN "laid" ELSE "scan"
  /\ cur' = 1 /\ it' = 1 /\ A' = 0
  /\ UNCHANGED <<mod, addr, content>>

(* Mutant of Assign: the addresses advance by the size before the merges. *)
Assign_StaleSize ==
  /\ pc = "assign" /\ it \in Interval
  /\ IF sec[it] = cur
     THEN /\ addr' = [addr EXCEPT ![it] = A]
          /\ A' = A + mod.size[it]
     ELSE UNCHANGED <<addr, A>>
  /\ it' = it + 1
  /\ UNCHANGED <<mod, content, pc, cur>>

Assign ==
  /\ pc = "assign" /\ it \in Interval
  /\ IF sec[it] = cur
     THEN /\ addr' = [addr EXCEPT ![it] = A]
          /\ A' = A + size[it]
     ELSE UNCHANGED <<addr, A>>
  /\ it' = it + 1
  /\ UNCHANGED <<mod, content, pc, cur>>

(* Mutants of EndAssign: every section starts at address 0 again; the loop   *)
(* over the sections runs once too often.                                   *)
EndAssign_Restart ==
  /\ pc = "assign" /\ it = NI + 1
  /\ cur' = cur + 1 /\ it' = 1 /\ A' = 0
  /\ pc' = IF cur = NS THEN "laid" ELSE "scan"
  /\ UNCHANGED <<mod, addr, content>>

EndAssign_OneMore ==
  /\ pc = "assign" /\ it = NI + 1
  /\ cur' = cur + 1 /\ it' = 1
  /\ pc' = IF cur > NS THEN "laid" ELSE "scan"
  /\ UNCHANGED <<mod, addr, content, A>>

EndAssign ==
  /\ pc = "assign" /\ it = NI + 1
  /\ cur' = cur + 1 /\ it' = 1
  /\ pc' = IF cur = NS THEN "laid" ELSE "scan"
  /\ UNCHANGED <<mod, addr, content, A>>

(* removeModuleLayout; it makes no choice and cannot fail. *)
Remove ==
  /\ pc \in {"idle", "laid", "removed"}
  /\ addr' = [i \in Interval |-> IF sec[i] = Gone THEN addr[i] ELSE NoAddr]
  /\ pc' = "removed"
  /\ UNCHANGED <<mod, content, cur, it, A>>

LayoutStep == Pass \/ Merge \/ Reject \/ EndScan \/ Assign \/ EndAssign

Next == BeginLayout \/ LayoutStep \/ Remove

Spec == Init /\ [][Next]_vars

(* A call of layoutModule that has begun keeps running; nobody has to call it. *)
FairSpec == Spec /\ WF_vars(LayoutStep)
-------------------------------------------------------------------------------
(* Type invariant: the shape of the state, and control variables in range.  *)
TypeOK ==
  /\ mod \in ModuleType
  /\ sec \in [Interval -> Sect \cup {Gone}]
  /\ addr \in [Interval -> Nat \cup {NoAddr}]
  /\ size \in [Interval -> Nat]
  /\ bytes = [i \in Interval |-> bytes[i]]
  /\ \A i \in Interval : bytes[i] \in [0 .. (size[i] - 1) -> Interval \X Nat]
  /\ bi \in [Item -> Interval]
  /\ off \in [Item -> Nat]
  /\ pc \in {"idle", "scan", "assign", "laid", "failed", "removed"}
  /\ cur \in 1 .. (NS + 1)
  /\ it \in 1 .. (NI + 1)
  /\ A \in Nat

Live(i) == sec[i] # Gone

(* However many intervals are merged, every block and symbolic expression   *)
(* still covers exactly the bytes it was loaded with, in an interval that   *)
(* is still part of the section it was loaded in.  (The three loops and the *)
(* insertBytes call of the merge agree on BaseOffset.)                      *)
ItemsIntact ==
  \A x \in Item :
    /\ sec[bi[x]] = mod.sec[mod.bi[x]]
    /\ off[x] + mod.len[x] <= size[bi[x]]
    /\ \A k \in 0 .. (mod.len[x] - 1) :
         bytes[bi[x]][off[x] + k] = <<mod.bi[x], mod.off[x] + k>>

(* i comes before j in the order in which layoutModule numbers addresses. *)
Before(i, j) == sec[i] < sec[j] \/ (sec[i] = sec[j] /\ i < j)

(* "(Re)assign nonoverlapping addresses to all BIs": after a successful     *)
(* layout all intervals have addresses and they are disjoint and in order,  *)
(* so that no two sections overlap or interleave either, which the pretty   *)
(* printer's getContainerSection assumes.                                   *)
NonOverlapping ==
  pc = "laid" =>
    /\ \A i \in Interval : Live(i) => addr[i] # NoAddr
    /\ \A i, j \in Interval :
         Live(i) /\ Live(j) /\ Before(i, j) => addr[i] + size[i] <= addr[j]

(* The addresses of a laid-out module are those of the reference layout, in *)
(* which an interval is placed after all the bytes that come before it: a   *)
(* layout has no gaps and depends on no address the module had before, so   *)
(* laying out again, or after --remove, changes nothing.                    *)
Packed ==
  pc = "laid" =>
    \A i \in Interval : Live(i) =>
      addr[i] = MapThenSumSet(LAMBDA j : size[j],
                              {j \in Interval : Live(j) /\ Before(j, i)})

(* What makes the loop of findAndMergeBIs go past an interval. *)
Settled(i) == CodeIn(i) = {} \/ \E c \in Fronts(i) : Pending(i, c) = {}

(* A successful layout leaves nothing to merge: findAndMergeBIs, called on  *)
(* any section again, would change nothing.                                 *)
NothingPending ==
  pc = "laid" => \A i \in Interval : Live(i) => Settled(i)

(* Items that share an interval stay at the same distance from each other   *)
(* for ever: what was adjacent stays adjacent through any merge.            *)
DistanceKept ==
  [][\A x, y \in Item : bi[x] = bi[y] =>
       bi'[x] = bi'[y] /\ off'[x] - off'[y] = off[x] - off[y]]_vars

(* When an interval with a single code block is merged with the one its     *)
(* code falls through to, the two blocks end up adjacent.  (The modules of  *)
(* the runs have at most one fallthrough edge out of a block.)              *)
SoleBlockAdjoins ==
  [][\A e \in mod.edges :
       /\ e.fall /\ e.dst \in Code /\ CodeIn(bi[e.src]) = {e.src}
       /\ bi[e.dst] # bi[e.src] /\ bi'[e.src] = bi[e.src] /\ bi'[e.dst] = bi[e.src]
       => off'[e.src] + mod.len[e.src] = off'[e.dst]]_vars

(* The recursion of findAndMergeBIs is bounded, and so is the layout.       *)
Terminates == pc \in {"scan", "assign"} ~> pc \in {"laid", "failed"}

(* The comment in findAndMergeBIs: "If two code blocks have a fallthrough   *)
(* edge, they need to be merged."                                           *)
FallthroughMerged ==
  pc = "laid" =>
    \A e \in mod.edges : e.fall /\ e.dst \in Code => bi[e.src] = bi[e.dst]
===============================================================================
