---------------------------- MODULE PipelineProofs ----------------------------
(***************************************************************************)
(* What holds of a module that is laid out and then printed, for modules   *)
(* of every size.  What is proved of Layout and of PrettyPrint is used     *)
(* here, step by step.                                                     *)
(***************************************************************************)
EXTENDS Pipeline, Sequences, TLAPS

(* main lays the module out, or leaves its layout alone.                    *)
LEMMA LayoutSteps ==
  ASSUME [Next]_vars
  PROVE  [L!Next]_(L!vars)
<1>1. LayOut => L!Next
  BY DEF LayOut, L!Next
<1>2. RunLayout => L!Next
  BY DEF RunLayout, L!Next
<1>3. KeepLayout \/ Laid \/ PrintModule \/ Misprint \/ RunPrint \/ UNCHANGED vars => UNCHANGED L!vars
  BY DEF KeepLayout, Laid, PrintModule, Misprint, RunPrint, vars, layoutVars, L!vars, L!content
<1> QED
  BY <1>1, <1>2, <1>3 DEF Next

(* The layout of the pipeline is a run of Layout.                           *)
THEOREM LaysOut == Spec => L!Spec
<1>1. Init => L!Init
  BY DEF Init
<1>2. [Next]_vars => [L!Next]_(L!vars)
  BY LayoutSteps
<1> QED
  BY <1>1, <1>2, PTL DEF Spec, L!Spec

(* What the printer can rely on.                                            *)
LEMMA LaidOut == Spec => [](L!TypeOK /\ L!ItemsIntact /\ L!NonOverlapping)
<1>1. L!Spec => [](L!TypeOK /\ L!ItemsIntact /\ L!NonOverlapping)
  BY LayoutAssumption, L!TypeCorrect, L!ItemsIntactAlways, L!NonOverlappingAlways, PTL
<1> QED
  BY LaysOut, <1>1, PTL
-------------------------------------------------------------------------------
(* What PrettyPrint assumes.                                                *)
LEMMA PrinterAssumptions == P!BlockAssumption /\ P!SectionAssumption /\ P!ImagesAssumption
<1>1. P!BlockAssumption
  BY EntryAssumption DEF P!BlockAssumption
<1>2. P!SectionAssumption
  BY NamedAssumption DEF P!SectionAssumption, P!NoSection
<1>3. P!ImagesAssumption
  BY DEF P!ImagesAssumption
<1> QED
  BY <1>1, <1>2, <1>3

-------------------------------------------------------------------------------
(* Sections *)

(* An interval that is still there is in the section it was loaded in, and  *)
(* its items are where they were.                                           *)
Own ==
  /\ \A i \in L!Interval : sec[i] \in {L!Gone, mod.sec[i]}
  /\ \A x \in L!Item : L!Live(mod.bi[x]) => bi[x] = mod.bi[x] /\ off[x] = mod.off[x]

(* A merge removes the interval whose items it moves.                       *)
LEMMA OwnStep ==
  ASSUME L!TypeOK, Own, [L!Next]_(L!vars)
  PROVE  Own'
<1>1. CASE L!Merge
  <2>1. PICK j \in L!Interval :
          /\ it \in L!Interval /\ j # it /\ L!MergeInto(it, j) /\ UNCHANGED mod
    BY <1>1, LayoutAssumption, L!MergeShape
  <2>2. /\ sec' = [sec EXCEPT ![j] = L!Gone]
        /\ bi' = [x \in L!Item |-> IF bi[x] = j THEN it ELSE bi[x]]
        /\ off' = [x \in L!Item |-> IF bi[x] = j THEN size[it] + off[x] ELSE off[x]]
    BY <2>1 DEF L!MergeInto
  <2>3. sec \in [L!Interval -> L!Sect \cup {L!Gone}] /\ mod.bi \in [L!Item -> L!Interval]
    BY DEF L!TypeOK, L!ModuleType
  <2>4. ASSUME NEW x \in L!Item, L!Live(mod.bi[x])'
        PROVE  bi'[x] = mod.bi[x] /\ off'[x] = mod.off[x]
    <3>1. mod.bi[x] # j /\ L!Live(mod.bi[x])
      BY <2>1, <2>2, <2>3, <2>4 DEF L!Live
    <3>2. bi[x] = mod.bi[x] /\ off[x] = mod.off[x]
      BY <3>1 DEF Own
    <3> QED
      BY <2>2, <3>1, <3>2
  <2> QED
    BY <2>1, <2>2, <2>3, <2>4 DEF Own
<1>2. CASE UNCHANGED <<mod, sec, bi, off>>
  BY <1>2 DEF Own, L!Live
<1>3. [L!Next]_(L!vars) => L!Merge \/ UNCHANGED <<mod, sec, bi, off>>
  BY DEF L!Next, L!LayoutStep, L!BeginLayout, L!Pass, L!Reject, L!EndScan, L!Assign, L!EndAssign,
         L!Remove, L!vars, L!content
<1> QED
  BY <1>1, <1>2, <1>3

(* No step of the pipeline but a merge touches what Own is about.           *)
LEMMA OwnAlways == Spec => []Own
<1>1. Init => Own
  BY DEF Init, L!Init, Own
<1>2. L!TypeOK /\ Own /\ [Next]_vars => Own'
  BY LayoutSteps, OwnStep
<1> QED
  BY LaidOut, <1>1, <1>2, PTL DEF Spec

(* The number of a section and its name stand for each other.               *)
LEMMA NumberFacts ==
  /\ \A n \in Named : NumberOf(n) \in 1 .. NS /\ SecName[NumberOf(n)] = n
  /\ \A s \in 1 .. NS : SecName[s] \in Named /\ NumberOf(SecName[s]) = s
<1>1. \A n \in Named : \E s \in 1 .. NS : SecName[s] = n
  BY DEF Named
<1>2. \A n \in Named : NumberOf(n) \in 1 .. NS /\ SecName[NumberOf(n)] = n
  BY <1>1 DEF NumberOf
<1>3. \A s \in 1 .. NS : SecName[s] \in Named
  BY DEF Named
<1> QED
  BY <1>2, <1>3, NamedAssumption

(* A function has a least and a largest value on intervals, if there are    *)
(* any.                                                                     *)
LEMMA Extremes ==
  ASSUME NEW S \in SUBSET L!Interval, S # {}, NEW f, \A i \in S : f[i] \in Nat
  PROVE  /\ \E i \in S : f[i] = Min({f[j] : j \in S}) /\ \A j \in S : f[i] <= f[j]
         /\ \E i \in S : f[i] = Max({f[j] : j \in S}) /\ \A j \in S : f[j] <= f[i]
<1> DEFINE T == {f[j] : j \in S}
<1>1. \E x \in T : \A y \in T : x <= y
  <2>1. T \in SUBSET Nat /\ T # {}
    OBVIOUS
  <2> HIDE DEF T
  <2> QED
    BY <2>1, PrinterAssumptions, P!Least0
<1>2. Min(T) \in T /\ \A y \in T : Min(T) <= y
  BY <1>1 DEF Min
<1>3. \E i \in S : \A j \in S : f[j] <= f[i]
  <2> DEFINE N == {s \in SUBSET S : s # {} => \E i \in s : \A j \in s : f[j] <= f[i]}
  <2>1. ASSUME NEW s \in SUBSET S, \A t \in SUBSET s : t # s => t \in N
        PROVE  s \in N
    <3> SUFFICES ASSUME s # {} PROVE \E i \in s : \A j \in s : f[j] <= f[i]
      OBVIOUS
    <3>1. PICK i \in s : TRUE
      OBVIOUS
    <3>2. s \ {i} \in N
      BY <2>1, <3>1
    <3>3. CASE s \ {i} = {}
      BY <3>1, <3>3
    <3>4. CASE s \ {i} # {}
      <4>1. PICK k \in s \ {i} : \A j \in s \ {i} : f[j] <= f[k]
        BY <3>2, <3>4
      <4>2. f[i] \in Nat /\ f[k] \in Nat /\ \A j \in s : f[j] \in Nat
        OBVIOUS
      <4>3. CASE f[i] <= f[k]
        BY <4>1, <4>3
      <4>4. CASE f[k] < f[i]
        BY <4>1, <4>2, <4>4
      <4> QED
        BY <4>2, <4>3, <4>4
    <3> QED
      BY <3>3, <3>4
  <2>2. L!IsFiniteSet(S)
    BY LayoutAssumption, L!FiniteIntervals
  <2> HIDE DEF N
  <2>3. S \in N
    BY <2>1, <2>2, LayoutAssumption, L!SubsetInduction
  <2> QED
    BY <2>3 DEF N
<1>4. \E x \in T : \A y \in T : x >= y
  BY <1>3
<1>5. Max(T) \in T /\ \A y \in T : Max(T) >= y
  BY <1>4 DEF Max
<1> QED
  BY <1>2, <1>5

(* A section with intervals starts with one of them, and holds them all.    *)
LEMMA SectionFacts ==
  ASSUME L!TypeOK, Addressed, NEW s \in 1 .. NS
  PROVE  /\ Within(s) = {} => SectBase(s) = -1 /\ SectEnd(s) = -1
         /\ Within(s) # {} =>
              /\ SectBase(s) \in Nat /\ SectEnd(s) \in Nat
              /\ \E i \in Within(s) : SectBase(s) = addr[i]
              /\ \E i \in Within(s) : SectEnd(s) = addr[i] + size[i]
              /\ \A i \in Within(s) : SectBase(s) <= addr[i] /\ addr[i] + size[i] <= SectEnd(s)
<1>1. CASE Within(s) = {}
  BY <1>1 DEF SectBase, SectEnd, L!NoAddr
<1>2. CASE Within(s) # {}
  <2> DEFINE S == Within(s)
             end == [i \in S |-> addr[i] + size[i]]
  <2>1. S \in SUBSET L!Interval /\ \A i \in S : addr[i] \in Nat /\ size[i] \in Nat
    BY DEF Within, Addressed, L!Live, L!TypeOK, L!Gone
  <2>2. SectBase(s) = Min({addr[j] : j \in S})
    BY <1>2 DEF SectBase
  <2>3. SectEnd(s) = Max({end[j] : j \in S})
    <3>1. {end[j] : j \in S} = {addr[j] + size[j] : j \in S}
      OBVIOUS
    <3> QED
      BY <1>2, <3>1 DEF SectEnd
  <2>4. \A i \in S : end[i] = addr[i] + size[i] /\ end[i] \in Nat
    BY <2>1
  <2> HIDE DEF S, end
  <2>5. \E i \in S : addr[i] = SectBase(s) /\ \A j \in S : addr[i] <= addr[j]
    BY <1>2, <2>1, <2>2, Extremes DEF S
  <2>6. \E i \in S : end[i] = SectEnd(s) /\ \A j \in S : end[j] <= end[i]
    BY <1>2, <2>1, <2>3, <2>4, Extremes DEF S
  <2> QED
    BY <1>2, <2>1, <2>4, <2>5, <2>6 DEF S
<1> QED
  BY <1>1, <1>2

(* The fields of the image that the proofs use.                             *)
LEMMA ImageFields ==
  /\ \A b \in L!Block : Image.addr[b] = At(b) /\ Image.size[b] = mod.len[b]
  /\ \A s \in 1 .. NS : /\ Image.base[SecName[s]] = SectBase(s)
                        /\ Image.extent[SecName[s]] = SectEnd(s) - SectBase(s)
  /\ Image.skipSec = {} /\ Image.symbolic = {} /\ Image.debug = FALSE
<1>1. \A s \in 1 .. NS : SecName[s] \in Named /\ NumberOf(SecName[s]) = s
  BY NumberFacts
<1>2. Image.base = [n \in Named |-> SectBase(NumberOf(n))]
  BY DEF Image
<1>3. Image.extent = [n \in Named |-> SectEnd(NumberOf(n)) - SectBase(NumberOf(n))]
  BY DEF Image
<1>4. Image.addr = [b \in L!Block |-> At(b)] /\ Image.size = [b \in L!Block |-> mod.len[b]]
  BY DEF Image
<1>5. Image.skipSec = {} /\ Image.symbolic = {} /\ Image.debug = FALSE
  BY DEF Image
<1> QED
  BY <1>1, <1>2, <1>3, <1>4, <1>5

(* Every block is in an interval that is there and has an address.          *)
LEMMA BlockFacts ==
  ASSUME L!TypeOK, L!ItemsIntact, Addressed, NEW x \in L!Item
  PROVE  LET s == mod.sec[mod.bi[x]] IN
         /\ s \in 1 .. NS /\ bi[x] \in Within(s)
         /\ addr[bi[x]] \in Nat /\ off[x] \in Nat /\ mod.len[x] \in Nat
         /\ At(x) \in Nat /\ At(x) + mod.len[x] <= addr[bi[x]] + size[bi[x]]
         /\ size[bi[x]] \in Nat
<1> DEFINE s == mod.sec[mod.bi[x]]
<1>1. /\ bi[x] \in L!Interval /\ off[x] \in Nat /\ size[bi[x]] \in Nat
      /\ addr[bi[x]] \in Nat \cup {L!NoAddr}
      /\ mod.bi[x] \in L!Interval /\ mod.sec \in [L!Interval -> L!Sect]
      /\ mod.len[x] \in Nat
  BY DEF L!TypeOK, L!ModuleType
<1>2. s \in 1 .. NS
  BY <1>1 DEF L!Sect
<1>3. sec[bi[x]] = s /\ off[x] + mod.len[x] <= size[bi[x]]
  BY DEF L!ItemsIntact
<1>4. L!Live(bi[x])
  BY <1>2, <1>3, LayoutAssumption DEF L!Live, L!Gone, L!SizesAssumption
<1>5. addr[bi[x]] \in Nat
  BY <1>1, <1>4 DEF Addressed
<1> HIDE DEF s
<1> QED
  BY <1>1, <1>2, <1>3, <1>5 DEF At, Within, s
(* The section of a block reaches over it.                                  *)
LEMMA BlockInSection ==
  ASSUME L!TypeOK, L!ItemsIntact, Addressed, NEW x \in L!Item
  PROVE  LET s == mod.sec[mod.bi[x]] IN
         /\ s \in 1 .. NS /\ SectBase(s) \in Nat /\ SectEnd(s) \in Nat
         /\ SectBase(s) <= At(x) /\ At(x) + mod.len[x] <= SectEnd(s)
         /\ At(x) \in Nat /\ mod.len[x] \in Nat
<1> DEFINE s == mod.sec[mod.bi[x]]
<1>1. /\ s \in 1 .. NS /\ bi[x] \in Within(s)
      /\ addr[bi[x]] \in Nat /\ off[x] \in Nat /\ mod.len[x] \in Nat
      /\ At(x) \in Nat /\ At(x) + mod.len[x] <= addr[bi[x]] + size[bi[x]]
      /\ size[bi[x]] \in Nat
  BY BlockFacts
<1> HIDE DEF s
<1>2. /\ SectBase(s) \in Nat /\ SectEnd(s) \in Nat
      /\ SectBase(s) <= addr[bi[x]] /\ addr[bi[x]] + size[bi[x]] <= SectEnd(s)
  BY <1>1, SectionFacts
<1>3. addr[bi[x]] <= At(x)
  BY <1>1 DEF At
<1>4. SectBase(s) <= At(x) /\ At(x) + mod.len[x] <= SectEnd(s)
  BY <1>1, <1>2, <1>3
<1> QED
  BY <1>1, <1>2, <1>4 DEF s

(* The image is one that PrettyPrint is about.                              *)
LEMMA ImageTyped ==
  ASSUME L!TypeOK, L!ItemsIntact, Addressed
  PROVE  Image \in P!ImageType
<1>1. \A b \in L!Block : At(b) \in Nat /\ mod.len[b] \in Nat
  BY BlockFacts DEF L!Item
<1>2. L!Block = P!Block
  BY DEF L!Block, P!Block
<1>3. Code \subseteq L!Block /\ Data \subseteq L!Block /\ Entry \subseteq Code
  BY EntryAssumption DEF L!Block
<1>4. ASSUME NEW n \in Named
      PROVE  /\ SectBase(NumberOf(n)) \in Nat \cup {P!NoBase}
             /\ SectEnd(NumberOf(n)) - SectBase(NumberOf(n)) \in Nat
  <2>1. NumberOf(n) \in 1 .. NS
    BY NumberFacts
  <2> SUFFICES ASSUME NEW s \in 1 .. NS
               PROVE  SectBase(s) \in Nat \cup {-1} /\ SectEnd(s) - SectBase(s) \in Nat
    BY <2>1 DEF P!NoBase
  <2>2. CASE Within(s) = {}
    BY <2>2, SectionFacts
  <2>3. CASE Within(s) # {}
    <3>1. SectBase(s) \in Nat /\ SectEnd(s) \in Nat
      BY <2>3, SectionFacts
    <3>2. PICK i \in Within(s) : SectBase(s) = addr[i]
      BY <2>3, SectionFacts
    <3>3. addr[i] + size[i] <= SectEnd(s)
      BY <2>3, SectionFacts
    <3>4. size[i] \in Nat
      BY DEF Within, L!TypeOK
    <3> QED
      BY <3>1, <3>2, <3>3, <3>4
  <2> QED
    BY <2>2, <2>3
<1>5. Image.addr \in [P!Block -> Nat] /\ Image.size \in [P!Block -> Nat]
  BY <1>1, <1>2 DEF Image
<1>6. Image.base \in [Named -> Nat \cup {P!NoBase}] /\ Image.extent \in [Named -> Nat]
  BY <1>4 DEF Image
<1>7. /\ Image.found \in SUBSET Named /\ Image.skipSec \in SUBSET Named
      /\ Image.arraySec \in SUBSET Named /\ Image.skipFn \in SUBSET Nat
  BY DEF Image
<1>8. Image.entries \in SUBSET Nat /\ Image.syms \in SUBSET Nat
  BY <1>1, <1>3 DEF Image
<1>9. /\ Image.insns \in [Code -> SUBSET Nat] /\ Image.decoded \in [Code -> Nat]
      /\ Image.nops \in [Code -> SUBSET Nat] /\ Image.nopSize \in Nat \ {0}
  BY <1>1, <1>3 DEF Image
<1>10. Image.cfi \in [Code -> Seq(P!Cfi)]
  BY DEF Image
<1>11. /\ Image.zeros \in [Data -> Nat] /\ Image.encoding \in [Data -> P!Encoding]
       /\ Image.symbolic \in SUBSET Data /\ Image.remarks \in SUBSET Data
       /\ Image.target \in [Data -> Nat \cup {P!NoTarget}] /\ Image.debug \in BOOLEAN
  BY <1>1, <1>3 DEF Image, P!Encoding
<1>12. Image.width \in [P!Directive -> Nat]
  BY DEF Image
<1>13. Image = [addr |-> Image.addr, size |-> Image.size, base |-> Image.base,
                extent |-> Image.extent, found |-> Image.found, skipSec |-> Image.skipSec,
                arraySec |-> Image.arraySec, skipFn |-> Image.skipFn,
                entries |-> Image.entries, syms |-> Image.syms, insns |-> Image.insns,
                decoded |-> Image.decoded, nops |-> Image.nops, nopSize |-> Image.nopSize,
                cfi |-> Image.cfi, zeros |-> Image.zeros, encoding |-> Image.encoding,
                symbolic |-> Image.symbolic, width |-> Image.width, remarks |-> Image.remarks,
                target |-> Image.target, debug |-> Image.debug]
  BY DEF Image
<1> QED
  BY <1>5, <1>6, <1>7, <1>8, <1>9, <1>10, <1>11, <1>12, <1>13 DEF P!ImageType

(* No block of the module is empty.                                         *)
NoEmptyBlocks == \A m \in Modules : \A b \in L!Block : m.len[b] > 0

(* A module that was laid out can be printed.                               *)
LEMMA LaidOutPrintable ==
  ASSUME L!TypeOK, L!ItemsIntact, L!NonOverlapping, layout = "laid",
         \A b \in L!Block : mod.len[b] > 0
  PROVE  Printable
<1>1. Addressed /\ \A i, j \in L!Interval :
         L!Live(i) /\ L!Live(j) /\ L!Before(i, j) => addr[i] + size[i] <= addr[j]
  BY DEF L!NonOverlapping, Addressed
<1>2. Image \in P!ImageType
  BY <1>1, ImageTyped
<1>3. ASSUME NEW s \in 1 .. NS, NEW t \in 1 .. NS, s < t
      PROVE  SectEnd(s) <= SectBase(t) \/ SectEnd(t) <= SectBase(s)
  <2>1. CASE Within(s) = {} \/ Within(t) = {}
    <3>1. \A r \in 1 .. NS : SectBase(r) = -1 \/ SectBase(r) \in Nat
      BY <1>1, SectionFacts
    <3> QED
      BY <1>1, <2>1, <3>1, SectionFacts
  <2>2. CASE Within(s) # {} /\ Within(t) # {}
    <3>1. PICK i \in Within(s) : SectEnd(s) = addr[i] + size[i]
      BY <1>1, <2>2, SectionFacts
    <3>2. PICK j \in Within(t) : SectBase(t) = addr[j]
      BY <1>1, <2>2, SectionFacts
    <3>3. L!Live(i) /\ L!Live(j) /\ L!Before(i, j) /\ i \in L!Interval /\ j \in L!Interval
      BY <1>3, <3>1, <3>2, LayoutAssumption DEF Within, L!Live, L!Gone, L!Before, L!SizesAssumption
    <3> QED
      BY <1>1, <3>1, <3>2, <3>3
  <2> QED
    BY <2>1, <2>2
<1>4. ASSUME NEW n \in Named
      PROVE  /\ NumberOf(n) \in 1 .. NS /\ SecName[NumberOf(n)] = n
             /\ Image.base[n] = SectBase(NumberOf(n))
             /\ Image.base[n] + Image.extent[n] = SectEnd(NumberOf(n))
             /\ Image.base[n] = -1 => Image.extent[n] = 0
  <2>1. NumberOf(n) \in 1 .. NS /\ SecName[NumberOf(n)] = n
    BY NumberFacts
  <2>2. /\ Image.base[n] = SectBase(NumberOf(n))
        /\ Image.extent[n] = SectEnd(NumberOf(n)) - SectBase(NumberOf(n))
    BY <2>1, ImageFields
  <2>3. ASSUME NEW s \in 1 .. NS
        PROVE  /\ SectBase(s) \in Int /\ SectEnd(s) \in Int
               /\ SectBase(s) = -1 => SectEnd(s) = -1
    BY <1>1, SectionFacts
  <2> QED
    BY <2>1, <2>2, <2>3
<1>5. \A m, n \in Named : m # n =>
         \/ Image.base[m] + Image.extent[m] <= Image.base[n]
         \/ Image.base[n] + Image.extent[n] <= Image.base[m]
  <2> SUFFICES ASSUME NEW m \in Named, NEW n \in Named, m # n
               PROVE  \/ SectEnd(NumberOf(m)) <= SectBase(NumberOf(n))
                      \/ SectEnd(NumberOf(n)) <= SectBase(NumberOf(m))
    BY <1>4
  <2>1. NumberOf(m) \in 1 .. NS /\ NumberOf(n) \in 1 .. NS /\ NumberOf(m) # NumberOf(n)
    BY <1>4
  <2>2. NumberOf(m) < NumberOf(n) \/ NumberOf(n) < NumberOf(m)
    BY <2>1, LayoutAssumption DEF L!SizesAssumption
  <2> QED
    BY <1>3, <2>1, <2>2
<1>6. Image.found = {n \in Named : \A m \in Named :
                       Image.base[m] = Image.base[n] => NumberOf(n) <= NumberOf(m)}
  <2>1. Image.found = {n \in Named : \A m \in Named :
                    SectBase(NumberOf(m)) = SectBase(NumberOf(n)) => NumberOf(n) <= NumberOf(m)}
    BY DEF Image
  <2> QED
    BY <1>4, <2>1
<1>7. ASSUME NEW n \in Named
      PROVE  \E m \in Image.found : Image.base[m] = Image.base[n]
  <2> DEFINE T == {NumberOf(m) : m \in {m \in Named : Image.base[m] = Image.base[n]}}
  <2>1. T \in SUBSET Nat /\ T # {}
    BY <1>4, LayoutAssumption DEF L!SizesAssumption
  <2>2. PICK x \in T : \A y \in T : x <= y
    <3> HIDE DEF T
    <3> QED
      BY <2>1, PrinterAssumptions, P!Least0
  <2>3. PICK m \in Named : x = NumberOf(m) /\ Image.base[m] = Image.base[n]
    OBVIOUS
  <2>4. \A k \in Named : Image.base[k] = Image.base[m] => NumberOf(m) <= NumberOf(k)
    BY <2>2, <2>3
  <2> QED
    BY <1>6, <2>3, <2>4
<1>8. ASSUME NEW m \in Image.found, NEW n \in Image.found, Image.base[m] = Image.base[n]
      PROVE  m = n
  <2>1. /\ m \in Named /\ n \in Named
        /\ NumberOf(m) <= NumberOf(n) /\ NumberOf(n) <= NumberOf(m)
    BY <1>6, <1>8
  <2>2. NumberOf(m) = NumberOf(n)
    BY <1>4, <2>1, LayoutAssumption DEF L!SizesAssumption
  <2> QED
    BY <1>4, <2>1, <2>2
<1>9. ASSUME NEW b \in L!Block
      PROVE  \E n \in Named :
               /\ P!OnSection(Image, n, Image.addr[b])
               /\ Image.addr[b] + Image.size[b] <= Image.base[n] + Image.extent[n]
  <2> DEFINE s == mod.sec[mod.bi[b]]
  <2>1. /\ s \in 1 .. NS /\ SectBase(s) \in Nat /\ SectEnd(s) \in Nat
        /\ SectBase(s) <= At(b) /\ At(b) + mod.len[b] <= SectEnd(s)
        /\ At(b) \in Nat /\ mod.len[b] \in Nat
    BY <1>1, BlockInSection DEF L!Item
  <2> HIDE DEF s
  <2>2. SecName[s] \in Named /\ NumberOf(SecName[s]) = s
    BY <2>1, NumberFacts
  <2>3. /\ Image.base[SecName[s]] = SectBase(s)
        /\ Image.base[SecName[s]] + Image.extent[SecName[s]] = SectEnd(s)
    BY <1>4, <2>2
  <2>4. Image.addr[b] = At(b) /\ Image.size[b] = mod.len[b]
    BY ImageFields
  <2>5. At(b) < SectEnd(s)
    BY <2>1
  <2> QED
    BY <2>1, <2>2, <2>3, <2>4, <2>5 DEF P!OnSection
<1>10. ASSUME NEW c \in Code
       PROVE  /\ Image.decoded[c] <= Image.size[c]
              /\ \A o \in Image.insns[c] : o < Image.decoded[c]
              /\ Image.decoded[c] > 0 => 0 \in Image.insns[c]
              /\ \A o \in Image.nops[c] : o < Image.decoded[c]
              /\ \A i, j \in DOMAIN Image.cfi[c] : i < j => Image.cfi[c][i].at <= Image.cfi[c][j].at
  <2>1. c \in L!Block /\ mod.len[c] \in Nat
    BY DEF L!Block, L!Item, L!TypeOK, L!ModuleType
  <2>2. /\ Image.decoded[c] = mod.len[c] /\ Image.size[c] = mod.len[c] /\ Image.insns[c] = {0}
        /\ Image.nops[c] = {} /\ Image.cfi[c] = <<>>
    BY <2>1 DEF Image
  <2> QED
    BY <2>1, <2>2
<1>11. ASSUME NEW d \in Data
       PROVE  /\ Image.zeros[d] <= Image.size[d]
              /\ Image.target[d] # P!NoTarget => d \in Image.symbolic
  <2>1. d \in L!Block /\ mod.len[d] \in Nat
    BY DEF L!Block, L!Item, L!TypeOK, L!ModuleType
  <2>2. Image.zeros[d] = mod.len[d] /\ Image.size[d] = mod.len[d] /\ Image.target[d] = P!NoTarget
    BY <2>1 DEF Image
  <2> QED
    BY <2>1, <2>2
<1>12. /\ \A a \in Image.entries : \E c \in Code : Image.addr[c] = a
       /\ Image.skipFn \subseteq Image.entries
  <2>1. Image.entries = {At(c) : c \in Entry} /\ Image.skipFn = {}
    BY DEF Image
  <2>2. \A c \in Code : Image.addr[c] = At(c)
    BY ImageFields DEF L!Block
  <2> QED
    BY <2>1, <2>2, EntryAssumption
<1>13. \A s \in Named : Image.base[s] = P!NoBase => Image.extent[s] = 0
  BY <1>4 DEF P!NoBase
<1>14. P!WellFormed(Image)
  <2>1. L!Block = P!Block
    BY DEF L!Block, P!Block
  <2> HIDE DEF Image
  <2> QED
    BY <1>5, <1>7, <1>8, <1>9, <1>10, <1>11, <1>12, <1>13, <2>1 DEF P!WellFormed
<1> QED
  BY <1>1, <1>14 DEF Printable
-------------------------------------------------------------------------------
(* Printing *)

(* The printer is at work on the image of the module.                       *)
Walk ==
  /\ img = Image /\ Addressed
  /\ img \in P!ImageType /\ P!WellFormed(img)
  /\ P!IInv /\ P!Led /\ P!Current /\ P!InOwnSection
  /\ P!Covered /\ P!DoneWithAll
  /\ P!PlacesTyped /\ commented \in BOOLEAN /\ P!NoneEmpty

(* The printer has not started before its stage, nor does it start on what  *)
(* cannot be printed.                                                       *)
Stages ==
  \/ stage \in {"loaded", "layout", "ready"} /\ P!Start(img)
  \/ stage = "printing" /\ Walk
  \/ stage = "undefined" /\ ~Printable /\ P!Start(img)

(* The image depends on the layout only.                                    *)
LEMMA ImageKept ==
  ASSUME UNCHANGED layoutVars
  PROVE  Image' = Image /\ (Addressed' <=> Addressed) /\ (Printable' <=> Printable)
<1>1. Image' = Image
  BY DEF Image, At, SectBase, SectEnd, Within, layoutVars
<1>2. Addressed' <=> Addressed
  BY DEF Addressed, L!Live, layoutVars
<1> QED
  BY <1>1, <1>2 DEF Printable

(* A call of print starts out with all its invariants.                      *)
LEMMA WalkStarts ==
  ASSUME L!TypeOK, L!ItemsIntact, stage = "ready", Stages, PrintModule
  PROVE  Walk'
<1>1. /\ status' = [b \in P!Block |-> "todo"] /\ last' = 0
      /\ curSec' = P!NoSection /\ filled' = [s \in Named \cup {P!NoSection} |-> 0]
      /\ labels' = {} /\ written' = {} /\ commented' = FALSE /\ lost' = {}
      /\ printer' = "printing"
  BY DEF Stages, PrintModule, P!Start
<1>2. img' = Image /\ Printable /\ UNCHANGED layoutVars
  BY DEF PrintModule
<1>3. Image' = Image /\ Addressed'
  BY <1>2, ImageKept DEF Printable
<1>4. img' \in P!ImageType /\ P!WellFormed(img')
  BY <1>2, ImageTyped DEF Printable
<1>5. P!IInv'
  BY <1>1, <1>4 DEF P!IInv, P!WalkTyped, P!LastIsEnd, P!InOrder, P!Decided
<1>6. P!Led' /\ P!Current'
  BY <1>1 DEF P!Led, P!Current, P!Decided
<1>7. P!InOwnSection' /\ P!Covered' /\ P!NoneEmpty' /\ P!DoneWithAll'
  BY <1>1 DEF P!InOwnSection, P!Covered, P!NoneEmpty, P!DoneWithAll
<1>8. P!PlacesTyped'
  BY <1>1 DEF P!PlacesTyped
<1> QED
  BY <1>1, <1>2, <1>3, <1>4, <1>5, <1>6, <1>7, <1>8 DEF Walk

(* What is proved of PrettyPrint step by step holds here too.               *)
LEMMA WalkStep ==
  ASSUME Walk, [P!Next]_(P!vars), UNCHANGED layoutVars
  PROVE  Walk'
<1> USE DEF Walk
<1>1. Image' = Image /\ Addressed'
  BY ImageKept
<1>2. img' = img
  BY PrinterAssumptions, P!ImgKept
<1>3. img' \in P!ImageType /\ P!WellFormed(img')
  BY <1>2
<1>4. P!IInv'
  BY PrinterAssumptions, P!IInvStep
<1>5. P!Led' /\ P!Current'
  BY PrinterAssumptions, P!LedStep, P!CurrentStep
<1>6. P!InOwnSection' /\ P!Covered' /\ P!DoneWithAll'
  BY PrinterAssumptions, P!InOwnSectionStep, P!CoveredStep, P!DoneStep
<1>7. P!PlacesTyped' /\ commented' \in BOOLEAN
  BY PrinterAssumptions, P!PlacesStep
<1>8. P!NoneEmpty'
  BY PrinterAssumptions, P!NoneEmptyStep
<1> QED
  BY <1>1, <1>2, <1>3, <1>4, <1>5, <1>6, <1>7, <1>8

(* main goes from one stage to the next.                                    *)
LEMMA StagesStep ==
  ASSUME L!TypeOK, L!ItemsIntact, Stages, [Next]_vars
  PROVE  Stages'
<1>1. CASE LayOut \/ RunLayout
  <2>1. UNCHANGED printerVars /\ stage \in {"loaded", "layout"} /\ stage' = "layout"
    BY <1>1 DEF LayOut, RunLayout
  <2> QED
    BY <2>1 DEF Stages, P!Start, printerVars
<1>2. CASE KeepLayout \/ Laid
  <2>1. UNCHANGED printerVars /\ stage \in {"loaded", "layout"} /\ stage' = "ready"
    BY <1>2 DEF KeepLayout, Laid
  <2> QED
    BY <2>1 DEF Stages, P!Start, printerVars
<1>3. CASE PrintModule
  <2>1. stage = "ready" /\ stage' = "printing"
    BY <1>3 DEF PrintModule
  <2> QED
    BY <1>3, <2>1, WalkStarts DEF Stages
<1>4. CASE Misprint
  <2>1. /\ stage = "ready" /\ stage' = "undefined" /\ ~Printable
        /\ UNCHANGED <<layoutVars, printerVars>>
    BY <1>4 DEF Misprint
  <2>2. P!Start(img)'
    BY <2>1 DEF Stages, P!Start, printerVars
  <2> QED
    BY <2>1, <2>2, ImageKept DEF Stages
<1>5. CASE RunPrint
  <2>1. stage = "printing" /\ P!Next /\ UNCHANGED <<layoutVars, stage>>
    BY <1>5 DEF RunPrint
  <2> QED
    BY <2>1, WalkStep DEF Stages
<1>6. CASE UNCHANGED vars
  <2>1. UNCHANGED <<layoutVars, printerVars, stage>>
    BY <1>6 DEF vars
  <2>2. P!Start(img)' <=> P!Start(img)
    BY <2>1 DEF P!Start, printerVars
  <2>3. Walk => Walk'
    <3>1. UNCHANGED P!vars
      BY <2>1 DEF P!vars, printerVars
    <3> QED
      BY <2>1, <3>1, WalkStep
  <2> QED
    BY <2>1, <2>2, <2>3, ImageKept DEF Stages
<1> QED
  BY <1>1, <1>2, <1>3, <1>4, <1>5, <1>6 DEF Next

(* At first the printer has nothing to do.                                  *)
LEMMA StagesAlways == Spec => []Stages
<1>1. Init => Stages
  BY DEF Init, Stages, P!Start
<1>2. L!TypeOK /\ L!ItemsIntact /\ Stages /\ [Next]_vars => Stages'
  BY StagesStep
<1> QED
  BY LaidOut, <1>1, <1>2, PTL DEF Spec
(* If every interval was loaded with a block at its start, every section    *)
(* that has intervals has a block at its start, and no two have it at the   *)
(* same place.                                                              *)
LEMMA SectionsStartApart ==
  ASSUME L!TypeOK, L!ItemsIntact, Own, Walk, IntervalsLed
  PROVE  P!SectionsLed /\ P!DistinctStarts
<1> USE DEF Walk
<1>1. ASSUME NEW s \in 1 .. NS, Within(s) # {}
      PROVE  \E f \in L!Block : At(f) = SectBase(s) /\ SectBase(s) < SectEnd(s)
  <2>1. PICK i \in Within(s) : SectBase(s) = addr[i]
    BY <1>1, SectionFacts
  <2>2. i \in L!Interval /\ sec[i] = s /\ L!Live(i)
    BY <2>1, LayoutAssumption DEF Within, L!Live, L!Gone, L!SizesAssumption
  <2>3. PICK f \in L!Block : mod.bi[f] = i /\ mod.off[f] = 0 /\ mod.len[f] > 0
    BY <2>2 DEF IntervalsLed
  <2>4. f \in L!Item /\ bi[f] = i /\ off[f] = 0
    BY <2>2, <2>3 DEF Own, L!Item
  <2>5. mod.sec[mod.bi[f]] = s
    BY <2>2, <2>3, LayoutAssumption DEF Own, L!Gone, L!SizesAssumption
  <2>6. /\ SectBase(s) \in Nat /\ SectEnd(s) \in Nat
        /\ At(f) + mod.len[f] <= SectEnd(s) /\ At(f) \in Nat /\ mod.len[f] \in Nat
    BY <2>4, <2>5, BlockInSection
  <2>7. At(f) = SectBase(s)
    BY <2>1, <2>4, <2>6 DEF At
  <2> QED
    BY <2>3, <2>6, <2>7
<1>2. ASSUME NEW n \in Named
      PROVE  LET s == NumberOf(n) IN
             /\ s \in 1 .. NS
             /\ img.base[n] = SectBase(s) /\ img.extent[n] = SectEnd(s) - SectBase(s)
             /\ SectBase(s) \in Int /\ SectEnd(s) \in Int
             /\ Within(s) = {} => SectBase(s) = -1 /\ SectEnd(s) = -1
  BY NumberFacts, ImageFields, SectionFacts
<1>3. P!SectionsLed
  <2> SUFFICES ASSUME NEW b \in P!Block, NEW n \in Named, P!OnSection(img, n, img.addr[b])
               PROVE  \E f \in P!Block : img.addr[f] = img.base[n]
    BY DEF P!SectionsLed, P!Containers
  <2>1. img.addr[b] \in Nat
    BY DEF P!ImageType
  <2>2. Within(NumberOf(n)) # {}
    BY <1>2, <2>1 DEF P!OnSection
  <2> QED
    BY <1>1, <1>2, <2>2, ImageFields DEF L!Block, P!Block
<1>4. P!DistinctStarts
  <2> SUFFICES ASSUME NEW m \in Named, NEW n \in Named, m # n, img.base[m] = img.base[n],
                      img.base[m] # P!NoBase
               PROVE  FALSE
    BY DEF P!DistinctStarts
  <2>1. Within(NumberOf(m)) # {} /\ Within(NumberOf(n)) # {}
    BY <1>2 DEF P!NoBase
  <2>2. img.extent[m] > 0 /\ img.extent[n] > 0 /\ img.base[m] \in Int
    BY <1>1, <1>2, <2>1
  <2>3. \/ img.base[m] + img.extent[m] <= img.base[n]
        \/ img.base[n] + img.extent[n] <= img.base[m]
    BY DEF P!WellFormed
  <2>4. img.extent[m] \in Nat /\ img.extent[n] \in Nat
    BY DEF P!ImageType
  <2> QED
    BY <2>2, <2>3, <2>4
<1> QED
  BY <1>3, <1>4

(* Through merges, new addresses and the search for sections by address,    *)
(* what is printed goes to the section it was loaded in, in modules of      *)
(* every size, laid out or not.                                             *)
THEOREM LoadedSectionAlways == Spec => []LoadedSection
<1>1. ASSUME L!TypeOK, L!ItemsIntact, Own, Stages
      PROVE  LoadedSection
  <2> SUFFICES ASSUME IntervalsLed, NEW x \in written
               PROVE  x.sec = SecName[mod.sec[mod.bi[x.block]]]
    BY DEF LoadedSection
  <2>1. Walk
    BY <1>1 DEF Stages, P!Start
  <2>2. P!SectionsLed /\ P!DistinctStarts
    BY <1>1, <2>1, SectionsStartApart
  <2> DEFINE b == x.block
             s == mod.sec[mod.bi[b]]
  <2>3. b \in L!Block /\ b \in L!Item
    BY <2>1 DEF Walk, P!PlacesTyped, P!Block, L!Block, L!Item
  <2>4. x.sec \in P!Containers(img.addr[b])
    <3>1. img.debug => img.skipSec = {}
      BY <2>1, ImageFields DEF Walk
    <3> QED
      BY <2>1, <2>2, <3>1 DEF Walk, P!InOwnSection
  <2>5. mod.len[b] > 0
    <3>1. P!EmptyTakesNothing
      BY <2>1, ImageFields DEF Walk, P!EmptyTakesNothing
    <3> QED
      BY <2>1, <2>3, <3>1, ImageFields DEF Walk, P!NoneEmpty
  <2>6. /\ s \in 1 .. NS /\ SectBase(s) \in Nat /\ SectEnd(s) \in Nat
        /\ SectBase(s) <= At(b) /\ At(b) + mod.len[b] <= SectEnd(s)
        /\ At(b) \in Nat /\ mod.len[b] \in Nat
    BY <1>1, <2>1, <2>3, BlockInSection DEF Walk
  <2> HIDE DEF s, b
  <2>7. SecName[s] \in Named /\ img.addr[b] = At(b)
        /\ img.base[SecName[s]] = SectBase(s) /\ img.extent[SecName[s]] = SectEnd(s) - SectBase(s)
    BY <2>1, <2>3, <2>6, NumberFacts, ImageFields DEF Walk
  <2>8. SecName[s] \in P!Containers(img.addr[b])
    BY <2>5, <2>6, <2>7 DEF P!Containers, P!OnSection
  <2>9. x.sec = SecName[s]
    BY <2>1, <2>4, <2>6, <2>7, <2>8, PrinterAssumptions, P!OneContainer DEF Walk
  <2> QED
    BY <2>9 DEF s, b
<1> QED
  BY LaidOut, OwnAlways, StagesAlways, <1>1, PTL

(* Once a module is laid out, blocks overlap only where they did within an  *)
(* interval before.                                                         *)
LEMMA BlocksApart ==
  ASSUME L!TypeOK, L!ItemsIntact, L!NonOverlapping, Addressed, layout = "laid", LoadedDisjoint,
         \A b \in L!Block : mod.len[b] > 0,
         NEW f \in L!Block, NEW b \in L!Block, f # b, At(f) <= At(b), At(b) < At(f) + mod.len[f]
  PROVE  FALSE
<1>1. f \in L!Item /\ b \in L!Item
  BY DEF L!Item
<1>2. /\ bi[f] \in L!Interval /\ bi[b] \in L!Interval /\ L!Live(bi[f]) /\ L!Live(bi[b])
      /\ addr[bi[f]] \in Nat /\ off[f] \in Nat /\ mod.len[f] \in Nat
      /\ addr[bi[b]] \in Nat /\ off[b] \in Nat /\ mod.len[b] \in Nat
      /\ At(f) + mod.len[f] <= addr[bi[f]] + size[bi[f]] /\ size[bi[f]] \in Nat
      /\ At(b) + mod.len[b] <= addr[bi[b]] + size[bi[b]] /\ size[bi[b]] \in Nat
      /\ At(f) = addr[bi[f]] + off[f] /\ At(b) = addr[bi[b]] + off[b]
  BY <1>1, BlockFacts, LayoutAssumption DEF Within, L!Live, L!Gone, L!SizesAssumption, At
<1>3. bi[f] = bi[b]
  <2> SUFFICES ASSUME bi[f] # bi[b] PROVE FALSE
    OBVIOUS
  <2>1. L!Before(bi[f], bi[b]) \/ L!Before(bi[b], bi[f])
    <3>1. sec[bi[f]] \in Int /\ sec[bi[b]] \in Int
      <4>1. \A i \in L!Interval : sec[i] \in L!Sect \cup {L!Gone}
        BY DEF L!TypeOK
      <4>2. L!Sect \cup {L!Gone} \subseteq Int
        BY LayoutAssumption DEF L!Sect, L!Gone, L!SizesAssumption
      <4> QED
        BY <1>2, <4>1, <4>2
    <3>2. bi[f] \in Int /\ bi[b] \in Int
      BY <1>2, LayoutAssumption DEF L!Interval, L!SizesAssumption
    <3> QED
      BY <3>1, <3>2 DEF L!Before
  <2>2. addr[bi[f]] + size[bi[f]] <= addr[bi[b]] \/ addr[bi[b]] + size[bi[b]] <= addr[bi[f]]
    BY <1>2, <2>1 DEF L!NonOverlapping
  <2> QED
    BY <1>2, <2>2
<1>4. off[f] <= off[b] /\ off[b] - off[f] \in 0 .. (mod.len[f] - 1)
  BY <1>2, <1>3
<1>5. bytes[bi[f]][off[f] + (off[b] - off[f])] = <<mod.bi[f], mod.off[f] + (off[b] - off[f])>>
  BY <1>1, <1>4 DEF L!ItemsIntact
<1>6. bytes[bi[b]][off[b] + 0] = <<mod.bi[b], mod.off[b] + 0>>
  <2>1. 0 \in 0 .. (mod.len[b] - 1)
    BY <1>2
  <2> QED
    BY <1>1, <2>1 DEF L!ItemsIntact
<1>7. mod.off[f] \in Nat /\ mod.off[b] \in Nat
  BY <1>1 DEF L!TypeOK, L!ModuleType
<1>8. mod.bi[f] = mod.bi[b] /\ mod.off[b] = mod.off[f] + (off[b] - off[f])
  BY <1>2, <1>3, <1>5, <1>6, <1>7
<1>9. \/ mod.off[f] + mod.len[f] <= mod.off[b]
      \/ mod.off[b] + mod.len[b] <= mod.off[f]
  BY <1>8 DEF LoadedDisjoint
<1> QED
  BY <1>2, <1>4, <1>7, <1>8, <1>9

(* So nothing is warned about in the listing.                               *)
LEMMA ListedNow ==
  ASSUME L!TypeOK, L!ItemsIntact, L!NonOverlapping, Stages, \A b \in L!Block : mod.len[b] > 0
  PROVE  AllListed
<1> SUFFICES ASSUME layout = "laid"
             PROVE  /\ stage # "undefined"
                    /\ LoadedDisjoint /\ Printed => \A b \in L!Block : status[b] = "printed"
  BY DEF AllListed
<1>1. Printable
  BY LaidOutPrintable
<1>2. stage # "undefined"
  BY <1>1 DEF Stages
<1>3. ASSUME LoadedDisjoint, Printed, NEW b \in L!Block, status[b] # "printed"
      PROVE  FALSE
  <2>1. Walk /\ printer = "done"
    BY <1>3 DEF Stages, Printed
  <2>2. b \in P!Block /\ status[b] = "warned"
    BY <1>3, <2>1 DEF Walk, P!DoneWithAll, P!Decided, P!IInv, P!WalkTyped, P!Block, L!Block
  <2>3. PICK f \in P!Block : /\ status[f] = "printed"
                             /\ img.addr[f] <= img.addr[b]
                             /\ img.addr[b] < img.addr[f] + img.size[f]
    BY <2>1, <2>2 DEF Walk, P!Covered
  <2>4. f \in L!Block /\ f # b
    BY <2>2, <2>3 DEF P!Block, L!Block
  <2>5. At(f) <= At(b) /\ At(b) < At(f) + mod.len[f] /\ Addressed
    BY <1>3, <2>1, <2>3, <2>4, ImageFields DEF Walk
  <2> QED
    BY <1>3, <2>4, <2>5, BlocksApart
<1> QED
  BY <1>2, <1>3

(* The module stays the one that was loaded.                                *)
LEMMA Loaded == Spec => [](mod \in Modules)
<1>1. Init => mod \in Modules
  BY DEF Init, L!Init
<1>2. [Next]_vars => mod' = mod
  <2>1. [L!Next]_(L!vars) => mod' = mod
    BY DEF L!Next, L!LayoutStep, L!BeginLayout, L!Pass, L!Merge, L!Reject, L!EndScan,
           L!Assign, L!EndAssign, L!Remove, L!vars
  <2> QED
    BY <2>1, LayoutSteps
<1>3. mod \in Modules /\ [Next]_vars => (mod \in Modules)'
  BY <1>2
<1> QED
  BY <1>1, <1>3, PTL DEF Spec

(* A module that was laid out can be printed; and if no two blocks overlap  *)
(* in the intervals as they were loaded, all of it is listed.  An empty     *)
(* block may lie at the end of all sections, where print finds none.        *)
THEOREM AllListedAlways ==
  ASSUME NoEmptyBlocks
  PROVE  Spec => []AllListed
<1>1. mod \in Modules => \A b \in L!Block : mod.len[b] > 0
  BY NoEmptyBlocks DEF NoEmptyBlocks
<1>2. L!TypeOK /\ L!ItemsIntact /\ L!NonOverlapping /\ Stages /\ mod \in Modules => AllListed
  BY <1>1, ListedNow
<1> QED
  BY LaidOut, StagesAlways, Loaded, <1>2, PTL
-------------------------------------------------------------------------------
(* Merges *)

(* No two blocks share a byte, no block is empty, and none falls through to *)
(* two others.                                                              *)
Tidy ==
  /\ LoadedDisjoint
  /\ \A b \in L!Block : mod.len[b] > 0
  /\ \A e, f \in mod.edges : e.fall /\ f.fall /\ e.src = f.src => e = f

(* Code falls through from lower ranks to higher ones.                      *)
Ascending(rank) == \A e \in Falls : rank[mod.bi[e.src]] < rank[mod.bi[e.dst]]

(* Nothing was merged into interval i.                                      *)
Unmerged(i) == \A x \in L!Item : bi[x] = i => mod.bi[x] = i

(* The only code block of its interval falls through along e.               *)
SoleFall(e) == e \in Falls /\ \A c \in Code : mod.bi[c] = mod.bi[e.src] => c = e.src

(* An interval that another one was merged into has no further merge to     *)
(* come, it starts with the code that comes first, and the code that fell   *)
(* through between the two is side by side.                                 *)
Chained(rank) ==
  /\ \A i \in L!Interval : Unmerged(i) \/ \A c \in L!Fronts(i) : L!Pending(i, c) = {}
  /\ \A c, d \in Code : bi[c] = bi[d] /\ off[c] = 0 => rank[mod.bi[c]] <= rank[mod.bi[d]]
  /\ \A e \in mod.edges : SoleFall(e) /\ bi[e.src] = bi[e.dst] =>
       off[e.dst] = off[e.src] + mod.len[e.src]

Ranks == [L!Interval -> L!Interval]

Chains == Tidy => \A rank \in Ranks : Ascending(rank) => Chained(rank)

(* The merge along e of interval j into interval it, whose first code block *)
(* is c and whose last one is back.                                         *)
Along(e, c, back, j) ==
  /\ c \in L!Fronts(it) /\ back \in L!Backs(it) /\ e \in L!Pending(it, c)
  /\ L!Mergeable(it, back, e.dst) /\ j = bi[e.dst]
  /\ mod' = mod
  /\ bi' = [x \in L!Item |-> IF bi[x] = j THEN it ELSE bi[x]]
  /\ off' = [x \in L!Item |-> IF bi[x] = j THEN size[it] + off[x] ELSE off[x]]

(* What a merge is about, in modules like that.                             *)
LEMMA MergeFacts ==
  ASSUME L!TypeOK, L!ItemsIntact, Own, Tidy, NEW rank \in Ranks, Ascending(rank), Chained(rank),
         NEW e, NEW c, NEW back, NEW j, Along(e, c, back, j), it \in L!Interval, sec[it] = cur
  PROVE  /\ c \in Code /\ back \in Code /\ e \in Falls /\ e.src = c
         /\ bi[c] = it /\ bi[back] = it /\ bi[e.dst] = j /\ j # it /\ j \in L!Interval
         /\ Unmerged(it) /\ mod.bi[c] = it
         /\ off[back] + mod.len[back] = size[it] /\ off[e.dst] = 0
         /\ off[c] \in Nat /\ off[c] < size[it] /\ size[it] \in Nat
         /\ \A x \in L!Item : bi[x] = it => mod.bi[x] = it /\ off[x] = mod.off[x]
         /\ \A d \in Code : bi[d] = j => rank[it] < rank[mod.bi[d]]
<1>1. /\ c \in Code /\ bi[c] = it /\ back \in Code /\ bi[back] = it
      /\ e \in mod.edges /\ e.src = c /\ e.fall /\ e.dst \in Code /\ bi[e.dst] = j /\ j # it
      /\ off[back] + mod.len[back] = size[it] /\ off[e.dst] = 0
  BY DEF Along, L!Fronts, L!Backs, L!CodeIn, L!Pending, L!Mergeable
<1>2. Code \subseteq L!Item /\ Code \subseteq L!Block
  BY DEF L!Item, L!Block
<1>3. /\ bi \in [L!Item -> L!Interval] /\ off \in [L!Item -> Nat] /\ size \in [L!Interval -> Nat]
      /\ mod.bi \in [L!Item -> L!Interval] /\ mod.len \in [L!Item -> Nat]
  BY DEF L!TypeOK, L!ModuleType
<1>4. j \in L!Interval /\ off[c] \in Nat /\ size[it] \in Nat
  BY <1>1, <1>2, <1>3
<1>5. off[c] < size[it]
  <2>1. off[c] + mod.len[c] <= size[it]
    BY <1>1, <1>2 DEF L!ItemsIntact
  <2>2. mod.len[c] > 0 /\ mod.len[c] \in Nat
    BY <1>1, <1>2, <1>3 DEF Tidy
  <2> QED
    BY <1>4, <2>1, <2>2
<1>6. Unmerged(it)
  <2>1. L!Pending(it, c) # {} /\ c \in L!Fronts(it)
    BY DEF Along
  <2> QED
    BY <2>1 DEF Chained
<1>7. L!Live(it)
  <2>1. cur \in 1 .. (NS + 1)
    BY DEF L!TypeOK
  <2> QED
    BY <2>1 DEF L!Live, L!Gone
<1>8. \A x \in L!Item : bi[x] = it => mod.bi[x] = it /\ off[x] = mod.off[x]
  BY <1>6, <1>7 DEF Unmerged, Own
<1>9. \A x \in L!Item : mod.bi[x] = it => bi[x] = it
  BY <1>7 DEF Own
<1>10. mod.bi[c] = it /\ mod.bi[e.dst] # it
  BY <1>1, <1>2, <1>8, <1>9
<1>11. e \in Falls
  BY <1>1, <1>10 DEF Falls
<1>12. ASSUME NEW d \in Code, bi[d] = j
       PROVE  rank[it] < rank[mod.bi[d]]
  <2>1. rank[it] < rank[mod.bi[e.dst]]
    BY <1>1, <1>10, <1>11 DEF Ascending
  <2>2. rank[mod.bi[e.dst]] <= rank[mod.bi[d]]
    BY <1>1, <1>12 DEF Chained
  <2>3. rank[it] \in Int /\ rank[mod.bi[e.dst]] \in Int /\ rank[mod.bi[d]] \in Int
    <3>1. L!Interval \subseteq Int
      BY LayoutAssumption DEF L!Interval, L!SizesAssumption
    <3>2. mod.bi[e.dst] \in L!Interval /\ mod.bi[d] \in L!Interval
      BY <1>1, <1>2, <1>3
    <3> QED
      BY <3>1, <3>2 DEF Ranks
  <2> QED
    BY <2>1, <2>2, <2>3
<1> QED
  BY <1>1, <1>4, <1>5, <1>6, <1>8, <1>10, <1>11, <1>12

(* Each part of it survives a merge: that merged intervals have no merge to *)
(* come,                                                                    *)
LEMMA MergeSettles ==
  ASSUME L!TypeOK, L!ItemsIntact, Own, Tidy, NEW rank \in Ranks, Ascending(rank), Chained(rank),
         NEW e, NEW c, NEW back, NEW j, Along(e, c, back, j), it \in L!Interval, sec[it] = cur,
         NEW i \in L!Interval
  PROVE  Unmerged(i)' \/ \A d \in L!Fronts(i)' : L!Pending(i, d)' = {}
<1>1. /\ c \in Code /\ e \in Falls /\ e.src = c
      /\ bi[c] = it /\ bi[e.dst] = j /\ j # it
      /\ off[c] \in Nat /\ off[c] < size[it] /\ size[it] \in Nat
      /\ \A x \in L!Item : bi[x] = it => mod.bi[x] = it /\ off[x] = mod.off[x]
  BY MergeFacts
<1>2. /\ mod' = mod
      /\ \A x \in L!Item : /\ bi'[x] = IF bi[x] = j THEN it ELSE bi[x]
                           /\ off'[x] = IF bi[x] = j THEN size[it] + off[x] ELSE off[x]
  BY DEF Along
<1>3. Code \subseteq L!Item /\ Code \subseteq L!Block /\ e.dst \in Code /\ e \in mod.edges
  BY <1>1 DEF L!Item, L!Block, Falls
<1>4. CASE i = it
  <2> SUFFICES ASSUME NEW d \in L!Fronts(i)', NEW f \in L!Pending(i, d)'
               PROVE  FALSE
    OBVIOUS
  <2>1. d \in Code /\ bi'[d] = it /\ \A g \in Code : bi'[g] = it => off'[d] <= off'[g]
    BY <1>4 DEF L!Fronts, L!CodeIn
  <2>2. off'[d] <= off[c]
    BY <1>1, <1>2, <1>3, <2>1
  <2>3. off[d] \in Nat
    BY <1>3, <2>1 DEF L!TypeOK
  <2>4. bi[d] = it /\ off[d] <= off[c]
    BY <1>1, <1>2, <1>3, <2>1, <2>2, <2>3
  <2>5. off[c] <= off[d]
    BY <2>1, <2>4 DEF Along, L!Fronts, L!CodeIn
  <2>6. mod.bi[c] = mod.bi[d] /\ mod.off[c] = mod.off[d] /\ mod.off[c] \in Nat
    BY <1>1, <1>3, <2>1, <2>3, <2>4, <2>5
  <2>7. mod.len[c] > 0 /\ mod.len[d] > 0 /\ mod.len[c] \in Nat /\ mod.len[d] \in Nat
    BY <1>1, <1>3, <2>1 DEF Tidy, L!TypeOK, L!ModuleType
  <2>8. d = c
    BY <1>1, <1>3, <2>1, <2>6, <2>7 DEF Tidy, LoadedDisjoint
  <2>9. f \in mod.edges /\ f.fall /\ f.src = c /\ (f.dst \in Code => bi'[f.dst] # it)
    BY <1>2, <1>4, <2>8 DEF L!Pending
  <2>10. f = e
    BY <1>1, <1>3, <2>9 DEF Tidy, Falls
  <2> QED
    BY <1>1, <1>2, <1>3, <2>9, <2>10
<1>5. CASE i = j
  <2>1. \A x \in L!Item : bi'[x] # j
    BY <1>1, <1>2
  <2> QED
    BY <1>5, <2>1 DEF Unmerged
<1>6. CASE i # it /\ i # j
  <2>1. \A x \in L!Item : /\ bi'[x] = i <=> bi[x] = i
                          /\ bi[x] = i => off'[x] = off[x]
    BY <1>2, <1>6
  <2>2. CASE Unmerged(i)
    BY <1>2, <2>1, <2>2 DEF Unmerged
  <2>3. ASSUME \A d \in L!Fronts(i) : L!Pending(i, d) = {}, NEW d \in L!Fronts(i)'
        PROVE  L!Pending(i, d)' = {}
    <3>1. d \in L!Fronts(i)
      BY <1>3, <2>1, <2>3 DEF L!Fronts, L!CodeIn
    <3>2. L!Pending(i, d)' = L!Pending(i, d)
      BY <1>2, <1>3, <2>1 DEF L!Pending
    <3> QED
      BY <2>3, <3>1, <3>2
  <2> QED
    BY <2>2, <2>3 DEF Chained
<1> QED
  BY <1>4, <1>5, <1>6

(* that they start with the code that comes first,                          *)
LEMMA MergeAscends ==
  ASSUME L!TypeOK, L!ItemsIntact, Own, Tidy, NEW rank \in Ranks, Ascending(rank), Chained(rank),
         NEW e, NEW c, NEW back, NEW j, Along(e, c, back, j), it \in L!Interval, sec[it] = cur,
         NEW x \in Code, NEW y \in Code, bi'[x] = bi'[y], off'[x] = 0
  PROVE  rank[mod.bi[x]] <= rank[mod.bi[y]]
<1>1. /\ j # it /\ size[it] \in Nat /\ size[it] > 0
      /\ \A b \in L!Item : bi[b] = it => mod.bi[b] = it
      /\ \A d \in Code : bi[d] = j => rank[it] < rank[mod.bi[d]]
  <2>1. off[c] \in Nat /\ off[c] < size[it] /\ size[it] \in Nat
    BY MergeFacts
  <2> QED
    BY <2>1, MergeFacts
<1>2. \A b \in Code : /\ bi'[b] = IF bi[b] = j THEN it ELSE bi[b]
                      /\ off'[b] = IF bi[b] = j THEN size[it] + off[b] ELSE off[b]
                      /\ off[b] \in Nat /\ b \in L!Item
  BY DEF Along, L!Item, L!Block, L!TypeOK
<1>3. bi[x] # j /\ bi'[x] = bi[x] /\ off[x] = 0
  BY <1>1, <1>2
<1>4. CASE bi[y] = j
  <2>1. mod.bi[x] = it
    BY <1>1, <1>2, <1>3, <1>4
  <2>2. rank[it] < rank[mod.bi[y]]
    BY <1>1, <1>4
  <2>3. rank[it] \in Int /\ rank[mod.bi[y]] \in Int
    <3>1. L!Interval \subseteq Int
      BY LayoutAssumption DEF L!Interval, L!SizesAssumption
    <3>2. mod.bi[y] \in L!Interval
      BY <1>2 DEF L!TypeOK, L!ModuleType
    <3> QED
      BY <3>1, <3>2 DEF Ranks
  <2> QED
    BY <2>1, <2>2, <2>3
<1>5. CASE bi[y] # j
  BY <1>2, <1>3, <1>5 DEF Chained
<1> QED
  BY <1>4, <1>5

(* and that the code is side by side.                                       *)
LEMMA MergeAdjoins ==
  ASSUME L!TypeOK, L!ItemsIntact, Own, Tidy, NEW rank \in Ranks, Ascending(rank), Chained(rank),
         NEW e, NEW c, NEW back, NEW j, Along(e, c, back, j), it \in L!Interval, sec[it] = cur,
         NEW f \in mod.edges, SoleFall(f), bi'[f.src] = bi'[f.dst]
  PROVE  off'[f.dst] = off'[f.src] + mod.len[f.src]
<1>1. /\ c \in Code /\ back \in Code /\ e \in Falls /\ e.src = c
      /\ bi[c] = it /\ bi[back] = it /\ bi[e.dst] = j /\ j # it /\ mod.bi[c] = it
      /\ off[back] + mod.len[back] = size[it] /\ off[e.dst] = 0
      /\ \A x \in L!Item : bi[x] = it => mod.bi[x] = it
      /\ \A d \in Code : bi[d] = j => rank[it] < rank[mod.bi[d]]
  BY MergeFacts
<1>2. f.src \in Code /\ f.dst \in Code /\ Code \subseteq L!Item /\ f.fall /\ f \in Falls
  BY DEF SoleFall, Falls, L!TypeOK, L!ModuleType, L!Item, L!Block
<1>3. \A x \in Code : /\ bi'[x] = IF bi[x] = j THEN it ELSE bi[x]
                      /\ off'[x] = IF bi[x] = j THEN size[it] + off[x] ELSE off[x]
                      /\ off[x] \in Nat /\ mod.len[x] \in Nat
  BY <1>2 DEF Along, L!TypeOK, L!ModuleType
<1>4. size[it] \in Nat
  BY DEF L!TypeOK
<1>5. CASE bi[f.src] = bi[f.dst]
  <2>1. off[f.dst] = off[f.src] + mod.len[f.src]
    BY <1>5 DEF Chained
  <2> QED
    BY <1>2, <1>3, <1>4, <1>5, <2>1
<1>6. CASE bi[f.src] = it /\ bi[f.dst] = j
  <2>1. \A d \in Code : bi[d] = it => d = f.src
    BY <1>1, <1>2, <1>6 DEF SoleFall
  <2>2. c = f.src /\ back = f.src
    BY <1>1, <2>1
  <2>3. f = e
    BY <1>1, <1>2, <2>2 DEF Tidy, Falls
  <2> QED
    BY <1>1, <1>2, <1>3, <1>4, <1>6, <2>2, <2>3
<1>7. CASE bi[f.src] = j /\ bi[f.dst] = it
  <2>1. mod.bi[f.dst] = it /\ rank[it] < rank[mod.bi[f.src]]
    BY <1>1, <1>2, <1>7
  <2>2. rank[mod.bi[f.src]] < rank[it]
    BY <1>2, <2>1 DEF Ascending
  <2>3. rank[it] \in Int /\ rank[mod.bi[f.src]] \in Int
    <3>1. L!Interval \subseteq Int
      BY LayoutAssumption DEF L!Interval, L!SizesAssumption
    <3>2. mod.bi[f.src] \in L!Interval
      BY <1>2 DEF L!TypeOK, L!ModuleType
    <3> QED
      BY <3>1, <3>2 DEF Ranks
  <2> QED
    BY <2>1, <2>2, <2>3
<1> QED
  BY <1>2, <1>3, <1>5, <1>6, <1>7

(* All other steps leave the items where they are.                          *)
LEMMA ChainsStep ==
  ASSUME L!TypeOK, L!ItemsIntact, Own, Chains, [L!Next]_(L!vars)
  PROVE  Chains'
<1>1. CASE L!Merge
  <2>1. mod' = mod /\ it \in L!Interval /\ sec[it] = cur
    BY <1>1 DEF L!Merge
  <2>2. PICK c \in L!Fronts(it), back \in L!Backs(it) : \E e \in L!Pending(it, c) :
               L!Mergeable(it, back, e.dst) /\ L!MergeInto(it, bi[e.dst])
    BY <1>1 DEF L!Merge
  <2>3. PICK e \in L!Pending(it, c) :
               L!Mergeable(it, back, e.dst) /\ L!MergeInto(it, bi[e.dst])
    BY <2>2
  <2>4. Along(e, c, back, bi[e.dst])
    BY <2>1, <2>2, <2>3 DEF Along, L!MergeInto
  <2> SUFFICES ASSUME Tidy', NEW rank \in Ranks, Ascending(rank)'
               PROVE  Chained(rank)'
    BY DEF Chains, Ranks
  <2>5. Tidy /\ Ascending(rank) /\ Falls' = Falls
    BY <2>1 DEF Tidy, LoadedDisjoint, Ascending, Falls
  <2>6. Chained(rank)
    BY <2>5 DEF Chains
  <2>7. ASSUME NEW i \in L!Interval
        PROVE  Unmerged(i)' \/ \A d \in L!Fronts(i)' : L!Pending(i, d)' = {}
    BY <2>1, <2>4, <2>5, <2>6, MergeSettles
  <2>8. ASSUME NEW x \in Code, NEW y \in Code, bi'[x] = bi'[y], off'[x] = 0
        PROVE  rank[mod'.bi[x]] <= rank[mod'.bi[y]]
    BY <2>1, <2>4, <2>5, <2>6, <2>8, MergeAscends
  <2>9. ASSUME NEW f \in mod'.edges, SoleFall(f)', bi'[f.src] = bi'[f.dst]
        PROVE  off'[f.dst] = off'[f.src] + mod'.len[f.src]
    <3>1. f \in mod.edges /\ SoleFall(f)
      BY <2>1, <2>5, <2>9 DEF SoleFall
    <3> QED
      BY <2>1, <2>4, <2>5, <2>6, <2>9, <3>1, MergeAdjoins
  <2> QED
    BY <2>7, <2>8, <2>9 DEF Chained
<1>2. CASE UNCHANGED <<mod, sec, bi, off>>
  <2>1. Tidy' = Tidy /\ Falls' = Falls
    BY <1>2 DEF Tidy, LoadedDisjoint, Falls
  <2>2. \A rank : Ascending(rank)' = Ascending(rank)
    BY <1>2, <2>1 DEF Ascending
  <2>3. \A e : SoleFall(e)' = SoleFall(e)
    BY <1>2, <2>1 DEF SoleFall
  <2>4. \A i : /\ Unmerged(i)' = Unmerged(i) /\ L!Fronts(i)' = L!Fronts(i)
               /\ \A c : L!Pending(i, c)' = L!Pending(i, c)
    BY <1>2 DEF Unmerged, L!Fronts, L!CodeIn, L!Pending
  <2>5. \A rank : Chained(rank)' = Chained(rank)
    BY <1>2, <2>3, <2>4 DEF Chained
  <2> QED
    BY <2>1, <2>2, <2>5 DEF Chains, Ranks
<1>3. [L!Next]_(L!vars) => L!Merge \/ UNCHANGED <<mod, sec, bi, off>>
  BY DEF L!Next, L!LayoutStep, L!BeginLayout, L!Pass, L!Reject, L!EndScan, L!Assign, L!EndAssign,
         L!Remove, L!vars, L!content
<1> QED
  BY <1>1, <1>2, <1>3

(* At first nothing was merged.                                             *)
LEMMA ChainsAlways == Spec => []Chains
<1>1. Init => Chains
  <2> SUFFICES ASSUME L!Init, NEW rank \in Ranks
               PROVE  Chained(rank)
    BY DEF Init, Chains
  <2>1. bi = mod.bi /\ off = mod.off /\ mod \in L!ModuleType
    BY LayoutAssumption DEF L!Init, L!ModulesAssumption
  <2>2. \A i \in L!Interval : Unmerged(i)
    BY <2>1 DEF Unmerged
  <2>3. \A c \in Code : rank[mod.bi[c]] \in Int
    <3>1. \A c \in Code : mod.bi[c] \in L!Interval
      BY <2>1 DEF L!ModuleType, L!Item, L!Block
    <3>2. L!Interval \subseteq Int
      BY LayoutAssumption DEF L!Interval, L!SizesAssumption
    <3> QED
      BY <3>1, <3>2 DEF Ranks
  <2>4. \A e \in mod.edges : SoleFall(e) => mod.bi[e.src] # mod.bi[e.dst]
    BY DEF SoleFall, Falls
  <2> QED
    BY <2>1, <2>2, <2>3, <2>4 DEF Chained
<1>2. L!TypeOK /\ L!ItemsIntact /\ Own /\ Chains /\ [Next]_vars => Chains'
  BY LayoutSteps, ChainsStep
<1> QED
  BY LaidOut, OwnAlways, <1>1, <1>2, PTL DEF Spec
-------------------------------------------------------------------------------
(* Code that falls through, in the listing *)

(* Wherever a code block is right behind another one, so it is in the       *)
(* listing.                                                                 *)
Going == stage = "printing" => \A b, d \in Code : P!Behind(b, d) => P!GoesOn(b, d)

LEMMA GoingAlways == Spec => []Going
<1>1. Init => Going
  BY DEF Init, Going
<1>2. ASSUME Stages, Going, [Next]_vars
      PROVE  Going'
  <2>1. CASE RunPrint
    <3>1. stage = "printing" /\ P!Next
      BY <2>1 DEF RunPrint
    <3>2. Walk
      BY <1>2, <3>1 DEF Stages
    <3>3. P!IInv /\ P!WellFormed(img) /\ P!PlacesTyped
      BY <3>2 DEF Walk
    <3>4. ASSUME NEW b \in Code, NEW d \in Code, P!Behind(b, d)'
          PROVE  P!GoesOn(b, d)'
      <4>1. img' = img
        BY <3>1, <3>3, PrinterAssumptions, P!ImgKept
      <4>2. P!Behind(b, d)
        BY <3>4, <4>1 DEF P!Behind, P!Held, P!SkipEA, P!InSkippedSection, P!InSkippedFunction,
                          P!Containers, P!Offset
      <4>3. P!GoesOn(b, d)
        BY <1>2, <3>1, <4>2 DEF Going
      <4> QED
        BY <3>1, <3>3, <4>2, <4>3, PrinterAssumptions, P!GoesOnStep
    <3> QED
      BY <3>4 DEF Going
  <2>2. CASE PrintModule
    <3>1. stage = "ready" /\ UNCHANGED status
      BY <2>2 DEF PrintModule
    <3>2. status' = [b \in P!Block |-> "todo"]
      BY <1>2, <3>1 DEF Stages, P!Start
    <3>3. \A b \in Code : status'[b] # "printed"
      BY <3>2 DEF P!Block
    <3> QED
      BY <3>3 DEF Going, P!GoesOn
  <2>3. CASE LayOut \/ KeepLayout \/ RunLayout \/ Laid \/ Misprint
    <3>1. stage' # "printing"
      BY <2>3 DEF LayOut, KeepLayout, RunLayout, Laid, Misprint
    <3> QED
      BY <3>1 DEF Going
  <2>4. CASE UNCHANGED vars
    <3>1. UNCHANGED <<stage, img, status, last, curSec, filled, written>>
      BY <2>4 DEF vars, printerVars
    <3>2. \A b, d \in Code : /\ P!Behind(b, d)' <=> P!Behind(b, d)
                             /\ P!GoesOn(b, d)' <=> P!GoesOn(b, d)
      BY <3>1 DEF P!Behind, P!Held, P!SkipEA, P!InSkippedSection, P!InSkippedFunction,
                  P!Containers, P!Offset, P!GoesOn, P!Onto, P!IsFunction, P!Aligned
    <3> QED
      BY <1>2, <3>1, <3>2 DEF Going
  <2> QED
    BY <1>2, <2>1, <2>2, <2>3, <2>4 DEF Next
<1> QED
  BY StagesAlways, <1>1, <1>2, PTL DEF Spec

(* What is adjacent in the module is so for the printer.                    *)
LEMMA AdjacentIsBehind ==
  ASSUME L!TypeOK, L!ItemsIntact, L!NonOverlapping, Walk, layout = "laid", LoadedDisjoint,
         \A b \in L!Block : mod.len[b] > 0,
         NEW b \in Code, NEW d \in Code, bi[b] = bi[d], off[d] = off[b] + mod.len[b]
  PROVE  P!Behind(b, d) /\ (P!IsFunction(d) <=> d \in Entry)
<1> USE DEF Walk
<1>1. Code \subseteq L!Block /\ L!Block = P!Block /\ L!Block \subseteq L!Item
  BY DEF L!Block, P!Block, L!Item
<1>2. \A x \in L!Block : /\ img.addr[x] = At(x) /\ img.size[x] = mod.len[x]
                         /\ At(x) \in Nat /\ mod.len[x] \in Nat /\ mod.len[x] > 0
  BY <1>1, ImageFields, BlockFacts
<1>3. At(d) = At(b) + mod.len[b]
  <2>1. addr[bi[b]] \in Nat /\ off[b] \in Nat /\ mod.len[b] \in Nat
    BY <1>1, BlockFacts
  <2> QED
    BY <2>1 DEF At
<1>4. \A x \in L!Block : At(x) = At(d) => x = d
  BY <1>1, <1>2, BlocksApart
<1>5. \A c \in {b, d} : P!Offset(c, img.decoded[c]) = img.size[c] /\ img.size[c] > 0
  <2>1. ASSUME NEW c \in Code
        PROVE  P!Offset(c, img.decoded[c]) = img.size[c] /\ img.size[c] > 0
    <3>1. img.nops[c] = {} /\ img.nopSize = 1 /\ img.decoded[c] = mod.len[c]
      BY DEF Image
    <3>2. {x \in img.nops[c] : x < img.decoded[c]} = {}
      BY <3>1
    <3>3. P!Offset(c, img.decoded[c]) = mod.len[c] + (1 - 1) * P!Cardinality({})
      BY <3>1, <3>2 DEF P!Offset
    <3>4. P!Cardinality({}) = 0
      BY PrinterAssumptions, P!FS_EmptySet
    <3> QED
      BY <1>1, <1>2, <3>3, <3>4
  <2> QED
    BY <2>1
<1>6. \A a : ~P!SkipEA(a)
  BY DEF Image, P!SkipEA, P!InSkippedSection, P!InSkippedFunction
<1>7. \E n \in Named : P!Held(b, n) /\ P!Held(d, n)
  <2> DEFINE s == mod.sec[mod.bi[b]]
  <2>1. mod.sec[mod.bi[d]] = s
    BY <1>1 DEF L!ItemsIntact
  <2>2. ASSUME NEW x \in {b, d}
        PROVE  /\ s \in 1 .. NS /\ SectBase(s) \in Nat /\ SectEnd(s) \in Nat
               /\ SectBase(s) <= At(x) /\ At(x) + mod.len[x] <= SectEnd(s)
    BY <1>1, <2>1, BlockInSection
  <2> HIDE DEF s
  <2>3. /\ SecName[s] \in Named
        /\ img.base[SecName[s]] = SectBase(s)
        /\ img.extent[SecName[s]] = SectEnd(s) - SectBase(s)
    BY <2>2, NumberFacts, ImageFields
  <2>4. ASSUME NEW x \in {b, d}
        PROVE  P!Held(x, SecName[s])
    <3>1. /\ img.addr[x] = At(x) /\ img.size[x] = mod.len[x] /\ At(x) \in Nat
          /\ mod.len[x] \in Nat /\ mod.len[x] > 0
      BY <1>1, <1>2
    <3> QED
      BY <2>2, <2>3, <3>1 DEF P!Held, P!OnSection
  <2> QED
    BY <2>3, <2>4
<1>8. P!Behind(b, d)
  BY <1>1, <1>2, <1>3, <1>4, <1>5, <1>6, <1>7 DEF P!Behind
<1>9. P!IsFunction(d) <=> d \in Entry
  <2>1. img.entries = {At(c) : c \in Entry}
    BY DEF Image
  <2> QED
    BY <1>1, <1>2, <1>4, <2>1, EntryAssumption DEF P!IsFunction
<1> QED
  BY <1>8, <1>9

(* Where code falls through from an interval with one block to another      *)
(* interval, and findAndMergeBIs merges the two, source and target are side *)
(* by side in the listing as well, whatever else was merged with them.      *)
THEOREM FallsThroughAlways ==
  ASSUME NoEmptyBlocks, L!OneFallthrough
  PROVE  Spec => []FallsThrough
<1>1. ASSUME L!TypeOK, L!ItemsIntact, L!NonOverlapping, Stages, mod \in Modules, Chains, Going
      PROVE  FallsThrough
  <2> SUFFICES ASSUME Printed, layout = "laid", LoadedDisjoint, Acyclic, NEW e \in Falls,
                      \A c \in Code : mod.bi[c] = mod.bi[e.src] => c = e.src,
                      bi[e.src] = bi[e.dst]
               PROVE  \E x \in PlacesOf(e.src), y \in PlacesOf(e.dst) :
                        /\ x.sec = y.sec
                        /\ y.pos = LET end == x.pos + mod.len[e.src]
                                   IN  IF e.dst \in Entry THEN P!Aligned(end, At(e.dst)) ELSE end
    BY DEF FallsThrough
  <2>1. /\ \A b \in L!Block : mod.len[b] > 0
        /\ \A f, g \in mod.edges : f.fall /\ g.fall /\ f.src = g.src => f = g
    BY <1>1, NoEmptyBlocks, L!OneFallthrough DEF NoEmptyBlocks, L!OneFallthrough
  <2>2. Walk /\ stage = "printing"
    BY <1>1 DEF Printed, Stages
  <2>3. e \in mod.edges /\ e.src \in Code /\ e.dst \in Code
    BY <1>1 DEF Falls, L!TypeOK, L!ModuleType
  <2>4. off[e.dst] = off[e.src] + mod.len[e.src]
    <3>1. PICK rank \in Ranks : Ascending(rank)
      BY DEF Acyclic, Ranks, Ascending
    <3>2. Chained(rank)
      BY <1>1, <2>1, <3>1 DEF Chains, Tidy
    <3> QED
      BY <2>3, <3>2 DEF Chained, SoleFall
  <2>5. P!Behind(e.src, e.dst) /\ (P!IsFunction(e.dst) <=> e.dst \in Entry)
    BY <1>1, <2>1, <2>2, <2>3, <2>4, AdjacentIsBehind
  <2>6. status[e.src] = "printed" /\ status[e.dst] = "printed"
    BY <1>1, <2>1, <2>3, ListedNow DEF AllListed, L!Block
  <2>7. PICK x \in written, y \in written :
          /\ x.block = e.src /\ y.block = e.dst
          /\ y.sec = x.sec /\ y.pos = P!Onto(x.pos + img.size[e.src], e.dst)
    BY <1>1, <2>2, <2>3, <2>5, <2>6 DEF Going, P!GoesOn
  <2>8. img.size[e.src] = mod.len[e.src] /\ img.addr[e.dst] = At(e.dst)
    BY <2>2, <2>3, ImageFields DEF Walk, L!Block
  <2> QED
    BY <2>5, <2>7, <2>8 DEF PlacesOf, P!Onto
<1> QED
  BY LaidOut, StagesAlways, Loaded, ChainsAlways, GoingAlways, <1>1, PTL
===============================================================================
