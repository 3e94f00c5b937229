-------------------------- MODULE PrettyPrintProofs --------------------------
(***************************************************************************)
(* PrettyPrint implements Listing, for modules of every size: the single   *)
(* address last is enough to tell whether a block overlaps any of the      *)
(* blocks printed before.  What is printed goes to its section, keeps its  *)
(* place there, and has its labels.                                        *)
(***************************************************************************)
EXTENDS PrettyPrint, FiniteSetTheorems, TLAPS

Decided(b) == status[b] # "todo"

(* The part of the state that the choice between printing and warning uses. *)
WalkTyped ==
  /\ img \in ImageType
  /\ status \in [Block -> {"todo", "printed", "warned"}]
  /\ last \in Nat

(* last is the end of the printed block that ends last. *)
LastIsEnd ==
  /\ \A b \in Block : status[b] = "printed" => img.addr[b] + img.size[b] <= last
  /\ last = 0 \/ \E b \in Block : status[b] = "printed" /\ img.addr[b] + img.size[b] = last

(* The two cursors together go through the blocks in address order. *)
InOrder ==
  \A b, t \in Block : Decided(b) /\ ~Decided(t) => img.addr[b] <= img.addr[t]

IInv == WalkTyped /\ LastIsEnd /\ InOrder
-------------------------------------------------------------------------------
(* A turn of either loop takes a block with the least address of all that   *)
(* are left, and prints it or warns about it.                               *)
LEMMA TurnShape ==
  ASSUME WalkTyped, (\E c \in Code : CodeTurn(c)) \/ (\E d \in Data : DataTurn(d))
  PROVE  \E b \in L!First : PrintCode(b) \/ PrintData(b) \/ Warn(b)
PROOF
<1>1. ASSUME NEW c \in Code, CodeTurn(c)
      PROVE  c \in L!First /\ (PrintCode(c) \/ Warn(c))
  BY <1>1 DEF CodeTurn, Least, Todo, Block, L!First, L!Todo
<1>2. ASSUME NEW d \in Data, DataTurn(d)
      PROVE  d \in L!First /\ (PrintData(d) \/ Warn(d))
  <2>1. \A b \in Block : img.addr[b] \in Nat
    BY DEF WalkTyped, ImageType
  <2> QED
    BY <1>2, <2>1 DEF DataTurn, Least, Todo, Block, L!First, L!Todo
<1> QED
  BY <1>1, <1>2

(* What printing a block does to the part of the state of the invariant.    *)
LEMMA PrintShape ==
  ASSUME NEW b, PrintCode(b) \/ PrintData(b)
  PROVE  /\ last <= img.addr[b]
         /\ status' = [status EXCEPT ![b] = "printed"]
         /\ last' = img.addr[b] + img.size[b]
         /\ img' = img
PROOF
<1>1. PrintCode(b) => img.addr[b] >= last /\ \E s, text, open : Put(b, s, text, open)
  BY DEF PrintCode
<1>2. PrintData(b) => img.addr[b] >= last /\ \E s, text, open : Put(b, s, text, open)
  BY DEF PrintData
<1>3. ASSUME NEW s, NEW text, NEW open, Put(b, s, text, open)
      PROVE  /\ status' = [status EXCEPT ![b] = "printed"]
             /\ last' = img.addr[b] + img.size[b]
             /\ img' = img
  BY <1>3 DEF Put
<1> QED
  BY <1>1, <1>2, <1>3

(* The module being printed is not changed by printing.                     *)
LEMMA ImgKept == ASSUME [Next]_vars PROVE img' = img
PROOF
<1>1. ASSUME NEW c \in Code, CodeTurn(c) PROVE img' = img
  BY <1>1, PrintShape DEF CodeTurn, Warn
<1>2. ASSUME NEW d \in Data, DataTurn(d) PROVE img' = img
  BY <1>2, PrintShape DEF DataTurn, Warn
<1>3. Finish \/ UNCHANGED vars => img' = img
  BY DEF Finish, vars
<1> QED
  BY <1>1, <1>2, <1>3 DEF Next

(* Each turn of the printer takes the first block still to do, so that the  *)
(* order is kept, and last follows the largest end.                         *)
LEMMA IInvStep == ASSUME IInv, [Next]_vars PROVE IInv'
PROOF
<1> USE DEF IInv
<1>1. ASSUME NEW b \in L!First, PrintCode(b) \/ PrintData(b) \/ Warn(b)
      PROVE  IInv'
  <2>1. /\ b \in Block /\ status[b] = "todo"
        /\ \A t \in Block : status[t] = "todo" => img.addr[b] <= img.addr[t]
    BY <1>1 DEF L!First, L!Todo
  <2>2. \A x \in Block : img.addr[x] \in Nat /\ img.size[x] \in Nat
    BY DEF WalkTyped, ImageType
  <2>3. CASE PrintCode(b) \/ PrintData(b)
    <3>1. /\ last <= img.addr[b]
          /\ status' = [status EXCEPT ![b] = "printed"]
          /\ last' = img.addr[b] + img.size[b]
          /\ img' = img
      BY <2>3, PrintShape
    <3>2. WalkTyped'
      BY <2>1, <2>2, <3>1 DEF WalkTyped
    <3>3. LastIsEnd'
      BY <2>1, <2>2, <3>1 DEF LastIsEnd, WalkTyped
    <3>4. InOrder'
      BY <2>1, <3>1 DEF InOrder, Decided, WalkTyped
    <3> QED
      BY <3>2, <3>3, <3>4
  <2>4. CASE Warn(b)
    <3>1. status' = [status EXCEPT ![b] = "warned"] /\ last' = last /\ img' = img
      BY <2>4 DEF Warn
    <3>2. WalkTyped'
      BY <3>1 DEF WalkTyped
    <3>3. LastIsEnd'
      BY <2>1, <3>1 DEF LastIsEnd, WalkTyped
    <3>4. InOrder'
      BY <2>1, <3>1 DEF InOrder, Decided, WalkTyped
    <3> QED
      BY <3>2, <3>3, <3>4
  <2> QED
    BY <1>1, <2>3, <2>4
<1>2. CASE Finish
  BY <1>2 DEF Finish, WalkTyped, LastIsEnd, InOrder, Decided
<1>3. CASE UNCHANGED vars
  BY <1>3 DEF vars, WalkTyped, LastIsEnd, InOrder, Decided
<1> QED
  BY <1>1, <1>2, <1>3, TurnShape DEF Next

(* Nothing is printed at first, and last is 0.                              *)
LEMMA InitIInv == Init => IInv
PROOF
  BY ImagesAssumption DEF Init, Start, IInv, WalkTyped, LastIsEnd, InOrder, Decided

(* Every step of the printer is a step of the abstract listing, or none.    *)
LEMMA StepRefines ==
  ASSUME IInv, [Next]_vars
  PROVE  [L!Next]_<<img.addr, img.size, status>>
PROOF
<1>1. ASSUME NEW b \in L!First, PrintCode(b) \/ PrintData(b) \/ Warn(b)
      PROVE  L!Next
  <2>1. b \in Block /\ status[b] = "todo"
    BY <1>1 DEF L!First, L!Todo
  <2>2. \A x \in Block : img.addr[x] \in Nat /\ img.size[x] \in Nat
    BY DEF IInv, WalkTyped, ImageType
  <2>3. CASE PrintCode(b) \/ PrintData(b)
    <3>1. /\ last <= img.addr[b] /\ img' = img
          /\ status' = [status EXCEPT ![b] = "printed"]
      BY <2>3, PrintShape
    <3>2. \A f \in L!Printed : ~L!Covers(f, b)
      BY <2>1, <2>2, <3>1 DEF L!Printed, L!Covers, IInv, LastIsEnd, WalkTyped
    <3>3. L!Accept(b)
      BY <1>1, <3>1, <3>2 DEF L!Accept
    <3> QED
      BY <2>1, <3>3 DEF L!Next
  <2>4. CASE Warn(b)
    <3>1. /\ img.addr[b] < last /\ img' = img
          /\ status' = [status EXCEPT ![b] = "warned"]
      BY <2>4 DEF Warn
    <3>2. last # 0
      BY <2>1, <2>2, <3>1
    <3>3. PICK f \in Block : status[f] = "printed" /\ img.addr[f] + img.size[f] = last
      BY <3>2 DEF IInv, LastIsEnd
    <3>4. img.addr[f] <= img.addr[b]
      BY <2>1, <3>3 DEF IInv, InOrder, Decided
    <3>5. f \in L!Printed /\ L!Covers(f, b)
      BY <3>1, <3>3, <3>4 DEF L!Printed, L!Covers
    <3>6. L!Warn(b)
      BY <1>1, <3>1, <3>5 DEF L!Warn
    <3> QED
      BY <2>1, <3>6 DEF L!Next
  <2> QED
    BY <1>1, <2>3, <2>4
<1>2. CASE Finish
  BY <1>2 DEF Finish
<1>3. CASE UNCHANGED vars
  BY <1>3 DEF vars
<1> QED
  BY <1>1, <1>2, <1>3, TurnShape DEF Next, IInv

(* print deals with the blocks of every module, whatever their number and   *)
(* their overlaps, as Listing promises.                                     *)
THEOREM ListsBlocksAlways == Spec => ListsBlocks
PROOF
<1>1. Init => L!Init
  BY ImagesAssumption DEF Init, Start, L!Init, ImageType
<1>2. Spec => []IInv
  BY InitIInv, IInvStep, PTL DEF Spec
<1> QED
  BY <1>1, <1>2, StepRefines, PTL DEF Spec, ListsBlocks, L!Spec

(* Elements are dealt with in the order of their addresses.                 *)
ListedInOrder ==
  /\ img.addr \in [Block -> Nat] /\ img.size \in [Block -> Nat]
  /\ status \in [Block -> {"todo", "printed", "warned"}]
  /\ \A p \in L!Printed, t \in L!Todo : img.addr[p] <= img.addr[t]
  /\ L!NoOverlap

(* Accepting or rejecting the first element keeps the invariant.            *)
LEMMA ListedStep ==
  ASSUME ListedInOrder, [L!Next]_<<img.addr, img.size, status>>
  PROVE  ListedInOrder'
<1> USE DEF ListedInOrder
<1>1. ASSUME NEW e \in Block, L!Accept(e)
      PROVE  ListedInOrder'
  <2>1. /\ status' \in [Block -> {"todo", "printed", "warned"}]
        /\ img.addr' = img.addr /\ img.size' = img.size
        /\ L!Printed' = L!Printed \cup {e} /\ L!Todo' = L!Todo \ {e} /\ e \in L!Todo
    BY <1>1 DEF L!Accept, L!Printed, L!Todo, L!First
  <2>2. \A p \in L!Printed : img.addr[p] <= img.addr[e]
    BY <2>1
  <2>3. \A p \in L!Printed', t \in L!Todo' : img.addr'[p] <= img.addr'[t]
    BY <1>1, <2>1 DEF L!Accept, L!First
  <2>4. ASSUME NEW f \in L!Printed, img.size[f] > 0
        PROVE  ~L!Covers(e, f)
    <3>1. img.addr[f] <= img.addr[e] /\ ~L!Covers(f, e)
      BY <1>1, <2>2, <2>4 DEF L!Accept
    <3>2. img.addr[f] \in Nat /\ img.addr[e] \in Nat /\ img.size[f] \in Nat
      BY <2>4 DEF L!Printed
    <3> QED
      BY <2>4, <3>1, <3>2 DEF L!Covers
  <2>5. L!NoOverlap'
    BY <1>1, <2>1, <2>4 DEF L!NoOverlap, L!Covers, L!Accept
  <2> QED
    BY <2>1, <2>3, <2>5
<1>2. ASSUME NEW e \in Block, L!Warn(e)
      PROVE  ListedInOrder'
  <2>1. /\ status' \in [Block -> {"todo", "printed", "warned"}]
        /\ img.addr' = img.addr /\ img.size' = img.size
        /\ L!Printed' = L!Printed /\ L!Todo' = L!Todo \ {e}
    BY <1>2 DEF L!Warn, L!Printed, L!Todo, L!First
  <2> QED
    BY <2>1 DEF L!NoOverlap, L!Covers
<1>3. CASE UNCHANGED <<img.addr, img.size, status>>
  BY <1>3 DEF L!NoOverlap, L!Covers, L!Printed, L!Todo
<1> QED
  BY <1>1, <1>2, <1>3 DEF L!Next

(* No byte of a module is printed twice by a listing that follows the rules *)
(* of printBlockOrWarning and printDataBlockOrWarning, however it is made.  *)
LEMMA ListedOnce == L!Spec => []L!NoOverlap
<1>1. L!Init => ListedInOrder
  BY DEF L!Init, ListedInOrder, L!NoOverlap, L!Printed
<1>2. ListedInOrder => L!NoOverlap
  BY DEF ListedInOrder
<1> QED
  BY <1>1, <1>2, ListedStep, PTL DEF L!Spec

(* Hence none is in the listing that print makes: no printed block covers   *)
(* the first byte of another one.                                           *)
THEOREM NoOverlapAlways == Spec => []L!NoOverlap
  BY ListsBlocksAlways, ListedOnce, PTL DEF ListsBlocks
-------------------------------------------------------------------------------
(* The module is one of Images, so that sections do not overlap, and hold   *)
(* the blocks.                                                              *)
Held(b, s) ==
  OnSection(img, s, img.addr[b]) /\ img.addr[b] + img.size[b] <= img.base[s] + img.extent[s]

(* The module being printed stays as it is.                                 *)
LEMMA ImgWellFormed == Spec => [](img \in ImageType /\ WellFormed(img))
<1>1. Init => img \in ImageType /\ WellFormed(img)
  BY ImagesAssumption DEF Init, Start
<1>2. [Next]_vars => img' = img
  <2>1. ASSUME NEW c \in Code, CodeTurn(c)
        PROVE  img' = img
    BY <2>1 DEF CodeTurn, PrintCode, Put, Warn
  <2>2. ASSUME NEW d \in Data, DataTurn(d)
        PROVE  img' = img
    BY <2>2 DEF DataTurn, PrintData, Put, Warn
  <2>3. Finish => img' = img
    BY DEF Finish
  <2>4. UNCHANGED vars => img' = img
    BY DEF vars
  <2> QED
    BY <2>1, <2>2, <2>3, <2>4 DEF Next
<1>3. img \in ImageType /\ WellFormed(img) /\ [Next]_vars => (img \in ImageType /\ WellFormed(img))'
  BY <1>2
<1> QED
  BY <1>1, <1>3, PTL DEF Spec

(* What the proofs use of it.                                               *)
LEMMA ImageFacts ==
  ASSUME img \in ImageType, WellFormed(img)
  PROVE  /\ \A b \in Block : img.addr[b] \in Nat /\ img.size[b] \in Nat
         /\ \A s \in Section : img.base[s] \in Int /\ img.extent[s] \in Nat
         /\ \A s \in Section : img.base[s] = NoBase \/ img.base[s] \in Nat
         /\ NoBase \notin Nat
         /\ \A b \in Block : \E s \in Section : Held(b, s)
         /\ \A s, t \in Section : s # t =>
              \/ img.base[s] + img.extent[s] <= img.base[t]
              \/ img.base[t] + img.extent[t] <= img.base[s]
<1>1. \A b \in Block : img.addr[b] \in Nat /\ img.size[b] \in Nat
  BY DEF ImageType
<1>2. \A s \in Section : img.base[s] \in Nat \cup {NoBase} /\ img.extent[s] \in Nat
  BY DEF ImageType
<1>3. NoBase \in Int /\ NoBase \notin Nat
  BY DEF NoBase
<1> QED
  BY <1>1, <1>2, <1>3 DEF WellFormed, Held

(* A header is that of a section found first at its start; any section is,  *)
(* if no two start at one address.                                          *)
LEMMA HeadedFacts ==
  ASSUME img \in ImageType, WellFormed(img), NEW a
  PROVE  /\ \A s \in Headed(a) : s \in Section /\ img.base[s] = a
         /\ \A s, t \in Headed(a) : s = t
         /\ DistinctStarts /\ a \in Nat =>
              \A s \in Section : img.base[s] = a /\ s \notin img.skipSec => s \in Headed(a)
<1>1. img.found \subseteq Section
  BY DEF ImageType
<1>2. \A s, t \in img.found : img.base[s] = img.base[t] => s = t
  BY DEF WellFormed
<1>3. ASSUME DistinctStarts, a \in Nat, NEW s \in Section, img.base[s] = a PROVE s \in img.found
  <2>1. \E t \in img.found : img.base[t] = img.base[s]
    BY DEF WellFormed
  <2> QED
    BY <1>1, <1>3, <2>1, ImageFacts DEF DistinctStarts
<1> QED
  BY <1>1, <1>2, <1>3 DEF Headed

(* An address is in one section at most.                                    *)
LEMMA OneContainer ==
  ASSUME img \in ImageType, WellFormed(img), NEW a \in Nat,
         NEW s \in Containers(a), NEW t \in Containers(a)
  PROVE  s = t
<1>1. \A x \in Section : img.base[x] \in Int /\ img.extent[x] \in Nat
  BY ImageFacts
<1> QED
  BY <1>1, ImageFacts DEF Containers, OnSection

(* The section that a block starts is that of its header.                   *)
LEMMA HeaderIsOwn ==
  ASSUME img \in ImageType, WellFormed(img), DistinctStarts,
         NEW b \in Block, NEW s \in Headed(img.addr[b])
  PROVE  s \in Containers(img.addr[b])
<1>1. PICK t \in Section : Held(b, t)
  BY ImageFacts
<1>2. s = t
  <2>1. img.base[s] = img.addr[b] /\ s \in Section
    BY HeadedFacts
  <2> QED
    BY <1>1, <2>1, ImageFacts DEF Held, OnSection, DistinctStarts
<1> QED
  BY <1>1, <1>2 DEF Held, Containers

(* If a block was met that starts a section, one that does was printed:     *)
(* what could cover it lies in the same section, and so starts there too.   *)
Led ==
  \A t \in Section, f \in Block :
    img.addr[f] = img.base[t] /\ img.extent[t] > 0 /\ Decided(f) =>
      \E g \in Block : status[g] = "printed" /\ img.addr[g] = img.base[t]

(* The assembler is in the section whose start was printed last, unless it  *)
(* is skipped.                                                              *)
Current ==
  DistinctStarts =>
    \A t \in Section \ img.skipSec :
      /\ \E g \in Block : status[g] = "printed" /\ img.addr[g] = img.base[t]
      /\ \A h \in Block : status[h] = "printed" => img.addr[h] < img.base[t] + img.extent[t]
      => curSec = t

(* A block that is printed, and what is printed of it.                      *)
LEMMA PutBlock ==
  ASSUME NEW b, PrintCode(b) \/ PrintData(b)
  PROVE  \E s, text, open :
           /\ s \in Section \cup {NoSection}
           /\ SectionFor(b, s) /\ Put(b, s, text, open)
           /\ SkipEA(img.addr[b]) => text.bytes = 0
<1>1. CASE PrintCode(b)
  <2>1. PICK s \in Section \cup {NoSection} :
          /\ SectionFor(b, s)
          /\ Put(b, s, BlockText(b, s, AfterHeader(img.addr[b], s)),
                 StillCommented(b) /\ SkipEA(img.addr[b]))
    BY <1>1 DEF PrintCode
  <2> DEFINE text == BlockText(b, s, AfterHeader(img.addr[b], s))
  <2>2. SkipEA(img.addr[b]) => text.bytes = 0
    BY DEF BlockText, NoText
  <2> HIDE DEF text
  <2> QED
    BY <2>1, <2>2 DEF text
<1>2. CASE PrintData(b)
  <2>1. PICK s \in Section \cup {NoSection} :
          /\ SectionFor(b, s)
          /\ \E open : Put(b, s, DataText(b, s, AfterHeader(img.addr[b], s), StillCommented(b)), open)
    BY <1>2 DEF PrintData
  <2> DEFINE text == DataText(b, s, AfterHeader(img.addr[b], s), StillCommented(b))
  <2>2. SkipEA(img.addr[b]) => text.bytes = 0
    BY DEF DataText, NoText
  <2> HIDE DEF text
  <2> QED
    BY <2>1, <2>2 DEF text
<1> QED
  BY <1>1, <1>2

(* Warning never leaves the start of a section unprinted.                   *)
LEMMA LedStep ==
  ASSUME img \in ImageType, WellFormed(img), IInv, Led, [Next]_vars
  PROVE  Led'
<1>0. \A x \in Block : img.addr[x] \in Nat /\ img.size[x] \in Nat
  BY ImageFacts
<1>1. ASSUME NEW b \in L!First, PrintCode(b) \/ PrintData(b)
      PROVE  Led'
  <2>1. b \in Block /\ img' = img /\ status' = [status EXCEPT ![b] = "printed"]
    BY <1>1, PrintShape DEF L!First, L!Todo
  <2> QED
    BY <2>1 DEF Led, Decided, IInv, WalkTyped
<1>2. ASSUME NEW b \in L!First, Warn(b)
      PROVE  Led'
  <2>1. /\ b \in Block /\ status[b] = "todo" /\ img.addr[b] < last
        /\ img' = img /\ status' = [status EXCEPT ![b] = "warned"]
    BY <1>2 DEF L!First, L!Todo, Warn
  <2> SUFFICES ASSUME NEW t \in Section, img.addr[b] = img.base[t], img.extent[t] > 0
               PROVE  \E g \in Block : status[g] = "printed" /\ img.addr[g] = img.base[t]
    BY <2>1 DEF Led, Decided, IInv, WalkTyped
  <2>2. PICK g \in Block : status[g] = "printed" /\ img.addr[g] + img.size[g] = last
    BY <1>0, <2>1 DEF IInv, LastIsEnd
  <2>3. img.addr[g] <= img.addr[b]
    BY <2>1, <2>2 DEF IInv, InOrder, Decided
  <2>4. PICK u \in Section : Held(g, u)
    BY ImageFacts
  <2>5. u = t
    BY <1>0, <2>1, <2>2, <2>3, <2>4, ImageFacts DEF Held, OnSection
  <2>6. img.addr[g] = img.base[t]
    <3>1. img.base[t] \in Int
      BY ImageFacts
    <3> QED
      BY <1>0, <2>3, <2>4, <2>5, <3>1 DEF Held, OnSection
  <2> QED
    BY <2>2, <2>6
<1>3. CASE Finish \/ UNCHANGED vars
  BY <1>3 DEF Finish, vars, Led, Decided
<1> QED
  BY <1>1, <1>2, <1>3, TurnShape DEF Next, IInv

(* The assembler stays in a section until the start of the next is printed. *)
LEMMA CurrentStep ==
  ASSUME img \in ImageType, WellFormed(img), IInv, Current, [Next]_vars
  PROVE  Current'
<1>1. ASSUME NEW b \in L!First, PrintCode(b) \/ PrintData(b)
      PROVE  Current'
  <2>1. b \in Block /\ img' = img /\ status' = [status EXCEPT ![b] = "printed"]
    BY <1>1, PrintShape DEF L!First, L!Todo
  <2>2. PICK s \in Section \cup {NoSection} : SectionFor(b, s) /\ curSec' = s
    BY <1>1, PutBlock DEF Put
  <2> SUFFICES ASSUME DistinctStarts, NEW t \in Section \ img.skipSec,
                      NEW g \in Block, status'[g] = "printed", img.addr[g] = img.base[t],
                      \A h \in Block : status'[h] = "printed" => img.addr[h] < img.base[t] + img.extent[t]
               PROVE  s = t
    BY <2>1, <2>2 DEF Current, DistinctStarts
  <2>3. img.addr[b] < img.base[t] + img.extent[t]
    BY <2>1 DEF IInv, WalkTyped
  <2>4. img.base[t] <= img.addr[b]
    <3>1. CASE g = b
      BY <3>1, ImageFacts
    <3>2. CASE g # b
      BY <2>1, <3>2 DEF IInv, WalkTyped, InOrder, Decided, L!First, L!Todo
    <3> QED
      BY <3>1, <3>2
  <2>5. CASE Headed(img.addr[b]) # {}
    <3>1. s \in Section /\ img.base[s] = img.addr[b] /\ img.addr[b] \in Nat
      BY <2>1, <2>2, <2>5, HeadedFacts, ImageFacts DEF SectionFor, L!First, L!Todo
    <3> QED
      BY <2>3, <2>4, <3>1, ImageFacts DEF DistinctStarts
  <2>6. CASE Headed(img.addr[b]) = {}
    <3>1. s = curSec /\ g # b
      BY <2>1, <2>2, <2>6, HeadedFacts, ImageFacts DEF SectionFor
    <3>2. status[g] = "printed"
      BY <2>1, <3>1 DEF IInv, WalkTyped
    <3>3. \A h \in Block : status[h] = "printed" => img.addr[h] < img.base[t] + img.extent[t]
      BY <2>1 DEF IInv, WalkTyped
    <3> QED
      BY <3>1, <3>2, <3>3 DEF Current
  <2> QED
    BY <2>5, <2>6
<1>2. ASSUME NEW b \in L!First, Warn(b)
      PROVE  Current'
  <2>1. /\ b \in Block /\ status[b] = "todo" /\ curSec' = curSec
        /\ img' = img /\ status' = [status EXCEPT ![b] = "warned"]
    BY <1>2 DEF L!First, L!Todo, Warn
  <2> QED
    BY <2>1 DEF Current, DistinctStarts, IInv, WalkTyped
<1>3. CASE Finish \/ UNCHANGED vars
  BY <1>3 DEF Finish, vars, Current, DistinctStarts
<1> QED
  BY <1>1, <1>2, <1>3, TurnShape DEF Next, IInv

(* This holds throughout.                                                   *)
LEMMA LedAlways == Spec => [](Led /\ Current)
<1>1. Init => Led /\ Current
  <2> SUFFICES ASSUME Init PROVE Led /\ Current
    OBVIOUS
  <2>1. \A b \in Block : status[b] = "todo"
    BY DEF Init, Start
  <2> QED
    BY <2>1 DEF Led, Current, Decided
<1>2. Spec => []IInv
  BY InitIInv, IInvStep, PTL DEF Spec
<1> QED
  BY ImgWellFormed, LedStep, CurrentStep, <1>1, <1>2, PTL DEF Spec

(* Bytes are put into the section they come from.                           *)
LEMMA PutInOwnSection ==
  ASSUME img \in ImageType, WellFormed(img), IInv, Led, Current,
         SectionsLed, DistinctStarts, img.debug => img.skipSec = {},
         NEW b \in L!First, ~SkipEA(img.addr[b]),
         NEW s \in Section \cup {NoSection}, SectionFor(b, s)
  PROVE  s \in Containers(img.addr[b])
<1>0. b \in Block /\ status[b] = "todo"
  BY DEF L!First, L!Todo
<1>1. CASE Headed(img.addr[b]) # {}
  BY <1>0, <1>1, HeaderIsOwn DEF SectionFor
<1>2. CASE Headed(img.addr[b]) = {}
  <2>1. PICK t \in Section : Held(b, t)
    BY <1>0, ImageFacts
  <2>2. t \in Containers(img.addr[b])
    BY <2>1 DEF Held, Containers
  <2>3. t \notin img.skipSec
    BY <2>2 DEF SkipEA, InSkippedSection
  <2>4. img.base[t] < img.addr[b] /\ img.addr[b] < img.base[t] + img.extent[t] /\ img.extent[t] > 0
    <3>1. img.base[t] # img.addr[b]
      BY <1>0, <1>2, <2>1, <2>3, HeadedFacts, ImageFacts
    <3> QED
      BY <1>0, <2>1, <3>1, ImageFacts DEF Held, OnSection
  <2>5. PICK f \in Block : img.addr[f] = img.base[t]
    BY <1>0, <2>2 DEF SectionsLed
  <2>6. Decided(f)
    BY <1>0, <2>4, <2>5, ImageFacts DEF L!First, L!Todo, Decided
  <2>7. \E g \in Block : status[g] = "printed" /\ img.addr[g] = img.base[t]
    BY <2>4, <2>5, <2>6 DEF Led
  <2>8. \A h \in Block : status[h] = "printed" => img.addr[h] < img.base[t] + img.extent[t]
    <3>1. \A h \in Block : status[h] = "printed" => img.addr[h] <= img.addr[b]
      BY <1>0 DEF IInv, InOrder, Decided
    <3> QED
      BY <1>0, <2>4, <3>1, ImageFacts
  <2>9. curSec = t
    BY <2>3, <2>7, <2>8 DEF Current
  <2> QED
    BY <1>2, <2>2, <2>9 DEF SectionFor
<1> QED
  BY <1>1, <1>2

(* A step puts bytes into the section they come from, or none.              *)
LEMMA InOwnSectionStep ==
  ASSUME img \in ImageType, WellFormed(img), IInv, Led, Current, InOwnSection, [Next]_vars
  PROVE  InOwnSection'
<1>1. ASSUME NEW b \in L!First, PrintCode(b) \/ PrintData(b)
      PROVE  InOwnSection'
  <2>1. PICK s, text, open :
          /\ s \in Section \cup {NoSection}
          /\ SectionFor(b, s) /\ Put(b, s, text, open)
          /\ SkipEA(img.addr[b]) => text.bytes = 0
    BY <1>1, PutBlock
  <2>2. img' = img
    BY <2>1 DEF Put
  <2>3. CASE text.bytes = 0
    BY <2>1, <2>2, <2>3 DEF Put, InOwnSection, SectionsLed, DistinctStarts, Containers
  <2>4. CASE text.bytes # 0
    <3>1. content' = content \cup {[block |-> b, sec |-> s, pos |-> text.start]}
      BY <2>1, <2>4 DEF Put
    <3> SUFFICES ASSUME SectionsLed, DistinctStarts, img.debug => img.skipSec = {},
                        NEW x \in content'
                 PROVE  x.sec \in Containers(img.addr[x.block])
      BY <2>2 DEF InOwnSection, SectionsLed, DistinctStarts, Containers
    <3>2. CASE x \in content
      BY <3>2 DEF InOwnSection
    <3>3. CASE x = [block |-> b, sec |-> s, pos |-> text.start]
      <4>1. s \in Containers(img.addr[b])
        BY <2>1, <2>4, PutInOwnSection
      <4> QED
        BY <3>3, <4>1
    <3> QED
      BY <3>1, <3>2, <3>3
  <2> QED
    BY <2>3, <2>4
<1>2. ASSUME img' = img, content' = content
      PROVE  InOwnSection'
  BY <1>2 DEF InOwnSection, SectionsLed, DistinctStarts, Containers
<1>3. \A b : Warn(b) => img' = img /\ content' = content
  BY DEF Warn
<1>4. Finish \/ UNCHANGED vars => img' = img /\ content' = content
  BY DEF Finish, vars
<1> QED
  BY <1>1, <1>2, <1>3, <1>4, TurnShape DEF Next, IInv

(* Whatever is warned about or skipped, bytes are assembled into the        *)
(* section they come from, if every section that holds blocks has one at    *)
(* its start.                                                               *)
THEOREM BytesStayInTheirSection == Spec => []InOwnSection
<1>1. Init => InOwnSection
  BY DEF Init, Start, InOwnSection
<1>2. Spec => []IInv
  BY InitIInv, IInvStep, PTL DEF Spec
<1> QED
  BY ImgWellFormed, LedAlways, InOwnSectionStep, <1>1, <1>2, PTL DEF Spec

-------------------------------------------------------------------------------
(* Labels *)

(* What an iteration that prints b does, by the kind of b: data at an       *)
(* address comes after the code there.                                      *)
Prints(b) ==
  /\ pc = "printing"
  /\ \/ b \in Code /\ PrintCode(b)
     \/ b \in Data /\ PrintData(b) /\ \A c \in Todo(Code) : img.addr[b] < img.addr[c]

(* A turn of either loop prints a block with the least address of all that  *)
(* are left, or warns about it.                                             *)
LEMMA TurnPrints ==
  ASSUME WalkTyped, (\E c \in Code : CodeTurn(c)) \/ (\E d \in Data : DataTurn(d))
  PROVE  \E b \in L!First : Prints(b) \/ Warn(b)
<1>1. ASSUME NEW c \in Code, CodeTurn(c)
      PROVE  c \in L!First /\ (Prints(c) \/ Warn(c))
  BY <1>1 DEF CodeTurn, Least, Todo, Block, L!First, L!Todo, Prints
<1>2. ASSUME NEW d \in Data, DataTurn(d)
      PROVE  d \in L!First /\ (Prints(d) \/ Warn(d))
  <2>1. \A b \in Block : img.addr[b] \in Nat
    BY DEF WalkTyped, ImageType
  <2> QED
    BY <1>2, <2>1 DEF DataTurn, Least, Todo, Block, L!First, L!Todo, Prints
<1> QED
  BY <1>1, <1>2

(* The addresses in a block that get a label if they have a symbol.         *)
Named(b) ==
  IF b \in Code THEN {img.addr[b] + o : o \in img.insns[b]} ELSE {img.addr[b]}

(* A block is printed with the labels of the symbols in it, unless it is    *)
(* skipped or stands in a comment; and a comment never begins with a block. *)
LEMMA PutLabels ==
  ASSUME NEW b \in Block, Prints(b)
  PROVE  \E s, text, open :
           /\ Put(b, s, text, open)
           /\ open => commented
           /\ ~commented /\ ~SkipEA(img.addr[b]) =>
                \A a \in Named(b) \cap img.syms : \E p \in text.labels : p.addr = a
<1>1. CASE b \in Code /\ PrintCode(b)
  <2>1. PICK s \in Section \cup {NoSection} :
          Put(b, s, BlockText(b, s, AfterHeader(img.addr[b], s)),
              StillCommented(b) /\ SkipEA(img.addr[b]))
    BY <1>1 DEF PrintCode
  <2> DEFINE n    == AfterHeader(img.addr[b], s)
             text == BlockText(b, s, n)
             open == StillCommented(b) /\ SkipEA(img.addr[b])
  <2>2. ASSUME ~SkipEA(img.addr[b]), NEW a \in Named(b) \cap img.syms
        PROVE  \E p \in text.labels : p.addr = a
    <3>1. PICK o \in img.insns[b] : a = img.addr[b] + o
      BY <1>1, <2>2 DEF Named
    <3> DEFINE q == IF IsFunction(b) THEN Aligned(n, img.addr[b]) ELSE n
               heads == IF IsFunction(b) THEN {0} ELSE {}
    <3>2. text.labels = {Place(img.addr[b] + x, s, q + Offset(b, x)) :
                          x \in {x \in heads \cup img.insns[b] : img.addr[b] + x \in img.syms}}
      BY <2>2 DEF BlockText
    <3> HIDE DEF q, heads, text
    <3>3. Place(img.addr[b] + o, s, q + Offset(b, o)) \in text.labels
      BY <2>2, <3>1, <3>2
    <3> QED
      BY <3>1, <3>3 DEF Place
  <2>3. open => commented
    BY DEF StillCommented
  <2> HIDE DEF text, open
  <2> QED
    BY <2>1, <2>2, <2>3 DEF text, open
<1>2. CASE b \in Data /\ PrintData(b)
  <2>1. PICK s \in Section \cup {NoSection} :
          LET text == DataText(b, s, AfterHeader(img.addr[b], s), StillCommented(b))
          IN  Put(b, s, text,
                  /\ StillCommented(b)
                  /\ SkipEA(img.addr[b]) \/ (Excluded(b) /\ text.lost = {}))
    BY <1>2 DEF PrintData
  <2> DEFINE text == DataText(b, s, AfterHeader(img.addr[b], s), StillCommented(b))
             open == /\ StillCommented(b)
                     /\ SkipEA(img.addr[b]) \/ (Excluded(b) /\ text.lost = {})
  <2>2. ASSUME ~commented, ~SkipEA(img.addr[b]), NEW a \in Named(b) \cap img.syms
        PROVE  \E p \in text.labels : p.addr = a
    <3>1. a = img.addr[b]
      BY <1>2, BlockAssumption DEF Named
    <3>2. text.labels = {Place(a, s, AfterHeader(img.addr[b], s))}
      BY <2>2, <3>1 DEF DataText, StillCommented
    <3> QED
      BY <3>2 DEF Place
  <2>3. open => commented
    BY DEF StillCommented
  <2>4. Put(b, s, text, open)
    BY <2>1
  <2> HIDE DEF text, open
  <2> QED
    BY <2>2, <2>3, <2>4
<1> QED
  BY <1>1, <1>2 DEF Prints

HasLabel(a) == \E p \in labels : p.addr = a

(* Blocks that are printed do not overlap.                                  *)
Apart ==
  \A b, f \in Block :
    status[b] = "printed" /\ status[f] = "printed" /\ img.addr[b] < img.addr[f] =>
      img.addr[b] + img.size[b] <= img.addr[f]

(* As long as there are no warnings, the symbols in what was printed have   *)
(* labels, but for one that is printed with the next block or at the end.   *)
Complete ==
  NoWarnings =>
    /\ ~commented
    /\ \A b \in Block : status[b] = "printed" =>
         /\ ~SkipEA(img.addr[b]) => \A a \in Named(b) \cap img.syms : HasLabel(a)
         /\ img.addr[b] + img.size[b] \in img.syms =>
              \/ pc = "printing" /\ img.addr[b] + img.size[b] = last
              \/ HasLabel(img.addr[b] + img.size[b])
              \/ \E f \in Block : /\ status[f] = "printed"
                                  /\ img.addr[f] = img.addr[b] + img.size[b]
                                  /\ img.size[f] > 0

DoneWithAll == pc = "done" => \A b \in Block : Decided(b)

(* What is skipped depends on the module only.                              *)
LEMMA SkipDependsOnImg ==
  ASSUME img' = img, NEW a
  PROVE  SkipEA(a)' <=> SkipEA(a)
  BY DEF SkipEA, InSkippedSection, InSkippedFunction, Containers

(* What is printed starts behind what was printed before.                   *)
LEMMA ApartStep == IInv /\ Apart /\ [Next]_vars => Apart'
<1> SUFFICES ASSUME IInv, Apart, [Next]_vars PROVE Apart'
  OBVIOUS
<1>1. ASSUME NEW b \in L!First, PrintCode(b) \/ PrintData(b)
      PROVE  Apart'
  <2>1. /\ b \in Block /\ img' = img /\ status' = [status EXCEPT ![b] = "printed"]
        /\ last <= img.addr[b] /\ status[b] = "todo"
    BY <1>1, PrintShape DEF L!First, L!Todo
  <2>2. \A x \in Block : img.addr[x] \in Nat /\ img.size[x] \in Nat
    BY DEF IInv, WalkTyped, ImageType
  <2> SUFFICES ASSUME NEW c \in Block, NEW f \in Block, status'[c] = "printed",
                      status'[f] = "printed", img.addr[c] < img.addr[f]
               PROVE  img.addr[c] + img.size[c] <= img.addr[f]
    BY <2>1 DEF Apart
  <2>3. CASE f = b
    BY <2>1, <2>2, <2>3 DEF IInv, WalkTyped, LastIsEnd
  <2>4. CASE c = b /\ f # b
    BY <2>1, <2>2, <2>4 DEF IInv, WalkTyped, InOrder, Decided
  <2>5. CASE c # b /\ f # b
    BY <2>1, <2>5 DEF IInv, WalkTyped, Apart
  <2> QED
    BY <2>3, <2>4, <2>5
<1>2. ASSUME NEW b \in L!First, Warn(b)
      PROVE  Apart'
  <2>1. img' = img /\ status' = [status EXCEPT ![b] = "warned"]
    BY <1>2 DEF Warn
  <2> QED
    BY <2>1 DEF Apart, IInv, WalkTyped
<1>3. CASE Finish \/ UNCHANGED vars
  BY <1>3 DEF Finish, vars, Apart
<1> QED
  BY <1>1, <1>2, <1>3, TurnShape DEF Next, IInv

(* A block is printed with its labels, and its end is not forgotten.        *)
LEMMA CompleteStep == IInv /\ Complete /\ [Next]_vars => Complete'
<1> SUFFICES ASSUME IInv, Complete, [Next]_vars, NoWarnings' PROVE Complete'
  BY DEF Complete
<1>0. \A x \in Block : img.addr[x] \in Nat /\ img.size[x] \in Nat
  BY DEF IInv, WalkTyped, ImageType
<1>1. ASSUME NEW b \in L!First, Prints(b)
      PROVE  Complete'
  <2>1. /\ b \in Block /\ img' = img /\ status' = [status EXCEPT ![b] = "printed"]
        /\ last <= img.addr[b] /\ status[b] = "todo" /\ last' = img.addr[b] + img.size[b]
    BY <1>1, PrintShape DEF L!First, L!Todo, Prints
  <2>2. NoWarnings
    BY <2>1 DEF NoWarnings, IInv, WalkTyped
  <2>3. PICK s, text, open :
          /\ Put(b, s, text, open)
          /\ open => commented
          /\ ~commented /\ ~SkipEA(img.addr[b]) =>
               \A a \in Named(b) \cap img.syms : \E p \in text.labels : p.addr = a
    BY <1>1, <2>1, PutLabels
  <2>4. ~commented /\ ~open
    BY <2>2, <2>3 DEF Complete
  <2>5. /\ ~commented' /\ pc' = pc /\ labels \subseteq labels' /\ text.labels \subseteq labels'
        /\ GapLabel(b) => \E p \in labels' : p.addr = last
    <3>1. commented' = open /\ pc' = pc
      BY <2>3 DEF Put
    <3>2. labels' = labels \cup text.labels \cup
                      (IF GapLabel(b) THEN {Place(last, curSec, filled[curSec])} ELSE {})
      BY <2>3, <2>4 DEF Put
    <3>3. Place(last, curSec, filled[curSec]).addr = last
      BY DEF Place
    <3> QED
      BY <2>4, <3>1, <3>2, <3>3
  <2>6. \A a : HasLabel(a) => HasLabel(a)'
    BY <2>5 DEF HasLabel
  <2>7. Named(b)' = Named(b) /\ \A x \in Block : Named(x)' = Named(x)
    BY <2>1 DEF Named
  <2> SUFFICES ASSUME NEW c \in Block, status'[c] = "printed"
               PROVE  /\ ~SkipEA(img.addr[c]) => \A a \in Named(c) \cap img.syms : HasLabel(a)'
                      /\ img.addr[c] + img.size[c] \in img.syms =>
                           \/ pc = "printing" /\ img.addr[c] + img.size[c] = last'
                           \/ HasLabel(img.addr[c] + img.size[c])'
                           \/ \E f \in Block : /\ status'[f] = "printed"
                                               /\ img.addr[f] = img.addr[c] + img.size[c]
                                               /\ img.size[f] > 0
    BY <2>1, <2>5, <2>7, SkipDependsOnImg DEF Complete, HasLabel
  <2>8. CASE c = b
    <3>1. ~SkipEA(img.addr[b]) => \A a \in Named(b) \cap img.syms : HasLabel(a)'
      BY <2>3, <2>4, <2>5 DEF HasLabel
    <3>2. pc = "printing"
      BY <1>1 DEF Prints
    <3> QED
      BY <2>1, <2>8, <3>1, <3>2
  <2>9. CASE c # b
    <3>1. status[c] = "printed"
      BY <2>1, <2>9 DEF IInv, WalkTyped
    <3>2. ~SkipEA(img.addr[c]) => \A a \in Named(c) \cap img.syms : HasLabel(a)'
      BY <2>2, <2>6, <3>1 DEF Complete
    <3> DEFINE a == img.addr[c] + img.size[c]
    <3>3. CASE a \in img.syms /\ a = last /\ last < img.addr[b]
      <4>1. HasLabel(a)'
        BY <1>0, <2>1, <2>5, <3>3 DEF GapLabel, HasLabel
      <4> QED
        BY <3>2, <4>1
    <3>4. CASE a = last /\ last = img.addr[b]
      <4>1. pc = "printing"
        BY <1>1 DEF Prints
      <4>2. status'[b] = "printed"
        BY <2>1 DEF IInv, WalkTyped
      <4>3. img.size[b] > 0 \/ a = last'
        BY <1>0, <2>1, <3>4
      <4> QED
        BY <2>1, <3>2, <3>4, <4>1, <4>2, <4>3
    <3>5. CASE a \in img.syms /\ a # last
      <4>1. \/ HasLabel(a)
            \/ \E f \in Block : status[f] = "printed" /\ img.addr[f] = a /\ img.size[f] > 0
        BY <2>2, <3>1, <3>5 DEF Complete
      <4>2. \A f \in Block : status[f] = "printed" => status'[f] = "printed"
        BY <2>1 DEF IInv, WalkTyped
      <4> QED
        BY <2>1, <2>6, <3>2, <4>1, <4>2
    <3> HIDE DEF a
    <3>6. last \in Nat /\ img.addr[b] \in Nat
      BY <1>0, <2>1 DEF IInv, WalkTyped
    <3>7. a \notin img.syms \/ (a = last /\ last < img.addr[b])
           \/ (a = last /\ last = img.addr[b]) \/ a # last
      BY <2>1, <3>6
    <3> QED
      BY <3>2, <3>3, <3>4, <3>5, <3>7 DEF a
  <2> QED
    BY <2>8, <2>9
<1>2. ASSUME NEW b \in L!First, Warn(b)
      PROVE  FALSE
  BY <1>2 DEF Warn, NoWarnings, IInv, WalkTyped, L!First, L!Todo
<1>3. CASE Finish
  <2>1. /\ img' = img /\ status' = status /\ last' = last /\ ~commented' /\ ~commented
        /\ last \in img.syms => labels' = labels \cup {Place(last, curSec, filled[curSec])}
        /\ last \notin img.syms => labels' = labels
    BY <1>3 DEF Finish, Complete, NoWarnings
  <2>2. \A a : HasLabel(a) => HasLabel(a)'
    BY <2>1 DEF HasLabel
  <2>3. last \in img.syms => HasLabel(last)'
    <3> SUFFICES ASSUME last \in img.syms PROVE \E p \in labels' : p.addr = last
      BY <2>1 DEF HasLabel
    <3>1. Place(last, curSec, filled[curSec]) \in labels'
      BY <2>1
    <3> QED
      BY <3>1 DEF Place
  <2>4. NoWarnings /\ \A x \in Block : Named(x)' = Named(x)
    BY <2>1 DEF NoWarnings, Named
  <2> SUFFICES ASSUME NEW c \in Block, status[c] = "printed"
               PROVE  /\ ~SkipEA(img.addr[c]) => \A a \in Named(c) \cap img.syms : HasLabel(a)'
                      /\ img.addr[c] + img.size[c] \in img.syms =>
                           \/ HasLabel(img.addr[c] + img.size[c])'
                           \/ \E f \in Block : /\ status[f] = "printed"
                                               /\ img.addr[f] = img.addr[c] + img.size[c]
                                               /\ img.size[f] > 0
    BY <2>1, <2>4, SkipDependsOnImg DEF Complete, HasLabel
  <2> QED
    BY <2>1, <2>2, <2>3, <2>4 DEF Complete
<1>4. CASE UNCHANGED vars
  BY <1>4, SkipDependsOnImg DEF vars, Complete, NoWarnings, Named, HasLabel
<1> QED
  BY <1>1, <1>2, <1>3, <1>4, TurnPrints DEF Next, IInv

(* What is warned about starts in a block that was printed.                 *)
Covered ==
  \A b \in Block : status[b] = "warned" =>
    \E f \in Block : /\ status[f] = "printed"
                     /\ img.addr[f] <= img.addr[b]
                     /\ img.addr[b] < img.addr[f] + img.size[f]

(* last is the end of a printed block, which starts before any other left.  *)
LEMMA CoveredStep == IInv /\ Covered /\ [Next]_vars => Covered'
<1> SUFFICES ASSUME IInv, Covered, [Next]_vars PROVE Covered'
  OBVIOUS
<1>1. ASSUME NEW b \in L!First, PrintCode(b) \/ PrintData(b)
      PROVE  Covered'
  <2>1. status' = [status EXCEPT ![b] = "printed"] /\ img' = img /\ b \in Block /\ status[b] = "todo"
    BY <1>1, PrintShape DEF L!First, L!Todo
  <2> QED
    BY <2>1 DEF Covered, IInv, WalkTyped
<1>2. ASSUME NEW b \in L!First, Warn(b)
      PROVE  Covered'
  <2>1. /\ status' = [status EXCEPT ![b] = "warned"] /\ img' = img /\ img.addr[b] < last
        /\ b \in Block /\ status[b] = "todo"
    BY <1>2 DEF Warn, L!First, L!Todo
  <2>2. img.addr[b] \in Nat /\ last \in Nat
    BY <2>1 DEF IInv, WalkTyped, ImageType
  <2>3. PICK f \in Block : status[f] = "printed" /\ img.addr[f] + img.size[f] = last
    BY <2>1, <2>2 DEF IInv, LastIsEnd
  <2>4. img.addr[f] <= img.addr[b]
    BY <2>1, <2>3 DEF IInv, InOrder, Decided
  <2> QED
    BY <2>1, <2>3, <2>4 DEF Covered, IInv, WalkTyped
<1>3. CASE Finish \/ UNCHANGED vars
  BY <1>3 DEF Finish, vars, Covered
<1> QED
  BY <1>1, <1>2, <1>3, TurnShape DEF Next, IInv

(* print returns when it has dealt with every block.                        *)
LEMMA DoneStep == DoneWithAll /\ [Next]_vars => DoneWithAll'
<1>1. CASE \E c \in Code : CodeTurn(c)
  BY <1>1 DEF CodeTurn, PrintCode, Put, Warn, DoneWithAll
<1>2. CASE \E d \in Data : DataTurn(d)
  BY <1>2 DEF DataTurn, PrintData, Put, Warn, DoneWithAll
<1>3. CASE Finish
  BY <1>3 DEF Finish, Todo, DoneWithAll, Decided
<1>4. CASE UNCHANGED vars
  BY <1>4 DEF vars, DoneWithAll, Decided
<1> QED
  BY <1>1, <1>2, <1>3, <1>4 DEF Next

(* A block of code is skipped as a whole, when no other overlaps it.        *)
LEMMA SkippedAsAWhole ==
  ASSUME img \in ImageType, WellFormed(img), Apart, \A b \in Block : status[b] = "printed",
         NEW c \in Code, NEW o \in img.insns[c], SkipEA(img.addr[c])
  PROVE  SkipEA(img.addr[c] + o)
<1> DEFINE a == img.addr[c] + o
<1>1. c \in Block /\ o \in Nat /\ a \in Nat /\ img.addr[c] \in Nat /\ img.size[c] \in Nat
  <2>1. c \in Block
    BY DEF Block
  <2>2. img.addr[c] \in Nat /\ img.size[c] \in Nat
    BY <2>1, ImageFacts
  <2>3. o \in Nat
    BY DEF ImageType
  <2> QED
    BY <2>1, <2>2, <2>3
<1>2. img.addr[c] <= a /\ a < img.addr[c] + img.size[c]
  <2>1. img.decoded[c] \in Nat
    BY DEF ImageType
  <2> QED
    BY <1>1, <2>1 DEF WellFormed
<1>3. CASE InSkippedSection(img.addr[c])
  <2>1. PICK s \in Containers(img.addr[c]) : s \in img.skipSec
    BY <1>3 DEF InSkippedSection
  <2>2. PICK t \in Section : Held(c, t)
    BY <1>1, ImageFacts
  <2>3. s = t
    BY <1>1, <2>1, <2>2, OneContainer DEF Held, Containers
  <2>4. s \in Containers(a)
    BY <1>1, <1>2, <2>2, <2>3, ImageFacts DEF Held, Containers, OnSection
  <2> QED
    BY <2>1, <2>4 DEF SkipEA, InSkippedSection
<1>4. CASE InSkippedFunction(img.addr[c])
  <2>1. PICK f \in img.skipFn : f <= img.addr[c] /\ \A g \in img.entries : g <= f \/ img.addr[c] < g
    BY <1>4 DEF InSkippedFunction
  <2>2. f \in Nat
    BY <2>1 DEF WellFormed, ImageType
  <2>3. ASSUME NEW g \in img.entries, img.addr[c] < g
        PROVE  a < g
    <3>1. PICK h \in Code : img.addr[h] = g
      BY DEF WellFormed
    <3>2. img.addr[c] + img.size[c] <= g
      BY <1>1, <2>3, <3>1 DEF Apart, Block
    <3>3. g \in Nat
      BY DEF ImageType
    <3> QED
      BY <1>1, <1>2, <3>2, <3>3
  <2>4. f <= a
    BY <1>1, <1>2, <2>1, <2>2
  <2> QED
    BY <2>1, <2>3, <2>4 DEF SkipEA, InSkippedFunction
<1> QED
  BY <1>3, <1>4 DEF SkipEA

(* Every symbol that is printed by its name has its label, for modules of   *)
(* every shape, when no block is left out with a warning.                   *)
THEOREM LabelsAreDefined == Spec => []LabelDefined
<1>1. Init => Apart /\ Complete /\ DoneWithAll
  <2> SUFFICES ASSUME Init PROVE Apart /\ Complete /\ DoneWithAll
    OBVIOUS
  <2>1. (\A b \in Block : status[b] = "todo") /\ ~commented /\ pc = "printing"
    BY DEF Init, Start
  <2> QED
    BY <2>1 DEF Apart, Complete, DoneWithAll
<1>2. img \in ImageType /\ WellFormed(img) /\ IInv /\ Apart /\ Complete /\ DoneWithAll => LabelDefined
  <2> SUFFICES ASSUME img \in ImageType, WellFormed(img), IInv, Apart, Complete, DoneWithAll,
                      pc = "done", NoWarnings,
                      NEW a \in img.syms, Definable(a), ~SkipEA(a)
               PROVE  HasLabel(a)
    BY DEF LabelDefined, HasLabel
  <2>1. \A b \in Block : status[b] = "printed"
    BY DEF DoneWithAll, Decided, NoWarnings, IInv, WalkTyped
  <2>2. ASSUME NEW c \in Code, NEW o \in img.insns[c], a = img.addr[c] + o
        PROVE  HasLabel(a)
    <3>1. ~SkipEA(img.addr[c])
      BY <2>1, <2>2, SkippedAsAWhole
    <3>2. a \in Named(c)
      BY <2>2 DEF Named
    <3> QED
      BY <2>1, <3>1, <3>2 DEF Complete, Block
  <2>3. ASSUME NEW d \in Data, a = img.addr[d]
        PROVE  HasLabel(a)
    <3>1. a \in Named(d)
      BY <2>3, BlockAssumption DEF Named
    <3> QED
      BY <2>1, <2>3, <3>1 DEF Complete, Block
  <2>4. ASSUME NEW b \in Block, a = img.addr[b] + img.size[b],
               \A f \in Block : img.addr[f] = a => img.size[f] = 0
        PROVE  HasLabel(a)
    BY <2>1, <2>4 DEF Complete
  <2> QED
    BY <2>2, <2>3, <2>4 DEF Definable
<1>3. Spec => []IInv
  BY InitIInv, IInvStep, PTL DEF Spec
<1> QED
  BY ImgWellFormed, <1>1, <1>2, <1>3, ApartStep, CompleteStep, DoneStep, PTL DEF Spec
-------------------------------------------------------------------------------
(* Places *)

(* Some power of two is the greatest that divides a.                        *)
LEMMA Divisor ==
  ASSUME NEW a \in Nat
  PROVE  \E m \in {1, 2, 4, 8, 16} :
           a % m = 0 /\ \A k \in {1, 2, 4, 8, 16} : a % k = 0 => k <= m
<1>1. CASE a % 16 = 0
  BY <1>1
<1>2. CASE a % 16 # 0 /\ a % 8 = 0
  BY <1>2
<1>3. CASE a % 16 # 0 /\ a % 8 # 0 /\ a % 4 = 0
  BY <1>3
<1>4. CASE a % 16 # 0 /\ a % 8 # 0 /\ a % 4 # 0 /\ a % 2 = 0
  BY <1>4
<1>5. CASE a % 16 # 0 /\ a % 8 # 0 /\ a % 4 # 0 /\ a % 2 # 0
  <2>1. a % 1 = 0
    OBVIOUS
  <2> QED
    BY <1>5, <2>1
<1> QED
  BY <1>1, <1>2, <1>3, <1>4, <1>5

(* What is aligned stays where it is when it is aligned again.              *)
LEMMA AlignedFacts ==
  ASSUME NEW n \in Nat, NEW a \in Nat
  PROVE  Aligned(n, a) \in Nat /\ Aligned(Aligned(n, a), a) = Aligned(n, a)
<1> DEFINE m == CHOOSE m \in {1, 2, 4, 8, 16} :
                  a % m = 0 /\ \A k \in {1, 2, 4, 8, 16} : a % k = 0 => k <= m
<1>1. m \in {1, 2, 4, 8, 16}
  BY Divisor
<1>2. \A k : Aligned(k, a) = ((k + m - 1) \div m) * m
  BY DEF Aligned
<1> HIDE DEF m
<1>3. ((n + m - 1) \div m) * m \in Nat
  <2>1. m = 1 \/ m = 2 \/ m = 4 \/ m = 8 \/ m = 16
    BY <1>1
  <2> QED
    BY <2>1
<1>4. ((((n + m - 1) \div m) * m + m - 1) \div m) * m = ((n + m - 1) \div m) * m
  <2>1. m = 1 \/ m = 2 \/ m = 4 \/ m = 8 \/ m = 16
    BY <1>1
  <2> QED
    BY <2>1
<1> QED
  BY <1>2, <1>3, <1>4

(* Instructions come in their order behind the start of their block.        *)
LEMMA OffsetFacts ==
  ASSUME img \in ImageType, NEW c \in Code, NEW o \in Nat
  PROVE  Offset(c, o) \in Nat /\ Offset(c, 0) = 0
<1>1. img.nops[c] \subseteq Nat /\ img.nopSize \in Nat /\ img.nopSize > 0
  BY DEF ImageType
<1> DEFINE N(k) == {x \in img.nops[c] : x < k}
<1>2. Cardinality(N(o)) \in Nat
  <2>1. N(o) \in SUBSET Nat /\ \A x \in N(o) : x <= o
    BY <1>1
  <2> HIDE DEF N
  <2>2. IsFiniteSet(N(o))
    BY <2>1, FS_BoundedSetOfNaturals
  <2> QED
    BY <2>2, FS_CardinalityType
<1>3. Cardinality(N(0)) = 0
  <2>1. N(0) = {}
    BY <1>1
  <2> HIDE DEF N
  <2> QED
    BY <2>1, FS_EmptySet
<1>4. \A k : Offset(c, k) = k + (img.nopSize - 1) * Cardinality(N(k))
  BY DEF Offset
<1> HIDE DEF N
<1>5. (img.nopSize - 1) * Cardinality(N(o)) \in Nat
  <2>1. img.nopSize - 1 \in Nat
    BY <1>1
  <2> QED
    BY <1>2, <2>1
<1>6. (img.nopSize - 1) * Cardinality(N(0)) = 0
  BY <1>1, <1>3
<1> QED
  BY <1>4, <1>5, <1>6

(* The part of the type invariant that is about places.                     *)
PlacesTyped ==
  /\ curSec \in Section \cup {NoSection}
  /\ filled \in [Section \cup {NoSection} -> Nat]
  /\ labels \subseteq Marks
  /\ content \subseteq [block : Block, sec : Section \cup {NoSection}, pos : Nat]
  /\ lost \subseteq Nat

(* How a text for b is laid out in section s, behind n bytes: its labels    *)
(* are those of addresses in b, and the first is at its start.              *)
Laid(text, b, s, n) ==
  /\ text.start \in Nat /\ text.bytes \in Nat
  /\ text.lost \subseteq Nat
  /\ text.start = n \/ (b \in Code /\ IsFunction(b) /\ text.start = Aligned(n, img.addr[b]))
  /\ b \in Code /\ IsFunction(b) /\ text.labels # {} => text.start = Aligned(n, img.addr[b])
  /\ EmptyTakesNothing /\ img.size[b] = 0 => text.bytes = 0
  /\ Whole(b) /\ text.lost = {} => text.bytes = img.size[b]
  /\ text.labels \subseteq Marks
  /\ \A p \in text.labels :
       /\ p.sec = s
       /\ \/ p.addr = img.addr[b] /\ p.pos = text.start
          \/ /\ img.addr[b] < p.addr /\ p.addr < img.addr[b] + img.size[b]
             /\ b \in Code /\ p.pos = text.start + Offset(b, p.addr - img.addr[b])
  /\ \A p, q \in text.labels : p.addr = q.addr => p = q

(* Nothing is printed of a block that is skipped.                           *)
LEMMA NoTextLaid ==
  ASSUME NEW b, NEW s, NEW n \in Nat, SkipEA(img.addr[b])
  PROVE  Laid(NoText(n), b, s, n)
  BY DEF Laid, NoText, Whole

(* The text of a block of code is laid out like that,                       *)
LEMMA BlockTextLaid ==
  ASSUME img \in ImageType, WellFormed(img), NEW c \in Code,
         NEW s \in Section \cup {NoSection}, NEW n \in Nat
  PROVE  Laid(BlockText(c, s, n), c, s, n)
<1>1. CASE SkipEA(img.addr[c])
  BY <1>1, NoTextLaid DEF BlockText
<1>2. CASE ~SkipEA(img.addr[c])
  <2> DEFINE p     == IF IsFunction(c) THEN Aligned(n, img.addr[c]) ELSE n
             heads == IF IsFunction(c) THEN {0} ELSE {}
             O     == {o \in heads \cup img.insns[c] : img.addr[c] + o \in img.syms}
             text  == BlockText(c, s, n)
  <2>1. /\ text.start = p /\ text.bytes = Offset(c, img.decoded[c]) /\ text.lost = {}
        /\ text.labels = {Place(img.addr[c] + o, s, p + Offset(c, o)) : o \in O}
    BY <1>2 DEF BlockText
  <2>2. /\ c \in Block /\ img.addr[c] \in Nat /\ img.size[c] \in Nat
        /\ img.decoded[c] \in Nat /\ img.decoded[c] <= img.size[c]
    BY ImageFacts DEF ImageType, WellFormed, Block
  <2>3. p \in Nat
    BY <2>2, AlignedFacts
  <2>4. O \subseteq Nat /\ \A o \in O : o = 0 \/ o < img.size[c]
    <3>1. \A o \in img.insns[c] : o \in Nat /\ o < img.decoded[c]
      BY DEF ImageType, WellFormed
    <3> QED
      BY <2>2, <3>1
  <2>5. \A o \in Nat : Offset(c, o) \in Nat /\ Offset(c, 0) = 0
    BY OffsetFacts
  <2>6. /\ img.size[c] = 0 => text.bytes = 0
        /\ Whole(c) => text.bytes = img.size[c]
    BY <2>1, <2>2, <2>5 DEF Whole
  <2> HIDE DEF O, text
  <2>7. ASSUME NEW o \in O
        PROVE  LET l == Place(img.addr[c] + o, s, p + Offset(c, o)) IN
               /\ l \in Marks /\ l.sec = s /\ l.addr = img.addr[c] + o
               /\ \/ l.addr = img.addr[c] /\ l.pos = p
                  \/ /\ img.addr[c] < l.addr /\ l.addr < img.addr[c] + img.size[c]
                     /\ l.pos = p + Offset(c, l.addr - img.addr[c])
    <3>1. img.addr[c] + o \in Nat /\ p + Offset(c, o) \in Nat
      BY <2>2, <2>3, <2>4, <2>5
    <3>2. o = 0 => img.addr[c] + o = img.addr[c] /\ p + Offset(c, o) = p
      BY <2>2, <2>3, <2>5
    <3>3. o # 0 => /\ img.addr[c] < img.addr[c] + o /\ img.addr[c] + o < img.addr[c] + img.size[c]
                   /\ (img.addr[c] + o) - img.addr[c] = o
      BY <2>2, <2>4
    <3> HIDE DEF p
    <3> QED
      BY <3>1, <3>2, <3>3 DEF Place, Marks
  <2>8. \A x \in text.labels : \E o \in O : x = Place(img.addr[c] + o, s, p + Offset(c, o))
    BY <2>1
  <2>9. text.labels \subseteq Marks
    BY <2>7, <2>8
  <2>10. ASSUME NEW x \in text.labels
         PROVE  /\ x.sec = s
                /\ \/ x.addr = img.addr[c] /\ x.pos = text.start
                   \/ /\ img.addr[c] < x.addr /\ x.addr < img.addr[c] + img.size[c]
                      /\ x.pos = text.start + Offset(c, x.addr - img.addr[c])
    BY <2>1, <2>7, <2>8
  <2>11. ASSUME NEW x \in text.labels, NEW y \in text.labels, x.addr = y.addr
         PROVE  x = y
    <3>1. PICK o \in O : x = Place(img.addr[c] + o, s, p + Offset(c, o))
      BY <2>8
    <3>2. PICK q \in O : y = Place(img.addr[c] + q, s, p + Offset(c, q))
      BY <2>8
    <3>3. img.addr[c] + o = img.addr[c] + q
      BY <2>7, <2>11, <3>1, <3>2
    <3>4. o = q
      BY <2>2, <2>4, <3>3
    <3> QED
      BY <3>1, <3>2, <3>4
  <2> QED
    <3>1. Laid(text, c, s, n)
      BY <2>1, <2>2, <2>3, <2>5, <2>6, <2>9, <2>10, <2>11 DEF Laid
    <3> QED
      BY <3>1 DEF text
<1> QED
  BY <1>1, <1>2

(* and so is that of a data block, in a comment or not.                     *)
LEMMA DataTextLaid ==
  ASSUME img \in ImageType, WellFormed(img), NEW d \in Data,
         NEW s \in Section \cup {NoSection}, NEW n \in Nat, NEW inComment \in BOOLEAN
  PROVE  Laid(DataText(d, s, n, inComment), d, s, n)
<1> DEFINE text  == DataText(d, s, n, inComment)
           bytes == IF Excluded(d) THEN 0 ELSE DataSize(d)
           first == IF Excluded(d) THEN 0 ELSE FirstLine(d)
<1>1. d \in Block /\ d \notin Code /\ img.addr[d] \in Nat /\ img.size[d] \in Nat
  BY ImageFacts, BlockAssumption DEF Block
<1>2. img.zeros[d] \in Nat /\ img.zeros[d] <= img.size[d]
  <2>1. img.zeros[d] \in Nat
    BY DEF ImageType
  <2>2. img.zeros[d] <= img.size[d]
    BY DEF WellFormed
  <2> QED
    BY <2>1, <2>2
<1>3. SymbolicSize(d) \in Nat
  <2>1. DirectiveOf(d) \in Directive
    BY DEF DirectiveOf, Directive, ImageType
  <2> QED
    BY <2>1 DEF SymbolicSize, ImageType
<1>4. DataSize(d) \in Nat /\ FirstLine(d) \in Nat /\ FirstLine(d) <= DataSize(d)
  BY <1>1, <1>2, <1>3 DEF DataSize, FirstLine, StringSize, AllZero
<1>5. bytes \in Nat /\ first \in Nat /\ bytes - first \in Nat
  BY <1>4
<1>6. ASSUME EmptyTakesNothing, img.size[d] = 0
      PROVE  bytes = 0 /\ bytes - first = 0
  <2>1. DataSize(d) = 0
    BY <1>2, <1>6 DEF DataSize, AllZero, EmptyTakesNothing
  <2> QED
    BY <1>4, <2>1
<1> HIDE DEF bytes, first
<1>7. CASE SkipEA(img.addr[d])
  BY <1>7, NoTextLaid DEF DataText
<1>8. CASE ~SkipEA(img.addr[d])
  <2>1. /\ text.start = n
        /\ text.bytes = bytes \/ text.bytes = bytes - first
        /\ text.lost = {} => text.bytes = bytes \/ ~(first > 0)
        /\ text.lost \subseteq {img.addr[d]}
        /\ text.labels \subseteq {Place(img.addr[d], s, n)}
    BY <1>8 DEF DataText, bytes, first
  <2>2. /\ Place(img.addr[d], s, n) \in Marks
        /\ Place(img.addr[d], s, n).addr = img.addr[d]
        /\ Place(img.addr[d], s, n).sec = s
        /\ Place(img.addr[d], s, n).pos = n
    BY <1>1 DEF Place, Marks
  <2> HIDE DEF text
  <2>3. text.bytes \in Nat /\ (EmptyTakesNothing /\ img.size[d] = 0 => text.bytes = 0)
    BY <1>5, <1>6, <2>1
  <2>4. Whole(d) /\ text.lost = {} => text.bytes = img.size[d]
    <3>1. Whole(d) => bytes = img.size[d]
      BY <1>1 DEF Whole, bytes
    <3> QED
      BY <1>5, <2>1, <3>1
  <2> QED
    <3>1. Laid(text, d, s, n)
      BY <1>1, <2>1, <2>2, <2>3, <2>4 DEF Laid
    <3> QED
      BY <3>1 DEF text
<1> QED
  BY <1>7, <1>8

(* What an iteration that prints b writes.                                  *)
LEMMA PutLaid ==
  ASSUME img \in ImageType, WellFormed(img), PlacesTyped, commented \in BOOLEAN,
         NEW b \in Block, Prints(b)
  PROVE  \E s, text, open :
           /\ s \in Section \cup {NoSection}
           /\ SectionFor(b, s) /\ Put(b, s, text, open) /\ open \in BOOLEAN
           /\ AfterHeader(img.addr[b], s) \in Nat
           /\ Laid(text, b, s, AfterHeader(img.addr[b], s))
<1>1. img.addr[b] \in Nat
  BY ImageFacts
<1>2. ASSUME NEW s \in Section \cup {NoSection} PROVE AfterHeader(img.addr[b], s) \in Nat
  <2>1. filled[s] \in Nat
    BY DEF PlacesTyped
  <2> QED
    BY <1>1, <2>1, AlignedFacts DEF AfterHeader
<1>3. CASE b \in Code /\ PrintCode(b)
  <2>1. PICK s \in Section \cup {NoSection} :
          /\ SectionFor(b, s)
          /\ Put(b, s, BlockText(b, s, AfterHeader(img.addr[b], s)),
                 StillCommented(b) /\ SkipEA(img.addr[b]))
    BY <1>3 DEF PrintCode
  <2> DEFINE text == BlockText(b, s, AfterHeader(img.addr[b], s))
             open == StillCommented(b) /\ SkipEA(img.addr[b])
  <2>2. Laid(text, b, s, AfterHeader(img.addr[b], s))
    BY <1>2, <1>3, BlockTextLaid
  <2>3. open \in BOOLEAN /\ Put(b, s, text, open)
    BY <2>1
  <2> HIDE DEF text, open
  <2> QED
    BY <1>2, <2>1, <2>2, <2>3
<1>4. CASE b \in Data /\ PrintData(b)
  <2>1. PICK s \in Section \cup {NoSection} :
          /\ SectionFor(b, s)
          /\ LET text == DataText(b, s, AfterHeader(img.addr[b], s), StillCommented(b))
             IN  Put(b, s, text,
                     /\ StillCommented(b)
                     /\ SkipEA(img.addr[b]) \/ (Excluded(b) /\ text.lost = {}))
    BY <1>4 DEF PrintData
  <2> DEFINE text == DataText(b, s, AfterHeader(img.addr[b], s), StillCommented(b))
             open == /\ StillCommented(b)
                     /\ SkipEA(img.addr[b]) \/ (Excluded(b) /\ text.lost = {})
  <2>2. Laid(text, b, s, AfterHeader(img.addr[b], s))
    <3>1. StillCommented(b) \in BOOLEAN
      BY DEF StillCommented
    <3> QED
      BY <1>2, <1>4, <3>1, DataTextLaid
  <2>3. open \in BOOLEAN /\ Put(b, s, text, open)
    BY <2>1
  <2> HIDE DEF text, open
  <2> QED
    BY <1>2, <2>1, <2>2, <2>3
<1> QED
  BY <1>3, <1>4 DEF Prints

(* Everything that is placed has a place.                                   *)
LEMMA PlacesStep ==
  ASSUME img \in ImageType, WellFormed(img), IInv, PlacesTyped, commented \in BOOLEAN, [Next]_vars
  PROVE  PlacesTyped' /\ commented' \in BOOLEAN
<1>1. ASSUME NEW b \in L!First, Prints(b)
      PROVE  PlacesTyped' /\ commented' \in BOOLEAN
  <2>1. b \in Block
    BY DEF L!First, L!Todo
  <2>2. PICK s, text, open :
           /\ s \in Section \cup {NoSection}
           /\ Put(b, s, text, open) /\ open \in BOOLEAN
           /\ Laid(text, b, s, AfterHeader(img.addr[b], s))
    BY <1>1, <2>1, PutLaid
  <2>3. last \in Nat
    BY DEF IInv, WalkTyped
  <2>4. /\ text.start \in Nat /\ text.bytes \in Nat /\ text.lost \subseteq Nat
        /\ text.labels \subseteq Marks
    BY <2>2 DEF Laid
  <2>5. Place(last, curSec, filled[curSec]) \in Marks
    BY <2>3 DEF Place, Marks, PlacesTyped
  <2>6. labels' \subseteq Marks
    <3>1. labels' \subseteq labels \cup text.labels \cup {Place(last, curSec, filled[curSec])}
      BY <2>2 DEF Put
    <3> QED
      BY <2>4, <2>5, <3>1 DEF PlacesTyped
  <2>7. lost' \subseteq Nat
    <3>1. lost' \subseteq lost \cup text.lost \cup {last}
      BY <2>2 DEF Put
    <3> QED
      BY <2>3, <2>4, <3>1 DEF PlacesTyped
  <2>8. content' \subseteq [block : Block, sec : Section \cup {NoSection}, pos : Nat]
    <3>1. content' \subseteq content \cup {[block |-> b, sec |-> s, pos |-> text.start]}
      BY <2>2 DEF Put
    <3> QED
      BY <2>1, <2>2, <2>4, <3>1 DEF PlacesTyped
  <2>9. filled' \in [Section \cup {NoSection} -> Nat]
    <3>1. filled' = [filled EXCEPT ![s] = text.start + text.bytes]
      BY <2>2 DEF Put
    <3> QED
      BY <2>2, <2>4, <3>1 DEF PlacesTyped
  <2>10. curSec' \in Section \cup {NoSection} /\ commented' \in BOOLEAN
    BY <2>2 DEF Put
  <2> QED
    BY <2>6, <2>7, <2>8, <2>9, <2>10 DEF PlacesTyped
<1>2. ASSUME NEW b \in L!First, Warn(b)
      PROVE  PlacesTyped' /\ commented' \in BOOLEAN
  BY <1>2 DEF Warn, PlacesTyped
<1>3. CASE Finish
  <2>1. last \in Nat
    BY DEF IInv, WalkTyped
  <2>2. Place(last, curSec, filled[curSec]) \in Marks
    BY <2>1 DEF Place, Marks, PlacesTyped
  <2>3. /\ labels' \subseteq labels \cup {Place(last, curSec, filled[curSec])}
        /\ lost' \subseteq lost \cup {last}
        /\ UNCHANGED <<curSec, filled, content>> /\ commented' = FALSE
    BY <1>3 DEF Finish
  <2> QED
    BY <2>1, <2>2, <2>3 DEF PlacesTyped
<1>4. CASE UNCHANGED vars
  BY <1>4 DEF vars, PlacesTyped
<1> QED
  BY <1>1, <1>2, <1>3, <1>4, TurnPrints DEF Next, IInv

(* Nothing is assembled for an empty block.                                 *)
NoneEmpty == EmptyTakesNothing => \A x \in content : img.size[x.block] > 0

(* A text of no bytes adds nothing to the content.                          *)
LEMMA NoneEmptyStep ==
  ASSUME img \in ImageType, WellFormed(img), IInv, PlacesTyped, commented \in BOOLEAN,
         NoneEmpty, [Next]_vars
  PROVE  NoneEmpty'
<1>0. img' = img => (EmptyTakesNothing' <=> EmptyTakesNothing)
  BY DEF EmptyTakesNothing, SymbolicSize, DirectiveOf
<1>1. ASSUME NEW b \in L!First, Prints(b)
      PROVE  NoneEmpty'
  <2>1. b \in Block /\ img.size[b] \in Nat
    BY ImageFacts DEF L!First, L!Todo
  <2>2. PICK s, text, open :
           /\ Put(b, s, text, open)
           /\ Laid(text, b, s, AfterHeader(img.addr[b], s))
    BY <1>1, <2>1, PutLaid
  <2>3. EmptyTakesNothing /\ text.bytes # 0 => img.size[b] > 0
    BY <2>1, <2>2 DEF Laid
  <2>4. /\ img' = img
        /\ content' = IF text.bytes = 0 THEN content
                      ELSE content \cup {[block |-> b, sec |-> s, pos |-> text.start]}
    BY <2>2 DEF Put
  <2> QED
    BY <1>0, <2>3, <2>4 DEF NoneEmpty
<1>2. \A b : Warn(b) => img' = img /\ content' = content
  BY DEF Warn
<1>3. Finish \/ UNCHANGED vars => img' = img /\ content' = content
  BY DEF Finish, vars
<1> QED
  BY <1>0, <1>1, <1>2, <1>3, TurnPrints DEF Next, IInv, NoneEmpty

(* The labels at last are where the listing has come to, and headers of     *)
(* blocks that may follow at last do not move it.                           *)
AtEnd ==
  \A p \in labels :
    /\ p.addr <= last
    /\ p.addr = last =>
         /\ p.sec = curSec /\ p.pos = filled[curSec]
         /\ Headed(last) # {} => curSec \in Headed(last)
         /\ curSec \in Headed(last) \ img.arraySec =>
              Aligned(filled[curSec], last) = filled[curSec]
         /\ \A c \in Todo(Code) : img.addr[c] = last /\ IsFunction(c) =>
              Aligned(filled[curSec], last) = filled[curSec]

(* Until print returns; then LabelOnce is all that is left to say.          *)
LabelsPlaced ==
  /\ EmptyTakesNothing /\ pc = "printing" => AtEnd
  /\ LabelOnce

(* A block that starts at last, where a label is, starts at that label.     *)
LEMMA StartsAtLabel ==
  ASSUME img \in ImageType, WellFormed(img), PlacesTyped, AtEnd,
         NEW b \in Block, status[b] = "todo", img.addr[b] = last,
         NEW s \in Section \cup {NoSection}, SectionFor(b, s),
         NEW text, Laid(text, b, s, AfterHeader(last, s)),
         NEW p \in labels, p.addr = last
  PROVE  /\ s = curSec /\ text.start = filled[curSec]
         /\ p.sec = s /\ p.pos = text.start
<1>1. /\ p.sec = curSec /\ p.pos = filled[curSec]
      /\ Headed(last) # {} => curSec \in Headed(last)
      /\ curSec \in Headed(last) \ img.arraySec => Aligned(filled[curSec], last) = filled[curSec]
      /\ \A c \in Todo(Code) : img.addr[c] = last /\ IsFunction(c) =>
           Aligned(filled[curSec], last) = filled[curSec]
  BY DEF AtEnd
<1>2. s = curSec
  BY <1>1, HeadedFacts DEF SectionFor
<1>3. AfterHeader(last, s) = filled[curSec]
  BY <1>1, <1>2 DEF AfterHeader
<1>4. b \in Code /\ IsFunction(b) => Aligned(filled[curSec], last) = filled[curSec]
  BY <1>1 DEF Todo
<1> QED
  BY <1>1, <1>2, <1>3, <1>4 DEF Laid

(* Printing a block defines no label a second time, and leaves the labels   *)
(* at its end where the listing has come to.                                *)
LEMMA PrintPlaced ==
  ASSUME img \in ImageType, WellFormed(img), IInv, PlacesTyped, commented \in BOOLEAN,
         EmptyTakesNothing, AtEnd, \A p, q \in labels : p.addr = q.addr => p = q,
         NEW b \in L!First, Prints(b)
  PROVE  AtEnd' /\ \A p, q \in labels' : p.addr = q.addr => p = q
<1> DEFINE a == img.addr[b]
           gap == Place(last, curSec, filled[curSec])
<1>1. /\ b \in Block /\ status[b] = "todo" /\ img' = img /\ last <= a
      /\ status' = [status EXCEPT ![b] = "printed"] /\ last' = a + img.size[b]
  BY PrintShape DEF L!First, L!Todo, Prints
<1>2. a \in Nat /\ img.size[b] \in Nat /\ last \in Nat
  BY <1>1, ImageFacts DEF IInv, WalkTyped
<1>3. PICK s, text, open :
        /\ s \in Section \cup {NoSection}
        /\ SectionFor(b, s) /\ Put(b, s, text, open)
        /\ AfterHeader(a, s) \in Nat
        /\ Laid(text, b, s, AfterHeader(a, s))
  BY <1>1, PutLaid
<1>4. /\ curSec' = s /\ filled' = [filled EXCEPT ![s] = text.start + text.bytes]
      /\ labels' \subseteq labels \cup text.labels \cup (IF GapLabel(b) THEN {gap} ELSE {})
  BY <1>3 DEF Put
<1>5. \A x \in labels' : x \in labels \/ x \in text.labels \/ (x = gap /\ a > last)
  BY <1>4 DEF GapLabel
<1>6. gap.addr = last /\ gap.sec = curSec /\ gap.pos = filled[curSec]
  BY DEF Place
<1> HIDE DEF gap
<1>7. \A x \in labels : x.addr \in Nat /\ x.addr <= last
  BY DEF AtEnd, PlacesTyped, Marks
<1>8. \A x \in text.labels :
        /\ x.addr \in Nat /\ x.sec = s
        /\ (x.addr = a /\ x.pos = text.start) \/ (a < x.addr /\ x.addr < a + img.size[b])
  BY <1>3 DEF Laid, Marks
<1>9. \A x \in labels : x.addr = a => /\ a = last /\ s = curSec /\ text.start = filled[curSec]
                                     /\ x.sec = s /\ x.pos = text.start
  <2> SUFFICES ASSUME NEW x \in labels, x.addr = a
               PROVE  /\ a = last /\ s = curSec /\ text.start = filled[curSec]
                      /\ x.sec = s /\ x.pos = text.start
    OBVIOUS
  <2>1. a = last
    BY <1>1, <1>2, <1>7
  <2> QED
    BY <1>1, <1>3, <2>1, StartsAtLabel
<1>10. \A x, y \in labels' : x.addr = y.addr => x = y
  <2>1. ASSUME NEW x \in labels, NEW y \in text.labels, x.addr = y.addr
        PROVE  x = y
    <3>1. x.addr = a /\ y.addr = a /\ y.pos = text.start /\ y.sec = s
      BY <1>1, <1>2, <1>7, <1>8, <2>1
    <3>2. x.sec = s /\ x.pos = text.start
      BY <1>9, <3>1
    <3>3. x \in Marks /\ y \in Marks
      BY <1>3 DEF Laid, PlacesTyped
    <3> QED
      BY <3>1, <3>2, <3>3 DEF Marks
  <2>2. ASSUME NEW x \in labels, x.addr = last PROVE x = gap
    <3>1. x \in Marks /\ x.sec = curSec /\ x.pos = filled[curSec]
      BY <2>2 DEF PlacesTyped, AtEnd
    <3>2. gap \in Marks
      BY <1>2 DEF gap, Place, Marks, PlacesTyped
    <3> QED
      BY <1>6, <2>2, <3>1, <3>2 DEF Marks
  <2>3. ASSUME NEW x \in text.labels, a > last PROVE x.addr # last
    BY <1>2, <1>8, <2>3
  <2>4. \A x, y \in text.labels : x.addr = y.addr => x = y
    BY <1>3 DEF Laid
  <2> QED
    BY <1>5, <1>6, <2>1, <2>2, <2>3, <2>4
<1>11. AtEnd'
  <2> SUFFICES ASSUME NEW x \in labels'
               PROVE  /\ x.addr <= last'
                      /\ x.addr = last' =>
                           /\ x.sec = curSec' /\ x.pos = filled'[curSec']
                           /\ Headed(last') # {} => curSec' \in Headed(last')
                           /\ curSec' \in Headed(last') \ img.arraySec =>
                                Aligned(filled'[curSec'], last') = filled'[curSec']
                           /\ \A c \in Todo(Code)' : img.addr[c] = last' /\ IsFunction(c) =>
                                Aligned(filled'[curSec'], last') = filled'[curSec']
    BY <1>1 DEF AtEnd, Headed, IsFunction
  <2>1. x.addr <= last'
    BY <1>1, <1>2, <1>5, <1>6, <1>7, <1>8
  <2> SUFFICES ASSUME x.addr = last'
               PROVE  /\ x.sec = curSec' /\ x.pos = filled'[curSec']
                      /\ Headed(last') # {} => curSec' \in Headed(last')
                      /\ curSec' \in Headed(last') \ img.arraySec =>
                           Aligned(filled'[curSec'], last') = filled'[curSec']
                      /\ \A c \in Todo(Code)' : img.addr[c] = last' /\ IsFunction(c) =>
                           Aligned(filled'[curSec'], last') = filled'[curSec']
    BY <2>1
  <2>2. x.addr = a /\ last' = a /\ img.size[b] = 0 /\ (x \in labels \/ x \in text.labels)
    <3>1. CASE x \in labels
      BY <1>1, <1>2, <1>7, <3>1
    <3>2. CASE x \in text.labels
      BY <1>1, <1>2, <1>8, <3>2
    <3>3. CASE x = gap /\ a > last
      BY <1>1, <1>2, <1>6, <3>3
    <3> QED
      BY <1>5, <3>1, <3>2, <3>3
  <2>3. filled'[s] = text.start
    <3>1. text.bytes = 0 /\ text.start \in Nat
      BY <1>3, <2>2 DEF Laid
    <3> QED
      BY <1>3, <1>4, <3>1 DEF PlacesTyped
  <2>4. x.sec = s /\ x.pos = text.start
    BY <1>8, <1>9, <2>2
  <2>5. \A m \in Nat : Aligned(m, a) \in Nat /\ Aligned(Aligned(m, a), a) = Aligned(m, a)
    BY <1>2, AlignedFacts
  <2>6. Headed(a) # {} => s \in Headed(a)
    BY <1>3 DEF SectionFor
  <2>7. ASSUME s \in Headed(a) \ img.arraySec
        PROVE  Aligned(text.start, a) = text.start
    <3>1. AfterHeader(a, s) = Aligned(filled[s], a) /\ filled[s] \in Nat
      BY <1>3, <2>7 DEF AfterHeader, PlacesTyped
    <3> QED
      BY <1>3, <2>5, <3>1 DEF Laid
  <2>8. ASSUME NEW c \in Todo(Code)', img.addr[c] = a, IsFunction(c)
        PROVE  Aligned(text.start, a) = text.start
    <3>1. c \in Todo(Code)
      BY <1>1 DEF Todo, IInv, WalkTyped, Block
    <3>2. CASE x \in labels
      <4>1. a = last /\ text.start = filled[curSec]
        BY <1>9, <2>2, <3>2
      <4> QED
        BY <2>2, <2>8, <3>1, <3>2, <4>1 DEF AtEnd
    <3>3. CASE x \in text.labels
      <4>1. b \in Code
        BY <1>2, <2>8, <3>1 DEF Prints
      <4>2. text.start = Aligned(AfterHeader(a, s), a)
        BY <1>3, <2>8, <3>3, <4>1 DEF Laid, IsFunction
      <4> QED
        BY <1>3, <2>5, <4>2
    <3> QED
      BY <2>2, <3>2, <3>3
  <2> HIDE DEF a
  <2> QED
    BY <1>4, <2>2, <2>3, <2>4, <2>6, <2>7, <2>8
<1> QED
  BY <1>10, <1>11

(* This holds throughout.                                                   *)
LEMMA LabelsPlacedAlways ==
  Spec => [](PlacesTyped /\ commented \in BOOLEAN /\ LabelsPlaced)
<1>1. Init => PlacesTyped /\ commented \in BOOLEAN /\ LabelsPlaced
  <2> SUFFICES ASSUME Init PROVE PlacesTyped /\ commented \in BOOLEAN /\ LabelsPlaced
    OBVIOUS
  <2>1. /\ curSec = NoSection /\ filled = [s \in Section \cup {NoSection} |-> 0]
        /\ labels = {} /\ content = {} /\ lost = {} /\ commented = FALSE
    BY DEF Init, Start
  <2> QED
    BY <2>1 DEF PlacesTyped, LabelsPlaced, AtEnd, LabelOnce
<1>2. /\ img \in ImageType /\ WellFormed(img) /\ IInv /\ PlacesTyped /\ commented \in BOOLEAN
      /\ LabelsPlaced /\ [Next]_vars
      => (PlacesTyped /\ commented \in BOOLEAN /\ LabelsPlaced)'
  <2> SUFFICES ASSUME img \in ImageType, WellFormed(img), IInv, PlacesTyped,
                      commented \in BOOLEAN, LabelsPlaced, [Next]_vars
               PROVE  LabelsPlaced'
    BY PlacesStep
  <2>0. img' = img => (EmptyTakesNothing' <=> EmptyTakesNothing)
    BY DEF EmptyTakesNothing, SymbolicSize, DirectiveOf
  <2>1. ASSUME NEW b \in L!First, Prints(b) PROVE LabelsPlaced'
    <3>1. img' = img /\ pc = "printing"
      BY <2>1, PrintShape DEF Prints
    <3>2. EmptyTakesNothing => AtEnd' /\ \A p, q \in labels' : p.addr = q.addr => p = q
      BY <2>1, <3>1, PrintPlaced DEF LabelsPlaced, LabelOnce
    <3> QED
      BY <2>0, <3>1, <3>2 DEF LabelsPlaced, LabelOnce
  <2>2. ASSUME NEW b \in L!First, Warn(b) PROVE LabelsPlaced'
    <3>1. /\ img' = img /\ pc' = pc /\ labels' = labels /\ last' = last /\ curSec' = curSec
          /\ filled' = filled /\ status' = [status EXCEPT ![b] = "warned"]
      BY <2>2 DEF Warn
    <3>2. Todo(Code)' \subseteq Todo(Code)
      BY <3>1 DEF Todo, IInv, WalkTyped, Block
    <3>3. AtEnd => AtEnd'
      BY <3>1, <3>2 DEF AtEnd, Headed, IsFunction
    <3> QED
      BY <2>0, <3>1, <3>3 DEF LabelsPlaced, LabelOnce
  <2>3. CASE Finish
    <3>1. /\ img' = img /\ pc' = "done" /\ pc = "printing"
          /\ labels' \subseteq labels \cup {Place(last, curSec, filled[curSec])}
      BY <2>3 DEF Finish
    <3>2. ASSUME EmptyTakesNothing, NEW x \in labels, x.addr = last
          PROVE  x = Place(last, curSec, filled[curSec])
      <4>1. AtEnd
        BY <3>1, <3>2 DEF LabelsPlaced
      <4>2. x \in Marks /\ x.sec = curSec /\ x.pos = filled[curSec]
        BY <3>2, <4>1 DEF PlacesTyped, AtEnd
      <4> QED
        BY <3>2, <4>2 DEF Marks, Place
    <3>3. Place(last, curSec, filled[curSec]).addr = last
      BY DEF Place
    <3> QED
      BY <2>0, <3>1, <3>2, <3>3 DEF LabelsPlaced, LabelOnce
  <2>4. CASE UNCHANGED vars
    BY <2>0, <2>4 DEF vars, LabelsPlaced, LabelOnce, AtEnd, Headed, Todo, IsFunction
  <2> QED
    BY <2>1, <2>2, <2>3, <2>4, TurnPrints DEF Next, IInv
<1>3. Spec => []IInv
  BY InitIInv, IInvStep, PTL DEF Spec
<1> QED
  BY ImgWellFormed, <1>1, <1>2, <1>3, PTL DEF Spec

(* No label is defined at two places, in listings of modules of every       *)
(* shape, with and without overlaps, headers and skipped parts.             *)
THEOREM LabelsAreDefinedOnce == Spec => []LabelOnce
<1>1. LabelsPlaced => LabelOnce
  BY DEF LabelsPlaced
<1> QED
  BY LabelsPlacedAlways, <1>1, PTL

-------------------------------------------------------------------------------
(* Distances *)

(* Where the start of the section is a multiple of 16, alignment directives *)
(* for the address a byte has put no padding in front of it.                *)
LEMMA AlignedKept ==
  ASSUME NEW n \in Nat, NEW base \in Nat, base % 16 = 0
  PROVE  Aligned(n, base + n) = n
<1> DEFINE a == base + n
           m == CHOOSE m \in {1, 2, 4, 8, 16} :
                  a % m = 0 /\ \A k \in {1, 2, 4, 8, 16} : a % k = 0 => k <= m
<1>0. a \in Nat
  OBVIOUS
<1>1. m \in {1, 2, 4, 8, 16} /\ a % m = 0
  BY <1>0, Divisor
<1>2. Aligned(n, a) = ((n + m - 1) \div m) * m
  BY DEF Aligned
<1> HIDE DEF m
<1>3. m = 1 \/ m = 2 \/ m = 4 \/ m = 8 \/ m = 16
  BY <1>1
<1>4. ((n + m - 1) \div m) * m = n
  BY <1>1, <1>3
<1> QED
  BY <1>2, <1>4

(* Nothing is aligned to more than nothing.                                 *)
LEMMA AlignedZero == ASSUME NEW a \in Nat PROVE Aligned(0, a) = 0
<1> DEFINE m == CHOOSE m \in {1, 2, 4, 8, 16} :
                  a % m = 0 /\ \A k \in {1, 2, 4, 8, 16} : a % k = 0 => k <= m
<1>1. m \in {1, 2, 4, 8, 16}
  BY Divisor
<1>2. Aligned(0, a) = ((0 + m - 1) \div m) * m
  BY DEF Aligned
<1> HIDE DEF m
<1>3. m = 1 \/ m = 2 \/ m = 4 \/ m = 8 \/ m = 16
  BY <1>1
<1> QED
  BY <1>2, <1>3

(* In a block to which no-ops add nothing, each instruction stays in place. *)
LEMMA OffsetWhole ==
  ASSUME img \in ImageType, NEW c \in Code, NEW k \in Nat, NEW o \in Nat, o <= k,
         Offset(c, k) = k
  PROVE  Offset(c, o) = o
<1>1. img.nops[c] \subseteq Nat /\ img.nopSize \in Nat /\ img.nopSize > 0
  BY DEF ImageType
<1> DEFINE N(j) == {x \in img.nops[c] : x < j}
<1>2. IsFiniteSet(N(k)) /\ Cardinality(N(k)) \in Nat
  <2>1. N(k) \in SUBSET Nat /\ \A x \in N(k) : x <= k
    BY <1>1
  <2> HIDE DEF N
  <2>2. IsFiniteSet(N(k))
    BY <2>1, FS_BoundedSetOfNaturals
  <2> QED
    BY <2>2, FS_CardinalityType
<1>3. N(o) \subseteq N(k)
  BY <1>1
<1>4. \A j : Offset(c, j) = j + (img.nopSize - 1) * Cardinality(N(j))
  BY DEF Offset
<1> HIDE DEF N
<1>5. Cardinality(N(o)) \in Nat
  BY <1>2, <1>3, FS_Subset, FS_CardinalityType
<1>6. (img.nopSize - 1) * Cardinality(N(k)) = 0
  <2>1. img.nopSize - 1 \in Nat
    BY <1>1
  <2>2. (img.nopSize - 1) * Cardinality(N(k)) \in Nat
    BY <1>2, <2>1
  <2> QED
    BY <1>4, <2>2
<1>7. img.nopSize = 1 \/ Cardinality(N(k)) = 0
  BY <1>1, <1>2, <1>6
<1>8. CASE img.nopSize = 1
  BY <1>4, <1>5, <1>8
<1>9. CASE Cardinality(N(k)) = 0
  <2>1. N(o) = {}
    BY <1>2, <1>3, <1>9, FS_EmptySet
  <2>2. Cardinality(N(o)) = 0
    BY <2>1, FS_EmptySet
  <2> QED
    BY <1>1, <1>4, <2>2
<1> QED
  BY <1>7, <1>8, <1>9

(* What could be printed completely depends on the module only.             *)
LEMMA WholeDependsOnImg ==
  ASSUME img' = img, NEW b
  PROVE  Whole(b)' <=> Whole(b)
<1>1. SkipEA(img.addr[b])' <=> SkipEA(img.addr[b])
  BY SkipDependsOnImg
<1>2. Excluded(b)' <=> Excluded(b)
  BY SkipDependsOnImg DEF Excluded, Containers
<1>3. DataSize(b)' = DataSize(b)
  BY DEF DataSize, SymbolicSize, AllZero, StringSize, DirectiveOf
<1>4. Offset(b, img.size[b])' = Offset(b, img.size[b])
  BY DEF Offset
<1> QED
  BY <1>1, <1>2, <1>3, <1>4 DEF Whole

(* What is printed from last on fills no gap in front of it.                *)
LEMMA SolidBack ==
  ASSUME img \in ImageType, WellFormed(img), IInv, img' = img,
         NEW b \in Block, status' = [status EXCEPT ![b] = "printed"], status[b] = "todo",
         NEW s \in Section, NEW x \in Nat, x <= img.addr[b], Solid(s, x)'
  PROVE  Solid(s, x)
<1>1. \A f \in Block : img.addr[f] \in Nat /\ img.size[f] \in Nat
  BY ImageFacts
<1>2. img.base[s] \in Int
  BY ImageFacts
<1> SUFFICES ASSUME NEW y \in img.base[s] .. (x - 1)
             PROVE  \E f \in Block : /\ img.addr[f] <= y /\ y < img.addr[f] + img.size[f]
                                    /\ Exact(f)
  BY DEF Solid
<1>3. PICK f \in Block : img.addr[f] <= y /\ y < img.addr[f] + img.size[f] /\ Exact(f)'
  BY DEF Solid
<1>4. f # b
  BY <1>1, <1>2, <1>3
<1>5. Exact(f)
  BY <1>3, <1>4, WholeDependsOnImg DEF Exact, IInv, WalkTyped
<1> QED
  BY <1>3, <1>5

(* Every byte in front of x has been passed, if none is missing.            *)
LEMMA SolidPassed ==
  ASSUME img \in ImageType, WellFormed(img), IInv,
         NEW s \in Section, NEW x \in Nat, Solid(s, x), img.base[s] < x
  PROVE  x <= last
<1>1. \A f \in Block : img.addr[f] \in Nat /\ img.size[f] \in Nat
  BY ImageFacts
<1>2. img.base[s] \in Int /\ last \in Nat
  BY ImageFacts DEF IInv, WalkTyped
<1>3. x - 1 \in img.base[s] .. (x - 1)
  BY <1>2
<1>4. PICK f \in Block : /\ x - 1 < img.addr[f] + img.size[f] /\ status[f] = "printed"
  BY <1>3 DEF Solid, Exact
<1>5. img.addr[f] + img.size[f] <= last
  BY <1>4 DEF IInv, LastIsEnd
<1> QED
  BY <1>1, <1>2, <1>4, <1>5

(* The assembler is in the section that last lies in, once it was entered.  *)
LEMMA EnteredCurrent ==
  ASSUME img \in ImageType, WellFormed(img), IInv, Led, Current, DistinctStarts,
         NEW s \in Section, Entered(s), img.base[s] <= last, last < img.base[s] + img.extent[s],
         \A f \in Block : img.addr[f] = img.base[s] => Decided(f)
  PROVE  curSec = s
<1>1. \A f \in Block : img.addr[f] \in Nat /\ img.size[f] \in Nat
  BY ImageFacts
<1>2. img.base[s] \in Int /\ img.extent[s] \in Nat /\ last \in Nat
  BY ImageFacts DEF IInv, WalkTyped
<1>3. PICK f \in Block : img.addr[f] = img.base[s]
  BY DEF Entered
<1>4. img.extent[s] > 0
  BY <1>2
<1>5. \E g \in Block : status[g] = "printed" /\ img.addr[g] = img.base[s]
  BY <1>3, <1>4 DEF Led
<1>6. \A h \in Block : status[h] = "printed" => img.addr[h] < img.base[s] + img.extent[s]
  BY <1>1, <1>2 DEF IInv, LastIsEnd
<1> QED
  BY <1>5, <1>6 DEF Current, Entered

(* How far the assembler has come in each section: not at all, if it starts *)
(* behind last; and as far as last, if it lies in the section and no byte   *)
(* is missing.                                                              *)
Unfilled == \A s \in Section : last <= img.base[s] => filled[s] = 0

InStep ==
  lost = {} => \A s \in Section :
    /\ Entered(s) /\ Solid(s, last)
    /\ img.base[s] <= last /\ last <= img.base[s] + img.extent[s]
    => filled[s] = last - img.base[s]

StartedOnly == curSec \in Section => img.base[curSec] <= last

(* A block that is put where no byte is missing in front of it is put into  *)
(* its section, at its distance from the start.                             *)
LEMMA PutSpot ==
  ASSUME img \in ImageType, WellFormed(img), IInv, Led, Current, PlacesTyped,
         DistinctStarts, Unfilled, InStep, lost = {},
         NEW b \in L!First, last <= img.addr[b],
         NEW s \in Containers(img.addr[b]), Entered(s), Solid(s, img.addr[b]),
         NEW t \in Section \cup {NoSection}, SectionFor(b, t),
         NEW text, Laid(text, b, t, AfterHeader(img.addr[b], t))
  PROVE  t = s /\ text.start = img.addr[b] - img.base[s]
<1> DEFINE a == img.addr[b]
<1>1. b \in Block /\ \A f \in Block : ~Decided(f) => a <= img.addr[f]
  BY DEF L!First, L!Todo, Decided
<1>2. /\ s \in Section /\ img.base[s] \in Nat /\ img.extent[s] \in Nat /\ a \in Nat /\ last \in Nat
      /\ img.base[s] <= a /\ a < img.base[s] + img.extent[s]
  BY <1>1, ImageFacts DEF Containers, OnSection, IInv, WalkTyped, Entered
<1>3. img.base[s] % 16 = 0 /\ s \notin img.skipSec
  BY DEF Entered
<1>4. filled[t] \in Nat
  BY DEF PlacesTyped
<1>5. CASE img.base[s] = a
  <2>1. t = s
    BY <1>2, <1>3, <1>5, HeadedFacts DEF SectionFor
  <2>2. filled[t] = 0
    BY <1>2, <1>5, <2>1 DEF Unfilled
  <2>3. AfterHeader(a, t) = 0
    BY <1>2, <2>2, AlignedZero DEF AfterHeader
  <2>4. text.start = 0
    BY <1>2, <2>3, AlignedZero DEF Laid
  <2> QED
    BY <1>2, <1>5, <2>1, <2>4
<1>6. CASE img.base[s] < a
  <2>1. a = last
    BY <1>2, <1>6, SolidPassed
  <2>2. curSec = s
    <3>1. \A f \in Block : img.addr[f] = img.base[s] => Decided(f)
      BY <1>1, <1>2, <1>6
    <3> QED
      BY <1>2, <2>1, <3>1, EnteredCurrent
  <2>3. Headed(a) = {}
    <3> SUFFICES ASSUME NEW u \in Headed(a) PROVE FALSE
      OBVIOUS
    <3>1. u \in Section /\ img.base[u] = a /\ img.extent[u] \in Nat
      BY HeadedFacts, ImageFacts
    <3> QED
      BY <1>2, <1>6, <3>1, ImageFacts
  <2>4. t = s
    BY <2>2, <2>3 DEF SectionFor
  <2>5. filled[s] = a - img.base[s]
    BY <1>2, <1>6, <2>1 DEF InStep
  <2>6. AfterHeader(a, t) = a - img.base[s]
    BY <2>3, <2>4, <2>5 DEF AfterHeader
  <2>7. a - img.base[s] \in Nat /\ img.base[s] + (a - img.base[s]) = a
    BY <1>2
  <2>8. Aligned(a - img.base[s], a) = a - img.base[s]
    BY <1>2, <1>3, <2>7, AlignedKept
  <2>9. text.start = a - img.base[s]
    BY <2>6, <2>8 DEF Laid
  <2> QED
    BY <2>4, <2>9
<1> QED
  BY <1>2, <1>5, <1>6

(* If no byte is missing in front of an address in b or at its end, then    *)
(* none is missing in front of b, and all of b was printed.                 *)
LEMMA SolidInside ==
  ASSUME img \in ImageType, WellFormed(img), IInv, img' = img,
         NEW b \in Block, status' = [status EXCEPT ![b] = "printed"], status[b] = "todo",
         last <= img.addr[b],
         NEW s \in Section, img.base[s] <= img.addr[b],
         NEW x \in Nat, img.addr[b] < x, Solid(s, x)'
  PROVE  Whole(b) /\ Solid(s, img.addr[b])
<1>1. \A f \in Block : img.addr[f] \in Nat /\ img.size[f] \in Nat
  BY ImageFacts
<1>2. img.base[s] \in Int /\ last \in Nat
  BY ImageFacts DEF IInv, WalkTyped
<1>3. PICK f \in Block : /\ img.addr[f] <= img.addr[b] /\ img.addr[b] < img.addr[f] + img.size[f]
                         /\ Exact(f)'
  <2>1. img.addr[b] \in img.base[s] .. (x - 1)
    BY <1>1, <1>2
  <2> QED
    BY <2>1 DEF Solid
<1>4. f = b
  <2> SUFFICES ASSUME f # b PROVE FALSE
    OBVIOUS
  <2>1. status[f] = "printed"
    BY <1>3 DEF Exact, IInv, WalkTyped
  <2>2. img.addr[f] + img.size[f] <= last
    BY <2>1 DEF IInv, LastIsEnd
  <2> QED
    BY <1>1, <1>2, <1>3, <2>2
<1>5. Whole(b)
  BY <1>3, <1>4, WholeDependsOnImg DEF Exact
<1>6. Solid(s, img.addr[b])'
  <2>1. \A y \in img.base[s] .. (img.addr[b] - 1) : y \in img.base[s] .. (x - 1)
    BY <1>1, <1>2
  <2> QED
    BY <2>1 DEF Solid
<1>7. Solid(s, img.addr[b])
  <2> DEFINE a == img.addr[b]
  <2>1. a \in Nat /\ a <= img.addr[b]
    BY <1>1
  <2>2. Solid(s, a)'
    BY <1>6
  <2> QED
    BY <2>1, <2>2, SolidBack
<1> QED
  BY <1>5, <1>7

(* Printing a block leaves the sections behind its end empty,               *)
LEMMA PrintUnfilled ==
  ASSUME img \in ImageType, WellFormed(img), IInv, PlacesTyped, commented \in BOOLEAN,
         EmptyTakesNothing, StartedOnly, Unfilled, NEW b \in L!First, Prints(b)
  PROVE  StartedOnly' /\ Unfilled'
<1> DEFINE a == img.addr[b]
<1>1. b \in Block /\ img' = img /\ last <= a /\ last' = a + img.size[b]
  BY PrintShape DEF L!First, L!Todo, Prints
<1>2. a \in Nat /\ img.size[b] \in Nat /\ last \in Nat
  BY <1>1, ImageFacts DEF IInv, WalkTyped
<1>3. PICK t, text, open :
        /\ t \in Section \cup {NoSection}
        /\ SectionFor(b, t) /\ Put(b, t, text, open)
        /\ Laid(text, b, t, AfterHeader(a, t))
  BY <1>1, PutLaid
<1>4. curSec' = t /\ filled' = [filled EXCEPT ![t] = text.start + text.bytes]
  BY <1>3 DEF Put
<1>5. t \in Section => img.base[t] \in Int /\ (img.base[t] <= last \/ img.base[t] = a)
  <2>1. t = curSec \/ t \in Headed(a)
    BY <1>3 DEF SectionFor
  <2> QED
    BY <2>1, HeadedFacts, ImageFacts DEF StartedOnly
<1> HIDE DEF a
<1>6. StartedOnly'
  BY <1>1, <1>2, <1>4, <1>5 DEF StartedOnly
<1>7. ASSUME NEW s \in Section, last' <= img.base[s]
      PROVE  filled'[s] = 0
  <2>1. filled[s] = 0
    BY <1>1, <1>2, <1>7, ImageFacts DEF Unfilled
  <2>2. CASE s # t
    BY <1>4, <2>1, <2>2 DEF PlacesTyped
  <2>3. CASE s = t
    <3>1. img.size[b] = 0
      BY <1>1, <1>2, <1>5, <1>7, <2>3
    <3>2. AfterHeader(a, t) = 0
      BY <1>2, <2>1, <2>3, AlignedZero DEF AfterHeader
    <3>3. text.start = 0 /\ text.bytes = 0
      BY <1>2, <1>3, <3>1, <3>2, AlignedZero DEF Laid, a
    <3> QED
      BY <1>4, <2>3, <3>3 DEF PlacesTyped
  <2> QED
    BY <2>2, <2>3
<1> QED
  BY <1>1, <1>6, <1>7 DEF Unfilled

(* and the section it ends in as full as it is long up to there.            *)
LEMMA PrintInStep ==
  ASSUME img \in ImageType, WellFormed(img), IInv, Led, Current, PlacesTyped,
         commented \in BOOLEAN, EmptyTakesNothing, DistinctStarts,
         StartedOnly, Unfilled, InStep, NEW b \in L!First, Prints(b)
  PROVE  InStep'
<1> DEFINE a == img.addr[b]
<1>1. /\ b \in Block /\ img' = img /\ last <= a /\ last' = a + img.size[b]
      /\ status' = [status EXCEPT ![b] = "printed"] /\ status[b] = "todo"
  BY PrintShape DEF L!First, L!Todo, Prints
<1>2. a \in Nat /\ img.size[b] \in Nat /\ last \in Nat /\ last' \in Nat
  BY <1>1, ImageFacts DEF IInv, WalkTyped
<1>3. PICK t, text, open :
        /\ t \in Section \cup {NoSection}
        /\ SectionFor(b, t) /\ Put(b, t, text, open)
        /\ AfterHeader(a, t) \in Nat
        /\ Laid(text, b, t, AfterHeader(a, t))
  BY <1>1, PutLaid
<1>4. /\ filled' = [filled EXCEPT ![t] = text.start + text.bytes]
      /\ lost \subseteq lost' /\ text.lost \subseteq lost'
  BY <1>3 DEF Put
<1>5. Unfilled'
  BY PrintUnfilled
<1> SUFFICES ASSUME lost' = {}, NEW s \in Section, Entered(s), Solid(s, last)',
                    img.base[s] <= last', last' <= img.base[s] + img.extent[s]
             PROVE  filled'[s] = last' - img.base[s]
  BY <1>1 DEF InStep, Entered, Solid
<1>6. lost = {} /\ text.lost = {}
  BY <1>4
<1>7. img.base[s] \in Nat /\ img.extent[s] \in Nat /\ img.base[s] % 16 = 0
  BY ImageFacts DEF Entered
<1>8. CASE img.base[s] = last'
  <2>1. filled'[s] = 0
    BY <1>1, <1>2, <1>5, <1>8 DEF Unfilled
  <2> QED
    BY <1>7, <1>8, <2>1
<1>9. CASE img.base[s] < a /\ img.size[b] = 0
  <2>1. last' = a
    BY <1>1, <1>2, <1>9
  <2>2. Solid(s, a)
    <3> DEFINE x == last'
    <3>1. x \in Nat /\ x = a
      BY <1>2, <2>1
    <3>2. \A y \in Nat : y <= a /\ Solid(s, y)' => Solid(s, y)
      BY <1>1, SolidBack
    <3> QED
      BY <1>2, <3>1, <3>2
  <2>3. a = last
    BY <1>1, <1>2, <1>9, <2>2, SolidPassed
  <2>4. filled[s] = a - img.base[s]
    BY <1>6, <1>7, <1>9, <2>1, <2>2, <2>3 DEF InStep
  <2>5. CASE s # t
    BY <1>4, <2>1, <2>4, <2>5 DEF PlacesTyped
  <2>6. CASE s = t
    <3>1. s \notin Headed(a)
      BY <1>7, <1>9, <1>2, HeadedFacts
    <3>2. AfterHeader(a, t) = a - img.base[s]
      BY <2>4, <2>6, <3>1 DEF AfterHeader
    <3>3. a - img.base[s] \in Nat /\ img.base[s] + (a - img.base[s]) = a
      BY <1>2, <1>7, <1>9
    <3>4. Aligned(a - img.base[s], a) = a - img.base[s]
      BY <1>7, <3>3, AlignedKept
    <3>5. text.start = a - img.base[s] /\ text.bytes = 0
      BY <1>3, <1>9, <3>2, <3>4 DEF Laid
    <3> QED
      BY <1>4, <2>1, <2>6, <3>3, <3>5 DEF PlacesTyped
  <2> QED
    BY <2>5, <2>6
<1>10. CASE img.base[s] <= a /\ img.size[b] > 0
  <2>1. s \in Containers(a)
    BY <1>1, <1>2, <1>7, <1>10 DEF Containers, OnSection
  <2>2. Whole(b) /\ Solid(s, a)
    <3> DEFINE x == last'
    <3>1. x \in Nat /\ a < x
      BY <1>1, <1>2, <1>10
    <3>2. \A y \in Nat : a < y /\ Solid(s, y)' => Whole(b) /\ Solid(s, a)
      BY <1>1, <1>10, SolidInside
    <3> QED
      BY <3>1, <3>2
  <2>3. t = s /\ text.start = a - img.base[s]
    BY <1>1, <1>3, <1>6, <2>1, <2>2, PutSpot
  <2>4. text.bytes = img.size[b]
    BY <1>3, <1>6, <2>2 DEF Laid
  <2>5. filled'[s] = (a - img.base[s]) + img.size[b]
    BY <1>4, <2>3, <2>4 DEF PlacesTyped
  <2> QED
    BY <1>1, <1>2, <1>7, <2>5
<1>11. CASE img.base[s] > a /\ img.base[s] < last'
  <2>1. PICK u \in Section : Held(b, u)
    BY <1>1, ImageFacts
  <2>2. /\ img.base[u] <= a /\ a < img.base[u] + img.extent[u]
        /\ a + img.size[b] <= img.base[u] + img.extent[u]
        /\ img.base[u] \in Int /\ img.extent[u] \in Nat
    BY <2>1, ImageFacts DEF Held, OnSection
  <2> QED
    BY <1>1, <1>2, <1>7, <1>11, <2>2, ImageFacts
<1> QED
  BY <1>1, <1>2, <1>7, <1>8, <1>9, <1>10, <1>11

(* p keeps its distance.                                                    *)
Kept(p) ==
  \A s \in Containers(p.addr) :
    Entered(s) /\ Solid(s, p.addr) => p.sec = s /\ p.pos = p.addr - img.base[s]

(* Everything that has a place. *)
Placed == labels \cup {Place(img.addr[x.block], x.sec, x.pos) : x \in content}

(* The label at last is as far from the start of its section as last is.    *)
LEMMA LastKept ==
  ASSUME img \in ImageType, WellFormed(img), IInv, Led, Current, DistinctStarts, InStep, lost = {},
         \A f \in Block : img.addr[f] <= last => Decided(f)
  PROVE  Kept(Place(last, curSec, filled[curSec]))
<1>1. /\ Place(last, curSec, filled[curSec]).addr = last
      /\ Place(last, curSec, filled[curSec]).sec = curSec
      /\ Place(last, curSec, filled[curSec]).pos = filled[curSec]
  BY DEF Place
<1> SUFFICES ASSUME NEW s \in Containers(last), Entered(s), Solid(s, last)
             PROVE  curSec = s /\ filled[curSec] = last - img.base[s]
  BY <1>1 DEF Kept
<1>2. /\ s \in Section /\ img.base[s] \in Int /\ img.extent[s] \in Nat /\ last \in Nat
      /\ img.base[s] <= last /\ last < img.base[s] + img.extent[s]
  BY ImageFacts DEF Containers, OnSection, IInv, WalkTyped
<1>3. curSec = s
  BY <1>2, EnteredCurrent
<1>4. filled[s] = last - img.base[s]
  BY <1>2 DEF InStep
<1> QED
  BY <1>3, <1>4

(* What was placed before b keeps its distance when b is printed.           *)
LEMMA OldKept ==
  ASSUME img \in ImageType, WellFormed(img), IInv, img' = img,
         NEW b \in Block, status' = [status EXCEPT ![b] = "printed"], status[b] = "todo",
         NEW p, p.addr \in Nat, p.addr <= img.addr[b], Kept(p)
  PROVE  Kept(p)'
<1> DEFINE x == p.addr
<1>1. \A s \in Section : Solid(s, x)' => Solid(s, x)
  BY SolidBack
<1>2. \A s \in Section : Entered(s)' => Entered(s)
  BY DEF Entered
<1>3. Containers(x)' = Containers(x) /\ Containers(x) \subseteq Section
  BY DEF Containers
<1> QED
  BY <1>1, <1>2, <1>3 DEF Kept

(* The labels and bytes of the block that is printed keep theirs.           *)
LEMMA NewKept ==
  ASSUME img \in ImageType, WellFormed(img), IInv, Led, Current, PlacesTyped,
         DistinctStarts, Unfilled, InStep, lost = {}, img' = img,
         NEW b \in L!First, last <= img.addr[b],
         status' = [status EXCEPT ![b] = "printed"],
         NEW t \in Section \cup {NoSection}, SectionFor(b, t),
         NEW text, Laid(text, b, t, AfterHeader(img.addr[b], t)),
         NEW p, p \in text.labels \/ p = Place(img.addr[b], t, text.start)
  PROVE  Kept(p)'
<1> DEFINE a == img.addr[b]
<1>1. b \in Block /\ status[b] = "todo" /\ a \in Nat /\ img.size[b] \in Nat /\ last \in Nat
  BY ImageFacts DEF L!First, L!Todo, IInv, WalkTyped
<1>2. /\ p.sec = t /\ p.addr \in Nat
      /\ \/ p.addr = a /\ p.pos = text.start
         \/ /\ a < p.addr /\ p.addr < a + img.size[b]
            /\ b \in Code /\ p.pos = text.start + Offset(b, p.addr - a)
  BY <1>1 DEF Laid, Place, Marks
<1> DEFINE x == p.addr
<1> SUFFICES ASSUME NEW s \in Containers(x), Entered(s), Solid(s, x)'
             PROVE  t = s /\ p.pos = x - img.base[s]
  BY <1>2 DEF Kept, Containers, Entered
<1>3. s \in Section /\ img.base[s] \in Int /\ img.extent[s] \in Nat
  BY ImageFacts DEF Containers
<1>4. CASE x = a
  <2>1. Solid(s, a)
    <3>1. \A y \in Nat : y <= a /\ Solid(s, y)' => Solid(s, y)
      BY <1>1, <1>3, SolidBack
    <3> QED
      BY <1>1, <1>4, <3>1
  <2>2. t = s /\ text.start = a - img.base[s]
    BY <1>4, <2>1, PutSpot
  <2> QED
    BY <1>1, <1>2, <1>4, <2>2
<1>5. CASE a < x
  <2>1. /\ x \in Nat /\ x < a + img.size[b] /\ b \in Code
        /\ p.pos = text.start + Offset(b, x - a)
    BY <1>1, <1>2, <1>5
  <2>2. PICK u \in Section : Held(b, u)
    BY <1>1, ImageFacts
  <2>3. u \in Containers(x) /\ u \in Containers(a)
    <3>1. img.base[u] \in Int /\ img.extent[u] \in Nat
      BY ImageFacts
    <3> QED
      BY <1>1, <1>5, <2>1, <2>2, <3>1 DEF Held, Containers, OnSection
  <2>4. s = u
    BY <2>1, <2>3, OneContainer
  <2>5. img.base[s] <= a
    BY <2>3, <2>4 DEF Containers, OnSection
  <2>6. Whole(b) /\ Solid(s, a)
    <3>1. \A y \in Nat : a < y /\ Solid(s, y)' => Whole(b) /\ Solid(s, a)
      BY <1>1, <1>3, <2>5, SolidInside
    <3> QED
      BY <1>5, <2>1, <3>1
  <2>7. t = s /\ text.start = a - img.base[s]
    BY <2>3, <2>4, <2>6, PutSpot
  <2>8. Offset(b, x - a) = x - a
    <3>1. Offset(b, img.size[b]) = img.size[b]
      BY <2>1, <2>6 DEF Whole
    <3>2. x - a \in Nat /\ x - a <= img.size[b]
      BY <1>1, <1>5, <2>1
    <3> QED
      BY <1>1, <2>1, <3>1, <3>2, OffsetWhole
  <2> QED
    BY <1>1, <1>3, <2>1, <2>7, <2>8
<1> QED
  BY <1>1, <1>2, <1>4, <1>5

(* What holds of places whatever is printed next.                           *)
Distances ==
  /\ StartedOnly
  /\ \A x \in content : img.addr[x.block] <= last
  /\ DistinctStarts /\ EmptyTakesNothing => Unfilled /\ InStep
  /\ PlaceKept

(* All that has a place keeps it when a block is printed.                   *)
LEMMA PrintKept ==
  ASSUME img \in ImageType, WellFormed(img), IInv, Led, Current, PlacesTyped,
         commented \in BOOLEAN, EmptyTakesNothing, DistinctStarts, AtEnd,
         Distances, NEW b \in L!First, Prints(b), lost' = {}
  PROVE  \A p \in Placed' : Kept(p)'
<1> DEFINE a   == img.addr[b]
           gap == Place(last, curSec, filled[curSec])
<1>1. /\ b \in Block /\ img' = img /\ last <= a /\ status[b] = "todo"
      /\ status' = [status EXCEPT ![b] = "printed"]
  BY PrintShape DEF L!First, L!Todo, Prints
<1>2. a \in Nat /\ last \in Nat /\ \A f \in Block : img.addr[f] \in Nat
  BY <1>1, ImageFacts DEF IInv, WalkTyped
<1>3. PICK t, text, open :
        /\ t \in Section \cup {NoSection}
        /\ SectionFor(b, t) /\ Put(b, t, text, open)
        /\ Laid(text, b, t, AfterHeader(a, t))
  BY <1>1, PutLaid
<1>4. /\ lost \subseteq lost' /\ text.lost \subseteq lost'
      /\ labels' \subseteq labels \cup text.labels \cup (IF GapLabel(b) THEN {gap} ELSE {})
      /\ content' \subseteq content \cup {[block |-> b, sec |-> t, pos |-> text.start]}
  BY <1>3 DEF Put
<1>5. lost = {} /\ Unfilled /\ InStep /\ \A p \in Placed : Kept(p)
  BY <1>4 DEF Distances, PlaceKept, Placed, Kept
<1>6. ASSUME NEW p \in Placed, p.addr \in Nat, p.addr <= last
      PROVE  Kept(p)'
  <2>1. Kept(p) /\ p.addr <= a
    BY <1>1, <1>2, <1>5, <1>6
  <2> QED
    BY <1>1, <1>6, <2>1, OldKept
<1>7. ASSUME NEW p \in labels PROVE Kept(p)'
  <2>1. p.addr \in Nat /\ p.addr <= last
    BY DEF PlacesTyped, Marks, AtEnd
  <2> QED
    BY <1>6, <2>1 DEF Placed
<1>8. ASSUME NEW x \in content PROVE Kept(Place(img.addr[x.block], x.sec, x.pos))'
  <2> DEFINE p == Place(img.addr[x.block], x.sec, x.pos)
  <2>1. p.addr = img.addr[x.block]
    BY DEF Place
  <2>2. x.block \in Block /\ img.addr[x.block] <= last
    BY DEF PlacesTyped, Distances
  <2>3. \A q \in Placed : q.addr \in Nat /\ q.addr <= last => Kept(q)'
    BY <1>6
  <2>4. p \in Placed
    BY DEF Placed
  <2>5. \E q : q = p /\ Kept(q)'
    BY <1>2, <2>1, <2>2, <2>3, <2>4
  <2> QED
    BY <1>1, <2>5 DEF Place
<1>9. ASSUME NEW p, p \in text.labels \/ p = Place(a, t, text.start) PROVE Kept(p)'
  BY <1>1, <1>3, <1>5, <1>9, NewKept
<1>10. ASSUME a > last PROVE \A p : p = gap => Kept(p)'
  <2>1. \A f \in Block : img.addr[f] <= last => Decided(f)
    BY <1>1, <1>2, <1>10 DEF L!First, L!Todo, Decided
  <2>2. Kept(gap)
    BY <1>5, <2>1, LastKept
  <2>3. gap.addr = last
    BY DEF Place
  <2> HIDE DEF gap
  <2>4. ASSUME NEW p, p = gap PROVE Kept(p)'
    <3>1. p.addr \in Nat /\ p.addr <= img.addr[b] /\ Kept(p)
      BY <1>1, <1>2, <2>2, <2>3, <2>4
    <3> QED
      BY <1>1, <3>1, OldKept
  <2> QED
    BY <2>4
<1>11. \A p \in labels' : Kept(p)'
  BY <1>4, <1>7, <1>9, <1>10 DEF GapLabel
<1>12. ASSUME NEW x \in content' PROVE Kept(Place(img.addr[x.block], x.sec, x.pos))'
  <2>1. CASE x \in content
    <3>1. Kept(Place(img.addr[x.block], x.sec, x.pos))'
      BY <1>8, <2>1
    <3> QED
      BY <3>1
  <2>2. CASE x = [block |-> b, sec |-> t, pos |-> text.start]
    <3>1. \E q : q = Place(a, t, text.start) /\ Kept(q)'
      BY <1>9
    <3>2. x.block = b /\ x.sec = t /\ x.pos = text.start
      BY <2>2
    <3> QED
      BY <1>1, <3>1, <3>2 DEF Place
  <2> QED
    BY <1>4, <2>1, <2>2
<1> QED
  <2> SUFFICES ASSUME NEW p \in Placed' PROVE Kept(p)'
    OBVIOUS
  <2>1. CASE p \in labels'
    BY <1>11, <2>1
  <2>2. CASE \E x \in content' : p = Place(img'.addr[x.block], x.sec, x.pos)
    <3>1. PICK x \in content' : p = Place(img'.addr[x.block], x.sec, x.pos)
      BY <2>2
    <3>2. Kept(Place(img.addr[x.block], x.sec, x.pos))'
      BY <1>12
    <3> QED
      BY <3>1, <3>2 DEF Place
  <2> QED
    BY <2>1, <2>2 DEF Placed, Place

(* As long as no byte of a section is missing, everything in it keeps its   *)
(* distance from the start: whatever its blocks hold, however they are      *)
(* aligned and whatever is printed, skipped or warned about around them.    *)
THEOREM DistancesAreKept == Spec => []PlaceKept
<1>1. Init => Distances
  <2> SUFFICES ASSUME Init PROVE Distances
    OBVIOUS
  <2>1. /\ curSec = NoSection /\ filled = [s \in Section \cup {NoSection} |-> 0]
        /\ last = 0 /\ labels = {} /\ content = {} /\ img \in ImageType
    BY ImagesAssumption DEF Init, Start
  <2>2. \A s \in Section : filled[s] = 0 /\ (Entered(s) => img.base[s] \in Nat)
    BY <2>1 DEF ImageType, Entered
  <2>3. StartedOnly
    BY <2>1, SectionAssumption DEF StartedOnly
  <2>4. Unfilled /\ InStep
    BY <2>1, <2>2 DEF Unfilled, InStep
  <2> QED
    BY <2>1, <2>3, <2>4 DEF Distances, PlaceKept
<1>2. /\ img \in ImageType /\ WellFormed(img) /\ IInv /\ Led /\ Current
      /\ PlacesTyped /\ commented \in BOOLEAN /\ LabelsPlaced /\ Distances /\ [Next]_vars
      => Distances'
  <2> SUFFICES ASSUME img \in ImageType, WellFormed(img), IInv, Led, Current, PlacesTyped,
                      commented \in BOOLEAN, LabelsPlaced, Distances, [Next]_vars
               PROVE  Distances'
    OBVIOUS
  <2>0. img' = img => /\ DistinctStarts' <=> DistinctStarts
                      /\ EmptyTakesNothing' <=> EmptyTakesNothing
    BY DEF DistinctStarts, EmptyTakesNothing, SymbolicSize, DirectiveOf
  <2>1. ASSUME NEW b \in L!First, Prints(b) PROVE Distances'
    <3>1. /\ img' = img /\ pc = "printing" /\ b \in Block /\ last <= img.addr[b]
          /\ last' = img.addr[b] + img.size[b]
      BY <2>1, PrintShape DEF Prints, L!First, L!Todo
    <3>2. DistinctStarts /\ EmptyTakesNothing => Unfilled /\ InStep /\ AtEnd
      BY <3>1 DEF Distances, LabelsPlaced
    <3>3. ASSUME DistinctStarts, EmptyTakesNothing
          PROVE  Unfilled' /\ InStep' /\ (lost' = {} => \A p \in Placed' : Kept(p)')
      BY <2>1, <3>2, <3>3, PrintUnfilled, PrintInStep, PrintKept DEF Distances
    <3>4. StartedOnly'
      <4>1. PICK t, text, open :
              /\ t \in Section \cup {NoSection}
              /\ SectionFor(b, t) /\ Put(b, t, text, open)
        BY <2>1, <3>1, PutLaid
      <4>2. curSec' = t /\ (t = curSec \/ t \in Headed(img.addr[b]))
        BY <4>1 DEF Put, SectionFor
      <4>3. img.addr[b] \in Nat /\ img.size[b] \in Nat /\ last \in Nat
        BY <3>1, ImageFacts DEF IInv, WalkTyped
      <4>4. t \in Section => img.base[t] <= last'
        BY <3>1, <4>2, <4>3, HeadedFacts, ImageFacts DEF Distances, StartedOnly
      <4> QED
        BY <3>1, <4>2, <4>4 DEF StartedOnly
    <3>5. \A x \in content' : img.addr[x.block] <= last'
      <4>1. PICK t, text, open : Put(b, t, text, open)
        BY <2>1, <3>1, PutLaid
      <4>2. content' \subseteq content \cup {[block |-> b, sec |-> t, pos |-> text.start]}
        BY <4>1 DEF Put
      <4>3. img.addr[b] \in Nat /\ img.size[b] \in Nat /\ last \in Nat
        BY <3>1, ImageFacts DEF IInv, WalkTyped
      <4>4. \A x \in content : img.addr[x.block] \in Nat /\ img.addr[x.block] <= last
        BY ImageFacts DEF Distances, PlacesTyped
      <4> QED
        BY <3>1, <4>2, <4>3, <4>4
    <3> QED
      BY <2>0, <3>1, <3>3, <3>4, <3>5 DEF Distances, PlaceKept, Placed, Kept
  <2>2. ASSUME NEW b \in L!First, Warn(b) PROVE Distances'
    <3>1. /\ img' = img /\ labels' = labels /\ last' = last /\ curSec' = curSec
          /\ filled' = filled /\ content' = content /\ lost' = lost
          /\ status' = [status EXCEPT ![b] = "warned"] /\ b \in Block /\ status[b] = "todo"
      BY <2>2 DEF Warn, L!First, L!Todo
    <3>2. \A f \in Block : Exact(f)' <=> Exact(f)
      BY <3>1, WholeDependsOnImg DEF Exact, IInv, WalkTyped
    <3>3. \A s, x : Solid(s, x)' <=> Solid(s, x)
      BY <3>1, <3>2 DEF Solid
    <3>4. \A s, x : (Entered(s)' <=> Entered(s)) /\ Containers(x)' = Containers(x)
      BY <3>1 DEF Entered, Containers
    <3>5. \A p : Kept(p) => Kept(p)'
      BY <3>1, <3>3, <3>4 DEF Kept
    <3>6. PlaceKept'
      BY <2>0, <3>1, <3>5 DEF Distances, PlaceKept, Kept
    <3>7. InStep => InStep'
      BY <3>1, <3>3, <3>4 DEF InStep
    <3> QED
      BY <2>0, <3>1, <3>6, <3>7 DEF Distances, StartedOnly, Unfilled
  <2>3. CASE Finish
    <3>1. /\ img' = img /\ last' = last /\ curSec' = curSec /\ status' = status
          /\ filled' = filled /\ content' = content /\ lost \subseteq lost' /\ Todo(Block) = {}
          /\ labels' \subseteq labels \cup {Place(last, curSec, filled[curSec])}
      BY <2>3 DEF Finish
    <3>2. \A f \in Block : Exact(f)' <=> Exact(f)
      BY <3>1, WholeDependsOnImg DEF Exact
    <3>3. \A s, x : Solid(s, x)' <=> Solid(s, x)
      BY <3>1, <3>2 DEF Solid
    <3>4. \A s, x : (Entered(s)' <=> Entered(s)) /\ Containers(x)' = Containers(x)
      BY <3>1 DEF Entered, Containers
    <3>5. \A p : Kept(p) => Kept(p)'
      BY <3>1, <3>3, <3>4 DEF Kept
    <3>6. ASSUME DistinctStarts, EmptyTakesNothing, lost' = {}
          PROVE  /\ \A p \in labels' : Kept(p)'
                 /\ \A x \in content : Kept(Place(img.addr[x.block], x.sec, x.pos))
      <4>1. lost = {} /\ InStep /\ \A p \in Placed : Kept(p)
        BY <3>1, <3>6 DEF Distances, PlaceKept, Placed, Kept
      <4>2. Kept(Place(last, curSec, filled[curSec]))
        <5>1. \A f \in Block : img.addr[f] <= last => Decided(f)
          BY <3>1 DEF Todo, Decided
        <5> QED
          BY <3>6, <4>1, <5>1, LastKept
      <4>3. \A p \in labels' : Kept(p)
        BY <3>1, <4>1, <4>2 DEF Placed
      <4> QED
        BY <3>5, <4>1, <4>3 DEF Placed
    <3>7. PlaceKept'
      <4> SUFFICES ASSUME DistinctStarts, EmptyTakesNothing, lost' = {}
                   PROVE  \A p \in Placed' : Kept(p)'
        BY <2>0, <3>1 DEF PlaceKept, Placed, Kept
      <4>1. Placed' = labels' \cup {Place(img.addr[x.block], x.sec, x.pos) : x \in content}
        BY <3>1 DEF Placed, Place
      <4>2. ASSUME NEW p \in {Place(img.addr[x.block], x.sec, x.pos) : x \in content}
            PROVE  Kept(p)
        BY <3>6
      <4> QED
        BY <3>5, <3>6, <4>1, <4>2
    <3>8. InStep => InStep'
      BY <3>1, <3>3, <3>4 DEF InStep
    <3> QED
      BY <2>0, <3>1, <3>7, <3>8 DEF Distances, StartedOnly, Unfilled
  <2>4. CASE UNCHANGED vars
    <3>1. /\ UNCHANGED <<img, labels, last, curSec, filled, content, lost, status>>
      BY <2>4 DEF vars
    <3>2. \A f \in Block : Exact(f)' <=> Exact(f)
      BY <3>1, WholeDependsOnImg DEF Exact
    <3>3. \A s, x : Solid(s, x)' <=> Solid(s, x)
      BY <3>1, <3>2 DEF Solid
    <3>4. \A s, x : (Entered(s)' <=> Entered(s)) /\ Containers(x)' = Containers(x)
      BY <3>1 DEF Entered, Containers
    <3>5. \A p : Kept(p) => Kept(p)'
      BY <3>1, <3>3, <3>4 DEF Kept
    <3>6. PlaceKept'
      BY <2>0, <3>1, <3>5 DEF Distances, PlaceKept, Kept
    <3>7. InStep => InStep'
      BY <3>1, <3>3, <3>4 DEF InStep
    <3> QED
      BY <2>0, <3>1, <3>6, <3>7 DEF Distances, StartedOnly, Unfilled
  <2> QED
    BY <2>1, <2>2, <2>3, <2>4, TurnPrints DEF Next, IInv
<1>3. Spec => []IInv
  BY InitIInv, IInvStep, PTL DEF Spec
<1>4. Distances => PlaceKept
  BY DEF Distances
<1> QED
  BY ImgWellFormed, LedAlways, LabelsPlacedAlways, <1>1, <1>2, <1>3, <1>4, PTL DEF Spec

-------------------------------------------------------------------------------
(* Types *)

(* The library's theorems of induction are about predicates; these are       *)
(* about sets.                                                              *)
Below == OpToRel(<, Nat)

(* Every set of natural numbers that is not empty has a least element.      *)
LEMMA Least0 == ASSUME NEW T \in SUBSET Nat, T # {} PROVE \E x \in T : \A y \in T : x <= y
<1>1. \A x, y \in Nat : <<x, y>> \in Below <=> x < y
  BY DEF Below, OpToRel
<1>2. IsWellFoundedOn(Below, Nat)
  BY NatLessThanWellFounded DEF Below
<1>3. PICK x \in T : \A y \in T : ~ (<<y, x>> \in Below)
  BY <1>2, WFMin
<1>4. \A y \in T : ~(y < x)
  BY <1>1, <1>3
<1> QED
  BY <1>4

(* What contains 0, and with n also n + 1, contains every natural number.   *)
LEMMA InductionInSets ==
  ASSUME NEW S \in SUBSET Nat, 0 \in S, \A n \in S : n + 1 \in S
  PROVE  S = Nat
<1> SUFFICES ASSUME Nat \ S # {} PROVE FALSE
  OBVIOUS
<1>1. PICK x \in Nat \ S : \A y \in Nat \ S : x <= y
  BY Least0
<1>2. x # 0 /\ x - 1 \in Nat
  BY <1>1
<1>3. x - 1 \in S
  BY <1>1, <1>2
<1> QED
  BY <1>1, <1>3

Op == {"startproc", "endproc", "other"}

(* One more directive of a block, if it is attached at one of the places.   *)
OpsStep(v, c, i, places) ==
  IF img.cfi[c][i].at \in places THEN Append(v, img.cfi[c][i].op) ELSE v

(* The directives are added one by one.                                     *)
LEMMA OpsAtSteps ==
  ASSUME img \in ImageType, NEW c \in Code, NEW places
  PROVE  \E ops : /\ ops[0] = <<>> /\ OpsAt(c, places) = ops[Len(img.cfi[c])]
                  /\ \A i \in 1 .. Len(img.cfi[c]) : ops[i] = OpsStep(ops[i - 1], c, i, places)
<1> DEFINE cfi == img.cfi[c]
           N   == Len(cfi)
           step(v, i) == IF cfi[i].at \in places THEN Append(v, cfi[i].op) ELSE v
<1>1. N \in Nat
  BY DEF ImageType
<1> DEFINE Rec(f, n) == f = [i \in 0 .. n |-> IF i = 0 THEN <<>> ELSE step(f[i - 1], i)]
           ops       == CHOOSE f : Rec(f, N)
<1>2. OpsAt(c, places) = ops[N]
  BY DEF OpsAt
<1> HIDE DEF step, N, cfi
<1>3. \E f : Rec(f, N)
  <2> DEFINE S == {n \in Nat : \E f : Rec(f, n)}
  <2>1. 0 \in S
    <3>1. Rec([i \in 0 .. 0 |-> <<>>], 0)
      OBVIOUS
    <3> QED
      BY <3>1
  <2>2. ASSUME NEW n \in S PROVE n + 1 \in S
    <3>1. PICK f : Rec(f, n)
      OBVIOUS
    <3> DEFINE g == [i \in 0 .. (n + 1) |-> IF i <= n THEN f[i] ELSE step(f[n], n + 1)]
    <3>2. n \in Nat /\ n + 1 # 0
      OBVIOUS
    <3>3. ASSUME NEW i \in 0 .. (n + 1)
          PROVE  g[i] = IF i = 0 THEN <<>> ELSE step(g[i - 1], i)
      <4>1. CASE i = 0
        BY <3>1, <3>2, <4>1
      <4>2. CASE i # 0 /\ i <= n
        <5>1. i - 1 \in 0 .. n /\ i \in 0 .. n /\ i - 1 <= n /\ i - 1 \in 0 .. (n + 1)
          BY <3>2, <4>2
        <5>2. g[i] = f[i] /\ g[i - 1] = f[i - 1]
          BY <4>2, <5>1
        <5> QED
          BY <3>1, <4>2, <5>1, <5>2
      <4>3. CASE i = n + 1
        <5>1. n \in 0 .. (n + 1) /\ ~(n + 1 <= n) /\ (n + 1) - 1 = n /\ n <= n
          BY <3>2
        <5>2. g[n] = f[n] /\ g[n + 1] = step(f[n], n + 1)
          BY <4>3, <5>1
        <5> QED
          BY <3>2, <4>3, <5>1, <5>2
      <4> QED
        BY <3>2, <4>1, <4>2, <4>3
    <3>4. Rec(g, n + 1)
      <4>1. g = [i \in 0 .. (n + 1) |-> g[i]]
        OBVIOUS
      <4> HIDE DEF g
      <4> QED
        BY <3>3, <4>1
    <3> HIDE DEF g, Rec
    <3> QED
      BY <3>2, <3>4
  <2> HIDE DEF Rec
  <2>3. S = Nat
    BY <2>1, <2>2, InductionInSets
  <2> QED
    BY <1>1, <2>3
<1>4. Rec(ops, N)
  BY <1>3
<1> HIDE DEF ops
<1>5. ops[0] = <<>>
  BY <1>1, <1>4
<1>6. ASSUME NEW i \in 1 .. N
      PROVE  ops[i] = step(ops[i - 1], i)
  <2>1. i \in 0 .. N /\ i # 0
    BY <1>1
  <2> QED
    BY <1>4, <2>1
<1>7. ops[0] = <<>> /\ OpsAt(c, places) = ops[N] /\ \A i \in 1 .. N : ops[i] = step(ops[i - 1], i)
  BY <1>2, <1>5, <1>6
<1> QED
  BY <1>7 DEF OpsStep, step, N, cfi

(* The parts of the table of directives.                                    *)
LEMMA CfiTyped ==
  ASSUME img \in ImageType, NEW c \in Code
  PROVE  /\ Len(img.cfi[c]) \in Nat /\ DOMAIN img.cfi[c] = 1 .. Len(img.cfi[c])
         /\ \A i \in 1 .. Len(img.cfi[c]) : img.cfi[c][i].op \in Op
<1>1. img.cfi[c] \in Seq(Cfi)
  BY DEF ImageType
<1>2. /\ Len(img.cfi[c]) \in Nat /\ DOMAIN img.cfi[c] = 1 .. Len(img.cfi[c])
      /\ \A i \in 1 .. Len(img.cfi[c]) : img.cfi[c][i] \in Cfi
  BY <1>1
<1> QED
  BY <1>2 DEF Cfi, Op

(* So the directives of a block are a sequence.                             *)
LEMMA OpsType ==
  ASSUME img \in ImageType, NEW c \in Code
  PROVE  Ops(c) \in Seq(Op)
<1> DEFINE N     == Len(img.cfi[c])
           op(i) == img.cfi[c][i].op
<1>1. N \in Nat /\ DOMAIN img.cfi[c] = 1 .. N /\ \A i \in 1 .. N : op(i) \in Op
  BY CfiTyped
<1>2. Ops(c) = [i \in 1 .. N |-> op(i)]
  BY <1>1 DEF Ops
<1> HIDE DEF N, op
<1>3. [i \in 1 .. N |-> op(i)] \in [1 .. N -> Op]
  BY <1>1
<1> QED
  BY <1>1, <1>2, <1>3

(* Those at some places are one as well,                                    *)
LEMMA OpsAtType ==
  ASSUME img \in ImageType, NEW c \in Code, NEW places
  PROVE  OpsAt(c, places) \in Seq(Op)
<1> DEFINE N == Len(img.cfi[c])
<1>1. N \in Nat /\ \A i \in 1 .. N : img.cfi[c][i].op \in Op
  BY CfiTyped
<1>2. PICK ops : /\ ops[0] = <<>> /\ OpsAt(c, places) = ops[N]
                 /\ \A i \in 1 .. N : ops[i] = OpsStep(ops[i - 1], c, i, places)
  BY OpsAtSteps
<1> HIDE DEF N
<1>3. \A v \in Seq(Op), i \in 1 .. N : OpsStep(v, c, i, places) \in Seq(Op)
  BY <1>1 DEF OpsStep
<1> DEFINE S == {n \in Nat : n <= N => ops[n] \in Seq(Op)}
<1>4. 0 \in S
  <2>1. <<>> \in Seq(Op)
    OBVIOUS
  <2>2. ops[0] \in Seq(Op)
    BY <1>2, <2>1
  <2> QED
    BY <2>2
<1>5. ASSUME NEW n \in S
      PROVE  n + 1 \in S
  <2>1. CASE n + 1 <= N
    <3>1. n \in Nat /\ n <= N /\ n + 1 \in 1 .. N /\ (n + 1) - 1 = n
      BY <1>1, <2>1
    <3>2. ops[n] \in Seq(Op)
      BY <3>1
    <3>3. ops[n + 1] = OpsStep(ops[n], c, n + 1, places)
      BY <1>2, <3>1
    <3> QED
      BY <1>3, <3>1, <3>2, <3>3
  <2>2. CASE ~(n + 1 <= N)
    BY <2>2
  <2> QED
    BY <2>1, <2>2
<1>6. S = Nat
  <2> HIDE DEF S
  <2>1. S \in SUBSET Nat
    BY DEF S
  <2> QED
    BY <1>4, <1>5, <2>1, InductionInSets
<1>7. ops[N] \in Seq(Op)
  BY <1>1, <1>6
<1> QED
  BY <1>2, <1>7

(* all of them if each is attached at one of the places.                    *)
LEMMA OpsAtAll ==
  ASSUME img \in ImageType, NEW c \in Code, NEW places,
         \A i \in DOMAIN img.cfi[c] : img.cfi[c][i].at \in places
  PROVE  OpsAt(c, places) = Ops(c)
<1> DEFINE N == Len(img.cfi[c])
           op(i) == img.cfi[c][i].op
           first(n) == [i \in 1 .. n |-> op(i)]
<1>1. N \in Nat /\ DOMAIN img.cfi[c] = 1 .. N /\ \A i \in 1 .. N : op(i) \in Op
  BY CfiTyped
<1>2. PICK ops : /\ ops[0] = <<>> /\ OpsAt(c, places) = ops[N]
                 /\ \A i \in 1 .. N : ops[i] = OpsStep(ops[i - 1], c, i, places)
  BY OpsAtSteps
<1>3. \A v : \A i \in 1 .. N : OpsStep(v, c, i, places) = Append(v, op(i))
  BY <1>1 DEF OpsStep
<1>4. Ops(c) = first(N)
  BY <1>1 DEF Ops
<1> HIDE DEF N, op
<1> DEFINE S == {n \in Nat : n <= N => ops[n] = first(n)}
<1>5. 0 \in S
  <2>1. first(0) = <<>>
    OBVIOUS
  <2> HIDE DEF first
  <2> QED
    BY <1>2, <2>1
<1>6. ASSUME NEW n \in S, n + 1 <= N
      PROVE  ops[n + 1] = first(n + 1)
  <2>1. n \in Nat /\ n <= N /\ n + 1 \in 1 .. N /\ (n + 1) - 1 = n
    BY <1>1, <1>6
  <2>2. ops[n] = first(n)
    BY <2>1
  <2>3. ops[n + 1] = Append(ops[n], op(n + 1))
    <3> HIDE DEF first, S
    <3>1. ops[n + 1] = OpsStep(ops[n], c, n + 1, places)
      BY <1>2, <2>1
    <3> QED
      BY <1>3, <2>1, <3>1
  <2>4. Append(first(n), op(n + 1)) = first(n + 1)
    <3>1. first(n) \in Seq(Op) /\ Len(first(n)) = n /\ first(n + 1) \in Seq(Op)
      BY <1>1, <2>1
    <3> QED
      BY <1>1, <2>1, <3>1
  <2> HIDE DEF first
  <2> QED
    BY <2>2, <2>3, <2>4
<1>7. S = Nat
  <2>1. \A n \in S : n + 1 \in S
    <3> HIDE DEF first
    <3> QED
      BY <1>6
  <2> HIDE DEF S
  <2>2. S \in SUBSET Nat
    BY DEF S
  <2> QED
    BY <1>5, <2>1, <2>2, InductionInSets
<1>8. ops[N] = first(N)
  <2> HIDE DEF first
  <2> QED
    BY <1>1, <1>7
<1> QED
  BY <1>2, <1>4, <1>8

(* What a text adds to the directives is a sequence of directives.          *)
LEMMA PutUnwind ==
  ASSUME img \in ImageType, NEW b \in Block, Prints(b), unwind \in Seq(Op)
  PROVE  unwind' \in Seq(Op)
<1>1. <<>> \in Seq(Op)
  OBVIOUS
<1>2. ASSUME NEW s, NEW text, NEW open, Put(b, s, text, open), text.unwind \in Seq(Op)
      PROVE  unwind' \in Seq(Op)
  BY <1>2 DEF Put
<1>3. CASE b \in Code /\ PrintCode(b)
  <2>1. \A s, n : BlockText(b, s, n).unwind \in Seq(Op)
    BY <1>1, <1>3, OpsAtType DEF BlockText, NoText, Unwind
  <2>2. PICK s, text, open : Put(b, s, text, open) /\ text.unwind \in Seq(Op)
    BY <1>3, <2>1 DEF PrintCode
  <2> QED
    BY <1>2, <2>2
<1>4. CASE b \in Data /\ PrintData(b)
  <2>1. \A s, n, in : DataText(b, s, n, in).unwind \in Seq(Op)
    BY <1>1 DEF DataText, NoText
  <2>2. PICK s, text, open : Put(b, s, text, open) /\ text.unwind \in Seq(Op)
    BY <1>4, <2>1 DEF PrintData
  <2> QED
    BY <1>2, <2>2
<1> QED
  BY <1>3, <1>4 DEF Prints

(* The type invariant.                                                      *)
THEOREM TypeCorrect == Spec => []TypeOK
<1>1. Init => unwind \in Seq(Op) /\ pc \in {"printing", "done"}
  BY DEF Init, Start
<1>2. /\ img \in ImageType /\ WellFormed(img) /\ IInv /\ [Next]_vars
      /\ unwind \in Seq(Op) /\ pc \in {"printing", "done"}
      => (unwind \in Seq(Op) /\ pc \in {"printing", "done"})'
  <2> SUFFICES ASSUME img \in ImageType, WellFormed(img), IInv, [Next]_vars,
                      unwind \in Seq(Op), pc \in {"printing", "done"}
               PROVE  unwind' \in Seq(Op) /\ pc' \in {"printing", "done"}
    OBVIOUS
  <2>1. ASSUME NEW b \in L!First, Prints(b)
        PROVE  unwind' \in Seq(Op) /\ pc' \in {"printing", "done"}
    <3>1. b \in Block
      BY DEF L!First, L!Todo
    <3>2. pc' = pc
      BY <2>1 DEF Prints, PrintCode, PrintData, Put
    <3> QED
      BY <2>1, <3>1, <3>2, PutUnwind
  <2>2. \A b : Warn(b) => unwind' = unwind /\ pc' = pc
    BY DEF Warn
  <2>3. Finish => unwind' = unwind /\ pc' = "done"
    BY DEF Finish
  <2>4. UNCHANGED vars => unwind' = unwind /\ pc' = pc
    BY DEF vars
  <2> QED
    BY <2>1, <2>2, <2>3, <2>4, TurnPrints DEF Next, IInv
<1>3. Spec => []IInv
  BY InitIInv, IInvStep, PTL DEF Spec
<1>4. img \in ImageType /\ IInv /\ PlacesTyped /\ commented \in BOOLEAN
      /\ unwind \in Seq(Op) /\ pc \in {"printing", "done"} => TypeOK
  BY DEF TypeOK, IInv, WalkTyped, PlacesTyped, Op
<1> QED
  BY ImgWellFormed, LabelsPlacedAlways, <1>1, <1>2, <1>3, <1>4, PTL DEF Spec
-------------------------------------------------------------------------------
(* Directives in pairs *)

(* One sequence of directives behind another.                               *)
LEMMA RunsConcat ==
  ASSUME NEW s \in Seq(Op), NEW t \in Seq(Op), NEW a \in {0, 1}, NEW m, NEW z,
         Runs(s, a, m), Runs(t, m, z)
  PROVE  Runs(s \o t, a, z)
<1> DEFINE M == Len(s)
           N == Len(t)
           st == s \o t
<1>1. /\ M \in Nat /\ N \in Nat /\ Len(st) = M + N /\ DOMAIN st = 1 .. (M + N)
      /\ DOMAIN s = 1 .. M /\ DOMAIN t = 1 .. N
      /\ \A i \in 1 .. M : st[i] = s[i]
      /\ \A i \in 1 .. N : st[M + i] = t[i]
  OBVIOUS
<1> HIDE DEF st, M, N
<1>2. \A i \in 0 .. M : Open(st, a, i) = Open(s, a, i)
  BY <1>1 DEF Open
<1>3. \A i \in 0 .. N : Open(st, a, M + i) = Open(t, m, i)
  <2>1. Open(st, a, M) = m
    BY <1>1, <1>2 DEF Runs, M
  <2>2. ASSUME NEW i \in 1 .. N
        PROVE  Open(st, a, M + i) = Open(t, m, i)
    <3>1. M + i # 0 /\ i # 0 /\ st[M + i] = t[i]
      BY <1>1
    <3> QED
      BY <3>1 DEF Open
  <2>3. Open(t, m, 0) = m /\ M + 0 = M
    BY <1>1 DEF Open
  <2> QED
    BY <1>1, <2>1, <2>2, <2>3
<1>4. ASSUME NEW i \in 1 .. M
      PROVE  Open(st, a, i - 1) = (IF st[i] = "startproc" THEN 0 ELSE 1)
  <2>1. i - 1 \in 0 .. M /\ st[i] = s[i]
    BY <1>1
  <2> QED
    BY <1>1, <1>2, <2>1 DEF Runs
<1>5. ASSUME NEW i \in 1 .. N
      PROVE  Open(st, a, (M + i) - 1) = (IF st[M + i] = "startproc" THEN 0 ELSE 1)
  <2>1. i - 1 \in 0 .. N /\ (M + i) - 1 = M + (i - 1) /\ st[M + i] = t[i]
    BY <1>1
  <2>2. Open(t, m, i - 1) = (IF t[i] = "startproc" THEN 0 ELSE 1)
    BY <1>1 DEF Runs
  <2> QED
    BY <1>3, <2>1, <2>2
<1>6. ASSUME NEW i \in DOMAIN st
      PROVE  Open(st, a, i - 1) = (IF st[i] = "startproc" THEN 0 ELSE 1)
  <2>1. CASE i <= M
    BY <1>1, <1>4, <2>1
  <2>2. CASE ~(i <= M)
    <3>1. i - M \in 1 .. N /\ M + (i - M) = i
      BY <1>1, <2>2
    <3> QED
      BY <1>5, <3>1
  <2> QED
    BY <2>1, <2>2
<1>7. Open(st, a, Len(st)) = z
  <2>1. N \in 0 .. N
    BY <1>1
  <2>2. Open(st, a, M + N) = Open(t, m, N)
    BY <1>3, <2>1
  <2> QED
    BY <1>1, <2>2 DEF Runs, N
<1> QED
  BY <1>6, <1>7 DEF Runs, st

(* Directives that are paired leave open what was open.                     *)
LEMMA PairedStays ==
  ASSUME NEW s \in Seq(Op), Paired(s), NEW a, NEW z, Runs(s, a, z)
  PROVE  a = z
<1>1. Len(s) \in Nat /\ DOMAIN s = 1 .. Len(s)
  OBVIOUS
<1>2. CASE Len(s) = 0
  BY <1>2 DEF Runs, Open
<1>3. CASE Len(s) # 0
  <2>1. 1 \in DOMAIN s /\ 1 - 1 = 0
    BY <1>1, <1>3
  <2>2. Open(s, 0, 0) = Open(s, a, 0)
    BY <2>1 DEF Paired, Runs
  <2>3. a = 0
    BY <2>2 DEF Open
  <2> QED
    BY <2>3 DEF Paired, Runs
<1> QED
  BY <1>2, <1>3

(* What a turn adds to the directives: those of the code block, if it is    *)
(* printed and not skipped.                                                 *)
LEMMA TurnUnwind ==
  ASSUME img \in ImageType, NEW b \in Block, Prints(b), unwind \in Seq(Op)
  PROVE  unwind' = IF b \in Code /\ ~SkipEA(img.addr[b]) THEN unwind \o Unwind(b) ELSE unwind
<1>1. unwind \o <<>> = unwind
  OBVIOUS
<1>2. ASSUME NEW s, NEW text, NEW open, Put(b, s, text, open)
      PROVE  unwind' = unwind \o text.unwind
  BY <1>2 DEF Put
<1>3. CASE b \in Code /\ PrintCode(b)
  <2>1. \A s, n : BlockText(b, s, n).unwind = IF SkipEA(img.addr[b]) THEN <<>> ELSE Unwind(b)
    BY DEF BlockText, NoText
  <2>2. PICK s, n, open : Put(b, s, BlockText(b, s, n), open)
    BY <1>3 DEF PrintCode
  <2>3. unwind' = unwind \o (IF SkipEA(img.addr[b]) THEN <<>> ELSE Unwind(b))
    BY <1>2, <2>1, <2>2
  <2> QED
    BY <1>1, <1>3, <2>3
<1>4. CASE b \in Data /\ PrintData(b)
  <2>1. \A s, n, in : DataText(b, s, n, in).unwind = <<>>
    BY DEF DataText, NoText
  <2>2. PICK s, n, in, open : Put(b, s, DataText(b, s, n, in), open)
    BY <1>4 DEF PrintData
  <2>3. unwind' = unwind \o <<>>
    BY <1>2, <2>1, <2>2
  <2>4. b \notin Code
    BY <1>4, BlockAssumption
  <2> QED
    BY <1>1, <2>3, <2>4
<1> QED
  BY <1>3, <1>4 DEF Prints

(* The code block that the walk over the code comes to next.                *)
NextCode(c) == ~Decided(c) /\ \A d \in Code : ~Decided(d) => img.addr[c] <= img.addr[d]

(* The directives up to now are accepted, and leave open what is open       *)
(* before the next code block.                                              *)
Balanced(before) ==
  (\A c \in Code : Decided(c) => Attached(c)) =>
    \E v \in {0, 1} :
      /\ Runs(unwind, 0, v)
      /\ \A c \in Code : NextCode(c) => before[c] = v
      /\ (\A c \in Code : Decided(c)) => v = 0

DistinctCode == \A c, d \in Code : img.addr[c] = img.addr[d] => c = d

LEMMA AttachedKept ==
  ASSUME img' = img, NEW c, status'[c] = status[c]
  PROVE  Attached(c)' <=> Attached(c)
<1>1. Ops(c)' = Ops(c)
  BY DEF Ops
<1>2. Paired(Ops(c))' <=> Paired(Ops(c))
  BY <1>1 DEF Paired, Runs, Open
<1>3. SkipEA(img.addr[c])' <=> SkipEA(img.addr[c])
  BY DEF SkipEA, InSkippedSection, InSkippedFunction, Containers
<1> QED
  BY <1>2, <1>3 DEF Attached

(* A turn of a code block.                                                  *)
LEMMA CodeBalanced ==
  ASSUME IInv, DistinctCode, NEW before \in [Code -> {0, 1}], NEW after \in [Code -> {0, 1}],
         Threaded(before, after), Balanced(before),
         NEW b \in Code, b \in L!First, img' = img,
         NEW x, x # "todo", status' = [status EXCEPT ![b] = x],
         Attached(b)' /\ Runs(unwind, 0, before[b]) => Runs(unwind, 0, after[b])'
  PROVE  Balanced(before)'
<1> SUFFICES ASSUME \A c \in Code : Decided(c)' => Attached(c)'
             PROVE  \E v \in {0, 1} :
                      /\ Runs(unwind, 0, v)'
                      /\ \A c \in Code : NextCode(c)' => before[c] = v
                      /\ (\A c \in Code : Decided(c)') => v = 0
  BY DEF Balanced
<1>1. /\ status \in [Block -> {"todo", "printed", "warned"}]
      /\ Code \subseteq Block /\ b \in Block /\ status[b] = "todo"
      /\ \A t \in Block : status[t] = "todo" => img.addr[b] <= img.addr[t]
      /\ \A t \in Block : img.addr[t] \in Nat
  BY DEF IInv, WalkTyped, Block, L!First, L!Todo, ImageType
<1>2. /\ Decided(b)' /\ ~Decided(b)
      /\ \A c \in Code \ {b} : status'[c] = status[c] /\ (Decided(c)' <=> Decided(c))
  BY <1>1 DEF Decided
<1>3. \A c \in Code : Decided(c) => Attached(c)
  <2> SUFFICES ASSUME NEW c \in Code, Decided(c)
               PROVE  Attached(c)
    OBVIOUS
  <2>1. c # b /\ Decided(c)' /\ status'[c] = status[c]
    BY <1>2
  <2> QED
    BY <2>1, AttachedKept
<1>4. NextCode(b)
  BY <1>1, <1>2 DEF NextCode, Decided
<1>5. Runs(unwind, 0, before[b])
  BY <1>3, <1>4 DEF Balanced
<1>6. Runs(unwind, 0, after[b])'
  BY <1>2, <1>5
<1>7. \A e \in Code : Decided(e)' => img.addr[e] <= img.addr[b]
  <2> SUFFICES ASSUME NEW e \in Code, Decided(e)'
               PROVE  img.addr[e] <= img.addr[b]
    OBVIOUS
  <2>1. CASE e = b
    BY <1>1, <2>1
  <2>2. CASE e # b
    <3>1. Decided(e)
      BY <1>2, <2>2
    <3> QED
      BY <1>1, <1>2, <3>1 DEF IInv, InOrder
  <2> QED
    BY <2>1, <2>2
<1>8. ASSUME NEW c \in Code, NextCode(c)'
      PROVE  before[c] = after[b]
  <2>1. /\ ~Decided(c)' /\ \A d \in Code : ~Decided(d)' => img.addr[c] <= img.addr[d]
    BY <1>8 DEF NextCode
  <2>2. c # b /\ ~Decided(c)
    BY <1>2, <2>1
  <2>3. img.addr[b] < img.addr[c]
    <3>1. img.addr[b] <= img.addr[c]
      BY <1>1, <2>2 DEF Decided
    <3>2. img.addr[b] # img.addr[c]
      BY <2>2 DEF DistinctCode
    <3> QED
      BY <1>1, <3>1, <3>2
  <2>4. Adjacent(b, c)
    BY <1>7, <2>1, <2>3 DEF Adjacent
  <2> QED
    BY <2>4 DEF Threaded
<1>9. ASSUME \A c \in Code : Decided(c)'
      PROVE  after[b] = 0
  BY <1>7, <1>9 DEF Threaded
<1> QED
  BY <1>6, <1>8, <1>9

(* Every turn keeps the balance.                                            *)
LEMMA BalancedStep ==
  ASSUME TypeOK, IInv, DistinctCode, NEW before \in [Code -> {0, 1}],
         NEW after \in [Code -> {0, 1}],
         Threaded(before, after), Balanced(before), [Next]_vars
  PROVE  Balanced(before)'
<1>1. img \in ImageType /\ unwind \in Seq(Op) /\ WalkTyped
  BY DEF TypeOK, Op, IInv
<1>2. ASSUME img' = img, unwind' = unwind, \A c \in Code : status'[c] = status[c]
      PROVE  Balanced(before)'
  <2>1. \A c \in Code : Attached(c)' <=> Attached(c)
    BY <1>2, AttachedKept
  <2>2. \A c \in Code : Decided(c)' <=> Decided(c)
    BY <1>2 DEF Decided
  <2>3. \A c \in Code : NextCode(c)' <=> NextCode(c)
    BY <1>2, <2>2 DEF NextCode
  <2>4. \A v : Runs(unwind, 0, v)' <=> Runs(unwind, 0, v)
    BY <1>2 DEF Runs, Open
  <2> QED
    BY <2>1, <2>2, <2>3, <2>4 DEF Balanced
<1>3. ASSUME NEW b \in L!First, Prints(b)
      PROVE  Balanced(before)'
  <2>1. /\ b \in Block /\ img' = img /\ status' = [status EXCEPT ![b] = "printed"]
    BY <1>3, PrintShape DEF Prints, L!First, L!Todo
  <2>2. unwind' = IF b \in Code /\ ~SkipEA(img.addr[b]) THEN unwind \o Unwind(b) ELSE unwind
    BY <1>1, <1>3, <2>1, TurnUnwind
  <2>3. CASE b \notin Code
    <3>1. \A c \in Code : status'[c] = status[c]
      BY <2>1, <2>3 DEF IInv, WalkTyped, Block
    <3> QED
      BY <1>2, <2>1, <2>2, <2>3, <3>1
  <2>4. CASE b \in Code
    <3>1. /\ Runs(Ops(b), before[b], after[b]) /\ Ops(b) \in Seq(Op)
      <4>1. Ops(b) \in Seq(Op)
        BY <1>1, <2>4, OpsType
      <4> QED
        BY <2>4, <4>1 DEF Threaded
    <3>2. ASSUME Attached(b)', Runs(unwind, 0, before[b])
          PROVE  Runs(unwind, 0, after[b])'
      <4>1. CASE SkipEA(img.addr[b])
        <5>1. SkipEA(img.addr[b])'
          BY <2>1, <4>1 DEF SkipEA, InSkippedSection, InSkippedFunction, Containers
        <5>2. Paired(Ops(b))'
          BY <3>2, <5>1 DEF Attached
        <5>3. Ops(b)' = Ops(b)
          BY <2>1 DEF Ops
        <5>4. Paired(Ops(b))
          BY <5>2, <5>3 DEF Paired, Runs, Open
        <5>5. before[b] = after[b]
          BY <3>1, <5>4, PairedStays
        <5>6. unwind' = unwind
          BY <2>2, <4>1
        <5> QED
          BY <3>2, <5>5, <5>6 DEF Runs, Open
      <4>2. CASE ~SkipEA(img.addr[b])
        <5>1. /\ img.decoded[b] = img.size[b]
              /\ \A i \in DOMAIN img.cfi[b] : img.cfi[b][i].at \in img.insns[b] \cup {img.size[b]}
          BY <2>1, <3>2 DEF Attached
        <5>2. Unwind(b) = Ops(b)
          BY <1>1, <2>4, <5>1, OpsAtAll DEF Unwind
        <5>3. unwind' = unwind \o Ops(b)
          BY <2>2, <2>4, <4>2, <5>2
        <5>4. Runs(unwind \o Ops(b), 0, after[b])
          BY <1>1, <3>1, <3>2, RunsConcat
        <5> QED
          BY <5>3, <5>4 DEF Runs, Open
      <4> QED
        BY <4>1, <4>2
    <3> QED
      BY <1>3, <2>1, <2>4, <3>2, CodeBalanced
  <2> QED
    BY <2>3, <2>4
<1>4. ASSUME NEW b \in L!First, Warn(b)
      PROVE  Balanced(before)'
  <2>1. /\ b \in Block /\ img' = img /\ status' = [status EXCEPT ![b] = "warned"]
        /\ unwind' = unwind
    BY <1>4 DEF Warn, L!First, L!Todo
  <2>2. CASE b \notin Code
    <3>1. \A c \in Code : status'[c] = status[c]
      BY <2>1, <2>2 DEF IInv, WalkTyped, Block
    <3> QED
      BY <1>2, <2>1, <3>1
  <2>3. CASE b \in Code
    <3>1. ASSUME Attached(b)', Runs(unwind, 0, before[b])
          PROVE  Runs(unwind, 0, after[b])'
      <4>1. status'[b] = "warned"
        BY <2>1 DEF IInv, WalkTyped
      <4>2. Paired(Ops(b))'
        BY <3>1, <4>1 DEF Attached
      <4>3. Ops(b)' = Ops(b)
        BY <2>1 DEF Ops
      <4>4. Paired(Ops(b))
        BY <4>2, <4>3 DEF Paired, Runs, Open
      <4>5. Runs(Ops(b), before[b], after[b]) /\ Ops(b) \in Seq(Op)
        <5>1. Ops(b) \in Seq(Op)
          BY <1>1, <2>3, OpsType
        <5> QED
          BY <2>3, <5>1 DEF Threaded
      <4>6. before[b] = after[b]
        BY <4>4, <4>5, PairedStays
      <4> QED
        BY <2>1, <3>1, <4>6 DEF Runs, Open
    <3> QED
      BY <1>4, <2>1, <2>3, <3>1, CodeBalanced
  <2> QED
    BY <2>2, <2>3
<1>5. CASE Finish \/ UNCHANGED vars
  BY <1>2, <1>5 DEF Finish, vars
<1> QED
  BY <1>1, <1>3, <1>4, <1>5, TurnPrints DEF Next

(* The listing opens and closes procedures by turns if the module does,     *)
(* even when procedures that lie inside a block are left out.               *)
THEOREM CfiPairedAlways == Spec => []CfiPaired
<1> DEFINE Balance ==
      \A before, after \in [Code -> {0, 1}] :
        DistinctCode /\ Threaded(before, after) => Balanced(before)
<1>1. Init => Balance
  <2> SUFFICES ASSUME Init, NEW before \in [Code -> {0, 1}], NEW after \in [Code -> {0, 1}],
                      Threaded(before, after)
               PROVE  Balanced(before)
    OBVIOUS
  <2>1. unwind = <<>> /\ \A c \in Code : ~Decided(c)
    BY DEF Init, Start, Block, Decided
  <2>2. Runs(unwind, 0, 0)
    BY <2>1 DEF Runs, Open
  <2>3. \A c \in Code : NextCode(c) => before[c] = 0
    BY <2>1 DEF NextCode, Threaded
  <2> QED
    BY <2>2, <2>3 DEF Balanced
<1>2. TypeOK /\ IInv /\ Balance /\ [Next]_vars => Balance'
  <2> SUFFICES ASSUME TypeOK, IInv, Balance, [Next]_vars,
                      NEW before \in [Code -> {0, 1}], NEW after \in [Code -> {0, 1}],
                      DistinctCode', Threaded(before, after)'
               PROVE  Balanced(before)'
    OBVIOUS
  <2>1. img' = img
    BY TurnPrints, PrintShape DEF Next, vars, Finish, Warn, Prints, IInv
  <2>2. DistinctCode
    BY <2>1 DEF DistinctCode
  <2>3. Threaded(before, after)
    <3>1. \A c \in Code : Ops(c)' = Ops(c)
      BY <2>1 DEF Ops
    <3>2. ASSUME NEW c \in Code
          PROVE  Runs(Ops(c), before[c], after[c])' <=> Runs(Ops(c), before[c], after[c])
      BY <3>1 DEF Runs, Open
    <3>3. \A c, d \in Code : Adjacent(c, d)' <=> Adjacent(c, d)
      BY <2>1 DEF Adjacent
    <3> QED
      BY <2>1, <3>2, <3>3 DEF Threaded
  <2> QED
    BY <2>2, <2>3, BalancedStep
<1>3. IInv /\ DoneWithAll /\ Balance => CfiPaired
  <2> SUFFICES ASSUME DoneWithAll, Balance, pc = "done", ModulePaired, \A c \in Code : Attached(c)
               PROVE  Paired(unwind)
    BY DEF CfiPaired
  <2>1. PICK before, after \in [Code -> {0, 1}] : Threaded(before, after)
    BY DEF ModulePaired
  <2>2. DistinctCode
    BY DEF ModulePaired, DistinctCode
  <2>3. Balanced(before)
    BY <2>1, <2>2
  <2>4. \A c \in Code : Decided(c)
    BY DEF DoneWithAll, Block
  <2> QED
    BY <2>3, <2>4 DEF Balanced, Paired
<1>4. Init => DoneWithAll
  BY DEF Init, Start, DoneWithAll
<1> HIDE DEF Balance
<1> QED
  BY <1>1, <1>2, <1>3, <1>4, TypeCorrect, InitIInv, IInvStep, DoneStep, PTL DEF Spec
-------------------------------------------------------------------------------
(* Code that falls through *)

(* d starts where b ends, alone there and in the same section; both are     *)
(* printed, b in full.                                                      *)
Behind(b, d) ==
  /\ b \in Code /\ d \in Code
  /\ img.size[b] > 0 /\ img.size[d] > 0 /\ img.addr[d] = img.addr[b] + img.size[b]
  /\ \A e \in Block : img.addr[e] = img.addr[d] => e = d
  /\ \E s \in Section : Held(b, s) /\ Held(d, s)
  /\ ~SkipEA(img.addr[b]) /\ ~SkipEA(img.addr[d])
  /\ Offset(b, img.decoded[b]) = img.size[b] /\ Offset(d, img.decoded[d]) > 0

(* How d lies behind n bytes.                                               *)
Onto(n, d) == IF IsFunction(d) THEN Aligned(n, img.addr[d]) ELSE n

(* Once b is printed the listing is about to go on with d, or it did.       *)
GoesOn(b, d) ==
  status[b] = "printed" =>
    \E x \in content :
      /\ x.block = b
      /\ status[d] = "todo" =>
           last = img.addr[d] /\ curSec = x.sec /\ filled[curSec] = x.pos + img.size[b]
      /\ status[d] = "printed" =>
           \E y \in content :
             y.block = d /\ y.sec = x.sec /\ y.pos = Onto(x.pos + img.size[b], d)

(* What is written of a code block.                                         *)
LEMMA CodePrinted ==
  ASSUME img \in ImageType, WellFormed(img), PlacesTyped, NEW c \in Code, PrintCode(c),
         ~SkipEA(img.addr[c]), Offset(c, img.decoded[c]) > 0
  PROVE  \E s \in Section \cup {NoSection} :
           LET p == Onto(AfterHeader(img.addr[c], s), c)
           IN  /\ SectionFor(c, s) /\ curSec' = s
               /\ content' = content \cup {[block |-> c, sec |-> s, pos |-> p]}
               /\ filled'[s] = p + Offset(c, img.decoded[c])
<1>1. PICK s, open :
        /\ s \in Section \cup {NoSection} /\ SectionFor(c, s)
        /\ Put(c, s, BlockText(c, s, AfterHeader(img.addr[c], s)), open)
  BY DEF PrintCode
<1> DEFINE n == AfterHeader(img.addr[c], s)
           text == BlockText(c, s, n)
<1>2. text.start = Onto(n, c) /\ text.bytes = Offset(c, img.decoded[c])
  BY DEF BlockText, Onto
<1> HIDE DEF text, n
<1>3. /\ curSec' = s
      /\ content' = IF text.bytes = 0 THEN content
                    ELSE content \cup {[block |-> c, sec |-> s, pos |-> text.start]}
      /\ filled' = [filled EXCEPT ![s] = text.start + text.bytes]
  BY <1>1 DEF Put, text, n
<1>4. img.decoded[c] \in Nat
  BY DEF ImageType
<1>5. text.bytes # 0
  BY <1>2
<1>6. filled'[s] = text.start + text.bytes
  BY <1>1, <1>3 DEF PlacesTyped
<1> QED
  BY <1>1, <1>2, <1>3, <1>5, <1>6 DEF n

(* No section starts behind a block of the same section.                    *)
LEMMA BehindHasNoHeader ==
  ASSUME img \in ImageType, WellFormed(img), NEW b, NEW d, Behind(b, d)
  PROVE  Headed(img.addr[d]) = {}
<1> SUFFICES ASSUME NEW t \in Headed(img.addr[d]) PROVE FALSE
  OBVIOUS
<1>1. t \in Section /\ img.base[t] = img.addr[d]
  BY HeadedFacts
<1>2. PICK s \in Section : Held(b, s) /\ Held(d, s)
  BY DEF Behind
<1>3. /\ img.addr[b] \in Nat /\ img.size[b] \in Nat /\ img.addr[d] \in Nat /\ img.size[d] \in Nat
      /\ img.base[s] \in Int /\ img.extent[s] \in Nat /\ img.extent[t] \in Nat
  BY <1>1, ImageFacts DEF Behind, Block
<1>4. img.base[s] <= img.addr[b] /\ img.addr[d] + img.size[d] <= img.base[s] + img.extent[s]
  BY <1>2 DEF Held, OnSection
<1>5. img.addr[b] < img.addr[d] /\ img.size[d] > 0
  BY <1>3 DEF Behind
<1>6. s # t
  BY <1>1, <1>3, <1>4, <1>5
<1>7. img.base[s] + img.extent[s] <= img.base[t] \/ img.base[t] + img.extent[t] <= img.base[s]
  BY <1>1, <1>6, ImageFacts
<1> QED
  BY <1>1, <1>3, <1>4, <1>5, <1>7

(* Nothing but d can come between.                                          *)
LEMMA GoesOnPrint ==
  ASSUME IInv, WellFormed(img), PlacesTyped, NEW b, NEW d, Behind(b, d), GoesOn(b, d),
         NEW e \in L!First, Prints(e)
  PROVE  GoesOn(b, d)'
<1>1. img \in ImageType
  BY DEF IInv, WalkTyped
<1>2. /\ last <= img.addr[e] /\ img' = img /\ last' = img.addr[e] + img.size[e]
      /\ status' = [status EXCEPT ![e] = "printed"]
  BY PrintShape DEF Prints
<1>3. /\ e \in Block /\ status[e] = "todo" /\ b \in Block /\ d \in Block /\ b \in Code /\ d \in Code
      /\ \A t \in Block : status[t] = "todo" => img.addr[e] <= img.addr[t]
  BY DEF L!First, L!Todo, Behind, Block
<1>4. \A t \in Block : img.addr[t] \in Nat /\ img.size[t] \in Nat
  BY <1>1, ImageFacts
<1>5. img.addr[b] < img.addr[d] /\ b # d /\ img.addr[d] = img.addr[b] + img.size[b]
  BY <1>3, <1>4 DEF Behind
<1>6. /\ \A t \in Block : status'[t] = IF t = e THEN "printed" ELSE status[t]
      /\ \A n : Onto(n, d)' = Onto(n, d)
  BY <1>2, <1>3 DEF IInv, WalkTyped, Onto, IsFunction, Aligned
<1>7. CASE e = b
  <2>1. status[d] = "todo"
    BY <1>3, <1>4, <1>5, <1>7 DEF IInv, InOrder, Decided
  <2>2. PrintCode(b)
    BY <1>3, <1>7, BlockAssumption DEF Prints
  <2>3. img.size[b] > 0 /\ ~SkipEA(img.addr[b]) /\ Offset(b, img.decoded[b]) = img.size[b]
    BY DEF Behind
  <2>4. PICK s, p :
          /\ curSec' = s /\ content' = content \cup {[block |-> b, sec |-> s, pos |-> p]}
          /\ filled'[s] = p + img.size[b]
    BY <1>1, <1>3, <2>2, <2>3, CodePrinted
  <2> DEFINE x == [block |-> b, sec |-> s, pos |-> p]
  <2>5. x \in content' /\ x.block = b /\ x.sec = s /\ x.pos = p
    BY <2>4
  <2>6. last' = img.addr[d]
    BY <1>2, <1>5, <1>7
  <2>7. status'[d] = "todo"
    BY <1>3, <1>5, <1>6, <1>7, <2>1
  <2> HIDE DEF x
  <2> QED
    BY <1>2, <2>4, <2>5, <2>6, <2>7 DEF GoesOn
<1>8. CASE e = d
  <2> SUFFICES ASSUME status[b] = "printed" PROVE GoesOn(b, d)'
    BY <1>3, <1>5, <1>6, <1>8 DEF GoesOn
  <2>1. PICK x \in content : /\ x.block = b
                             /\ curSec = x.sec /\ filled[curSec] = x.pos + img.size[b]
    BY <1>3, <1>8 DEF GoesOn
  <2>2. PrintCode(d)
    BY <1>3, <1>8, BlockAssumption DEF Prints
  <2>3. ~SkipEA(img.addr[d]) /\ Offset(d, img.decoded[d]) > 0
    BY DEF Behind
  <2>4. PICK s \in Section \cup {NoSection} :
          /\ SectionFor(d, s)
          /\ content' = content \cup
               {[block |-> d, sec |-> s, pos |-> Onto(AfterHeader(img.addr[d], s), d)]}
    BY <1>1, <1>3, <2>2, <2>3, CodePrinted
  <2>5. Headed(img.addr[d]) = {}
    BY <1>1, BehindHasNoHeader
  <2>6. s = x.sec /\ AfterHeader(img.addr[d], s) = x.pos + img.size[b]
    BY <2>1, <2>4, <2>5 DEF SectionFor, AfterHeader
  <2> DEFINE y == [block |-> d, sec |-> s, pos |-> Onto(x.pos + img.size[b], d)]
  <2>7. /\ y \in content' /\ x \in content'
        /\ y.block = d /\ y.sec = x.sec /\ y.pos = Onto(x.pos + img.size[b], d)
    BY <2>4, <2>6
  <2>8. status'[d] = "printed"
    BY <1>3, <1>6, <1>8
  <2> HIDE DEF y
  <2> QED
    BY <1>2, <1>6, <2>1, <2>7, <2>8 DEF GoesOn
<1>9. CASE e # b /\ e # d
  <2> SUFFICES ASSUME status[b] = "printed" PROVE GoesOn(b, d)'
    BY <1>3, <1>6, <1>9 DEF GoesOn
  <2>1. content \subseteq content'
    <3>1. ASSUME NEW s, NEW text, NEW open, Put(e, s, text, open)
          PROVE  content \subseteq content'
      BY <3>1 DEF Put
    <3>2. \E s, text, open : Put(e, s, text, open)
      BY DEF Prints, PrintCode, PrintData
    <3> QED
      BY <3>1, <3>2
  <2>2. PICK x \in content :
          /\ x.block = b
          /\ status[d] = "todo" => last = img.addr[d]
          /\ status[d] = "printed" =>
               \E y \in content :
                 y.block = d /\ y.sec = x.sec /\ y.pos = Onto(x.pos + img.size[b], d)
    BY DEF GoesOn
  <2>3. status[d] # "todo"
    <3> SUFFICES ASSUME status[d] = "todo" PROVE FALSE
      OBVIOUS
    <3>1. img.addr[e] = img.addr[d]
      BY <1>2, <1>3, <1>4, <2>2
    <3> QED
      BY <1>3, <1>9, <3>1 DEF Behind
  <2>4. status'[d] = status[d]
    BY <1>3, <1>6, <1>9
  <2> QED
    BY <1>2, <1>6, <2>1, <2>2, <2>3, <2>4 DEF GoesOn
<1> QED
  BY <1>7, <1>8, <1>9

(* Nor does a warning.                                                      *)
LEMMA GoesOnStep ==
  ASSUME IInv, WellFormed(img), PlacesTyped, NEW b, NEW d, Behind(b, d), GoesOn(b, d),
         [Next]_vars
  PROVE  GoesOn(b, d)' /\ (Behind(b, d)' <=> Behind(b, d))
<1>1. CASE UNCHANGED <<img, last, curSec, filled, content>> /\
           \E w \in Block : status' = [status EXCEPT ![w] = "warned"] /\ status[w] = "todo"
  <2>1. PICK w \in Block : status' = [status EXCEPT ![w] = "warned"] /\ status[w] = "todo"
    BY <1>1
  <2>2. b \in Block /\ d \in Block
    BY DEF Behind, Block
  <2>3. \A t \in Block : status'[t] = IF t = w THEN "warned" ELSE status[t]
    BY <2>1 DEF IInv, WalkTyped
  <2>4. \A n : Onto(n, d)' = Onto(n, d)
    BY <1>1 DEF Onto, IsFunction, Aligned
  <2>5. GoesOn(b, d)'
    BY <1>1, <2>1, <2>2, <2>3, <2>4 DEF GoesOn
  <2> QED
    BY <1>1, <2>5 DEF Behind, Held, SkipEA, InSkippedSection, InSkippedFunction, Containers, Offset
<1>2. CASE UNCHANGED <<img, status, last, curSec, filled, content>>
  <2>1. \A n : Onto(n, d)' = Onto(n, d)
    BY <1>2 DEF Onto, IsFunction, Aligned
  <2>2. GoesOn(b, d)'
    BY <1>2, <2>1 DEF GoesOn
  <2> QED
    BY <1>2, <2>2 DEF Behind, Held, SkipEA, InSkippedSection, InSkippedFunction, Containers, Offset
<1>3. ASSUME NEW e \in L!First, Prints(e)
      PROVE  GoesOn(b, d)' /\ (Behind(b, d)' <=> Behind(b, d))
  <2>1. img' = img
    BY <1>3, PrintShape DEF Prints
  <2>2. Behind(b, d)' <=> Behind(b, d)
    BY <2>1 DEF Behind, Held, SkipEA, InSkippedSection, InSkippedFunction, Containers, Offset
  <2> QED
    BY <1>3, <2>2, GoesOnPrint
<1>4. ASSUME NEW e \in L!First, Warn(e)
      PROVE  GoesOn(b, d)' /\ (Behind(b, d)' <=> Behind(b, d))
  <2>1. e \in Block /\ status[e] = "todo"
    BY <1>4 DEF L!First, L!Todo
  <2> QED
    BY <1>1, <1>4, <2>1 DEF Warn
<1>5. CASE Finish \/ UNCHANGED vars
  BY <1>2, <1>5 DEF Finish, vars
<1>6. CASE (\E c \in Code : CodeTurn(c)) \/ (\E c \in Data : DataTurn(c))
  <2>1. WalkTyped
    BY DEF IInv
  <2> QED
    BY <1>3, <1>4, <1>6, <2>1, TurnPrints
<1> QED
  BY <1>5, <1>6 DEF Next
===============================================================================
