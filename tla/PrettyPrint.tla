----------------------------- MODULE PrettyPrint -----------------------------
(***************************************************************************)
(* PrettyPrinterBase::print: the walk over the code and data blocks of a   *)
(* module that writes its assembly listing.                                *)
(*                                                                         *)
(* One action is one iteration of the loops of print, with everything it   *)
(* writes: the symbols at the end of what was printed before, the footer   *)
(* of the section that ends, the header of the one that starts, and then   *)
(* the block or a warning.  The listing is abstracted to what an assembler *)
(* makes of it: the section each line goes to, the number of bytes already *)
(* assembled there, and the place of each label.  The module being printed *)
(* is a record, img, that never changes.                                   *)
(***************************************************************************)
EXTENDS Integers, FiniteSets, Sequences

CONSTANTS
  Code,     \* code blocks of the module
  Data,     \* its data blocks
  Section,  \* its sections
  Images    \* what the module may look like: records of ImageType

Block     == Code \cup Data
NoSection == "none"  \* no section: std::nullopt, or no header printed yet
NoTarget  == -1      \* a data block that holds no SymAddrConst
NoBase    == -1      \* a section without an address: std::nullopt

(* "string", "uleb128" or "sleb128", or not in the table *)
Encoding  == {"string", "leb128", "none"}
Directive == Encoding \cup {"byte", "word", "long", "quad"}

(* Where a CFI directive is attached in its block, and whether it opens or  *)
(* closes a procedure.                                                      *)
Cfi == [at : Nat, op : {"startproc", "endproc", "other"}]

ImageType ==
  [addr      : [Block -> Nat],
   size      : [Block -> Nat],
   base      : [Section -> Nat \cup {NoBase}],  \* Section::getAddress
   extent    : [Section -> Nat],         \* Section::getSize
   found     : SUBSET Section,           \* findSectionsAt yields these first
   skipSec   : SUBSET Section,           \* named by policy.skipSections
   arraySec  : SUBSET Section,           \* named by policy.arraySections
   entries   : SUBSET Nat,               \* functionEntry
   skipFn    : SUBSET Nat,               \* ... those named by policy.skipFunctions
   syms      : SUBSET Nat,               \* addresses that have a symbol
   insns     : [Code -> SUBSET Nat],     \* where cs_disasm finds instructions
   decoded   : [Code -> Nat],            \* how many bytes it decodes
   nops      : [Code -> SUBSET Nat],     \* the offsets of bytes in no-ops
   nopSize   : Nat \ {0},                \* what one "nop" assembles to
   cfi       : [Code -> Seq(Cfi)],       \* the table of directives, by offset
   zeros     : [Data -> Nat],            \* how many bytes of a data block are zero
   encoding  : [Data -> Encoding],       \* the table of encodings
   symbolic  : SUBSET Data,              \* those with a symbolic expression
   width     : [Directive -> Nat],       \* what a directive and an expression assemble to
   remarks   : SUBSET Data,              \* those with a comment in the table
   target    : [Data -> Nat \cup {NoTarget}],  \* the address a data block points to
   debug     : BOOLEAN]                  \* policy.debug = DebugMessages

OnSection(im, s, a) == im.base[s] <= a /\ a < im.base[s] + im.extent[s]

(* Sections do not overlap, "This method assumes sections do not overlap",  *)
(* and hold the blocks; of those that start at one address one is found     *)
(* first; capstone decodes a block from its start and stops at the first    *)
(* byte it cannot decode; functions start at code blocks.                   *)
WellFormed(im) ==
  /\ \A s, t \in Section : s # t =>
       \/ im.base[s] + im.extent[s] <= im.base[t]
       \/ im.base[t] + im.extent[t] <= im.base[s]
  /\ \A s \in Section : im.base[s] = NoBase => im.extent[s] = 0
  /\ \A s \in Section : \E t \in im.found : im.base[t] = im.base[s]
  /\ \A s, t \in im.found : im.base[s] = im.base[t] => s = t
  /\ \A b \in Block : \E s \in Section :
       /\ OnSection(im, s, im.addr[b])
       /\ im.addr[b] + im.size[b] <= im.base[s] + im.extent[s]
  /\ \A c \in Code :
       /\ im.decoded[c] <= im.size[c]
       /\ \A o \in im.insns[c] : o < im.decoded[c]
       /\ im.decoded[c] > 0 => 0 \in im.insns[c]
       /\ \A o \in im.nops[c] : o < im.decoded[c]
       /\ \A i, j \in DOMAIN im.cfi[c] : i < j => im.cfi[c][i].at <= im.cfi[c][j].at
  /\ \A d \in Data : /\ im.zeros[d] <= im.size[d]
                     /\ im.target[d] # NoTarget => d \in im.symbolic
  /\ \A a \in im.entries : \E c \in Code : im.addr[c] = a
  /\ im.skipFn \subseteq im.entries

ASSUME BlockAssumption == Code \cap Data = {}

ASSUME SectionAssumption == NoSection \notin Section

ASSUME ImagesAssumption ==
  Images \subseteq ImageType /\ \A im \in Images : WellFormed(im)

VARIABLES
  img,        \* the module and the policy it is printed with
  status,     \* what has become of each block: "todo", "printed" or "warned"
  last,       \* the end of the last block printed
  curSec,     \* the section the assembler is in
  filled,     \* the number of bytes assembled into each section
  labels,     \* the labels defined: an address and the place it got
  content,    \* the blocks whose bytes were written, and their places
  commented,  \* the listing ends in the middle of a comment
  lost,       \* addresses of what was written into a comment
  unwind,     \* the CFI directives in the listing
  pc

vars == <<img, status, last, curSec, filled, labels, content, commented, lost, unwind, pc>>

(* A call of print on im. *)
Start(im) ==
  /\ img = im
  /\ status = [b \in Block |-> "todo"]
  /\ last = 0
  /\ curSec = NoSection /\ filled = [s \in Section \cup {NoSection} |-> 0]
  /\ labels = {} /\ content = {}
  /\ commented = FALSE /\ lost = {} /\ unwind = <<>>
  /\ pc = "printing"

Init == \E im \in Images : Start(im)

-------------------------------------------------------------------------------
(* What is not printed *)

(* getContainerSection *)
Containers(a) == {s \in Section : OnSection(img, s, a)}

InSkippedSection(a) == \E s \in Containers(a) : s \in img.skipSec

(* getContainerFunctionName: the last function that starts at or before a.  *)
InSkippedFunction(a) ==
  \E f \in img.skipFn : f <= a /\ \A g \in img.entries : g <= f \/ a < g

SkipEA(a) == ~img.debug /\ (InSkippedSection(a) \/ InSkippedFunction(a))

(* ElfPrettyPrinter::shouldExcludeDataElement: an entry of an array of      *)
(* functions that points to something that is not printed.                  *)
Excluded(d) ==
  /\ \E s \in Containers(img.addr[d]) : s \in img.arraySec
  /\ img.target[d] # NoTarget
  /\ SkipEA(img.target[d])

-------------------------------------------------------------------------------
(* What an iteration writes *)

Todo(B) == {b \in B : status[b] = "todo"}

(* Mutant of GapLabel: symbols at last are printed even if b starts there.  *)
GapLabel_Always(b) == last \in img.syms

(* printSymbolDefinitionsAtAddress(last), when b does not start right there *)
GapLabel(b) == img.addr[b] > last /\ last \in img.syms

(* Mutant of Headed: no headers for arrays of functions.                    *)
Headed_NoArrays(a) ==
  {s \in img.found : img.base[s] = a /\ s \notin img.skipSec \cup img.arraySec}

(* printSectionHeader: the first section found that starts at exactly this *)
(* address, unless it is skipped.                                           *)
Headed(a) == {s \in img.found : img.base[s] = a /\ s \notin img.skipSec}

(* printSectionFooter; the container of last - 1 is none when last is 0.    *)
Footed(a) ==
  \E s \in Containers(last - 1) : s \notin img.skipSec /\ s \notin Containers(a)

(* Mutant of Aligned: everything is aligned to 16.                          *)
Aligned_Max(n, a) == ((n + 15) \div 16) * 16

(* printAlignment(a), when n bytes are in the section.                      *)
Aligned(n, a) ==
  LET m == CHOOSE m \in {1, 2, 4, 8, 16} :
             a % m = 0 /\ \A k \in {1, 2, 4, 8, 16} : a % k = 0 => k <= m
  IN  ((n + m - 1) \div m) * m

(* A section header aligns, except in arrays; so does a function header.    *)
AfterHeader(a, s) ==
  IF s \in Headed(a) \ img.arraySec THEN Aligned(filled[s], a) ELSE filled[s]

IsFunction(c) == img.addr[c] \in img.entries

Place(a, s, n) == [addr |-> a, sec |-> s, pos |-> n]

NoText(n) == [start |-> n, bytes |-> 0, labels |-> {}, lost |-> {}, unwind |-> <<>>]

(* printInstruction writes a no-op as one "nop" for each of its bytes, so   *)
(* that the instruction at offset o of block c comes this far behind its    *)
(* start.                                                                   *)
Offset(c, o) ==
  o + (img.nopSize - 1) * Cardinality({x \in img.nops[c] : x < o})

(* The directives of a block that are attached at some places, in order.    *)
OpsAt(c, places) ==
  LET ops[i \in 0 .. Len(img.cfi[c])] ==
        IF i = 0 THEN <<>>
        ELSE IF img.cfi[c][i].at \in places THEN Append(ops[i - 1], img.cfi[c][i].op)
        ELSE ops[i - 1]
  IN  ops[Len(img.cfi[c])]

(* Mutant of Unwind: directives at the end of the block are forgotten.      *)
Unwind_NoEnd(c) == OpsAt(c, img.insns[c])

(* printCFIDirectives in front of each instruction and behind the last one: *)
(* what is attached elsewhere is left out.                                  *)
Unwind(c) == OpsAt(c, img.insns[c] \cup {img.decoded[c]})

(* Mutant of BlockText: the loop stops before the last instruction.         *)
BlockText_OneLess(c, s, n) ==
  IF SkipEA(img.addr[c]) THEN NoText(n)
  ELSE [start |-> n, bytes |-> img.decoded[c] - 1, labels |-> {}, lost |-> {},
        unwind |-> Unwind(c)]

(* printBlock, after n bytes of section s: a function header defines the    *)
(* name of the function, each instruction the symbols at its address.       *)
BlockText(c, s, n) ==
  IF SkipEA(img.addr[c]) THEN NoText(n)
  ELSE LET p     == IF IsFunction(c) THEN Aligned(n, img.addr[c]) ELSE n
           heads == IF IsFunction(c) THEN {0} ELSE {}
       IN  [start  |-> p,
            bytes  |-> Offset(c, img.decoded[c]),
            labels |-> {Place(img.addr[c] + o, s, p + Offset(c, o)) :
                          o \in {o \in heads \cup img.insns[c] :
                                  img.addr[c] + o \in img.syms}},
            lost   |-> {},
            unwind |-> Unwind(c)]

(* printDataBlockType; there may be no directive at all.                    *)
DirectiveOf(d) ==
  IF img.encoding[d] # "none" THEN img.encoding[d]
  ELSE CASE img.size[d] = 1 -> "byte"
         [] img.size[d] = 2 -> "word"
         [] img.size[d] = 4 -> "long"
         [] img.size[d] = 8 -> "quad"
         [] OTHER -> "none"

AllZero(d) == img.zeros[d] = img.size[d] /\ d \notin img.symbolic

(* printString leaves out every zero; the assembler adds one.               *)
StringSize(d) == img.size[d] - img.zeros[d] + 1

(* printSymbolicData *)
SymbolicSize(d) == img.width[DirectiveOf(d)]

(* What the text of printZeroDataBlock or printNonZeroDataBlock assembles   *)
(* to.                                                                      *)
DataSize(d) ==
  IF d \in img.symbolic THEN SymbolicSize(d)
  ELSE IF ~AllZero(d) /\ img.encoding[d] = "string" THEN StringSize(d)
  ELSE img.size[d]

(* How much of it is on the first line: all, or the first of the bytes.     *)
FirstLine(d) ==
  IF AllZero(d) \/ d \in img.symbolic \/ img.encoding[d] = "string" THEN DataSize(d) ELSE 1

(* printDataBlock.  In the comment of a warning its first line is lost: the *)
(* label if it has one, else some or all of its bytes.                      *)
DataText(d, s, n, inComment) ==
  LET a     == img.addr[d]
      named == a \in img.syms
      bytes == IF Excluded(d) THEN 0 ELSE DataSize(d)
      first == IF Excluded(d) THEN 0 ELSE FirstLine(d)
  IN  IF SkipEA(a) THEN NoText(n)
      ELSE IF named
      THEN [start |-> n, bytes |-> bytes,
            labels |-> IF inComment THEN {} ELSE {Place(a, s, n)},
            lost |-> IF inComment THEN {a} ELSE {}, unwind |-> <<>>]
      ELSE [start |-> n, bytes |-> IF inComment THEN bytes - first ELSE bytes,
            labels |-> {},
            lost |-> IF inComment /\ first > 0 THEN {a} ELSE {}, unwind |-> <<>>]

(* printComments writes whole lines in front of a block. *)
Remarked(b) == img.debug /\ b \in img.remarks

(* The comment of a warning ends with the first line break after it.        *)
StillCommented(b) ==
  /\ commented /\ ~Remarked(b)
  /\ ~GapLabel(b) /\ ~Footed(img.addr[b]) /\ Headed(img.addr[b]) = {}

(* Mutant of SectionFor: only the first block gets a section directive.     *)
SectionFor_Once(b, s) ==
  IF Headed(img.addr[b]) = {} \/ curSec # NoSection
  THEN s = curSec ELSE s \in Headed(img.addr[b])

(* The section directive in front of b, if there is one.                    *)
SectionFor(b, s) ==
  IF Headed(img.addr[b]) = {} THEN s = curSec ELSE s \in Headed(img.addr[b])

(* The printing branch of printBlockOrWarning and printDataBlockOrWarning,  *)
(* given the section b comes to lie in and the text printed for it.         *)
Put(b, s, text, openAfter) ==
  LET gap == IF GapLabel(b) THEN {Place(last, curSec, filled[curSec])} ELSE {}
  IN  /\ status' = [status EXCEPT ![b] = "printed"]
      /\ last' = img.addr[b] + img.size[b]
      /\ curSec' = s
      /\ labels' = labels \cup text.labels \cup (IF commented THEN {} ELSE gap)
      /\ lost' = lost \cup text.lost \cup
                    (IF commented /\ GapLabel(b) THEN {last} ELSE {})
      /\ content' = IF text.bytes = 0 THEN content
                    ELSE content \cup {[block |-> b, sec |-> s, pos |-> text.start]}
      /\ filled' = [filled EXCEPT ![s] = text.start + text.bytes]
      /\ commented' = openAfter
      /\ unwind' = unwind \o text.unwind
      /\ UNCHANGED <<img, pc>>

PrintCode(c) ==
  /\ img.addr[c] >= last
  /\ \E s \in Section \cup {NoSection} :
       /\ SectionFor(c, s)
       /\ Put(c, s, BlockText(c, s, AfterHeader(img.addr[c], s)),
              StillCommented(c) /\ SkipEA(img.addr[c]))

PrintData(d) ==
  /\ img.addr[d] >= last
  /\ \E s \in Section \cup {NoSection} :
       /\ SectionFor(d, s)
       /\ LET text == DataText(d, s, AfterHeader(img.addr[d], s), StillCommented(d))
          IN  Put(d, s, text,
                  /\ StillCommented(d)
                  /\ SkipEA(img.addr[d]) \/ (Excluded(d) /\ text.lost = {}))

(* Mutant of Warn: a block right behind the last one counts as overlapping. *)
Warn_Touching(b) ==
  /\ img.addr[b] <= last
  /\ status' = [status EXCEPT ![b] = "warned"]
  /\ commented' = TRUE
  /\ UNCHANGED <<img, last, curSec, filled, labels, content, lost, unwind, pc>>

(* printOverlapWarning, a comment without an end of line. *)
Warn(b) ==
  /\ img.addr[b] < last
  /\ status' = [status EXCEPT ![b] = "warned"]
  /\ commented' = TRUE
  /\ UNCHANGED <<img, last, curSec, filled, labels, content, lost, unwind, pc>>

-------------------------------------------------------------------------------
(* The loops of print: two cursors over sequences sorted by address.  Blocks *)
(* at one address are in either order, since std::sort is not stable.        *)
Least(B) == {b \in Todo(B) : \A f \in Todo(B) : img.addr[b] <= img.addr[f]}

(* Mutant of CodeTurn: < for <=, so that neither cursor moves on a tie.     *)
CodeTurn_Strict(c) ==
  /\ pc = "printing" /\ c \in Least(Code)
  /\ \A d \in Todo(Data) : img.addr[c] < img.addr[d]
  /\ PrintCode(c) \/ Warn(c)

CodeTurn(c) ==
  /\ pc = "printing" /\ c \in Least(Code)
  /\ \A d \in Todo(Data) : img.addr[c] <= img.addr[d]
  /\ PrintCode(c) \/ Warn(c)

DataTurn(d) ==
  /\ pc = "printing" /\ d \in Least(Data)
  /\ \A c \in Todo(Code) : img.addr[d] < img.addr[c]
  /\ PrintData(d) \/ Warn(d)

(* Mutant of Finish: the symbols at the end of the module are forgotten.    *)
Finish_NoSymbols ==
  /\ pc = "printing" /\ Todo(Block) = {}
  /\ pc' = "done" /\ commented' = FALSE
  /\ UNCHANGED <<img, status, last, curSec, filled, labels, content, lost, unwind>>

(* After the loops: the symbols at the end, and the last section's footer.  *)
Finish ==
  /\ pc = "printing" /\ Todo(Block) = {}
  /\ pc' = "done"
  /\ IF last \notin img.syms THEN UNCHANGED <<labels, lost>>
     ELSE IF commented THEN lost' = lost \cup {last} /\ UNCHANGED labels
     ELSE labels' = labels \cup {Place(last, curSec, filled[curSec])} /\ UNCHANGED lost
  /\ commented' = FALSE
  /\ UNCHANGED <<img, status, last, curSec, filled, content, unwind>>

Next == (\E c \in Code : CodeTurn(c)) \/ (\E d \in Data : DataTurn(d)) \/ Finish

Spec == Init /\ [][Next]_vars

(* print is one call: it keeps running until it returns. *)
FairSpec == Spec /\ WF_vars(Next)
-------------------------------------------------------------------------------
Marks == [addr : Nat, sec : Section \cup {NoSection}, pos : Nat]

(* Type invariant.                                                          *)
TypeOK ==
  /\ img \in ImageType
  /\ status \in [Block -> {"todo", "printed", "warned"}]
  /\ last \in Nat
  /\ curSec \in Section \cup {NoSection}
  /\ filled \in [Section \cup {NoSection} -> Nat]
  /\ labels \subseteq Marks
  /\ content \subseteq [block : Block, sec : Section \cup {NoSection}, pos : Nat]
  /\ commented \in BOOLEAN
  /\ lost \subseteq Nat
  /\ unwind \in Seq({"startproc", "endproc", "other"})
  /\ pc \in {"printing", "done"}

(* The walk with two cursors and one address deals with the blocks as a     *)
(* listing should: in address order, warning exactly about those that start *)
(* inside a block already printed.                                          *)
L == INSTANCE Listing WITH
       Element <- Block, addr <- img.addr, size <- img.size, status <- status

ListsBlocks == L!Spec

(* An empty data block is printed with the symbolic expression at its       *)
(* address, be it that of another block; nothing is assembled for it if     *)
(* there is none or no directive.                                           *)
EmptyTakesNothing == \A d \in img.symbolic : img.size[d] = 0 => SymbolicSize(d) = 0

(* No label is defined at two places, which the assembler refuses: a symbol *)
(* is printed at the end of a block only when no block starts there, and    *)
(* blocks at one address are all at one place.                              *)
LabelOnce ==
  EmptyTakesNothing => \A p, q \in labels : p.addr = q.addr => p = q

NoWarnings == \A b \in Block : status[b] # "warned"

(* a is the address of an instruction or of data, or the end of a block     *)
(* that no other block follows.                                             *)
Definable(a) ==
  \/ \E c \in Code : \E o \in img.insns[c] : a = img.addr[c] + o
  \/ \E d \in Data : a = img.addr[d]
  \/ /\ \E b \in Block : a = img.addr[b] + img.size[b]
     /\ \A b \in Block : img.addr[b] = a => img.size[b] = 0

(* A symbol that printSymbolReference prints by its name has its label in   *)
(* the listing, unless overlapping blocks were left out.                    *)
LabelDefined ==
  pc = "done" /\ NoWarnings =>
    \A a \in img.syms : Definable(a) /\ ~SkipEA(a) => \E p \in labels : p.addr = a

(* Every section that holds blocks has one at its very start. *)
SectionsLed ==
  \A b \in Block : \A s \in Containers(img.addr[b]) :
    \E f \in Block : img.addr[f] = img.base[s]

(* No empty section starts where another one does: printSectionHeader takes *)
(* the first section it finds at an address.                                *)
DistinctStarts ==
  \A s, t \in Section : img.base[s] = img.base[t] /\ img.base[s] # NoBase => s = t

(* Whatever is warned about or skipped, bytes are assembled into the        *)
(* section they come from.  (With --debug the blocks of skipped sections    *)
(* are printed, without a header.)                                          *)
InOwnSection ==
  SectionsLed /\ DistinctStarts /\ (img.debug => img.skipSec = {}) =>
    \A x \in content : x.sec \in Containers(img.addr[x.block])

(* All of b is decoded or has a directive, and no byte is added.            *)
Whole(b) ==
  /\ ~SkipEA(img.addr[b])
  /\ IF b \in Code
     THEN img.decoded[b] = img.size[b] /\ Offset(b, img.size[b]) = img.size[b]
     ELSE ~Excluded(b) /\ DataSize(b) = img.size[b]

(* The listing has exactly the bytes of b. *)
Exact(b) == status[b] = "printed" /\ Whole(b)

(* No byte of section s in front of address a is missing in the listing.    *)
Solid(s, a) ==
  \A x \in img.base[s] .. (a - 1) :
    \E b \in Block : img.addr[b] <= x /\ x < img.addr[b] + img.size[b] /\ Exact(b)

(* s is as aligned as directives ask for, and the assembler enters it where *)
(* it starts.                                                               *)
Entered(s) ==
  /\ img.base[s] % 16 = 0 /\ s \notin img.skipSec
  /\ \E b \in Block : img.addr[b] = img.base[s]

(* As long as no byte of a section is missing, everything in it keeps its   *)
(* distance from the start of the section, alignment directives included.   *)
PlaceKept ==
  lost = {} /\ DistinctStarts /\ EmptyTakesNothing =>
    \A p \in labels \cup {Place(img.addr[x.block], x.sec, x.pos) : x \in content} :
      \A s \in Containers(p.addr) :
        Entered(s) /\ Solid(s, p.addr) => p.sec = s /\ p.pos = p.addr - img.base[s]

(* How many procedures are open after i directives, when a were at first.   *)
Open(ops, a, i) == IF i = 0 THEN a ELSE IF ops[i] = "endproc" THEN 0 ELSE 1

(* Directives that the assembler accepts when a procedures are open, and    *)
(* that leave z open: procedures are opened and closed by turns, and all    *)
(* other directives stand inside of one.                                    *)
Runs(ops, a, z) ==
  /\ \A i \in DOMAIN ops : Open(ops, a, i - 1) = (IF ops[i] = "startproc" THEN 0 ELSE 1)
  /\ Open(ops, a, Len(ops)) = z

Paired(ops) == Runs(ops, 0, 0)

Ops(c) == [i \in DOMAIN img.cfi[c] |-> img.cfi[c][i].op]

(* d is the first code block behind c.                                      *)
Adjacent(c, d) ==
  /\ img.addr[c] < img.addr[d]
  /\ \A e \in Code : img.addr[e] <= img.addr[c] \/ img.addr[d] <= img.addr[e]

(* The directives of the code blocks, in their order, are paired, if before *)
(* and after each so many procedures are open.                              *)
Threaded(before, after) ==
  \A c \in Code :
    /\ Runs(Ops(c), before[c], after[c])
    /\ (\A e \in Code : img.addr[c] <= img.addr[e]) => before[c] = 0
    /\ (\A e \in Code : img.addr[e] <= img.addr[c]) => after[c] = 0
    /\ \A d \in Code : Adjacent(c, d) => after[c] = before[d]

(* The directives of the module are paired in the order of its code.        *)
ModulePaired ==
  /\ \A c, d \in Code : img.addr[c] = img.addr[d] => c = d
  /\ \E before, after \in [Code -> {0, 1}] : Threaded(before, after)

(* No directive of c is lost: its procedures are complete or it is printed, *)
(* and all of it is decoded and each directive is attached where an         *)
(* instruction starts or the block ends.                                    *)
Attached(c) ==
  /\ Paired(Ops(c)) \/ (status[c] = "printed" /\ ~SkipEA(img.addr[c]))
  /\ img.decoded[c] = img.size[c]
  /\ \A i \in DOMAIN img.cfi[c] : img.cfi[c][i].at \in img.insns[c] \cup {img.size[c]}

(* Directives of a module that are paired are so in its listing, whichever  *)
(* blocks are skipped or warned about, if procedures that reach over        *)
(* several blocks are printed as a whole, each directive is attached where  *)
(* an instruction starts or the block ends, and all code can be decoded.    *)
CfiPaired ==
  pc = "done" /\ ModulePaired /\ (\A c \in Code : Attached(c)) => Paired(unwind)

(* print returns. *)
Terminates == <>(pc = "done")

(* "Print the dataObject as long as it does not overlap with the address    *)
(* last.  If it overlaps, print a warning instead.": nothing but warnings   *)
(* is written into a comment.                                               *)
NothingLost == lost = {}
===============================================================================
