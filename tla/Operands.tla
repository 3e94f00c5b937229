------------------------------- MODULE Operands -------------------------------
(***************************************************************************)
(* The operands of instructions.  capstone says what the operands of a     *)
(* decoded instruction are, the fix-ups correct it, and one of three       *)
(* printers writes the operands one after the other, with a reference to a *)
(* symbol in place of a number where the module has a symbolic expression. *)
(* An assembler must read in the text what the instruction was.            *)
(*                                                                         *)
(* The text of an operand is a record of the parts that are printed; their *)
(* order and punctuation are each syntax's own.  Labels and the texts of   *)
(* references are those of SymbolNames.  An instruction that becomes nop   *)
(* has no operands and is PrettyPrint's.                                   *)
(***************************************************************************)
EXTENDS SymbolNames, SequencesExt

CONSTANTS
  Insts(_),   \* the instructions there may be in a module, given its table
  ImmRange    \* the number of immediates of 32 bits

ASSUME ImmAssumption == ImmRange \in Nat

(***************************************************************************)
(* An instruction i has a printer and what is known of it: id, group, sse  *)
(* (the first group is SSE2), immAt and dispAt (imm_offset, disp_offset),  *)
(* post (it writes a register back, after the access), info (the module    *)
(* has symbolicOperandInfo), and in means the operands that an assembler   *)
(* must find, in the order of Intel's syntax.                              *)
(*                                                                         *)
(* An operand has a type and the fields below.  Its number num is the      *)
(* immediate, the displacement, or a floating-point value in units of      *)
(* 10^-7.  Where expr is not NoExpr the number stands for a symbol.        *)
(***************************************************************************)
None    == "none"          \* a register or an extender that is not there
NoExpr  == [sym |-> NoSym]
NoShift == <<None, 0>>     \* type and amount

Operand ==
  [type |-> "reg", seg |-> None, base |-> None, index |-> None, scale |-> 1,
   num |-> 0, expr |-> NoExpr, size |-> 8, shift |-> NoShift, ext |-> None,
   pre |-> FALSE, words |-> <<>>]

Reg(r) == [Operand EXCEPT !.base = r]

NoInst == [id |-> None]

(* In op_str, the characters that matter; and a place between brackets.     *)
Comma == "comma"
Space == "space"
Open  == "open"
Close == "close"

InBlock(s, p) ==
  \E q \in 1..(p - 1) : s[q] = Open /\ \A r \in (q + 1)..(p - 1) : s[r] # Close

(* What capstone writes for one operand has commas between brackets only.   *)
OneOperand(words) ==
  /\ words \in Seq(ToSet(words))
  /\ \A p \in DOMAIN words : words[p] = Comma => InBlock(words, p)
  /\ ~InBlock(words, Len(words) + 1)
  /\ words # <<>> => Head(words) # Space

(* What an operand may have, by its type and the processor.                 *)
OperandOf(i, op) ==
  LET arm == i.printer = "aarch64"
  IN  /\ op = [f \in DOMAIN Operand |-> op[f]]
      /\ op.type \in {"reg", "imm", "mem", "invalid"}
                      \cup IF arm THEN {"fp", "raw", "barrier", "prefetch"} ELSE {}
      /\ op.num \in Int /\ op.pre \in BOOLEAN /\ op.scale \in IF arm THEN {1} ELSE {1, 2, 4, 8}
      /\ op.expr # NoExpr => /\ op.type \in {"imm", "mem"} /\ op.expr.sym \in Sym
                             /\ ~arm => op.expr.prefix = ""
      /\ op.type = "reg" => op.base # None
      /\ op.type = "mem" /\ arm => op.base # None /\ op.seg = None
      /\ op.type # "mem" => op.seg = None /\ op.index = None /\ op.pre = FALSE
      /\ op.type \notin {"reg", "mem"} => op.base = None /\ op.ext = None
      /\ op.type \notin {"reg", "mem", "imm"} => op.shift = NoShift
      /\ ~arm => op.ext = None /\ op.shift = NoShift /\ op.pre = FALSE
      /\ op.type = "raw" => op.words # <<>>

(* The operands of the instructions that the fix-ups are about.             *)
FixedUp(i) ==
  LET m == i.means
  IN  /\ i.id = "movs" /\ ~i.sse => m = <<>>
      /\ i.id \in {"stos", "fxch"} => Len(m) = 1
      /\ i.id = "imul" /\ Len(m) = 3 =>
           /\ m[1].type = "reg" /\ m[3].type = "imm"
           /\ m[3].num \in -(ImmRange \div 2)..(ImmRange \div 2 - 1)
      /\ i.id = "comisd" => /\ Len(m) = 2 /\ m[1].type = "reg"
                            /\ m[2].type = "mem" => m[2].size = 8

(* An instruction of x86 has a displacement and an immediate at different   *)
(* places, and a symbol is at one of them; one of AArch64 has a symbol in   *)
(* its last operand, and one that writes back has its address there, or an  *)
(* offset behind it.                                                        *)
Encoded(i) ==
  LET m == i.means
      n == Len(m)
  IN  IF i.printer = "aarch64"
      THEN /\ i.id \notin {"movs", "stos", "fxch", "imul", "comisd"}
           /\ \A k \in 1..n : m[k].expr # NoExpr \/ m[k].pre => k = n
           /\ i.post => n > 0 /\ m[n].type # "mem"
           /\ (\E k \in 1..n : m[k].type = "raw") => \A k \in 1..n : OneOperand(m[k].words)
      ELSE /\ i.immAt \in Nat /\ i.dispAt \in Nat
           /\ i.immAt > 0 => i.immAt # i.dispAt
           /\ \A k \in 1..n : m[k].expr # NoExpr =>
                (IF m[k].type = "imm" THEN i.immAt ELSE i.dispAt) > 0
           /\ \A k, l \in 1..n : m[k].type = "mem" /\ m[l].type = "mem" /\ k # l => i.dispAt = 0

ASSUME InstsAssumption ==
  \A t \in Tables : \A i \in Insts(t) :
    /\ i.printer \in {"intel", "att", "aarch64"}
    /\ i.sse \in BOOLEAN /\ i.post \in BOOLEAN
    /\ i.means \in Seq(ToSet(i.means))
    /\ \A k \in DOMAIN i.means : OperandOf(i, i.means[k])
    /\ FixedUp(i) /\ Encoded(i)

VARIABLES
  inst,    \* the instruction whose operands are being printed
  text,    \* the texts of those that are printed
  state    \* where the printer is: "between" instructions, in their "operands", ...

instVars == <<inst, text, state>>
allVars  == <<vars, instVars>>

AllInit == Init /\ inst = NoInst /\ text = <<>> /\ state = "between"

Branch(i)    == i.group \in {"call", "jump"}
WritesBack(i) == i.post \/ \E k \in DOMAIN i.means : i.means[k].pre
-------------------------------------------------------------------------------
(* The operands capstone makes of an instruction: implicit ones are listed  *)
(* too, an immediate is unsigned, and in AT&T's syntax the order is the     *)
(* opposite one.                                                            *)
Decoded(i) ==
  LET m == i.means
      ops == CASE i.id = "movs" /\ ~i.sse -> m \o <<Reg("edi"), Reg("esi")>>
               [] i.id = "stos" -> m \o <<Reg("al")>>
               [] i.id = "fxch" -> <<Reg("st0")>> \o m
               [] i.id = "imul" /\ Len(m) = 3 -> [m EXCEPT ![3].num = @ % ImmRange]
               [] i.id = "comisd" /\ m[2].type = "mem" -> [m EXCEPT ![2].size = 16]
               [] OTHER -> m
  IN  IF i.printer = "att" THEN Reverse(ops) ELSE ops

(* static_cast<int32_t> *)
Signed(n) == IF n >= ImmRange \div 2 THEN n - ImmRange ELSE n

(* The operands after fixupInstruction, which counts them as Intel does.    *)
Fixed(i) ==
  LET d == Decoded(i)
  IN  CASE i.id = "movs" /\ ~i.sse -> <<>>
        [] i.id = "stos" -> <<d[1]>>
        [] i.id = "fxch" /\ Len(d) = 2 -> <<d[2]>>
        [] i.id = "imul" /\ Len(d) = 3 /\ d[3].type = "imm" -> [d EXCEPT ![3].num = Signed(@)]
        [] i.id = "comisd" /\ Len(d) = 2 /\ d[2].type = "mem" /\ d[2].size = 16 ->
             [d EXCEPT ![2].size = 8]
        [] OTHER -> d

(* Where in an instruction the module has the expression of an operand.     *)
Field(i, op) ==
  CASE i.printer = "aarch64" -> 0
    [] i.printer # "aarch64" /\ op.type = "imm" -> i.immAt
    [] OTHER -> i.dispAt

(* findSymbolicExpressionsAt                                                *)
Found(i, offset) ==
  LET es == {op.expr : op \in {o \in ToSet(i.means) : o.expr # NoExpr /\ Field(i, o) = offset}}
  IN  IF es = {} THEN NoExpr ELSE CHOOSE e \in es : TRUE

(* The expression printOperand looks up for operand k.                      *)
Lookup(i, k) ==
  LET op == Fixed(i)[k]
  IN  IF op.type \notin {"imm", "mem"} THEN NoExpr
      ELSE CASE i.printer = "aarch64" ->
                  IF k = Len(Fixed(i)) THEN Found(i, 0) ELSE NoExpr
             [] i.printer # "aarch64" /\ op.type = "imm" -> Found(i, i.immAt)
             [] OTHER -> IF i.dispAt > 0 THEN Found(i, i.dispAt) ELSE NoExpr

(* The expression that is printed, if any: it must be SymAddrConst, and the *)
(* displacement of AArch64 is not printed at all if it is 0.                *)
Symbolic(i, k) ==
  LET e  == Lookup(i, k)
      op == Fixed(i)[k]
  IN  IF \/ e = NoExpr \/ ~e.const
         \/ i.printer = "aarch64" /\ op.type = "mem" /\ op.num = 0
      THEN NoExpr ELSE e

(* Mutant of InData: only calls count.                                      *)
InData_Calls(i, op) == op.type = "imm" /\ i.group # "call"

(* What inData is when operand op is printed.                               *)
InData(i, op) ==
  /\ op.type = "imm" /\ i.group # "jump"
  /\ i.printer = "aarch64" \/ i.group # "call"
-------------------------------------------------------------------------------
(* A number, or a symbol with what is added to it, as it is printed.        *)
NoValue == [printed |-> FALSE, n |-> 0, ref |-> NoRef, prefix |-> ""]
Number(n) == [NoValue EXCEPT !.printed = TRUE, !.n = n]

Blank ==
  [mark |-> "", size |-> 0, seg |-> None, base |-> None, index |-> None, scale |-> 0,
   value |-> NoValue, brackets |-> FALSE, shift |-> NoShift, ext |-> None,
   bang |-> FALSE, words |-> <<>>]

NumberOr(op, v) == IF v.printed THEN v ELSE Number(op.num)

Registers(op) == {op.base, op.index} \ {None}

(* Syntax::getSizeName has a name for these.                                *)
NamedSizes == {1, 2, 4, 8, 10, 16, 32}

(* IntelPrettyPrinter                                                       *)
IntelText(i, op, v) ==
  CASE op.type = "reg" -> [Blank EXCEPT !.base = op.base]
    [] op.type = "imm" ->
         [Blank EXCEPT !.mark = IF v.printed /\ ~Branch(i) THEN "OFFSET" ELSE "",
                       !.value = NumberOr(op, v)]
    [] op.type = "mem" ->
         [Blank EXCEPT !.brackets = TRUE, !.seg = op.seg, !.base = op.base,
           !.size = IF op.size \in NamedSizes THEN op.size ELSE 0,
           !.index = op.index, !.scale = IF op.index = None THEN 0 ELSE op.scale,
           !.value = IF ~v.printed /\ op.num = 0 /\ Registers(op) # {}
                     THEN NoValue ELSE NumberOr(op, v)]

(* AttPrettyPrinter                                                         *)
AttText(i, op, v) ==
  CASE op.type = "reg" ->
         [Blank EXCEPT !.base = op.base, !.mark = IF Branch(i) THEN "*" ELSE ""]
    [] op.type = "imm" ->
         [Blank EXCEPT !.mark = IF Branch(i) THEN "" ELSE "$", !.value = NumberOr(op, v)]
    [] op.type = "mem" ->
         [Blank EXCEPT !.mark = IF Branch(i) THEN "*" ELSE "",
           !.brackets = Registers(op) # {}, !.seg = op.seg, !.base = op.base,
           !.index = op.index,
           !.scale = IF op.index = None \/ op.scale = 1 THEN 0 ELSE op.scale,
           !.value = IF ~v.printed /\ op.num = 0 /\ op.seg = None /\ Registers(op) # {}
                     THEN NoValue ELSE NumberOr(op, v)]

(* What capstone writes for the operands, which the raw ones are cut out of.*)
OpStr(i) ==
  FlattenSeq([k \in DOMAIN i.means |->
                IF k = 1 THEN i.means[k].words ELSE <<Comma, Space>> \o i.means[k].words])

(* printOpRawValue: the part of it between two commas outside of brackets,  *)
(* without the space in front.                                              *)
RawWords(i, k) ==
  LET s == OpStr(i)
      cuts == {0, Len(s) + 1} \cup {p \in DOMAIN s : s[p] = Comma /\ ~InBlock(s, p)}
      cut(n) == CHOOSE c \in cuts : Cardinality({d \in cuts : d < c}) = n
      part == SubSeq(s, cut(k - 1) + 1, cut(k) - 1)
  IN  IF part # <<>> /\ Head(part) = Space THEN Tail(part) ELSE part

(* The barriers and prefetches that have a name.                            *)
Barriers   == {<<"ld">>, <<"st">>, <<"sy">>}
                \cup {<<d>> : d \in {"osh", "nsh", "ish"}}
                \cup {<<d, a>> : d \in {"osh", "nsh", "ish"}, a \in {"ld", "st"}}
Prefetches == {<<p, l, t>> : p \in {"pld", "pli", "pst"}, l \in {"l1", "l2", "l3"},
                             t \in {"keep", "strm"}}

(* operator<< of a stream prints six digits of a double, here of one below 1.*)
SixDigits(n) ==
  LET q == n \div 10
      r == n % 10
  IN  IF n >= 10000000 THEN n
      ELSE IF r < 5 \/ (r = 5 /\ q % 2 = 0) THEN 10 * q ELSE 10 * (q + 1)

ShownShift(op) == IF op.shift[2] = 0 THEN NoShift ELSE op.shift

(* printExtender, and no shift without one.                                 *)
Extended(op) ==
  [Blank EXCEPT !.base = op.base, !.ext = op.ext,
                !.shift = IF op.ext = None THEN NoShift ELSE op.shift]

(* Mutant of WrittenBack: any memory operand is marked.                     *)
WrittenBack_Any(i, k) == WritesBack(i)

(* Whether printOpIndirect ends with an exclamation mark.                   *)
WrittenBack(i, k) == WritesBack(i) /\ k = Len(Fixed(i))

(* AArch64PrettyPrinter                                                     *)
AArch64Text(i, k, op, v) ==
  CASE op.type = "reg" -> Extended(op)
    [] op.type = "imm" ->
         IF v.printed THEN [Blank EXCEPT !.value = v]
         ELSE [Blank EXCEPT !.mark = "#", !.value = Number(op.num), !.shift = ShownShift(op)]
    [] op.type = "mem" ->
         [Blank EXCEPT !.brackets = TRUE, !.base = op.base, !.index = op.index,
           !.value = IF op.num = 0 THEN NoValue ELSE NumberOr(op, v),
           !.shift = ShownShift(op), !.bang = WrittenBack(i, k)]
    [] op.type = "fp" -> [Blank EXCEPT !.mark = "#", !.value = Number(SixDigits(op.num))]
    [] op.type = "raw" -> [Blank EXCEPT !.words = RawWords(i, k)]
    [] op.type \in {"barrier", "prefetch"} -> [Blank EXCEPT !.words = op.words]

TextOf(i, k, v) ==
  LET op == Fixed(i)[k]
  IN  CASE i.printer = "intel"   -> IntelText(i, op, v)
        [] i.printer = "att"     -> AttText(i, op, v)
        [] i.printer = "aarch64" -> AArch64Text(i, k, op, v)
-------------------------------------------------------------------------------
(* symbolicOperandInfo has one entry for an address: which operand it is     *)
(* about, and what stands in front of the symbol, such as ":lo12:".          *)
Info(i) ==
  {<<k, i.means[k].expr.prefix>> :
     k \in {j \in DOMAIN i.means : i.means[j].expr # NoExpr /\ i.means[j].expr.prefix # ""}}

(* printPrefix; the other printers have none.                                *)
Prefix(i, k) ==
  IF i.printer = "aarch64" /\ \E x \in Info(i) : x[1] = k
  THEN (CHOOSE x \in Info(i) : x[1] = k)[2] ELSE ""

(* The listing reaches an instruction: the labels at its address, then the   *)
(* mnemonic.                                                                 *)
BeginInstruction(a) ==
  /\ state = "between"
  /\ a \notin table.skipped
  /\ Define(a)
  /\ \E i \in Insts(table) :
       /\ (i.printer = "aarch64") = ~table.endings
       /\ inst' = i
  /\ text' = <<>>
  /\ state' = "operands"

Current == Len(text) + 1

ToPrint == state = "operands" /\ Len(text) < Len(Fixed(inst))

Printable(op) ==
  /\ op.type # "invalid"
  /\ op.type = "barrier"  => op.words \in Barriers
  /\ op.type = "prefetch" => op.words \in Prefetches

PrintNumber ==
  /\ ToPrint
  /\ Printable(Fixed(inst)[Current])
  /\ Symbolic(inst, Current) = NoExpr
  /\ text' = Append(text, TextOf(inst, Current, NoValue))
  /\ UNCHANGED <<vars, inst, state>>

(* The symbol of the expression is referred to.  Without a table of prefixes *)
(* a null pointer is dereferenced.                                           *)
PrintSymbolic ==
  /\ ToPrint
  /\ inst.printer = "aarch64" => inst.info
  /\ LET e == Symbolic(inst, Current)
     IN  /\ e # NoExpr
         /\ \/ ReferForwarded(e.sym, InData(inst, Fixed(inst)[Current]))
            \/ ReferSkipped(e.sym) \/ ReferByName(e.sym) \/ ReferAmbiguous(e.sym)
         /\ text' = Append(text,
              TextOf(inst, Current, [printed |-> TRUE, n |-> e.addend, ref |-> ref',
                                   prefix |-> Prefix(inst, Current)]))
         /\ state' = IF ref'.kind = "undefined" THEN "undefined" ELSE state
  /\ UNCHANGED inst

NoPrefixes ==
  /\ ToPrint
  /\ Symbolic(inst, Current) # NoExpr
  /\ inst.printer = "aarch64" /\ ~inst.info
  /\ state' = "undefined"
  /\ UNCHANGED <<vars, inst, text>>

(* "invalid operand", and exit(1)                                            *)
Exit ==
  /\ ToPrint
  /\ ~Printable(Fixed(inst)[Current])
  /\ state' = "exited"
  /\ UNCHANGED <<vars, inst, text>>

EndInstruction ==
  /\ state = "operands" /\ ~ToPrint
  /\ inst' = NoInst /\ text' = <<>> /\ state' = "between"
  /\ UNCHANGED vars

(* Labels and references outside of instructions.                            *)
Elsewhere == state = "between" /\ Next /\ UNCHANGED instVars

AllNext ==
  \/ \E a \in Addr : BeginInstruction(a)
  \/ PrintNumber \/ PrintSymbolic \/ NoPrefixes \/ Exit \/ EndInstruction
  \/ Elsewhere

AllSpec == AllInit /\ [][AllNext]_allVars
-------------------------------------------------------------------------------
(* Type invariant.  The program is undefined only where it dereferences a    *)
(* table or an address that is not there.                                    *)
AllTypeOK ==
  /\ TypeOK
  /\ state \in {"between", "operands", "exited", "undefined"}
  /\ IF state = "between" THEN inst = NoInst /\ text = <<>>
     ELSE inst \in Insts(table) /\ Len(text) <= Len(Fixed(inst))
  /\ state = "undefined" => inst.printer = "aarch64" \/ ref.kind = "undefined"

(* How the assembler reads a text.  A lone number or name is an immediate   *)
(* or a place in memory, according to the syntax and the instruction.       *)
TypeRead(i, t) ==
  LET lone == t.base = None /\ t.index = None /\ t.seg = None
  IN  IF t.words # <<>> THEN "words"
      ELSE IF t.brackets THEN "mem"
      ELSE IF ~t.value.printed THEN IF t.base # None THEN "reg" ELSE "words"
      ELSE IF lone /\ CASE i.printer = "intel" ->
                             t.mark = "OFFSET" \/ Branch(i) \/ t.value.ref.kind # "name"
                        [] i.printer = "att" -> t.mark = IF Branch(i) THEN "" ELSE "$"
                        [] i.printer = "aarch64" -> TRUE
           THEN "imm" ELSE "mem"

(* The mark of a text is one that an operand of its type may have.          *)
MarkFits(i, t, type) ==
  CASE i.printer = "intel"   -> t.mark = "OFFSET" => type = "imm" /\ ~Branch(i)
    [] i.printer = "att"     -> t.mark = IF Branch(i) THEN (IF type = "imm" THEN "" ELSE "*")
                                         ELSE (IF type = "imm" THEN "$" ELSE "")
    [] i.printer = "aarch64" -> (t.mark = "#") = (type = "imm" /\ t.value.ref = NoRef)

(* The value v is the number or the symbol that op has.  A number behind    *)
(* rip is a displacement and not an address; @PLT is for what is jumped to  *)
(* or accessed, not for an address as a value.                              *)
ValueRead(i, v, op) ==
  LET e == op.expr
  IN  IF e = NoExpr THEN v.ref = NoRef /\ v.n = op.num
      ELSE /\ v.n = e.addend /\ v.prefix = e.prefix
           /\ CASE v.ref.kind = "number" -> v.ref.value = table.addr[e.sym] /\ op.base # "rip"
                [] v.ref.kind = "name" ->
                     /\ v.ref.sym = IF Forwarded(e.sym) THEN table.forward[e.sym] ELSE e.sym
                     /\ (v.ref.ending = "@PLT") =
                          (/\ Forwarded(e.sym) /\ Ending(e.sym, FALSE) = "@PLT"
                           /\ op.type = "mem" \/ Branch(i))
                [] OTHER -> FALSE

(* Text t means operand op.                                                 *)
Reads(i, t, op) ==
  LET type == CASE op.type \in {"raw", "barrier", "prefetch"} -> "words"
                [] op.type = "fp" -> "imm"
                [] OTHER -> op.type
  IN  /\ TypeRead(i, t) = type
      /\ MarkFits(i, t, type)
      /\ t.seg = op.seg /\ t.base = op.base /\ t.index = op.index
      /\ t.brackets => Registers(t) # {} \/ t.value.printed
      /\ t.index # None => op.scale = IF t.scale = 0 THEN 1 ELSE t.scale
      /\ type \in {"imm", "mem"} => ValueRead(i, t.value, op)
      /\ i.printer = "intel" /\ type = "mem" /\ op.size \in NamedSizes => t.size = op.size
      /\ ShownShift(t) = ShownShift(op) /\ t.ext = op.ext
      /\ t.bang = op.pre
      /\ type = "words" => t.words = op.words

(* The instructions ReadsBack is about.  It leaves out those whose text says *)
(* something else than they mean, or less, by the reasons given:             *)
Expressible(i) ==
  LET ops == ToSet(i.means)
  IN  \* fix-ups that count operands in Intel's order, for AT&T
      /\ i.printer = "att" => /\ i.id \notin {"stos", "fxch"}
                              /\ i.id = "imul" /\ Len(i.means) = 3 => i.means[3].num >= 0
      \* two immediates, for which there is one imm_offset
      /\ i.printer # "aarch64" =>
           \A k, l \in DOMAIN i.means :
             /\ k # l /\ i.means[k].type = "imm" /\ i.means[l].type = "imm"
             => i.means[k].expr = NoExpr
      /\ \A op \in ops :
           \* a shifted register, an extended index
           /\ op.type = "reg" => op.ext # None \/ op.shift = NoShift
           /\ op.type = "mem" => op.ext = None
           \* digits that are not printed
           /\ op.type = "fp" => SixDigits(op.num) = op.num
           /\ op.expr # NoExpr =>
                \* neither a sum of two symbols nor an empty displacement nor a shift
                /\ op.expr.const
                /\ i.printer = "aarch64" => op.shift = NoShift /\ (op.type = "mem" => op.num # 0)
                \* an address that is printed as a number, relative to rip
                /\ op.base = "rip" =>
                     Forwarded(op.expr.sym) \/ table.addr[op.expr.sym] \notin table.skipped

(* When printOperandList has printed the operands of an instruction, the     *)
(* assembler finds in the text the operands that the instruction had: those  *)
(* that are implicit are not there, each symbol is at the operand whose bytes*)
(* it was attached to, and the marks of the syntax tell values from places.  *)
ReadsBack ==
  state = "operands" /\ ~ToPrint /\ Expressible(inst) =>
    /\ Len(text) = Len(inst.means)
    /\ \A k \in DOMAIN inst.means :
         Reads(inst, text[IF inst.printer = "att" THEN Len(text) + 1 - k ELSE k], inst.means[k])
===============================================================================
