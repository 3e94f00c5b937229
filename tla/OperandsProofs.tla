---------------------------- MODULE OperandsProofs ----------------------------
(***************************************************************************)
(* Printing instructions is one way to print labels and references: what   *)
(* holds of every SymbolNames listing holds of one with instructions.  And  *)
(* what is printed of an instruction is read as its operands (ReadsBack).   *)
(***************************************************************************)
EXTENDS Operands, SymbolNamesProofs, NaturalsInduction, FiniteSetTheorems, SequenceTheorems

(* The instruction at hand is one of the module's.                          *)
OfModule == table \in Tables /\ (state = "operands" => inst \in Insts(table))

(* An expression that is printed belongs to an operand of the instruction.  *)
LEMMA SymbolicInMeans ==
  ASSUME NEW i, NEW n, Symbolic(i, n) # NoExpr
  PROVE  \E k \in DOMAIN i.means : i.means[k].expr = Symbolic(i, n) /\ i.means[k].expr # NoExpr
<1>1. \A x : Found(i, x) # NoExpr =>
        \E k \in DOMAIN i.means : i.means[k].expr = Found(i, x)
  <2>. SUFFICES ASSUME NEW x, Found(i, x) # NoExpr
                PROVE  \E k \in DOMAIN i.means : i.means[k].expr = Found(i, x)
    OBVIOUS
  <2>. DEFINE os == {o \in ToSet(i.means) : o.expr # NoExpr /\ Field(i, o) = x}
              es == {op.expr : op \in os}
  <2>1. es # {} /\ Found(i, x) = CHOOSE e \in es : TRUE
    BY DEF Found
  <2>2. Found(i, x) \in es
    <3>. HIDE DEF es
    <3>. QED  BY <2>1
  <2>3. PICK op \in os : op.expr = Found(i, x)
    BY <2>2
  <2>. QED  BY <2>3 DEF ToSet
<1>2. Symbolic(i, n) = Lookup(i, n)
  BY DEF Symbolic
<1>3. Lookup(i, n) = NoExpr \/ \E x : Lookup(i, n) = Found(i, x)
  BY DEF Lookup
<1>. QED  BY <1>1, <1>2, <1>3

(* The operands of the instruction at hand refer to symbols of the module.  *)
LEMMA OfModuleInvariant == AllSpec => []OfModule
<1>1. AllInit => OfModule
  BY DEF AllInit, Init, OfModule
<1>2. OfModule /\ [AllNext]_allVars => OfModule'
  <2>. SUFFICES ASSUME OfModule, [AllNext]_allVars PROVE OfModule'
    OBVIOUS
  <2>. USE DEF OfModule
  <2>1. ASSUME NEW a \in Addr, BeginInstruction(a) PROVE OfModule'
    BY <2>1 DEF BeginInstruction, Define
  <2>2. CASE PrintNumber
    BY <2>2 DEF PrintNumber, vars
  <2>3. CASE PrintSymbolic
    BY <2>3 DEF PrintSymbolic, ToPrint, ReferForwarded, ReferSkipped, ReferByName, ReferAmbiguous
  <2>4. CASE NoPrefixes \/ Exit \/ EndInstruction
    BY <2>4 DEF NoPrefixes, Exit, EndInstruction, vars
  <2>5. CASE Elsewhere
    BY <2>5 DEF Elsewhere, Next, instVars, Define, ReferForwarded, ReferSkipped, ReferByName,
                ReferAmbiguous
  <2>6. CASE UNCHANGED allVars
    BY <2>6 DEF allVars, vars, instVars
  <2>. QED  BY <2>1, <2>2, <2>3, <2>4, <2>5, <2>6 DEF AllNext
<1>. QED  BY <1>1, <1>2, PTL DEF AllSpec

(* The listing of operands implements SymbolNames: each reference in an     *)
(* operand is one of printSymbolReference, whatever instruction it is in.   *)
THEOREM OperandsRefine == AllSpec => Spec
<1>1. AllInit => Init
  BY DEF AllInit
<1>2. OfModule /\ [AllNext]_allVars => [Next]_vars
  <2>. SUFFICES ASSUME OfModule, [AllNext]_allVars PROVE [Next]_vars
    OBVIOUS
  <2>1. ASSUME NEW a \in Addr, BeginInstruction(a) PROVE Next
    BY <2>1 DEF BeginInstruction, Next
  <2>2. CASE PrintNumber \/ NoPrefixes \/ Exit \/ EndInstruction
    BY <2>2 DEF PrintNumber, NoPrefixes, Exit, EndInstruction
  <2>3. CASE PrintSymbolic
    <3>. DEFINE e == Symbolic(inst, Current)
                d == InData(inst, Fixed(inst)[Current])
    <3>1. /\ inst \in Insts(table) /\ e # NoExpr
          /\ ReferForwarded(e.sym, d) \/ ReferSkipped(e.sym) \/ ReferByName(e.sym)
               \/ ReferAmbiguous(e.sym)
      BY <2>3 DEF PrintSymbolic, ToPrint, OfModule
    <3>2. e.sym \in Sym
      <4>1. PICK k \in DOMAIN inst.means : inst.means[k].expr = e /\ inst.means[k].expr # NoExpr
        BY <3>1, SymbolicInMeans
      <4>2. OperandOf(inst, inst.means[k])
        BY <3>1, InstsAssumption DEF OfModule
      <4>3. inst.means[k].expr.sym \in Sym
        BY <4>1, <4>2 DEF OperandOf
      <4>. HIDE DEF e
      <4>. QED  BY <4>1, <4>3
    <3>3. d \in BOOLEAN
      BY DEF InData
    <3>. HIDE DEF e, d
    <3>. QED  BY <3>1, <3>2, <3>3 DEF Next
  <2>4. CASE Elsewhere
    BY <2>4 DEF Elsewhere
  <2>5. CASE UNCHANGED allVars
    BY <2>5 DEF allVars
  <2>. QED  BY <2>1, <2>2, <2>3, <2>4, <2>5 DEF AllNext
<1>. QED  BY <1>1, <1>2, OfModuleInvariant, PTL DEF AllSpec, Spec

(* Labels do not clash in a listing with instructions either.               *)
THEOREM InstructionsLabelsUnique == AllSpec => []LabelsUnique
BY OperandsRefine, LabelsUniqueAlways, PTL

(* ... and a reference in an operand, too, is for no symbol but its own.    *)
THEOREM InstructionsRefersToNoOther == AllSpec => []RefersToNoOther
BY OperandsRefine, RefersToNoOtherAlways, PTL

(* ... and finds its label where its symbol is.                             *)
THEOREM InstructionsRefersToLabel == AllSpec => []RefersToLabel
BY OperandsRefine, RefersToLabelAlways, PTL

(* A sequence, whatever its elements are.                                   *)
IsSequence(s) == \E S : s \in Seq(S)

(* The sequences that Decoded and Fixed are built of.                       *)
LEMMA SequencesOfOne ==
  ASSUME NEW x
  PROVE  IsSequence(<<>>) /\ IsSequence(<<x>>)
<1>1. <<>> \in Seq({x}) /\ <<x>> \in Seq({x})
  OBVIOUS
<1>. QED  BY <1>1 DEF IsSequence

(* Two sequences have a set that holds the elements of both.                *)
LEMMA Concatenated ==
  ASSUME NEW s, NEW t, IsSequence(s), IsSequence(t)
  PROVE  IsSequence(s \o t)
<1>1. PICK S : s \in Seq(S)
  BY DEF IsSequence
<1>2. PICK T : t \in Seq(T)
  BY DEF IsSequence
<1>3. s \in Seq(S \cup T) /\ t \in Seq(S \cup T)
  BY <1>1, <1>2
<1>4. s \o t \in Seq(S \cup T)
  BY <1>3
<1>. QED  BY <1>4 DEF IsSequence

(* A fix-up of one operand does not change how many there are.              *)
LEMMA Replaced ==
  ASSUME NEW s, IsSequence(s), NEW k, NEW x
  PROVE  IsSequence([s EXCEPT ![k] = x])
<1>1. PICK S : s \in Seq(S)
  BY DEF IsSequence
<1>. DEFINE n == Len(s)
            t == [j \in 1..n |-> IF j = k THEN x ELSE s[j]]
<1>2. n \in Nat /\ s = [j \in 1..n |-> s[j]] /\ \A j \in 1..n : s[j] \in S
  BY <1>1
<1>3. [s EXCEPT ![k] = x] = t
  BY <1>2
<1>4. t \in Seq(S \cup {x})
  BY <1>2
<1>. QED  BY <1>3, <1>4 DEF IsSequence

(* Turning a sequence round, as fixupInstruction does for AT&T, gives one.  *)
LEMMA Reversed ==
  ASSUME NEW s, IsSequence(s)
  PROVE  IsSequence(Reverse(s))
<1>1. PICK S : s \in Seq(S)
  BY DEF IsSequence
<1>2. \A k \in 1..Len(s) : s[(Len(s) - k) + 1] \in S
  BY <1>1
<1>3. Len(s) \in Nat
  BY <1>1
<1>4. Reverse(s) \in Seq(S)
  BY <1>2, <1>3 DEF Reverse
<1>. QED  BY <1>4 DEF IsSequence

(* The operands that are printed are a sequence again, whatever the order   *)
(* of the syntax and the fix-ups make of them.                              *)
LEMMA FixedIsSequence ==
  ASSUME NEW i, IsSequence(i.means)
  PROVE  Len(Fixed(i)) \in Nat
<1>1. IsSequence(Decoded(i))
  <2>. DEFINE m == i.means
              ops == CASE i.id = "movs" /\ ~i.sse -> m \o <<Reg("edi"), Reg("esi")>>
                       [] i.id = "stos" -> m \o <<Reg("al")>>
                       [] i.id = "fxch" -> <<Reg("st0")>> \o m
                       [] i.id = "imul" /\ Len(m) = 3 -> [m EXCEPT ![3].num = @ % ImmRange]
                       [] i.id = "comisd" /\ m[2].type = "mem" -> [m EXCEPT ![2].size = 16]
                       [] OTHER -> m
  <2>1. /\ IsSequence(m) /\ IsSequence(<<Reg("edi"), Reg("esi")>>)
        /\ IsSequence(<<Reg("al")>>) /\ IsSequence(<<Reg("st0")>>)
    <3>1. <<Reg("edi"), Reg("esi")>> = <<Reg("edi")>> \o <<Reg("esi")>>
      OBVIOUS
    <3>. QED  BY <3>1, SequencesOfOne, Concatenated
  <2>2. IsSequence(m \o <<Reg("edi"), Reg("esi")>>)
    BY <2>1, Concatenated
  <2>3. IsSequence(m \o <<Reg("al")>>) /\ IsSequence(<<Reg("st0")>> \o m)
    BY <2>1, Concatenated
  <2>4. IsSequence([m EXCEPT ![3].num = @ % ImmRange])
    BY <2>1, Replaced
  <2>5. IsSequence([m EXCEPT ![2].size = 16])
    BY <2>1, Replaced
  <2>6. IsSequence(ops)
    BY <2>1, <2>2, <2>3, <2>4, <2>5
  <2>7. Decoded(i) = IF i.printer = "att" THEN Reverse(ops) ELSE ops
    BY DEF Decoded
  <2>. HIDE DEF ops
  <2>. QED  BY <2>6, <2>7, Reversed
<1>2. IsSequence(Fixed(i))
  <2>. DEFINE d == Decoded(i)
  <2>1. IsSequence(<<>>) /\ IsSequence(<<d[1]>>) /\ IsSequence(<<d[2]>>)
    BY SequencesOfOne
  <2>2. IsSequence([d EXCEPT ![3].num = Signed(@)])
    BY <1>1, Replaced
  <2>3. IsSequence([d EXCEPT ![2].size = 8])
    BY <1>1, Replaced
  <2>4. Fixed(i) = CASE i.id = "movs" /\ ~i.sse -> <<>>
                     [] i.id = "stos" -> <<d[1]>>
                     [] i.id = "fxch" /\ Len(d) = 2 -> <<d[2]>>
                     [] i.id = "imul" /\ Len(d) = 3 /\ d[3].type = "imm" ->
                          [d EXCEPT ![3].num = Signed(@)]
                     [] i.id = "comisd" /\ Len(d) = 2 /\ d[2].type = "mem" /\ d[2].size = 16 ->
                          [d EXCEPT ![2].size = 8]
                     [] OTHER -> d
    BY DEF Fixed
  <2>. HIDE DEF d
  <2>. QED  BY <1>1, <2>1, <2>2, <2>3, <2>4 DEF d
<1>. QED  BY <1>2 DEF IsSequence

(* Besides the types: what is printed of an instruction is a sequence.      *)
Printing == IsSequence(text)

(* The printer never prints more operands than there are, and is undefined  *)
(* only where a table or an address that is not there is dereferenced.      *)
THEOREM AllTypesCorrect == AllSpec => []AllTypeOK
<1>. DEFINE PInv == /\ table \in Tables /\ Printing
                    /\ state \in {"between", "operands", "exited", "undefined"}
                    /\ IF state = "between" THEN inst = NoInst /\ text = <<>>
                       ELSE inst \in Insts(table) /\ Len(text) <= Len(Fixed(inst))
                    /\ state = "undefined" => inst.printer = "aarch64" \/ ref.kind = "undefined"
<1>1. AllInit => PInv
  BY SequencesOfOne DEF AllInit, Init, Printing
<1>2. PInv /\ [AllNext]_allVars => PInv'
  <2>. SUFFICES ASSUME PInv, [AllNext]_allVars PROVE PInv'
    OBVIOUS
  <2>1. ASSUME inst \in Insts(table)
        PROVE  Len(Fixed(inst)) \in Nat
    <3>1. IsSequence(inst.means)
      BY <2>1, InstsAssumption DEF IsSequence
    <3>. QED  BY <3>1, FixedIsSequence
  <2>2. ASSUME ToPrint, NEW x, text' = Append(text, x), inst' = inst
        PROVE  Printing' /\ Len(text') <= Len(Fixed(inst'))
    <3>1. PICK S : text \in Seq(S)
      BY DEF Printing, IsSequence
    <3>2. text \in Seq(S \cup {x})
      BY <3>1
    <3>3. text' \in Seq(S \cup {x}) /\ Len(text') = Len(text) + 1 /\ Len(text) \in Nat
      BY <2>2, <3>2
    <3>4. Len(Fixed(inst)) \in Nat /\ Len(text) < Len(Fixed(inst))
      BY <2>1, <2>2 DEF ToPrint
    <3>5. Len(text') <= Len(Fixed(inst))
      BY <3>3, <3>4
    <3>. QED  BY <2>2, <3>3, <3>5 DEF Printing, IsSequence
  <2>3. ASSUME NEW a \in Addr, BeginInstruction(a) PROVE PInv'
    <3>1. table' = table /\ state' = "operands" /\ text' = <<>> /\ inst' \in Insts(table)
      BY <2>3 DEF BeginInstruction, Define
    <3>2. IsSequence(inst'.means)
      BY <3>1, InstsAssumption DEF IsSequence
    <3>3. Len(Fixed(inst')) \in Nat
      BY <3>2, FixedIsSequence
    <3>4. Len(text') = 0 /\ Printing'
      BY <3>1, SequencesOfOne DEF Printing
    <3>5. Len(text') <= Len(Fixed(inst'))
      BY <3>3, <3>4
    <3>. QED  BY <3>1, <3>4, <3>5
  <2>4. CASE PrintNumber
    BY <2>2, <2>4 DEF PrintNumber, vars, ToPrint
  <2>5. CASE PrintSymbolic
    <3>1. table' = table /\ inst' = inst /\ ToPrint
      BY <2>5 DEF PrintSymbolic, ReferForwarded, ReferSkipped, ReferByName, ReferAmbiguous
    <3>2. \E x : text' = Append(text, x)
      BY <2>5 DEF PrintSymbolic
    <3>3. Printing' /\ Len(text') <= Len(Fixed(inst'))
      BY <3>1, <3>2, <2>2
    <3>4. state' = IF ref'.kind = "undefined" THEN "undefined" ELSE state
      BY <2>5 DEF PrintSymbolic
    <3>. QED  BY <3>1, <3>3, <3>4 DEF ToPrint
  <2>6. CASE NoPrefixes \/ Exit
    BY <2>6 DEF NoPrefixes, Exit, vars, ToPrint, Printing
  <2>7. CASE EndInstruction
    BY <2>7, SequencesOfOne DEF EndInstruction, vars, Printing
  <2>8. CASE Elsewhere
    BY <2>8 DEF Elsewhere, Next, instVars, Define, ReferForwarded, ReferSkipped, ReferByName,
                ReferAmbiguous, Printing
  <2>9. CASE UNCHANGED allVars
    BY <2>9 DEF allVars, vars, instVars, Printing
  <2>. QED  BY <2>3, <2>4, <2>5, <2>6, <2>7, <2>8, <2>9 DEF AllNext
<1>3. AllSpec => []TypeOK
  BY OperandsRefine, TypeCorrect, PTL
<1>4. PInv /\ TypeOK => AllTypeOK
  BY DEF AllTypeOK
<1>. HIDE DEF PInv
<1>. QED  BY <1>1, <1>2, <1>3, <1>4, PTL DEF AllSpec
-------------------------------------------------------------------------------
(* static_cast<int32_t> gives back an immediate that capstone made unsigned. *)
LEMMA SignedMod ==
  ASSUME NEW n \in -(ImmRange \div 2)..(ImmRange \div 2 - 1)
  PROVE  Signed(n % ImmRange) = n
<1>1. ImmRange \in Nat /\ n \in Int /\ ImmRange > 0 /\ 2 * (ImmRange \div 2) <= ImmRange
  BY ImmAssumption
<1>. DEFINE R == ImmRange
            h == ImmRange \div 2
<1>2. h \in Nat /\ 2 * h <= R /\ R <= 2 * h + 1
  BY <1>1
<1>3. CASE n >= 0
  <2>1. n % R = n
    BY <1>1, <1>3
  <2>. QED  BY <1>1, <1>2, <2>1 DEF Signed
<1>4. CASE n < 0
  <2>1. n % R = n + R
    BY <1>1, <1>4
  <2>. QED  BY <1>1, <1>2, <2>1 DEF Signed
<1>. QED  BY <1>1, <1>3, <1>4

(* Where operand k is among those that are printed.                         *)
Place(i, k) == IF i.printer = "att" THEN Len(i.means) + 1 - k ELSE k

(* What is printed of operand op is printed of f.                           *)
Alike(i, f, op) ==
  /\ \A x \in DOMAIN Operand \ {"size"} : f[x] = op[x]
  /\ i.printer # "att" => f.size = op.size

(* The fields of an operand.                                                *)
Fields ==
  {"type", "seg", "base", "index", "scale", "num", "expr", "size", "shift", "ext", "pre", "words"}

LEMMA OperandFields == DOMAIN Operand = Fields
  BY DEF Operand, Fields

(* Changing a field of an operand.                                          *)
LEMMA Renumbered ==
  ASSUME NEW i, NEW op, OperandOf(i, op), NEW n
  PROVE  /\ [op EXCEPT !.num = n].num = n
         /\ \A x \in Fields \ {"num"} : [op EXCEPT !.num = n][x] = op[x]
  BY OperandFields DEF OperandOf, Fields

(* The size is corrected alone.                                             *)
LEMMA Resized ==
  ASSUME NEW i, NEW op, OperandOf(i, op), NEW n
  PROVE  /\ [op EXCEPT !.size = n].size = n
         /\ \A x \in Fields \ {"size"} : [op EXCEPT !.size = n][x] = op[x]
  BY OperandFields DEF OperandOf, Fields

(* What capstone adds to the operands and turns round, the fix-ups undo: as  *)
(* many are printed as the instruction has, each in its place.              *)
LEMMA FixedMeans ==
  ASSUME NEW t \in Tables, NEW i \in Insts(t), Expressible(i)
  PROVE  /\ Len(Fixed(i)) = Len(i.means)
         /\ \A k \in 1..Len(i.means) : Alike(i, Fixed(i)[Place(i, k)], i.means[k])
<1>. DEFINE m == i.means
            n == Len(m)
            ops == CASE i.id = "movs" /\ ~i.sse -> m \o <<Reg("edi"), Reg("esi")>>
                       [] i.id = "stos" -> m \o <<Reg("al")>>
                       [] i.id = "fxch" -> <<Reg("st0")>> \o m
                       [] i.id = "imul" /\ Len(m) = 3 -> [m EXCEPT ![3].num = @ % ImmRange]
                       [] i.id = "comisd" /\ m[2].type = "mem" -> [m EXCEPT ![2].size = 16]
                       [] OTHER -> m
            d == Decoded(i)
<1>1. /\ i.printer \in {"intel", "att", "aarch64"} /\ i.sse \in BOOLEAN /\ m \in Seq(ToSet(m))
      /\ \A k \in 1..n : OperandOf(i, m[k])
      /\ FixedUp(i) /\ Encoded(i)
  BY InstsAssumption
<1>2. n \in Nat /\ m = [k \in 1..n |-> m[k]]
  BY <1>1
<1>3. d = IF i.printer = "att" THEN Reverse(ops) ELSE ops
  BY DEF Decoded
<1>4. Fixed(i) = CASE i.id = "movs" /\ ~i.sse -> <<>>
                     [] i.id = "stos" -> <<d[1]>>
                     [] i.id = "fxch" /\ Len(d) = 2 -> <<d[2]>>
                     [] i.id = "imul" /\ Len(d) = 3 /\ d[3].type = "imm" ->
                          [d EXCEPT ![3].num = Signed(@)]
                     [] i.id = "comisd" /\ Len(d) = 2 /\ d[2].type = "mem" /\ d[2].size = 16 ->
                          [d EXCEPT ![2].size = 8]
                     [] OTHER -> d
  BY DEF Fixed
<1>5. /\ i.printer = "att" => i.id \notin {"stos", "fxch"}
      /\ i.printer = "att" /\ i.id = "imul" /\ n = 3 => m[3].num >= 0
  BY DEF Expressible
<1>6. i.printer = "aarch64" => i.id \notin {"movs", "stos", "fxch", "imul", "comisd"}
  BY <1>1 DEF Encoded
<1>7. \A k \in 1..n : Alike(i, m[k], m[k])
  BY DEF Alike
\* an unchanged sequence, in either order
<1>8. ASSUME NEW s, DOMAIN s = 1..n, s = [k \in 1..n |-> s[k]],
             \A k \in 1..n : Alike(i, s[k], m[k]),
             Fixed(i) = IF i.printer = "att" THEN Reverse(s) ELSE s
      PROVE  /\ Len(Fixed(i)) = n
             /\ \A k \in 1..n : Alike(i, Fixed(i)[Place(i, k)], m[k])
  <2>1. Len(s) = n
    BY <1>2, <1>8
  <2>2. CASE i.printer # "att"
    BY <1>8, <2>1, <2>2 DEF Place
  <2>3. CASE i.printer = "att"
    <3>1. Fixed(i) = [k \in 1..n |-> s[(n - k) + 1]]
      BY <1>8, <2>1, <2>3 DEF Reverse
    <3>2. Len(Fixed(i)) = n
      BY <1>2, <3>1
    <3>3. ASSUME NEW k \in 1..n PROVE Fixed(i)[n + 1 - k] = s[k]
      <4>1. n + 1 - k \in 1..n /\ (n - (n + 1 - k)) + 1 = k
        BY <1>2
      <4>. QED  BY <3>1, <4>1
    <3>. QED  BY <1>8, <2>3, <3>2, <3>3 DEF Place
  <2>. QED  BY <2>2, <2>3
<1>. HIDE DEF ops
<1>10. CASE i.id = "movs" /\ ~i.sse
  <2>1. Fixed(i) = <<>> /\ m = <<>>
    BY <1>1, <1>4, <1>10 DEF FixedUp
  <2>. QED  BY <2>1
<1>11. CASE i.id = "stos"
  <2>1. d = m \o <<Reg("al")>> /\ n = 1 /\ i.printer = "intel"
    BY <1>1, <1>3, <1>5, <1>6, <1>11 DEF FixedUp, ops
  <2>2. d[1] = m[1]
    BY <1>1, <2>1
  <2>3. Fixed(i) = <<m[1]>>
    BY <1>4, <1>11, <2>2
  <2>4. Len(Fixed(i)) = 1 /\ Fixed(i)[1] = m[1]
    BY <2>3
  <2>. QED  BY <1>7, <2>1, <2>4 DEF Place
<1>12. CASE i.id = "fxch"
  <2>1. d = <<Reg("st0")>> \o m /\ n = 1 /\ i.printer = "intel"
    BY <1>1, <1>3, <1>5, <1>6, <1>12 DEF FixedUp, ops
  <2>2. Len(d) = 2 /\ d[2] = m[1]
    BY <1>1, <2>1
  <2>3. Fixed(i) = <<m[1]>>
    BY <1>4, <1>12, <2>2
  <2>4. Len(Fixed(i)) = 1 /\ Fixed(i)[1] = m[1]
    BY <2>3
  <2>. QED  BY <1>7, <2>1, <2>4 DEF Place
<1>13. CASE i.id = "imul" /\ n = 3
  <2>. DEFINE x == m[3].num % ImmRange
              s == [k \in 1..3 |-> IF k = 3 THEN [m[3] EXCEPT !.num = x] ELSE m[k]]
  <2>1. ops = s
    <3>1. ops = [m EXCEPT ![3].num = @ % ImmRange]
      BY <1>13 DEF ops
    <3>. QED  BY <1>2, <1>13, <3>1
  <2>2. /\ m[1].type = "reg" /\ m[3].type = "imm" /\ m[3].num \in Int
        /\ m[3].num \in -(ImmRange \div 2)..(ImmRange \div 2 - 1)
        /\ OperandOf(i, m[3])
    <3>1. OperandOf(i, m[3])
      BY <1>1, <1>13
    <3>2. m[3].num \in Int
      BY <3>1 DEF OperandOf
    <3>. QED  BY <1>1, <1>13, <3>1, <3>2 DEF FixedUp
  <2>3. Signed(x) = m[3].num
    BY <2>2, SignedMod
  <2>4. s[1] = m[1] /\ s[2] = m[2] /\ s[3] = [m[3] EXCEPT !.num = x] /\ Len(s) = 3
    OBVIOUS
  <2>5. CASE i.printer = "att"
    <3>1. x = m[3].num
      <4>1. ImmRange \in Nat /\ m[3].num >= 0 /\ m[3].num < ImmRange
        BY <1>5, <1>13, <2>2, <2>5, ImmAssumption
      <4>. QED  BY <2>2, <4>1
    <3>2. d = Reverse(s) /\ d[3] = m[1] /\ Len(d) = 3
      <4>1. d = [k \in 1..3 |-> s[(3 - k) + 1]]
        BY <1>3, <2>1, <2>4, <2>5 DEF Reverse
      <4>2. d = Reverse(s)
        BY <1>3, <2>1, <2>5
      <4>3. d[3] = s[1] /\ Len(d) = 3
        BY <4>1
      <4>. QED  BY <2>4, <4>2, <4>3
    <3>3. Fixed(i) = Reverse(s)
      BY <1>4, <1>13, <2>2, <3>2
    <3>4. Alike(i, s[3], m[3])
      <4>1. s[3].num = m[3].num /\ \A f \in Fields \ {"num"} : s[3][f] = m[3][f]
        <5>. HIDE DEF s, x
        <5>. QED  BY <2>2, <2>4, <3>1, Renumbered
      <4>. HIDE DEF s
      <4>. QED  BY <2>5, <4>1, OperandFields DEF Alike, Fields
    <3>5. \A k \in 1..n : Alike(i, s[k], m[k])
      <4>1. Alike(i, s[1], m[1]) /\ Alike(i, s[2], m[2])
        <5>. HIDE DEF s
        <5>. QED  BY <1>7, <1>13, <2>4
      <4>. HIDE DEF s
      <4>. QED  BY <1>13, <3>4, <4>1
    <3>6. DOMAIN s = 1..n /\ s = [k \in 1..n |-> s[k]]
      BY <1>13
    <3>. HIDE DEF s
    <3>. QED  BY <1>8, <2>5, <3>3, <3>5, <3>6
  <2>6. CASE i.printer = "intel"
    <3>1. d = s
      BY <1>3, <2>1, <2>6
    <3>2. s[3].type = "imm" /\ s[3].num = x
      <4>. HIDE DEF s, x
      <4>. QED  BY <2>2, <2>4, Renumbered DEF Fields
    <3>. DEFINE r == [k \in 1..3 |-> IF k = 3 THEN [s[3] EXCEPT !.num = Signed(x)] ELSE s[k]]
    <3>3. Fixed(i) = r
      <4>1. Fixed(i) = [s EXCEPT ![3].num = Signed(@)]
        <5>. HIDE DEF s, x
        <5>. QED  BY <1>4, <1>13, <2>4, <3>1, <3>2
      <4>2. [s EXCEPT ![3].num = Signed(@)] = r
        <5>1. DOMAIN s = 1..3 /\ s = [k \in 1..3 |-> s[k]]
          OBVIOUS
        <5>. HIDE DEF s, x
        <5>. QED  BY <3>2, <5>1
      <4>. HIDE DEF s, x, r
      <4>. QED  BY <4>1, <4>2
    <3>4. r[1] = m[1] /\ r[2] = m[2] /\ r[3] = [s[3] EXCEPT !.num = m[3].num]
      <4>. HIDE DEF s, x
      <4>. QED  BY <2>3, <2>4
    <3>5. Alike(i, r[3], m[3])
      <4>1. \A f \in Fields : r[3][f] = m[3][f]
        <5>. HIDE DEF s, x, r
        <5>1. DOMAIN m[3] = Fields /\ m[3] = [f \in Fields |-> m[3][f]]
          BY <2>2, OperandFields DEF OperandOf
        <5>2. s[3] = [f \in Fields |-> IF f = "num" THEN x ELSE m[3][f]]
          BY <2>4, <5>1
        <5>3. r[3] = [f \in Fields |-> IF f = "num" THEN m[3].num ELSE s[3][f]]
          BY <3>4, <5>2
        <5>. QED  BY <5>2, <5>3
      <4>. HIDE DEF r
      <4>. QED  BY <4>1, OperandFields DEF Alike, Fields
    <3>6. \A k \in 1..n : Alike(i, r[k], m[k])
      <4>1. Alike(i, r[1], m[1]) /\ Alike(i, r[2], m[2])
        <5>. HIDE DEF r
        <5>. QED  BY <1>7, <1>13, <3>4
      <4>. HIDE DEF r
      <4>. QED  BY <1>13, <3>5, <4>1
    <3>7. DOMAIN r = 1..n /\ r = [k \in 1..n |-> r[k]]
      BY <1>13
    <3>. HIDE DEF r
    <3>. QED  BY <1>8, <2>6, <3>3, <3>6, <3>7
  <2>. QED  BY <1>1, <1>6, <1>13, <2>5, <2>6
<1>14. CASE i.id = "comisd" /\ m[2].type = "mem"
  <2>. DEFINE s == [k \in 1..2 |-> IF k = 2 THEN [m[2] EXCEPT !.size = 16] ELSE m[k]]
  <2>1. n = 2 /\ m[1].type = "reg" /\ m[2].size = 8 /\ OperandOf(i, m[2])
    BY <1>1, <1>14 DEF FixedUp
  <2>2. ops = s
    <3>1. ops = [m EXCEPT ![2].size = 16]
      BY <1>14 DEF ops
    <3>. QED  BY <1>2, <2>1, <3>1
  <2>3. s[1] = m[1] /\ s[2] = [m[2] EXCEPT !.size = 16] /\ Len(s) = 2
    OBVIOUS
  <2>4. s[2].size = 16 /\ s[2].type = "mem" /\ \A f \in Fields \ {"size"} : s[2][f] = m[2][f]
    <3>. HIDE DEF s
    <3>. QED  BY <1>14, <2>1, <2>3, Resized DEF Fields
  <2>5. CASE i.printer = "att"
    <3>1. d = Reverse(s) /\ d[2] = m[1]
      <4>1. d = [k \in 1..2 |-> s[(2 - k) + 1]]
        BY <1>3, <2>2, <2>3, <2>5 DEF Reverse
      <4>. QED  BY <1>3, <2>2, <2>3, <2>5, <4>1
    <3>2. Fixed(i) = Reverse(s)
      BY <1>4, <1>14, <2>1, <3>1
    <3>3. Alike(i, s[2], m[2])
      <4>. HIDE DEF s
      <4>. QED  BY <2>4, <2>5, OperandFields DEF Alike, Fields
    <3>4. \A k \in 1..n : Alike(i, s[k], m[k])
      <4>1. Alike(i, s[1], m[1])
        <5>. HIDE DEF s
        <5>. QED  BY <1>7, <2>1, <2>3
      <4>. HIDE DEF s
      <4>. QED  BY <2>1, <3>3, <4>1
    <3>5. DOMAIN s = 1..n /\ s = [k \in 1..n |-> s[k]]
      BY <2>1
    <3>. HIDE DEF s
    <3>. QED  BY <1>8, <2>5, <3>2, <3>4, <3>5
  <2>6. CASE i.printer = "intel"
    <3>1. d = s
      BY <1>3, <2>2, <2>6
    <3>. DEFINE r == [k \in 1..2 |-> IF k = 2 THEN [s[2] EXCEPT !.size = 8] ELSE s[k]]
    <3>2. Fixed(i) = r
      <4>1. Fixed(i) = [s EXCEPT ![2].size = 8]
        <5>. HIDE DEF s
        <5>. QED  BY <1>4, <1>14, <2>3, <2>4, <3>1
      <4>2. [s EXCEPT ![2].size = 8] = r
        <5>1. DOMAIN s = 1..2 /\ s = [k \in 1..2 |-> s[k]]
          OBVIOUS
        <5>. HIDE DEF s
        <5>. QED  BY <5>1
      <4>. HIDE DEF s, r
      <4>. QED  BY <4>1, <4>2
    <3>3. r[1] = m[1] /\ r[2] = [s[2] EXCEPT !.size = 8]
      <4>. HIDE DEF s
      <4>. QED  BY <2>3
    <3>4. Alike(i, r[2], m[2])
      <4>1. \A f \in Fields : r[2][f] = m[2][f]
        <5>. HIDE DEF s, r
        <5>1. DOMAIN m[2] = Fields /\ m[2] = [f \in Fields |-> m[2][f]]
          BY <2>1, OperandFields DEF OperandOf
        <5>2. s[2] = [f \in Fields |-> IF f = "size" THEN 16 ELSE m[2][f]]
          BY <2>3, <5>1
        <5>3. r[2] = [f \in Fields |-> IF f = "size" THEN 8 ELSE s[2][f]]
          BY <3>3, <5>2
        <5>. QED  BY <2>1, <5>2, <5>3
      <4>. HIDE DEF r
      <4>. QED  BY <4>1, OperandFields DEF Alike, Fields
    <3>5. \A k \in 1..n : Alike(i, r[k], m[k])
      <4>1. Alike(i, r[1], m[1])
        <5>. HIDE DEF r
        <5>. QED  BY <1>7, <2>1, <3>3
      <4>. HIDE DEF r
      <4>. QED  BY <2>1, <3>4, <4>1
    <3>6. DOMAIN r = 1..n /\ r = [k \in 1..n |-> r[k]]
      BY <2>1
    <3>. HIDE DEF r
    <3>. QED  BY <1>8, <2>6, <3>2, <3>5, <3>6
  <2>. QED  BY <1>1, <1>6, <1>14, <2>5, <2>6
<1>15. CASE /\ ~(i.id = "movs" /\ ~i.sse) /\ i.id \notin {"stos", "fxch"}
            /\ ~(i.id = "imul" /\ n = 3) /\ ~(i.id = "comisd" /\ m[2].type = "mem")
  <2>1. ops = m
    BY <1>15 DEF ops
  <2>2. Len(d) = n /\ (i.id = "comisd" => d[2].type # "mem")
    <3>1. CASE i.printer # "att"
      BY <1>3, <1>15, <2>1, <3>1
    <3>2. CASE i.printer = "att"
      <4>1. d = [k \in 1..n |-> m[(n - k) + 1]]
        BY <1>3, <2>1, <3>2 DEF Reverse
      <4>2. Len(d) = n
        BY <1>2, <4>1
      <4>3. i.id = "comisd" => n = 2 /\ m[1].type = "reg"
        BY <1>1 DEF FixedUp
      <4>4. i.id = "comisd" => d[2] = m[1]
        <5>1. n = 2 => d[2] = m[(2 - 2) + 1]
          BY <4>1
        <5>. QED  BY <4>3, <5>1
      <4>. QED  BY <4>2, <4>3, <4>4
    <3>. QED  BY <3>1, <3>2
  <2>3. Fixed(i) = d
    BY <1>4, <1>15, <2>2
  <2>. QED  BY <1>2, <1>3, <1>7, <1>8, <2>1, <2>3
<1>. QED  BY <1>10, <1>11, <1>12, <1>13, <1>14, <1>15

(* Looking up an expression finds the one of an operand with its place, if  *)
(* no other one has it.                                                     *)
LEMMA FoundOnly ==
  ASSUME NEW i, NEW x, NEW e,
         \A o \in ToSet(i.means) : o.expr # NoExpr /\ Field(i, o) = x => o.expr = e,
         e # NoExpr => \E o \in ToSet(i.means) : o.expr = e /\ Field(i, o) = x
  PROVE  Found(i, x) = e
<1>. DEFINE es == {op.expr : op \in {o \in ToSet(i.means) : o.expr # NoExpr /\ Field(i, o) = x}}
<1>1. Found(i, x) = IF es = {} THEN NoExpr ELSE CHOOSE y \in es : TRUE
  BY DEF Found
<1>2. CASE e = NoExpr
  <2>1. es = {}
    BY <1>2
  <2>. QED  BY <1>1, <1>2, <2>1
<1>3. CASE e # NoExpr
  <2>1. es = {e}
    BY <1>3
  <2>. HIDE DEF es
  <2>. QED  BY <1>1, <2>1
<1>. QED  BY <1>2, <1>3

(* The symbol that is printed for an operand is the one it stands for.      *)
LEMMA SymbolicMeans ==
  ASSUME NEW t \in Tables, NEW i \in Insts(t), Expressible(i), NEW k \in 1..Len(i.means)
  PROVE  Symbolic(i, Place(i, k)) = i.means[k].expr
<1>. DEFINE m == i.means
            n == Len(m)
            op == m[k]
            p == Place(i, k)
            f == Fixed(i)[p]
<1>1. /\ i.printer \in {"intel", "att", "aarch64"} /\ m \in Seq(ToSet(m)) /\ n \in Nat
      /\ \A j \in 1..n : OperandOf(i, m[j])
      /\ Encoded(i)
  BY InstsAssumption
<1>2. Len(Fixed(i)) = n /\ Alike(i, f, op)
  BY FixedMeans
<1>3. f.type = op.type /\ f.num = op.num
  BY <1>2 DEF Alike, Operand
<1>4. \A o \in ToSet(m) : \E j \in 1..n : o = m[j]
  BY <1>1 DEF ToSet
<1>5. op \in ToSet(m) /\ OperandOf(i, op)
  BY <1>1 DEF ToSet
<1>6. \A j \in 1..n : m[j].expr # NoExpr => m[j].type \in {"imm", "mem"}
  BY <1>1 DEF OperandOf
<1>7. Lookup(i, p) = op.expr
  <2>1. CASE op.type \notin {"imm", "mem"}
    BY <1>3, <1>6, <2>1 DEF Lookup
  <2>2. CASE op.type \in {"imm", "mem"} /\ i.printer = "aarch64"
    <3>1. p = k /\ \A j \in 1..n : m[j].expr # NoExpr => j = n
      BY <1>1, <2>2 DEF Place, Encoded
    <3>2. k = n => Found(i, 0) = op.expr
      <4>1. \A o \in ToSet(m) : Field(i, o) = 0
        BY <2>2 DEF Field
      <4>. SUFFICES ASSUME k = n PROVE Found(i, 0) = op.expr
        OBVIOUS
      <4>2. \A o \in ToSet(m) : o.expr # NoExpr => o.expr = op.expr
        BY <1>4, <3>1
      <4>. QED  BY <1>5, <4>1, <4>2, FoundOnly
    <3>. QED  BY <1>2, <1>3, <2>2, <3>1, <3>2 DEF Lookup
  <2>3. CASE op.type = "imm" /\ i.printer # "aarch64"
    <3>1. ASSUME NEW o \in ToSet(m), o.expr # NoExpr, Field(i, o) = i.immAt
          PROVE  o.expr = op.expr
      <4>1. PICK j \in 1..n : o = m[j]
        BY <1>4
      <4>2. (IF m[j].type = "imm" THEN i.immAt ELSE i.dispAt) > 0
        BY <1>1, <2>3, <3>1, <4>1 DEF Encoded
      <4>3. m[j].type = "imm"
        <5>. SUFFICES ASSUME m[j].type # "imm" PROVE FALSE
          OBVIOUS
        <5>1. i.dispAt > 0 /\ i.immAt = i.dispAt
          BY <2>3, <3>1, <4>1, <4>2 DEF Field
        <5>. QED  BY <1>1, <2>3, <5>1 DEF Encoded
      <4>4. j = k
        BY <1>1, <2>3, <3>1, <4>1, <4>3 DEF Expressible
      <4>. QED  BY <4>1, <4>4
    <3>2. Field(i, op) = i.immAt
      BY <2>3 DEF Field
    <3>3. Found(i, i.immAt) = op.expr
      <4>1. \A o \in ToSet(m) : o.expr # NoExpr /\ Field(i, o) = i.immAt => o.expr = op.expr
        BY <3>1
      <4>2. op.expr # NoExpr => \E o \in ToSet(m) : o.expr = op.expr /\ Field(i, o) = i.immAt
        BY <1>5, <3>2
      <4>. DEFINE e == op.expr
                  x == i.immAt
      <4>3. /\ \A o \in ToSet(i.means) : o.expr # NoExpr /\ Field(i, o) = x => o.expr = e
            /\ e # NoExpr => \E o \in ToSet(i.means) : o.expr = e /\ Field(i, o) = x
        BY <4>1, <4>2
      <4>. HIDE DEF e, x
      <4>4. Found(i, x) = e
        BY <4>3, FoundOnly
      <4>. QED  BY <4>4 DEF e, x
    <3>. QED  BY <1>3, <2>3, <3>3 DEF Lookup
  <2>4. CASE op.type = "mem" /\ i.printer # "aarch64"
    <3>1. ASSUME NEW o \in ToSet(m), o.expr # NoExpr, Field(i, o) = i.dispAt, i.dispAt > 0
          PROVE  o.expr = op.expr
      <4>1. PICK j \in 1..n : o = m[j]
        BY <1>4
      <4>2. m[j].type = "mem"
        <5>. SUFFICES ASSUME m[j].type # "mem" PROVE FALSE
          OBVIOUS
        <5>1. i.immAt = i.dispAt
          BY <1>6, <2>4, <3>1, <4>1 DEF Field
        <5>. QED  BY <1>1, <2>4, <3>1, <5>1 DEF Encoded
      <4>3. j = k
        BY <1>1, <2>4, <3>1, <4>2 DEF Encoded
      <4>. QED  BY <4>1, <4>3
    <3>2. Field(i, op) = i.dispAt
      BY <2>4 DEF Field
    <3>3. i.dispAt > 0 => Found(i, i.dispAt) = op.expr
      <4>. SUFFICES ASSUME i.dispAt > 0 PROVE Found(i, i.dispAt) = op.expr
        OBVIOUS
      <4>1. \A o \in ToSet(m) : o.expr # NoExpr /\ Field(i, o) = i.dispAt => o.expr = op.expr
        BY <3>1
      <4>2. op.expr # NoExpr => \E o \in ToSet(m) : o.expr = op.expr /\ Field(i, o) = i.dispAt
        BY <1>5, <3>2
      <4>. DEFINE e == op.expr
                  x == i.dispAt
      <4>3. /\ \A o \in ToSet(i.means) : o.expr # NoExpr /\ Field(i, o) = x => o.expr = e
            /\ e # NoExpr => \E o \in ToSet(i.means) : o.expr = e /\ Field(i, o) = x
        BY <4>1, <4>2
      <4>. HIDE DEF e, x
      <4>4. Found(i, x) = e
        BY <4>3, FoundOnly
      <4>. QED  BY <4>4 DEF e, x
    <3>4. ~(i.dispAt > 0) => op.expr = NoExpr
      BY <1>1, <2>4 DEF Encoded
    <3>. QED  BY <1>3, <2>4, <3>3, <3>4 DEF Lookup
  <2>. QED  BY <2>1, <2>2, <2>3, <2>4
<1>8. op.expr # NoExpr => /\ op.expr.const
                          /\ i.printer = "aarch64" /\ op.type = "mem" => op.num # 0
  BY <1>5 DEF Expressible
<1>9. Symbolic(i, p) = IF \/ Lookup(i, p) = NoExpr \/ ~Lookup(i, p).const
                          \/ i.printer = "aarch64" /\ f.type = "mem" /\ f.num = 0
                       THEN NoExpr ELSE Lookup(i, p)
  BY DEF Symbolic
<1>. HIDE DEF p, f, op
<1>10. Symbolic(i, p) = op.expr
  BY <1>3, <1>7, <1>8, <1>9
<1>. QED  BY <1>10 DEF p, op

(* The reference r is one that printSymbolReference prints for symbol s.    *)
Refers(s, inData, r) ==
  \/ /\ r.kind = "number" /\ r.value = table.addr[s]
     /\ ~Forwarded(s) /\ table.addr[s] \in table.skipped
  \/ /\ r.kind = "name"
     /\ r.sym = IF Forwarded(s) THEN table.forward[s] ELSE s
     /\ r.ending = IF Forwarded(s) THEN Ending(s, inData) ELSE ""

(* The value v is what is printed for operand k of those that are printed.  *)
ShownFor(i, k, v) ==
  LET e == Symbolic(i, k)
  IN  IF e = NoExpr THEN v = NoValue
      ELSE \E r : /\ Refers(e.sym, InData(i, Fixed(i)[k]), r)
                  /\ v = [printed |-> TRUE, n |-> e.addend, ref |-> r, prefix |-> Prefix(i, k)]

(* The suffix @PLT is there where it should be.                             *)
LEMMA EndingMeans ==
  ASSUME NEW i, NEW f, NEW s, (i.printer = "aarch64") <=> ~table.endings,
         f.type \in {"imm", "mem"}
  PROVE  Ending(s, InData(i, f)) = "@PLT"
           <=> Ending(s, FALSE) = "@PLT" /\ (f.type = "mem" \/ Branch(i))
<1>1. CASE ~table.endings
  BY <1>1 DEF Ending
<1>2. CASE table.endings
  <2>1. InData(i, f) <=> ~(f.type = "mem" \/ Branch(i))
    BY <1>2 DEF InData, Branch
  <2>2. \A d \in BOOLEAN : Ending(s, d) = "@PLT" <=> Ending(s, FALSE) = "@PLT" /\ ~d
    BY DEF Ending
  <2>3. InData(i, f) \in BOOLEAN
    BY DEF InData
  <2>. QED  BY <2>1, <2>2, <2>3
<1>. QED  BY <1>1, <1>2

(* What stands in front of the symbol of an operand is what belongs there.  *)
LEMMA PrefixMeans ==
  ASSUME NEW t \in Tables, NEW i \in Insts(t), NEW k \in 1..Len(i.means),
         i.means[k].expr # NoExpr
  PROVE  Prefix(i, Place(i, k)) = i.means[k].expr.prefix
<1>. DEFINE m == i.means
            n == Len(m)
<1>1. m \in Seq(ToSet(m)) /\ n \in Nat /\ DOMAIN m = 1..n /\ OperandOf(i, m[k]) /\ Encoded(i)
  BY InstsAssumption
<1>2. CASE i.printer # "aarch64"
  BY <1>1, <1>2 DEF Prefix, OperandOf
<1>3. CASE i.printer = "aarch64"
  <2>1. Place(i, k) = k
    BY <1>3 DEF Place
  <2>2. \A x \in Info(i) : \E j \in 1..n :
          x[1] = j /\ x[2] = m[j].expr.prefix /\ m[j].expr.prefix # ""
    <3>. SUFFICES ASSUME NEW x \in Info(i)
                  PROVE  \E j \in 1..n :
                           x[1] = j /\ x[2] = m[j].expr.prefix /\ m[j].expr.prefix # ""
      OBVIOUS
    <3>1. PICK j \in 1..n : x = <<j, m[j].expr.prefix>> /\ m[j].expr.prefix # ""
      BY <1>1 DEF Info
    <3>2. x[1] = j /\ x[2] = m[j].expr.prefix
      BY <3>1
    <3>. QED  BY <3>1, <3>2
  <2>3. CASE m[k].expr.prefix = ""
    <3>1. \A x \in Info(i) : x[1] # k
      BY <2>2, <2>3
    <3>. QED  BY <1>3, <2>1, <2>3, <3>1 DEF Prefix
  <2>4. CASE m[k].expr.prefix # ""
    <3>1. <<k, m[k].expr.prefix>> \in Info(i)
      BY <1>1, <2>4 DEF Info
    <3>2. \E x \in Info(i) : x[1] = k
      BY <3>1
    <3>3. Prefix(i, k) = (CHOOSE x \in Info(i) : x[1] = k)[2]
      BY <1>3, <3>2 DEF Prefix
    <3>4. (CHOOSE x \in Info(i) : x[1] = k) \in {x \in Info(i) : x[1] = k}
      BY <3>2
    <3>. QED  BY <2>1, <2>2, <3>3, <3>4
  <2>. QED  BY <2>3, <2>4
<1>. QED  BY <1>2, <1>3

(* The value that is printed for an operand is the one it has.              *)
LEMMA ValueMeans ==
  ASSUME NEW t \in Tables, NEW i \in Insts(t), Expressible(i),
         (i.printer = "aarch64") <=> ~table.endings,
         NEW k \in 1..Len(i.means), NEW v, ShownFor(i, Place(i, k), v)
  PROVE  IF i.means[k].expr = NoExpr THEN v = NoValue
         ELSE v.printed /\ v.ref # NoRef /\ ValueRead(i, v, i.means[k])
<1>. DEFINE op == i.means[k]
            p == Place(i, k)
            f == Fixed(i)[p]
            e == op.expr
<1>1. Symbolic(i, p) = e
  BY SymbolicMeans
<1>2. CASE e = NoExpr
  BY <1>1, <1>2 DEF ShownFor
<1>3. CASE e # NoExpr
  <2>1. PICK r : /\ Refers(e.sym, InData(i, f), r)
                 /\ v = [printed |-> TRUE, n |-> e.addend, ref |-> r, prefix |-> Prefix(i, p)]
    <3>1. \E r : /\ Refers(Symbolic(i, p).sym, InData(i, f), r)
                 /\ v = [printed |-> TRUE, n |-> Symbolic(i, p).addend, ref |-> r,
                        prefix |-> Prefix(i, p)]
      BY <1>1, <1>3 DEF ShownFor
    <3>. HIDE DEF e, p, f
    <3>. QED  BY <1>1, <3>1
  <2>2. op.type \in {"imm", "mem"} /\ op \in ToSet(i.means)
    <3>1. i.means \in Seq(ToSet(i.means)) /\ \A j \in DOMAIN i.means : OperandOf(i, i.means[j])
      BY InstsAssumption
    <3>2. OperandOf(i, op) /\ op \in ToSet(i.means)
      BY <3>1 DEF ToSet
    <3>. QED  BY <1>3, <3>2 DEF OperandOf
  <2>3. f.type = op.type
    BY FixedMeans DEF Alike, Operand
  <2>4. Prefix(i, p) = e.prefix
    BY <1>3, PrefixMeans
  <2>5. op.base = "rip" => Forwarded(e.sym) \/ table.addr[e.sym] \notin table.skipped
    BY <1>3, <2>2 DEF Expressible
  <2>6. Ending(e.sym, InData(i, f)) = "@PLT"
          <=> Ending(e.sym, FALSE) = "@PLT" /\ (op.type = "mem" \/ Branch(i))
    <3>. HIDE DEF f, op, e
    <3>. QED  BY <2>2, <2>3, EndingMeans
  <2>. HIDE DEF f, p, op
  <2>7. r.kind \in {"number", "name"} /\ r # NoRef
    <3>1. r.kind \in {"number", "name"}
      BY <2>1 DEF Refers
    <3>2. NoRef.kind = "none"
      BY DEF NoRef
    <3>. QED  BY <3>1, <3>2
  <2>8. /\ v.printed /\ v.ref = r /\ v.n = e.addend /\ v.prefix = e.prefix
    BY <2>1, <2>4
  <2>9. r.kind = "number" => r.value = table.addr[e.sym] /\ op.base # "rip"
    BY <2>1, <2>5 DEF Refers
  <2>10. r.kind = "name" =>
           /\ r.sym = IF Forwarded(e.sym) THEN table.forward[e.sym] ELSE e.sym
           /\ r.ending = "@PLT" <=>
                (/\ Forwarded(e.sym) /\ Ending(e.sym, FALSE) = "@PLT"
                 /\ op.type = "mem" \/ Branch(i))
    BY <2>1, <2>6 DEF Refers
  <2>11. ValueRead(i, v, op)
    BY <1>3, <2>7, <2>8, <2>9, <2>10 DEF ValueRead
  <2>. QED  BY <1>3, <2>7, <2>8, <2>11 DEF op
<1>. QED  BY <1>2, <1>3

(* The value v that is printed for operand op is its own.                   *)
Fits(i, v, op) ==
  IF op.expr = NoExpr THEN v = NoValue
  ELSE v.printed /\ v.ref # NoRef /\ ValueRead(i, v, op)

(* A number that is printed is not a reference.                             *)
LEMMA ValueFields ==
  /\ NoValue.printed = FALSE /\ NoValue.n = 0 /\ NoValue.ref = NoRef
  /\ \A n : Number(n).printed /\ Number(n).n = n /\ Number(n).ref = NoRef
  BY DEF NoValue, Number

(* What is printed for the value of an operand is read as that value; a     *)
(* displacement of 0 may be left out.                                       *)
LEMMA NumberFits ==
  ASSUME NEW i, NEW v, NEW op, Fits(i, v, op), NEW f, f.num = op.num
  PROVE  /\ NumberOr(f, v).printed
         /\ ValueRead(i, NumberOr(f, v), op)
         /\ NumberOr(f, v).ref = NoRef <=> op.expr = NoExpr
         /\ ~v.printed => NumberOr(f, v).ref = NoRef /\ op.expr = NoExpr
         /\ ~v.printed /\ op.num = 0 => ValueRead(i, NoValue, op)
         /\ (v.printed <=> op.expr # NoExpr)
<1>1. CASE op.expr = NoExpr
  BY <1>1, ValueFields DEF Fits, NumberOr, ValueRead
<1>2. CASE op.expr # NoExpr
  <2>1. v.printed /\ v.ref # NoRef /\ ValueRead(i, v, op)
    BY <1>2 DEF Fits
  <2>2. NumberOr(f, v) = v
    BY <2>1 DEF NumberOr
  <2>. QED  BY <1>2, <2>1, <2>2
<1>. QED  BY <1>1, <1>2

(* What an assembler reads in Intel's syntax.                               *)
LEMMA IntelReads ==
  ASSUME NEW i, i.printer = "intel", NEW op, OperandOf(i, op), op.type # "invalid",
         NEW f, Alike(i, f, op), NEW v, Fits(i, v, op)
  PROVE  Reads(i, IntelText(i, f, v), op)
<1>. DEFINE x == IntelText(i, f, v)
<1>1. /\ f.type = op.type /\ f.seg = op.seg /\ f.base = op.base /\ f.index = op.index
      /\ f.scale = op.scale /\ f.num = op.num /\ f.size = op.size
  BY DEF Alike, Operand
<1>2. /\ op.ext = None /\ op.pre = FALSE /\ ShownShift(op) = NoShift
      /\ op.scale \in {1, 2, 4, 8} /\ op.type \in {"reg", "imm", "mem"}
  BY DEF OperandOf, ShownShift
<1>3. ASSUME NEW y, y.shift = NoShift PROVE ShownShift(y) = NoShift
  BY <1>3 DEF ShownShift
<1>7. /\ NumberOr(f, v).printed
      /\ ValueRead(i, NumberOr(f, v), op)
      /\ ~v.printed => NumberOr(f, v).ref = NoRef /\ op.expr = NoExpr
      /\ ~v.printed /\ op.num = 0 => ValueRead(i, NoValue, op)
  <2>1. f.num = op.num
    BY <1>1
  <2>. HIDE DEF x
  <2>2. NumberOr(f, v).printed
    BY <2>1, NumberFits
  <2>3. ValueRead(i, NumberOr(f, v), op)
    BY <2>1, NumberFits
  <2>4. ~v.printed => NumberOr(f, v).ref = NoRef /\ op.expr = NoExpr
    BY <2>1, NumberFits
  <2>5. ~v.printed /\ op.num = 0 => ValueRead(i, NoValue, op)
    BY <2>1, NumberFits
  <2>. QED  BY <2>2, <2>3, <2>4, <2>5
<1>4. CASE op.type = "reg"
  <2>1. /\ x.words = <<>> /\ x.brackets = FALSE /\ x.value = NoValue /\ x.mark = ""
        /\ x.seg = None /\ x.base = op.base /\ x.index = None /\ x.shift = NoShift
        /\ x.ext = None /\ x.bang = FALSE
    BY <1>1, <1>4 DEF IntelText, Blank
  <2>2. op.base # None /\ op.seg = None /\ op.index = None
    BY <1>4 DEF OperandOf
  <2>. HIDE DEF x
  <2>3. TypeRead(i, x) = "reg"
    BY <2>1, <2>2, ValueFields DEF TypeRead
  <2>4. MarkFits(i, x, "reg")
    BY <2>1 DEF MarkFits
  <2>5. ShownShift(x) = ShownShift(op)
    BY <1>2, <1>3, <2>1
  <2>6. Reads(i, x, op)
    BY <1>2, <1>4, <2>1, <2>2, <2>3, <2>4, <2>5 DEF Reads
  <2>. QED  BY <2>6 DEF x
<1>5. CASE op.type = "imm"
  <2>1. /\ x.words = <<>> /\ x.brackets = FALSE /\ x.value = NumberOr(f, v)
        /\ x.mark = IF v.printed /\ ~Branch(i) THEN "OFFSET" ELSE ""
        /\ x.seg = None /\ x.base = None /\ x.index = None /\ x.shift = NoShift
        /\ x.ext = None /\ x.bang = FALSE
    BY <1>1, <1>5 DEF IntelText, Blank
  <2>2. op.base = None /\ op.seg = None /\ op.index = None
    BY <1>5 DEF OperandOf
  <2>3. /\ x.value.printed /\ ValueRead(i, x.value, op)
        /\ ~v.printed => x.value.ref = NoRef
    BY <1>7, <2>1
  <2>. HIDE DEF x
  <2>4. TypeRead(i, x) = "imm"
    <3>1. NoRef.kind # "name"
      BY DEF NoRef
    <3>2. x.mark = "OFFSET" \/ Branch(i) \/ x.value.ref.kind # "name"
      BY <2>1, <2>3, <3>1
    <3>. QED  BY <2>1, <2>3, <3>2 DEF TypeRead
  <2>5. MarkFits(i, x, "imm")
    BY <2>1 DEF MarkFits
  <2>6. ShownShift(x) = ShownShift(op)
    BY <1>2, <1>3, <2>1
  <2>7. Reads(i, x, op)
    BY <1>2, <1>5, <2>1, <2>2, <2>3, <2>4, <2>5, <2>6 DEF Reads
  <2>. QED  BY <2>7 DEF x
<1>6. CASE op.type = "mem"
  <2>1. /\ x.words = <<>> /\ x.brackets = TRUE /\ x.mark = ""
        /\ x.value = IF ~v.printed /\ op.num = 0 /\ Registers(op) # {}
                     THEN NoValue ELSE NumberOr(f, v)
        /\ x.size = IF op.size \in NamedSizes THEN op.size ELSE 0
        /\ x.seg = op.seg /\ x.base = op.base /\ x.index = op.index /\ x.shift = NoShift
        /\ x.scale = IF op.index = None THEN 0 ELSE op.scale
        /\ x.ext = None /\ x.bang = FALSE
    BY <1>1, <1>6 DEF IntelText, Blank, Registers
  <2>. HIDE DEF x
  <2>2. ValueRead(i, x.value, op) /\ (x.value.printed \/ Registers(op) # {})
    BY <1>7, <2>1
  <2>3. Registers(x) = Registers(op)
    BY <2>1 DEF Registers
  <2>4. TypeRead(i, x) = "mem"
    BY <2>1 DEF TypeRead
  <2>5. MarkFits(i, x, "mem")
    BY <2>1 DEF MarkFits
  <2>6. ShownShift(x) = ShownShift(op)
    BY <1>2, <1>3, <2>1
  <2>7. x.index # None => op.scale = IF x.scale = 0 THEN 1 ELSE x.scale
    <3>1. x.index # None => x.scale = op.scale \/ (x.scale = 0 /\ op.scale = 1)
      BY <2>1
    <3>2. op.scale # 0
      BY <1>2
    <3>. QED  BY <3>1, <3>2
  <2>8. x.brackets => Registers(x) # {} \/ x.value.printed
    BY <2>2, <2>3
  <2>9. Reads(i, x, op)
    BY <1>2, <1>6, <2>1, <2>2, <2>4, <2>5, <2>6, <2>7, <2>8 DEF Reads
  <2>. QED  BY <2>9 DEF x
<1>. QED  BY <1>2, <1>4, <1>5, <1>6

(* What an assembler reads in AT&T's syntax.                                *)
LEMMA AttReads ==
  ASSUME NEW i, i.printer = "att", NEW op, OperandOf(i, op), op.type # "invalid",
         NEW f, Alike(i, f, op), NEW v, Fits(i, v, op)
  PROVE  Reads(i, AttText(i, f, v), op)
<1>. DEFINE x == AttText(i, f, v)
<1>1. /\ f.type = op.type /\ f.seg = op.seg /\ f.base = op.base /\ f.index = op.index
      /\ f.scale = op.scale /\ f.num = op.num
  BY DEF Alike, Operand
<1>2. /\ op.ext = None /\ op.pre = FALSE /\ ShownShift(op) = NoShift
      /\ op.scale \in {1, 2, 4, 8} /\ op.type \in {"reg", "imm", "mem"}
  BY DEF OperandOf, ShownShift
<1>3. ASSUME NEW y, y.shift = NoShift PROVE ShownShift(y) = NoShift
  BY <1>3 DEF ShownShift
<1>7. /\ NumberOr(f, v).printed
      /\ ValueRead(i, NumberOr(f, v), op)
      /\ ~v.printed => NumberOr(f, v).ref = NoRef /\ op.expr = NoExpr
      /\ ~v.printed /\ op.num = 0 => ValueRead(i, NoValue, op)
  <2>1. f.num = op.num
    BY <1>1
  <2>. HIDE DEF x
  <2>2. NumberOr(f, v).printed
    BY <2>1, NumberFits
  <2>3. ValueRead(i, NumberOr(f, v), op)
    BY <2>1, NumberFits
  <2>4. ~v.printed => NumberOr(f, v).ref = NoRef /\ op.expr = NoExpr
    BY <2>1, NumberFits
  <2>5. ~v.printed /\ op.num = 0 => ValueRead(i, NoValue, op)
    BY <2>1, NumberFits
  <2>. QED  BY <2>2, <2>3, <2>4, <2>5
<1>4. CASE op.type = "reg"
  <2>1. /\ x.words = <<>> /\ x.brackets = FALSE /\ x.value = NoValue
        /\ x.mark = IF Branch(i) THEN "*" ELSE ""
        /\ x.seg = None /\ x.base = op.base /\ x.index = None /\ x.shift = NoShift
        /\ x.ext = None /\ x.bang = FALSE
    BY <1>1, <1>4 DEF AttText, Blank
  <2>2. op.base # None /\ op.seg = None /\ op.index = None
    BY <1>4 DEF OperandOf
  <2>. HIDE DEF x
  <2>3. TypeRead(i, x) = "reg"
    BY <2>1, <2>2, ValueFields DEF TypeRead
  <2>4. MarkFits(i, x, "reg")
    BY <2>1 DEF MarkFits
  <2>5. ShownShift(x) = ShownShift(op)
    BY <1>2, <1>3, <2>1
  <2>6. Reads(i, x, op)
    BY <1>2, <1>4, <2>1, <2>2, <2>3, <2>4, <2>5 DEF Reads
  <2>. QED  BY <2>6 DEF x
<1>5. CASE op.type = "imm"
  <2>1. /\ x.words = <<>> /\ x.brackets = FALSE /\ x.value = NumberOr(f, v)
        /\ x.mark = IF Branch(i) THEN "" ELSE "$"
        /\ x.seg = None /\ x.base = None /\ x.index = None /\ x.shift = NoShift
        /\ x.ext = None /\ x.bang = FALSE
    BY <1>1, <1>5 DEF AttText, Blank
  <2>2. op.base = None /\ op.seg = None /\ op.index = None
    BY <1>5 DEF OperandOf
  <2>3. x.value.printed /\ ValueRead(i, x.value, op)
    BY <1>7, <2>1
  <2>. HIDE DEF x
  <2>4. TypeRead(i, x) = "imm"
    BY <2>1, <2>3 DEF TypeRead
  <2>5. MarkFits(i, x, "imm")
    BY <2>1 DEF MarkFits
  <2>6. ShownShift(x) = ShownShift(op)
    BY <1>2, <1>3, <2>1
  <2>7. Reads(i, x, op)
    BY <1>2, <1>5, <2>1, <2>2, <2>3, <2>4, <2>5, <2>6 DEF Reads
  <2>. QED  BY <2>7 DEF x
<1>6. CASE op.type = "mem"
  <2>1. /\ x.words = <<>> /\ x.mark = IF Branch(i) THEN "*" ELSE ""
        /\ x.brackets = (Registers(op) # {})
        /\ x.value = IF ~v.printed /\ op.num = 0 /\ op.seg = None /\ Registers(op) # {}
                     THEN NoValue ELSE NumberOr(f, v)
        /\ x.seg = op.seg /\ x.base = op.base /\ x.index = op.index /\ x.shift = NoShift
        /\ x.scale = IF op.index = None \/ op.scale = 1 THEN 0 ELSE op.scale
        /\ x.ext = None /\ x.bang = FALSE
    BY <1>1, <1>6 DEF AttText, Blank, Registers
  <2>. HIDE DEF x
  <2>2. ValueRead(i, x.value, op) /\ (x.value.printed \/ Registers(op) # {})
    BY <1>7, <2>1
  <2>3. Registers(x) = Registers(op)
    BY <2>1 DEF Registers
  <2>4. TypeRead(i, x) = "mem"
    <3>1. CASE Registers(op) # {}
      BY <2>1, <3>1 DEF TypeRead
    <3>2. CASE Registers(op) = {}
      <4>1. ~x.brackets /\ x.value.printed
        BY <2>1, <2>2, <3>2
      <4>. QED  BY <2>1, <4>1 DEF TypeRead
    <3>. QED  BY <3>1, <3>2
  <2>5. MarkFits(i, x, "mem")
    BY <2>1 DEF MarkFits
  <2>6. ShownShift(x) = ShownShift(op)
    BY <1>2, <1>3, <2>1
  <2>7. x.index # None => op.scale = IF x.scale = 0 THEN 1 ELSE x.scale
    <3>1. x.index # None => x.scale = op.scale \/ (x.scale = 0 /\ op.scale = 1)
      BY <2>1
    <3>2. op.scale # 0
      BY <1>2
    <3>. QED  BY <3>1, <3>2
  <2>8. x.brackets => Registers(x) # {} \/ x.value.printed
    BY <2>2, <2>3
  <2>9. Reads(i, x, op)
    BY <1>2, <1>6, <2>1, <2>2, <2>4, <2>5, <2>6, <2>7, <2>8 DEF Reads
  <2>. QED  BY <2>9 DEF x
<1>. QED  BY <1>2, <1>4, <1>5, <1>6

(* Only the operand with the address that is written back is marked so.     *)
LEMMA BangMeans ==
  ASSUME NEW t \in Tables, NEW i \in Insts(t), i.printer = "aarch64",
         NEW k \in 1..Len(i.means), i.means[k].type = "mem", Len(Fixed(i)) = Len(i.means)
  PROVE  WrittenBack(i, k) <=> i.means[k].pre
<1>. DEFINE m == i.means
            n == Len(m)
<1>1. /\ n \in Nat /\ DOMAIN m = 1..n /\ i.post \in BOOLEAN
      /\ \A j \in 1..n : m[j].pre => j = n
      /\ i.post => m[n].type # "mem"
  BY InstsAssumption DEF Encoded
<1>2. WrittenBack(i, k) <=> (i.post \/ \E j \in 1..n : m[j].pre) /\ k = n
  BY <1>1 DEF WrittenBack, WritesBack
<1>. QED  BY <1>1, <1>2

(* What an assembler reads in the syntax of AArch64.                        *)
LEMMA ArmReads ==
  ASSUME NEW t \in Tables, NEW i \in Insts(t), Expressible(i), i.printer = "aarch64",
         NEW k \in 1..Len(i.means), Len(Fixed(i)) = Len(i.means),
         NEW f, Alike(i, f, i.means[k]), Printable(f),
         NEW v, Fits(i, v, i.means[k]),
         i.means[k].type = "raw" => RawWords(i, k) = i.means[k].words
  PROVE  Reads(i, AArch64Text(i, k, f, v), i.means[k])
<1>. DEFINE op == i.means[k]
            x == AArch64Text(i, k, f, v)
<1>1. /\ f.type = op.type /\ f.base = op.base /\ f.index = op.index /\ f.num = op.num
      /\ f.shift = op.shift /\ f.ext = op.ext /\ f.words = op.words
  BY DEF Alike, Operand
<1>2. i.means \in Seq(ToSet(i.means)) /\ OperandOf(i, op) /\ op \in ToSet(i.means)
  <2>1. i.means \in Seq(ToSet(i.means)) /\ \A j \in DOMAIN i.means : OperandOf(i, i.means[j])
    BY InstsAssumption
  <2>. QED  BY <2>1 DEF ToSet
<1>3. /\ op.type \in {"reg", "imm", "mem", "fp", "raw", "barrier", "prefetch"}
      /\ op.seg = None /\ op.scale = 1
  BY <1>1, <1>2 DEF OperandOf, Printable
<1>4. /\ op.type = "reg" => op.ext # None \/ op.shift = NoShift
      /\ op.type = "mem" => op.ext = None
      /\ op.type = "fp" => SixDigits(op.num) = op.num
      /\ op.expr # NoExpr => op.shift = NoShift /\ (op.type = "mem" => op.num # 0)
  BY <1>2 DEF Expressible
<1>5. \A y : y.shift = ShownShift(op) => ShownShift(y) = ShownShift(op)
  BY DEF ShownShift, NoShift
<1>6. \A y : y.shift = op.shift => ShownShift(y) = ShownShift(op)
  BY DEF ShownShift
<1>7. /\ op.type # "mem" => op.index = None /\ op.pre = FALSE
      /\ op.type = "reg" => op.base # None
      /\ op.type = "mem" => op.base # None
      /\ op.type \notin {"reg", "mem"} => op.base = None /\ op.ext = None
      /\ op.type \notin {"reg", "mem", "imm"} => op.shift = NoShift
      /\ op.type \notin {"imm", "mem"} => op.expr = NoExpr
      /\ op.type = "raw" => op.words # <<>>
  BY <1>2 DEF OperandOf
<1>8. CASE op.type = "reg"
  <2>1. /\ x.words = <<>> /\ x.brackets = FALSE /\ x.value = NoValue /\ x.mark = ""
        /\ x.seg = None /\ x.base = op.base /\ x.index = None
        /\ x.shift = IF op.ext = None THEN NoShift ELSE op.shift
        /\ x.ext = op.ext /\ x.bang = FALSE
    BY <1>1, <1>8 DEF AArch64Text, Extended, Blank
  <2>. HIDE DEF x
  <2>2. TypeRead(i, x) = "reg"
    BY <1>7, <1>8, <2>1, ValueFields DEF TypeRead
  <2>3. MarkFits(i, x, "reg")
    BY <2>1 DEF MarkFits
  <2>4. ShownShift(x) = ShownShift(op)
    <3>1. x.shift = op.shift
      BY <1>4, <1>8, <2>1
    <3>. QED  BY <1>6, <3>1
  <2>5. Reads(i, x, op)
    BY <1>3, <1>7, <1>8, <2>1, <2>2, <2>3, <2>4 DEF Reads
  <2>. QED  BY <2>5 DEF x
<1>9. CASE op.type = "imm" /\ op.expr # NoExpr
  <2>1. v.printed /\ v.ref # NoRef /\ ValueRead(i, v, op)
    BY <1>9 DEF Fits
  <2>2. /\ x.words = <<>> /\ x.brackets = FALSE /\ x.value = v /\ x.mark = ""
        /\ x.seg = None /\ x.base = None /\ x.index = None /\ x.shift = NoShift
        /\ x.ext = None /\ x.bang = FALSE
    BY <1>1, <1>9, <2>1 DEF AArch64Text, Blank
  <2>. HIDE DEF x
  <2>3. TypeRead(i, x) = "imm"
    BY <2>1, <2>2 DEF TypeRead
  <2>4. MarkFits(i, x, "imm")
    BY <2>1, <2>2 DEF MarkFits
  <2>5. ShownShift(x) = ShownShift(op)
    BY <1>4, <1>6, <1>9, <2>2
  <2>6. Reads(i, x, op)
    BY <1>3, <1>7, <1>9, <2>1, <2>2, <2>3, <2>4, <2>5 DEF Reads
  <2>. QED  BY <2>6 DEF x
<1>10. CASE op.type \in {"imm", "fp"} /\ op.expr = NoExpr
  <2>1. v = NoValue /\ ~v.printed
    BY <1>10, ValueFields DEF Fits
  <2>2. /\ x.words = <<>> /\ x.brackets = FALSE /\ x.mark = "#"
        /\ x.seg = None /\ x.base = None /\ x.index = None
        /\ x.ext = None /\ x.bang = FALSE
    BY <1>1, <1>10, <2>1 DEF AArch64Text, Blank
  <2>3. x.value = Number(op.num)
    BY <1>1, <1>4, <1>10, <2>1 DEF AArch64Text, Blank
  <2>4. ShownShift(x) = ShownShift(op)
    <3>1. CASE op.type = "imm"
      <4>1. x.shift = ShownShift(f) /\ ShownShift(f) = ShownShift(op)
        BY <1>1, <2>1, <3>1 DEF AArch64Text, Blank, ShownShift
      <4>. HIDE DEF x
      <4>. QED  BY <1>5, <4>1
    <3>2. CASE op.type = "fp"
      <4>1. x.shift = NoShift
        BY <1>1, <3>2 DEF AArch64Text, Blank
      <4>. HIDE DEF x
      <4>. QED  BY <1>6, <1>7, <3>2, <4>1
    <3>. QED  BY <1>10, <3>1, <3>2
  <2>. HIDE DEF x
  <2>5. x.value.printed /\ x.value.ref = NoRef /\ x.value.n = op.num
    BY <2>3, ValueFields
  <2>6. TypeRead(i, x) = "imm"
    BY <2>2, <2>5 DEF TypeRead
  <2>7. MarkFits(i, x, "imm")
    BY <2>2, <2>5 DEF MarkFits
  <2>8. ValueRead(i, x.value, op)
    BY <1>10, <2>5 DEF ValueRead
  <2>9. Reads(i, x, op)
    BY <1>3, <1>7, <1>10, <2>2, <2>4, <2>6, <2>7, <2>8 DEF Reads
  <2>. QED  BY <2>9 DEF x
<1>11. CASE op.type = "mem"
  <2>1. /\ x.words = <<>> /\ x.brackets = TRUE /\ x.mark = ""
        /\ x.value = IF op.num = 0 THEN NoValue ELSE NumberOr(f, v)
        /\ x.seg = None /\ x.base = op.base /\ x.index = op.index /\ x.scale = 0
        /\ x.shift = ShownShift(f) /\ x.ext = None /\ x.bang = WrittenBack(i, k)
    BY <1>1, <1>11 DEF AArch64Text, Blank
  <2>2. ShownShift(f) = ShownShift(op)
    BY <1>1 DEF ShownShift
  <2>3. x.bang = op.pre
    <3>1. WrittenBack(i, k) <=> op.pre
      BY <1>11, BangMeans
    <3>2. op.pre \in BOOLEAN
      BY <1>2 DEF OperandOf
    <3>3. WrittenBack(i, k) \in BOOLEAN
      BY DEF WrittenBack
    <3>. QED  BY <2>1, <3>1, <3>2, <3>3
  <2>4. ValueRead(i, x.value, op)
    <3>1. CASE op.num = 0
      <4>1. op.expr = NoExpr
        BY <1>4, <1>11, <3>1
      <4>2. x.value = NoValue
        BY <2>1, <3>1
      <4>. HIDE DEF x
      <4>. QED  BY <3>1, <4>1, <4>2, ValueFields DEF ValueRead
    <3>2. CASE op.num # 0
      <4>1. x.value = NumberOr(f, v)
        BY <2>1, <3>2
      <4>. HIDE DEF x
      <4>2. ValueRead(i, NumberOr(f, v), op)
        BY <1>1, NumberFits
      <4>. QED  BY <4>1, <4>2
    <3>. QED  BY <3>1, <3>2
  <2>. HIDE DEF x
  <2>5. TypeRead(i, x) = "mem"
    BY <2>1 DEF TypeRead
  <2>6. MarkFits(i, x, "mem")
    BY <2>1 DEF MarkFits
  <2>7. ShownShift(x) = ShownShift(op)
    BY <1>5, <2>1, <2>2
  <2>8. Registers(x) # {}
    BY <1>7, <1>11, <2>1 DEF Registers
  <2>9. x.seg = op.seg /\ x.base = op.base /\ x.index = op.index /\ x.ext = op.ext
        /\ op.scale = IF x.scale = 0 THEN 1 ELSE x.scale
    BY <1>3, <1>4, <1>11, <2>1
  <2>10. Reads(i, x, op)
    BY <1>11, <2>1, <2>3, <2>4, <2>5, <2>6, <2>7, <2>8, <2>9 DEF Reads
  <2>. QED  BY <2>10 DEF x
<1>12. CASE op.type \in {"raw", "barrier", "prefetch"}
  <2>1. x = [Blank EXCEPT !.words = op.words]
    BY <1>1, <1>12 DEF AArch64Text
  <2>2. op.words # <<>>
    <3>1. op.type = "barrier" => op.words \in Barriers
      BY <1>1 DEF Printable
    <3>2. op.type = "prefetch" => op.words \in Prefetches
      BY <1>1 DEF Printable
    <3>3. <<>> \notin Barriers
      BY DEF Barriers
    <3>4. <<>> \notin Prefetches
      BY DEF Prefetches
    <3>. QED  BY <1>7, <1>12, <3>1, <3>2, <3>3, <3>4
  <2>3. /\ x.words = op.words /\ x.brackets = FALSE /\ x.mark = "" /\ x.value = NoValue
        /\ x.seg = None /\ x.base = None /\ x.index = None /\ x.shift = NoShift
        /\ x.ext = None /\ x.bang = FALSE
    BY <2>1 DEF Blank
  <2>. HIDE DEF x
  <2>4. TypeRead(i, x) = "words"
    BY <2>2, <2>3 DEF TypeRead
  <2>5. MarkFits(i, x, "words")
    BY <2>3 DEF MarkFits
  <2>6. ShownShift(x) = ShownShift(op)
    BY <1>6, <1>7, <1>12, <2>3
  <2>7. Reads(i, x, op)
    BY <1>3, <1>7, <1>12, <2>3, <2>4, <2>5, <2>6 DEF Reads
  <2>. QED  BY <2>7 DEF x
<1>. QED  BY <1>3, <1>7, <1>8, <1>9, <1>10, <1>11, <1>12
-------------------------------------------------------------------------------

(* The order of the natural numbers, as a relation.                         *)
Below == OpToRel(<, Nat)

(* A set of natural numbers has a least element.                            *)
LEMMA LeastNumber ==
  ASSUME NEW T \in SUBSET Nat, T # {}
  PROVE  \E x \in T : \A y \in T : x <= y
<1>1. \A x, y \in Nat : <<x, y>> \in Below <=> x < y
  BY DEF Below, OpToRel
<1>2. IsWellFoundedOn(Below, Nat)
  BY NatLessThanWellFounded DEF Below
<1>3. PICK x \in T : \A y \in T : ~(<<y, x>> \in Below)
  BY <1>2, WFMin
<1>4. \A y \in T : ~(y < x)
  BY <1>1, <1>3
<1> QED
  BY <1>4

(* What contains 0, and with n also n + 1 up to N, contains all up to N.    *)
LEMMA InductionUpTo ==
  ASSUME NEW N \in Nat, NEW S \in SUBSET (0 .. N), 0 \in S,
         \A n \in S : n < N => n + 1 \in S
  PROVE  S = 0 .. N
<1> SUFFICES ASSUME (0 .. N) \ S # {}
             PROVE  FALSE
  OBVIOUS
<1> DEFINE R == (0 .. N) \ S
<1>1. PICK x \in R : \A y \in R : x <= y
  <2>1. R \in SUBSET Nat /\ R # {}
    OBVIOUS
  <2> QED
    BY <2>1, LeastNumber
<1>2. x \in 1 .. N /\ x - 1 \in 0 .. N
  BY <1>1
<1>3. x - 1 \in S
  BY <1>1, <1>2
<1> QED
  BY <1>1, <1>2, <1>3


(* h joins the sequences of ss, one after the other.                        *)
Joins(h, ss) ==
  h = [n \in 1..Len(ss) |-> IF n = 1 THEN ss[n] ELSE h[n - 1] \o ss[n]]

(* Such a function is defined by recursion, so there is one.                *)
LEMMA JoinsExists ==
  ASSUME NEW S, NEW ss \in Seq(Seq(S))
  PROVE  \E h : Joins(h, ss)
<1>. DEFINE N == Len(ss)
            Rec(h, m) == h = [n \in 1..m |-> IF n = 1 THEN ss[n] ELSE h[n - 1] \o ss[n]]
            T == {m \in 0..N : \E h : Rec(h, m)}
<1>1. N \in Nat
  OBVIOUS
<1>2. 0 \in T
  <2>1. Rec([n \in 1..0 |-> 0], 0)
    OBVIOUS
  <2>. HIDE DEF Rec
  <2>. QED  BY <1>1, <2>1
<1>3. ASSUME NEW m \in T, m < N PROVE m + 1 \in T
  <2>1. PICK h : Rec(h, m)
    BY <1>3
  <2>. DEFINE g == [n \in 1..(m + 1) |-> IF n = 1 THEN ss[n]
                                          ELSE h[n - 1] \o ss[n]]
  <2>2. m \in Nat /\ m + 1 \in 0..N
    BY <1>1, <1>3
  <2>3. ASSUME NEW n \in 1..m PROVE g[n] = h[n]
    <3>1. n \in 1..(m + 1)
      BY <2>2
    <3>2. h[n] = IF n = 1 THEN ss[n] ELSE h[n - 1] \o ss[n]
      BY <2>1
    <3>. QED  BY <3>1, <3>2
  <2>4. ASSUME NEW n \in 1..(m + 1)
        PROVE  g[n] = IF n = 1 THEN ss[n] ELSE g[n - 1] \o ss[n]
    <3>1. CASE n = 1
      BY <3>1
    <3>2. CASE n # 1
      <4>1. n - 1 \in 1..m
        BY <2>2, <3>2
      <4>. QED  BY <2>3, <3>2, <4>1
    <3>. QED  BY <3>1, <3>2
  <2>5. Rec(g, m + 1)
    BY <2>4
  <2>. HIDE DEF Rec, g
  <2>. QED  BY <2>2, <2>5
<1>4. T = 0..N
  <2>. HIDE DEF T
  <2>1. T \in SUBSET (0..N)
    BY DEF T
  <2>. QED  BY <1>1, <1>2, <1>3, <2>1, InductionUpTo
<1>5. N \in T
  <2>. HIDE DEF T
  <2>. QED  BY <1>1, <1>4
<1>. QED  BY <1>5 DEF Joins

(* Where the elements of two sequences are in their concatenation.          *)
LEMMA ConcatAt ==
  ASSUME NEW S, NEW s \in Seq(S), NEW t \in Seq(S)
  PROVE  /\ s \o t \in Seq(S) /\ Len(s \o t) = Len(s) + Len(t)
         /\ \A q \in 1..Len(s) : (s \o t)[q] = s[q]
         /\ \A q \in 1..Len(t) : (s \o t)[Len(s) + q] = t[q]
  OBVIOUS

(* With each sequence behind those in front of it, b[n] is where the n-th   *)
(* one ends.                                                                *)
Ends(b, ss) ==
  /\ b \in [0..Len(ss) -> Nat]
  /\ b[0] = 0 /\ \A n \in 1..Len(ss) : b[n] = b[n - 1] + Len(ss[n])

(* x is the sequences of ss, one behind the other.                          *)
IsFlat(x, b, ss) ==
  /\ Ends(b, ss) /\ Len(x) = b[Len(ss)]
  /\ \A j \in 1..Len(ss) : \A p \in 1..Len(ss[j]) : x[b[j - 1] + p] = ss[j][p]

(* FlattenSeq is that.                                                      *)
LEMMA Flattened ==
  ASSUME NEW S, NEW ss \in Seq(Seq(S)), ss # <<>>
  PROVE  FlattenSeq(ss) \in Seq(S) /\ \E b : IsFlat(FlattenSeq(ss), b, ss)
<1>. DEFINE N == Len(ss)
            h == CHOOSE g : Joins(g, ss)
            b == [n \in 0..N |-> IF n = 0 THEN 0 ELSE Len(h[n])]
<1>1. N \in Nat /\ N >= 1 /\ \A n \in 1..N : ss[n] \in Seq(S) /\ Len(ss[n]) \in Nat
  OBVIOUS
<1>2. Joins(h, ss)
  BY JoinsExists
<1>3. FlattenSeq(ss) = h[N]
  BY <1>1 DEF FlattenSeq, Joins
<1>. HIDE DEF h
<1>4. /\ h[1] = ss[1]
      /\ \A n \in 2..N : h[n] = h[n - 1] \o ss[n]
  <2>1. \A n \in 1..N : h[n] = IF n = 1 THEN ss[n] ELSE h[n - 1] \o ss[n]
    BY <1>2 DEF Joins
  <2>2. 1 \in 1..N /\ \A n \in 2..N : n \in 1..N /\ n # 1
    BY <1>1
  <2>. QED  BY <2>1, <2>2
<1>. DEFINE T == {m \in 0..N : m > 0 => h[m] \in Seq(S)}
<1>5. 0 \in T
  BY <1>1
<1>6. ASSUME NEW m \in T, m < N PROVE m + 1 \in T
  <2>1. m + 1 \in 1..N
    BY <1>1, <1>6
  <2>2. CASE m = 0
    BY <1>1, <1>4, <2>1, <2>2
  <2>3. CASE m > 0
    <3>1. h[m] \in Seq(S) /\ ss[m + 1] \in Seq(S)
      BY <1>1, <2>1, <2>3
    <3>2. m + 1 \in 2..N /\ (m + 1) - 1 = m
      BY <2>1, <2>3
    <3>3. h[m + 1] = h[m] \o ss[m + 1]
      BY <1>4, <3>2
    <3>4. h[m] \o ss[m + 1] \in Seq(S)
      BY <3>1
    <3>5. h[m + 1] \in Seq(S)
      BY <3>3, <3>4
    <3>6. m + 1 \in 0..N
      BY <1>1, <2>1
    <3>. QED  BY <3>5, <3>6
  <2>. QED  BY <1>6, <2>2, <2>3
<1>7. T = 0..N
  <2>. HIDE DEF T
  <2>1. T \in SUBSET (0..N)
    BY DEF T
  <2>. QED  BY <1>1, <1>5, <1>6, <2>1, InductionUpTo
<1>8. \A n \in 1..N : h[n] \in Seq(S) /\ Len(h[n]) \in Nat
  <2>1. \A n \in 1..N : n \in T /\ n > 0
    <3>. HIDE DEF T
    <3>. QED  BY <1>1, <1>7
  <2>2. \A n \in 1..N : h[n] \in Seq(S)
    BY <2>1
  <2>. QED  BY <2>2
<1>9. b \in [0..N -> Nat] /\ b[0] = 0 /\ \A n \in 1..N : b[n] = Len(h[n])
  BY <1>1, <1>8
<1>. HIDE DEF b
<1>10. ASSUME NEW n \in 1..N PROVE b[n] = b[n - 1] + Len(ss[n])
  <2>1. CASE n = 1
    <3>1. b[1] = Len(ss[1]) /\ b[1 - 1] = 0
      BY <1>1, <1>4, <1>9
    <3>. QED  BY <1>1, <2>1, <3>1
  <2>2. CASE n # 1
    <3>1. n \in 2..N /\ n - 1 \in 1..N
      BY <1>1, <2>2
    <3>2. h[n] = h[n - 1] \o ss[n] /\ h[n - 1] \in Seq(S) /\ ss[n] \in Seq(S)
      BY <1>1, <1>4, <1>8, <3>1
    <3>3. Len(h[n]) = Len(h[n - 1]) + Len(ss[n])
      BY <3>2
    <3>. QED  BY <1>9, <3>1, <3>3
  <2>. QED  BY <2>1, <2>2
<1>11. Ends(b, ss)
  BY <1>9, <1>10 DEF Ends
<1>. DEFINE Holds(m) == \A j \in 1..m : /\ b[j] <= b[m]
                                        /\ \A p \in 1..Len(ss[j]) : h[m][b[j - 1] + p] = ss[j][p]
            U == {m \in 0..N : Holds(m)}
<1>12. 0 \in U
  BY <1>1
<1>13. ASSUME NEW m \in U, m < N PROVE m + 1 \in U
  <2>1. m \in Nat /\ m + 1 \in 1..N /\ (m + 1) - 1 = m /\ Holds(m)
    BY <1>1, <1>13
  <2>2. b[m] \in Nat /\ b[m + 1] = b[m] + Len(ss[m + 1]) /\ Len(ss[m + 1]) \in Nat
    <3>1. b[m + 1] = b[(m + 1) - 1] + Len(ss[m + 1])
      BY <1>10, <2>1
    <3>2. m \in 0..N
      BY <1>1, <2>1
    <3>. QED  BY <1>1, <1>9, <2>1, <3>1, <3>2
  <2>3. ASSUME NEW j \in 1..(m + 1), NEW p \in 1..Len(ss[j])
        PROVE  h[m + 1][b[j - 1] + p] = ss[j][p]
    <3>1. CASE m = 0
      <4>1. j = 1 /\ j - 1 = 0 /\ m + 1 = 1
        BY <2>1, <3>1
      <4>2. p \in Nat
        BY <1>1, <4>1
      <4>3. b[j - 1] + p = p
        BY <1>9, <4>1, <4>2
      <4>. QED  BY <1>4, <4>1, <4>3
    <3>2. CASE m > 0
      <4>1. m + 1 \in 2..N /\ m \in 1..N
        BY <2>1, <3>2
      <4>2. h[m + 1] = h[m] \o ss[m + 1] /\ h[m] \in Seq(S) /\ ss[m + 1] \in Seq(S)
            /\ Len(h[m]) = b[m]
        BY <1>1, <1>4, <1>8, <1>9, <2>1, <4>1
      <4>3. CASE j = m + 1
        <5>1. b[j - 1] = b[m] /\ p \in 1..Len(ss[m + 1])
          BY <2>1, <4>3
        <5>2. (h[m] \o ss[m + 1])[b[m] + p] = ss[m + 1][p]
          <6>. DEFINE y == h[m]
                      z == ss[m + 1]
          <6>1. y \in Seq(S) /\ z \in Seq(S) /\ Len(y) = b[m] /\ p \in 1..Len(z)
            BY <4>2, <5>1
          <6>. HIDE DEF y, z
          <6>2. \A q \in 1..Len(z) : (y \o z)[Len(y) + q] = z[q]
            <7>1. y \in Seq(S) /\ z \in Seq(S)
              BY <6>1
            <7>. QED  BY <7>1, ConcatAt
          <6>3. (y \o z)[Len(y) + p] = z[p]
            BY <6>1, <6>2
          <6>. QED  BY <6>1, <6>3 DEF y, z
        <5>. QED  BY <4>2, <4>3, <5>1, <5>2
      <4>4. CASE j # m + 1
        <5>1. j \in 1..m /\ j \in 1..N /\ j - 1 \in 0..N
          BY <1>1, <2>1, <4>4
        <5>2. b[j] = b[j - 1] + Len(ss[j]) /\ b[j - 1] \in Nat /\ Len(ss[j]) \in Nat
          BY <1>1, <1>9, <1>10, <5>1
        <5>3. b[j] <= b[m] /\ h[m][b[j - 1] + p] = ss[j][p]
          BY <2>1, <5>1
        <5>4. b[j - 1] + p \in 1..b[m]
          <6>1. p \in Nat /\ 1 <= p /\ p <= Len(ss[j])
            BY <5>2
          <6>. DEFINE u == b[j - 1]
                      l == Len(ss[j])
          <6>2. u \in Nat /\ l \in Nat /\ b[m] \in Nat /\ u + l <= b[m] /\ p <= l
            BY <2>2, <5>2, <5>3, <6>1
          <6>. HIDE DEF u, l
          <6>3. u + p \in 1..b[m]
            BY <6>1, <6>2
          <6>. QED  BY <6>3 DEF u
        <5>5. (h[m] \o ss[m + 1])[b[j - 1] + p] = h[m][b[j - 1] + p]
          <6>. DEFINE y == h[m]
                      z == ss[m + 1]
                      q == b[j - 1] + p
          <6>1. y \in Seq(S) /\ z \in Seq(S) /\ q \in 1..Len(y)
            BY <4>2, <5>4
          <6>. HIDE DEF y, z, q
          <6>2. \A x \in 1..Len(y) : (y \o z)[x] = y[x]
            BY <6>1, ConcatAt
          <6>3. (y \o z)[q] = y[q]
            BY <6>1, <6>2
          <6>. QED  BY <6>3 DEF y, z, q
        <5>. QED  BY <4>2, <5>3, <5>5
      <4>. QED  BY <4>3, <4>4
    <3>. QED  BY <2>1, <3>1, <3>2
  <2>4. ASSUME NEW j \in 1..(m + 1) PROVE b[j] <= b[m + 1]
    <3>1. CASE j = m + 1
      BY <2>2, <3>1
    <3>2. CASE j # m + 1
      <4>1. j \in 1..m /\ j \in 0..N
        BY <1>1, <2>1, <3>2
      <4>2. b[j] <= b[m] /\ b[j] \in Nat
        BY <1>9, <2>1, <4>1
      <4>. QED  BY <2>2, <4>2
    <3>. QED  BY <3>1, <3>2
  <2>5. Holds(m + 1)
    BY <2>3, <2>4
  <2>. HIDE DEF Holds
  <2>. QED  BY <2>1, <2>5
<1>14. U = 0..N
  <2>. HIDE DEF U
  <2>1. U \in SUBSET (0..N)
    BY DEF U
  <2>. QED  BY <1>1, <1>12, <1>13, <2>1, InductionUpTo
<1>15. Holds(N)
  <2>1. N \in U
    <3>. HIDE DEF U
    <3>. QED  BY <1>1, <1>14
  <2>. HIDE DEF Holds
  <2>. QED  BY <2>1
<1>16. \A j \in 1..N : \A p \in 1..Len(ss[j]) : h[N][b[j - 1] + p] = ss[j][p]
  BY <1>15
<1>17. h[N] \in Seq(S) /\ Len(h[N]) = b[N]
  BY <1>1, <1>8, <1>9
<1>. HIDE DEF Holds, U, T
<1>18. IsFlat(h[N], b, ss)
  BY <1>11, <1>16, <1>17 DEF IsFlat
<1>. QED  BY <1>3, <1>17, <1>18

(* The number of places in front of the n-th of a row of them, counted from *)
(* the 0-th, is n.                                                          *)
LEMMA InFront ==
  ASSUME NEW N \in Nat, NEW e \in [0..N -> Nat], \A n \in 1..N : e[n - 1] < e[n], NEW D,
         D = {e[n] : n \in 0..N}
  PROVE  \A n \in 0..N : Cardinality({d \in D : d < e[n]}) = n
<1>. DEFINE Less(n) == {d \in D : d < e[n]}
            T == {n \in 0..N : /\ IsFiniteSet(Less(n)) /\ Cardinality(Less(n)) = n
                              /\ \A j \in 0..N : (j < n => e[j] < e[n]) /\ (j >= n => e[j] >= e[n])}
            M == {n \in 0..N : \A j \in 0..n : e[j] <= e[n]}
<1>1. M = 0..N
  <2>1. 0 \in M
    OBVIOUS
  <2>2. ASSUME NEW n \in M, n < N PROVE n + 1 \in M
    <3>1. n + 1 \in 1..N /\ (n + 1) - 1 = n /\ n \in 0..N
      BY <2>2
    <3>2. e[n] < e[n + 1]
      BY <3>1
    <3>3. ASSUME NEW j \in 0..(n + 1) PROVE e[j] <= e[n + 1]
      <4>1. CASE j = n + 1
        BY <3>1, <4>1
      <4>2. CASE j # n + 1
        <5>1. j \in 0..n /\ j \in 0..N
          BY <3>1, <4>2
        <5>2. e[j] <= e[n]
          BY <2>2, <5>1
        <5>. QED  BY <3>1, <3>2, <5>1, <5>2
      <4>. QED  BY <4>1, <4>2
    <3>. QED  BY <3>1, <3>3
  <2>3. M \in SUBSET (0..N)
    OBVIOUS
  <2>. HIDE DEF M
  <2>. QED  BY <2>1, <2>2, <2>3, InductionUpTo
<1>2. \A n \in 0..N : \A j \in 0..n : e[j] <= e[n]
  BY <1>1
<1>3. ASSUME NEW n \in 0..N, NEW j \in 0..N, j < n PROVE e[j] < e[n]
  <2>1. n \in 1..N /\ j \in 0..(n - 1) /\ n - 1 \in 0..N
    BY <1>3
  <2>2. e[j] <= e[n - 1] /\ e[n - 1] < e[n]
    BY <1>2, <2>1
  <2>. QED  BY <2>1, <2>2
<1>. DEFINE U == {n \in 0..N : IsFiniteSet(Less(n)) /\ Cardinality(Less(n)) = n}
<1>4. 0 \in U
  <2>1. Less(0) = {}
    <3>. SUFFICES ASSUME NEW j \in 0..N, e[j] < e[0] PROVE FALSE
      OBVIOUS
    <3>1. e[0] <= e[j] /\ 0 \in 0..N
      BY <1>2
    <3>. QED  BY <3>1
  <2>. HIDE DEF Less
  <2>2. IsFiniteSet(Less(0)) /\ Cardinality(Less(0)) = 0
    BY <2>1, FS_EmptySet
  <2>. QED  BY <2>2
<1>5. ASSUME NEW n \in U, n < N PROVE n + 1 \in U
  <2>1. n \in 0..N /\ n + 1 \in 0..N
    BY <1>5
  <2>2. Less(n + 1) = Less(n) \cup {e[n]}
    <3>1. ASSUME NEW d \in Less(n + 1) PROVE d \in Less(n) \cup {e[n]}
      <4>1. PICK j \in 0..N : d = e[j]
        OBVIOUS
      <4>2. j <= n
        <5>. SUFFICES ASSUME ~(j <= n) PROVE FALSE
          OBVIOUS
        <5>1. n + 1 \in 0..j
          BY <2>1
        <5>2. e[n + 1] <= e[j]
          BY <1>2, <5>1
        <5>. QED  BY <2>1, <4>1, <5>2
      <4>3. CASE j = n
        BY <4>1, <4>3
      <4>4. CASE j # n
        <5>1. e[j] < e[n]
          BY <1>3, <2>1, <4>2, <4>4
        <5>. QED  BY <4>1, <5>1
      <4>. QED  BY <4>3, <4>4
    <3>2. e[n] < e[n + 1]
      BY <1>3, <2>1
    <3>3. ASSUME NEW d \in Less(n) PROVE d \in Less(n + 1)
      <4>1. d \in D /\ d < e[n] /\ d \in Nat
        OBVIOUS
      <4>. QED  BY <2>1, <3>2, <4>1
    <3>4. e[n] \in Less(n + 1)
      BY <2>1, <3>2
    <3>. HIDE DEF Less
    <3>. QED  BY <3>1, <3>3, <3>4
  <2>3. e[n] \notin Less(n)
    BY <2>1
  <2>4. IsFiniteSet(Less(n)) /\ Cardinality(Less(n)) = n
    BY <1>5
  <2>5. IsFiniteSet(Less(n + 1)) /\ Cardinality(Less(n + 1)) = n + 1
    <3>. HIDE DEF Less
    <3>. QED  BY <2>2, <2>3, <2>4, FS_AddElement
  <2>. HIDE DEF Less
  <2>. QED  BY <2>1, <2>5
<1>6. U = 0..N
  <2>. HIDE DEF U
  <2>1. U \in SUBSET (0..N)
    BY DEF U
  <2>. QED  BY <1>4, <1>5, <2>1, InductionUpTo
<1>. QED  BY <1>6

(* A part of a sequence, by the places of its elements.                     *)
LEMMA PartAt ==
  ASSUME NEW S, NEW s \in Seq(S), NEW w \in Seq(S), NEW c \in Nat,
         c + Len(w) <= Len(s), \A p \in 1..Len(w) : s[c + p] = w[p]
  PROVE  SubSeq(s, c + 1, c + Len(w)) = w
<1>. DEFINE L == Len(w)
            x == SubSeq(s, c + 1, c + L)
<1>1. L \in Nat /\ Len(s) \in Nat /\ c + L <= Len(s)
  OBVIOUS
<1>2. w = [p \in 1..L |-> w[p]]
  OBVIOUS
<1>3. \A p \in 1..L : s[(c + 1) + p - 1] = w[p]
  <2>1. \A p \in 1..L : (c + 1) + p - 1 = c + p
    BY <1>1
  <2>. QED  BY <2>1
<1>4. x = [p \in 1..((c + L) - (c + 1) + 1) |-> s[(c + 1) + p - 1]]
  BY <1>1
<1>5. (c + L) - (c + 1) + 1 = L
  BY <1>1
<1>. HIDE DEF L, x
<1>6. x = [p \in 1..L |-> s[(c + 1) + p - 1]]
  BY <1>4, <1>5
<1>7. x = w
  BY <1>2, <1>3, <1>6
<1>. QED  BY <1>7 DEF x, L

(* A place in an operand's part of op_str is one of its own, or one of the  *)
(* two in front of them.                                                    *)
LEMMA PlaceInPart ==
  ASSUME NEW B \in Nat, NEW A \in {0, 2}, NEW L \in Nat, NEW q \in (B + 1)..(B + A + L)
  PROVE  IF q > B + A THEN q - (B + A) \in 1..L /\ (B + A) + (q - (B + A)) = q
         ELSE A = 2 /\ (q = B + 1 \/ q = B + 2)
<1>1. CASE A = 0
  BY <1>1
<1>2. CASE A = 2
  BY <1>2
<1>. QED  BY <1>1, <1>2

(* Cutting at the commas that are not between brackets gives back what was  *)
(* written for each operand.                                                *)
LEMMA RawMeans ==
  ASSUME NEW t \in Tables, NEW i \in Insts(t), i.printer = "aarch64",
         NEW k \in 1..Len(i.means), i.means[k].type = "raw"
  PROVE  RawWords(i, k) = i.means[k].words
<1>. DEFINE m == i.means
            N == Len(m)
            W(j) == m[j].words
            ss == [j \in 1..N |-> IF j = 1 THEN W(j) ELSE <<Comma, Space>> \o W(j)]
            S == {Comma, Space} \cup UNION {ToSet(W(j)) : j \in 1..N}
            a(j) == IF j = 1 THEN 0 ELSE 2
<1>1. /\ N \in Nat /\ N >= 1 /\ DOMAIN m = 1..N /\ W(k) # <<>> /\ k \in 1..N
      /\ \A j \in 1..N : OneOperand(W(j))
  <2>1. /\ m \in Seq(ToSet(m)) /\ \A j \in DOMAIN m : OperandOf(i, m[j])
        /\ Encoded(i)
    BY InstsAssumption
  <2>2. N \in Nat /\ N >= 1 /\ DOMAIN m = 1..N
    BY <2>1
  <2>3. W(k) # <<>>
    BY <2>1, <2>2 DEF OperandOf
  <2>. QED  BY <2>1, <2>2, <2>3 DEF Encoded
<1>2. \A j \in 1..N : W(j) \in Seq(S) /\ Len(W(j)) \in Nat
  <2>. SUFFICES ASSUME NEW j \in 1..N PROVE W(j) \in Seq(S) /\ Len(W(j)) \in Nat
    OBVIOUS
  <2>1. W(j) \in Seq(ToSet(W(j)))
    BY <1>1 DEF OneOperand
  <2>2. ToSet(W(j)) \subseteq S
    OBVIOUS
  <2>. DEFINE w == W(j)
              A == ToSet(w)
  <2>3. w \in Seq(A) /\ A \subseteq S
    BY <2>1, <2>2
  <2>. HIDE DEF S, A, w
  <2>4. w \in Seq(S) /\ Len(w) \in Nat
    BY <2>3
  <2>. QED  BY <2>4 DEF w
<1>. HIDE DEF S, W, N, m
<1>3. \A j \in 1..N : /\ ss[j] \in Seq(S) /\ Len(ss[j]) = a(j) + Len(W(j))
                      /\ \A p \in 1..Len(W(j)) : ss[j][a(j) + p] = W(j)[p]
                      /\ j # 1 => ss[j][1] = Comma /\ ss[j][2] = Space
  <2>. SUFFICES ASSUME NEW j \in 1..N
                PROVE  /\ ss[j] \in Seq(S) /\ Len(ss[j]) = a(j) + Len(W(j))
                       /\ \A p \in 1..Len(W(j)) : ss[j][a(j) + p] = W(j)[p]
                       /\ j # 1 => ss[j][1] = Comma /\ ss[j][2] = Space
    OBVIOUS
  <2>1. CASE j = 1
    <3>1. ss[j] = W(j) /\ W(j) \in Seq(S) /\ a(j) = 0 /\ Len(W(j)) \in Nat
      BY <1>2, <2>1
    <3>. HIDE DEF ss
    <3>. QED  BY <2>1, <3>1
  <2>2. CASE j # 1
    <3>. DEFINE c == <<Comma, Space>>
                w == W(j)
    <3>1. ss[j] = c \o w /\ w \in Seq(S) /\ a(j) = 2
      BY <1>2, <2>2
    <3>2. c \in Seq(S) /\ Len(c) = 2 /\ c[1] = Comma /\ c[2] = Space
      <4>1. Comma \in S /\ Space \in S
        BY DEF S
      <4>. QED  BY <4>1
    <3>. HIDE DEF c, w, ss, a
    <3>3. /\ c \o w \in Seq(S) /\ Len(c \o w) = Len(c) + Len(w)
          /\ \A q \in 1..Len(c) : (c \o w)[q] = c[q]
          /\ \A q \in 1..Len(w) : (c \o w)[Len(c) + q] = w[q]
      <4>1. c \in Seq(S) /\ w \in Seq(S)
        BY <3>1, <3>2
      <4>. QED  BY <4>1, ConcatAt
    <3>4. 1 \in 1..Len(c) /\ 2 \in 1..Len(c)
      BY <3>2
    <3>5. (c \o w)[1] = Comma /\ (c \o w)[2] = Space
      BY <3>2, <3>3, <3>4
    <3>. QED  BY <3>1, <3>2, <3>3, <3>5 DEF w
  <2>. QED  BY <2>1, <2>2
<1>. DEFINE s == OpStr(i)
<1>4. s = FlattenSeq(ss)
  BY <1>1 DEF OpStr, W, m
<1>5. ss \in Seq(Seq(S)) /\ ss # <<>> /\ Len(ss) = N
  <2>1. ss \in [1..N -> Seq(S)]
    <3>1. \A j \in 1..N : ss[j] \in Seq(S)
      BY <1>3
    <3>. QED  BY <3>1
  <2>2. ss \in Seq(Seq(S)) /\ Len(ss) = N
    <3>. HIDE DEF ss
    <3>. QED  BY <1>1, <2>1
  <2>. HIDE DEF ss
  <2>. QED  BY <1>1, <2>2
<1>. HIDE DEF ss, s
<1>6. PICK b : /\ Ends(b, ss) /\ Len(s) = b[N]
               /\ \A j \in 1..N : \A p \in 1..Len(ss[j]) : s[b[j - 1] + p] = ss[j][p]
  <2>1. PICK b : IsFlat(s, b, ss)
    BY <1>4, <1>5, Flattened
  <2>2. Len(ss) = N
    BY <1>5
  <2>. QED  BY <2>1, <2>2 DEF IsFlat
<1>7. s \in Seq(S)
  BY <1>4, <1>5, Flattened
<1>. HIDE DEF a
<1>8. \A j \in 1..N : a(j) \in {0, 2} /\ a(j) \in Nat /\ (j = 1 <=> a(j) = 0)
  BY DEF a
<1>9. b \in [0..N -> Nat] /\ b[0] = 0 /\ \A j \in 1..N : b[j] = b[j - 1] + Len(ss[j])
  BY <1>5, <1>6 DEF Ends
<1>T. \A j \in 0..N : b[j] \in Nat
  BY <1>9
<1>N. N \in Nat /\ N >= 1
  BY <1>1
<1>I. \A j \in 1..N : j - 1 \in 0..N /\ j \in 0..N
  BY <1>1
<1>S. ASSUME NEW j \in 1..N
      PROVE  /\ j - 1 \in 0..N /\ j \in 0..N /\ b[j - 1] \in Nat /\ b[j] \in Nat
             /\ a(j) \in {0, 2} /\ a(j) \in Nat /\ Len(W(j)) \in Nat
             /\ b[j] = b[j - 1] + a(j) + Len(W(j))
  <2>1. j - 1 \in 0..N /\ j \in 0..N
    BY <1>I
  <2>2. b[j - 1] \in Nat /\ b[j] \in Nat
    BY <1>T, <2>1
  <2>3. a(j) \in {0, 2} /\ a(j) \in Nat /\ Len(W(j)) \in Nat
    BY <1>2, <1>8
  <2>4. Len(ss[j]) = a(j) + Len(W(j)) /\ b[j] = b[j - 1] + Len(ss[j])
    BY <1>3, <1>9
  <2>. HIDE DEF N
  <2>. QED  BY <2>1, <2>2, <2>3, <2>4
<1>10. \A j \in 1..N : /\ \A p \in 1..Len(W(j)) : s[b[j - 1] + a(j) + p] = W(j)[p]
                       /\ j # 1 => s[b[j - 1] + 1] = Comma /\ s[b[j - 1] + 2] = Space
  <2>. SUFFICES ASSUME NEW j \in 1..N
                PROVE  /\ \A p \in 1..Len(W(j)) : s[b[j - 1] + a(j) + p] = W(j)[p]
                       /\ j # 1 => s[b[j - 1] + 1] = Comma /\ s[b[j - 1] + 2] = Space
    OBVIOUS
  <2>1. b[j - 1] \in Nat /\ a(j) \in Nat /\ Len(W(j)) \in Nat
    BY <1>S
  <2>2. Len(ss[j]) = a(j) + Len(W(j))
    BY <1>3
  <2>3. ASSUME NEW p \in 1..Len(W(j)) PROVE s[b[j - 1] + a(j) + p] = W(j)[p]
    <3>1. a(j) + p \in 1..Len(ss[j]) /\ b[j - 1] + a(j) + p = b[j - 1] + (a(j) + p)
      BY <2>1, <2>2
    <3>2. s[b[j - 1] + (a(j) + p)] = ss[j][a(j) + p]
      BY <1>6, <3>1
    <3>3. ss[j][a(j) + p] = W(j)[p]
      BY <1>3
    <3>. QED  BY <3>1, <3>2, <3>3
  <2>4. ASSUME j # 1 PROVE s[b[j - 1] + 1] = Comma /\ s[b[j - 1] + 2] = Space
    <3>1. 1 \in 1..Len(ss[j]) /\ 2 \in 1..Len(ss[j])
      BY <1>8, <2>1, <2>2, <2>4
    <3>2. s[b[j - 1] + 1] = ss[j][1] /\ s[b[j - 1] + 2] = ss[j][2]
      BY <1>6, <3>1
    <3>. QED  BY <1>3, <2>4, <3>2
  <2>. QED  BY <2>3, <2>4
<1>11. \A j \in 0..N, l \in 0..N : j <= l => b[j] <= b[l]
  <2>. DEFINE M == {l \in 0..N : \A j \in 0..l : b[j] <= b[l]}
  <2>1. 0 \in M
    BY <1>1, <1>9
  <2>2. ASSUME NEW l \in M, l < N PROVE l + 1 \in M
    <3>1. l + 1 \in 1..N /\ (l + 1) - 1 = l /\ l \in 0..N
      BY <1>1, <2>2
    <3>2. b[l] <= b[l + 1] /\ b[l] \in Nat /\ b[l + 1] \in Nat
      <4>1. ASSUME NEW x \in 1..N PROVE b[x - 1] <= b[x] /\ b[x - 1] \in Nat /\ b[x] \in Nat
        BY <1>S
      <4>2. b[(l + 1) - 1] <= b[l + 1] /\ b[(l + 1) - 1] \in Nat /\ b[l + 1] \in Nat
        BY <3>1, <4>1
      <4>. QED  BY <3>1, <4>2
    <3>3. ASSUME NEW j \in 0..(l + 1) PROVE b[j] <= b[l + 1]
      <4>1. CASE j = l + 1
        BY <3>2, <4>1
      <4>2. CASE j # l + 1
        <5>1. j \in 0..l /\ j \in 0..N
          BY <1>N, <3>1, <4>2
        <5>2. b[j] <= b[l] /\ b[j] \in Nat
          BY <1>T, <2>2, <5>1
        <5>. QED  BY <3>2, <5>2
      <4>. QED  BY <4>1, <4>2
    <3>4. l + 1 \in 0..N
      BY <1>1, <3>1
    <3>. QED  BY <3>3, <3>4
  <2>3. M = 0..N
    <3>1. M \in SUBSET (0..N)
      OBVIOUS
    <3>. HIDE DEF M
    <3>. QED  BY <1>1, <2>1, <2>2, <3>1, InductionUpTo
  <2>. SUFFICES ASSUME NEW j \in 0..N, NEW l \in 0..N, j <= l PROVE b[j] <= b[l]
    OBVIOUS
  <2>4. l \in M
    <3>. HIDE DEF M
    <3>. QED  BY <2>3
  <2>5. j \in 0..l
    OBVIOUS
  <2>. QED  BY <2>4, <2>5
<1>12. ASSUME NEW q \in 1..b[N] PROVE \E j \in 1..N : q \in (b[j - 1] + 1)..b[j]
  <2>. DEFINE R == {j \in 0..N : q <= b[j]}
  <2>1. R \in SUBSET Nat /\ N \in R
    BY <1>1
  <2>2. PICK j \in R : \A l \in R : j <= l
    BY <2>1, LeastNumber
  <2>3. b[0] = 0 /\ j \in 0..N /\ q <= b[j] /\ q \in Nat /\ q >= 1 /\ b[j] \in Nat
    <3>1. j \in 0..N /\ q <= b[j] /\ q >= 1 /\ q \in Nat
      BY <2>2
    <3>. HIDE DEF R
    <3>2. b[0] = 0 /\ b[j] \in Nat
      BY <1>9, <1>T, <3>1
    <3>. QED  BY <3>1, <3>2
  <2>4. j \in 1..N /\ j - 1 \in 0..N
    <3>. HIDE DEF R
    <3>1. j # 0
      BY <2>3
    <3>2. j \in 1..N
      BY <1>1, <2>3, <3>1
    <3>. QED  BY <1>I, <3>2
  <2>5. ~(q <= b[j - 1])
    BY <2>2, <2>4
  <2>6. b[j - 1] \in Nat
    BY <1>T, <2>4
  <2>7. q \in (b[j - 1] + 1)..b[j]
    BY <2>3, <2>5, <2>6
  <2>. HIDE DEF R
  <2>. QED  BY <2>4, <2>7
\* no bracket is open behind an operand
<1>13. ASSUME NEW l \in 0..N PROVE ~InBlock(s, b[l] + 1)
  <2>. SUFFICES ASSUME InBlock(s, b[l] + 1) PROVE FALSE
    OBVIOUS
  <2>1. b[l] \in Nat /\ b[l] <= b[N] /\ b[N] \in Nat
    BY <1>1, <1>T, <1>11
  <2>2. PICK q \in 1..b[l] : s[q] = Open /\ \A r \in (q + 1)..b[l] : s[r] # Close
    <3>1. (b[l] + 1) - 1 = b[l]
      BY <2>1
    <3>. QED  BY <3>1 DEF InBlock
  <2>3. PICK j \in 1..N : q \in (b[j - 1] + 1)..b[j]
    <3>1. q \in 1..b[N]
      BY <2>1
    <3>. QED  BY <1>12, <3>1
  <2>4. j - 1 \in 0..N /\ j \in 0..N /\ b[j - 1] \in Nat /\ b[j] \in Nat
        /\ a(j) \in Nat /\ Len(W(j)) \in Nat /\ b[j] = b[j - 1] + a(j) + Len(W(j))
    BY <1>S
  <2>5. b[j] <= b[l]
    <3>1. CASE j <= l
      BY <1>11, <2>4, <3>1
    <3>2. CASE ~(j <= l)
      <4>1. l <= j - 1
        BY <1>1, <3>2
      <4>2. b[l] <= b[j - 1]
        BY <1>11, <2>4, <4>1
      <4>. QED  BY <2>1, <2>3, <2>4, <4>2
    <3>. QED  BY <3>1, <3>2
  <2>. DEFINE c == b[j - 1] + a(j)
              p == q - c
  <2>6. IF q > c THEN p \in 1..Len(W(j)) /\ c + p = q
        ELSE a(j) = 2 /\ (q = b[j - 1] + 1 \/ q = b[j - 1] + 2)
    <3>. DEFINE B == b[j - 1]
                L == Len(W(j))
    <3>1. B \in Nat /\ a(j) \in {0, 2} /\ L \in Nat /\ b[j] = B + a(j) + L
      BY <1>S
    <3>2. q \in (B + 1)..(B + a(j) + L)
      BY <2>3, <3>1
    <3>. HIDE DEF B, L
    <3>3. IF q > B + a(j) THEN q - (B + a(j)) \in 1..L /\ (B + a(j)) + (q - (B + a(j))) = q
          ELSE a(j) = 2 /\ (q = B + 1 \/ q = B + 2)
      BY <3>1, <3>2, PlaceInPart
    <3>. QED  BY <3>3 DEF B, L
  <2>7. p \in 1..Len(W(j)) /\ c + p = q /\ c \in Nat
    <3>1. c \in Nat
      <4>1. b[j - 1] \in Nat /\ a(j) \in Nat
        BY <2>4
      <4>. QED  BY <4>1
    <3>2. CASE ~(q > c)
      <4>1. j # 1 /\ (q = b[j - 1] + 1 \/ q = b[j - 1] + 2)
        BY <1>8, <2>6, <3>2
      <4>2. s[b[j - 1] + 1] = Comma /\ s[b[j - 1] + 2] = Space
        BY <1>10, <4>1
      <4>3. s[q] = Comma \/ s[q] = Space
        BY <4>1, <4>2
      <4>4. Open # Comma /\ Open # Space
        BY DEF Open, Comma, Space
      <4>. QED  BY <2>2, <4>3, <4>4
    <3>. HIDE DEF c
    <3>. QED  BY <2>6, <3>1, <3>2
  <2>8. W(j)[p] = Open
    <3>1. s[c + p] = W(j)[p]
      <4>. HIDE DEF p
      <4>. QED  BY <1>10, <2>7
    <3>. QED  BY <2>2, <2>7, <3>1
  <2>. HIDE DEF p
  <2>9. PICK r \in (p + 1)..Len(W(j)) : W(j)[r] = Close
    <3>. DEFINE L == Len(W(j))
    <3>1. ~InBlock(W(j), L + 1) /\ L \in Nat
      BY <1>1, <1>2 DEF OneOperand
    <3>2. (L + 1) - 1 = L
      BY <3>1
    <3>. HIDE DEF L
    <3>3. ~(\A r \in (p + 1)..L : W(j)[r] # Close)
      <4>1. p \in 1..L
        BY <2>7 DEF L
      <4>. QED  BY <2>8, <3>1, <3>2, <4>1 DEF InBlock
    <3>. QED  BY <3>3 DEF L
  <2>10. r \in 1..Len(W(j))
    BY <2>4, <2>7, <2>9
  <2>11. s[c + r] = Close
    BY <1>10, <2>9, <2>10
  <2>12. c + r \in (q + 1)..b[l]
    <3>. DEFINE L == Len(W(j))
    <3>1. L \in Nat /\ b[j] = c + L /\ b[j] \in Nat /\ b[l] \in Nat /\ b[j] <= b[l]
      BY <2>1, <2>4, <2>5
    <3>2. c \in Nat /\ c + p = q /\ p \in 1..L /\ r \in (p + 1)..L
      BY <2>7, <2>9
    <3>. HIDE DEF c, L
    <3>3. c + r \in Nat /\ c + r >= q + 1 /\ c + r <= b[l]
      BY <3>1, <3>2
    <3>4. q \in Nat
      BY <3>2
    <3>. QED  BY <3>1, <3>3, <3>4
  <2>. HIDE DEF c
  <2>. QED  BY <2>2, <2>11, <2>12
\* a comma between the brackets of one operand is between brackets
<1>14. ASSUME NEW j \in 1..N, NEW p \in 1..Len(W(j)), W(j)[p] = Comma
       PROVE  InBlock(s, b[j - 1] + a(j) + p)
  <2>. DEFINE c == b[j - 1] + a(j)
  <2>1. c \in Nat /\ Len(W(j)) \in Nat
    BY <1>S
  <2>2. InBlock(W(j), p)
    <3>1. p \in DOMAIN W(j)
      BY <1>2
    <3>. QED  BY <1>1, <1>14, <3>1 DEF OneOperand
  <2>3. PICK q \in 1..(p - 1) : W(j)[q] = Open /\ \A r \in (q + 1)..(p - 1) : W(j)[r] # Close
    BY <2>2 DEF InBlock
  <2>4. \A x \in 1..Len(W(j)) : s[c + x] = W(j)[x]
    BY <1>10
  <2>. HIDE DEF c
  <2>5. c + q \in 1..((c + p) - 1) /\ s[c + q] = Open
    <3>1. q \in 1..Len(W(j))
      BY <2>1
    <3>. QED  BY <2>1, <2>3, <2>4, <3>1
  <2>6. ASSUME NEW r \in ((c + q) + 1)..((c + p) - 1) PROVE s[r] # Close
    <3>1. r - c \in (q + 1)..(p - 1) /\ r - c \in 1..Len(W(j)) /\ c + (r - c) = r
      BY <2>1
    <3>2. s[c + (r - c)] = W(j)[r - c]
      BY <2>4, <3>1
    <3>. QED  BY <2>3, <3>1, <3>2
  <2>7. InBlock(s, c + p)
    BY <2>5, <2>6 DEF InBlock
  <2>. QED  BY <2>7 DEF c
<1>. DEFINE e == [n \in 0..N |-> IF n = 0 THEN 0 ELSE b[n] + 1]
            cuts == {0, Len(s) + 1} \cup {p \in DOMAIN s : s[p] = Comma /\ ~InBlock(s, p)}
            cut(n) == CHOOSE c \in cuts : Cardinality({d \in cuts : d < c}) = n
<1>15. /\ e \in [0..N -> Nat] /\ e[0] = 0 /\ \A n \in 1..N : e[n] = b[n] + 1
  BY <1>N, <1>T
<1>16. \A n \in 1..N : /\ e[n - 1] < e[n]
                       /\ n # 1 => /\ e[n - 1] = b[n - 1] + 1 /\ b[n - 1] + 2 <= b[n]
                                   /\ b[n] = b[n - 1] + 2 + Len(W(n))
  <2>. SUFFICES ASSUME NEW n \in 1..N
                PROVE  /\ e[n - 1] < e[n]
                       /\ n # 1 => /\ e[n - 1] = b[n - 1] + 1 /\ b[n - 1] + 2 <= b[n]
                                   /\ b[n] = b[n - 1] + 2 + Len(W(n))
    OBVIOUS
  <2>1. n \in 0..N /\ b[n] \in Nat /\ b[n - 1] \in Nat /\ Len(W(n)) \in Nat /\ e[n] = b[n] + 1
    BY <1>S, <1>15
  <2>. HIDE DEF e
  <2>2. CASE n = 1
    BY <1>15, <2>1, <2>2
  <2>3. CASE n # 1
    <3>1. n - 1 \in 1..N /\ a(n) = 2
      BY <1>1, <1>8, <2>3
    <3>2. e[n - 1] = b[n - 1] + 1
      BY <1>15, <3>1
    <3>3. b[n] = b[n - 1] + 2 + Len(W(n))
      BY <1>S, <3>1
    <3>. QED  BY <2>1, <3>2, <3>3
  <2>. QED  BY <2>2, <2>3
<1>17. cuts = {e[n] : n \in 0..N}
  <2>1. DOMAIN s = 1..b[N] /\ Len(s) + 1 = e[N] /\ 0 = e[0] /\ 0 \in 0..N /\ N \in 0..N
    BY <1>1, <1>6, <1>7, <1>15
  <2>. HIDE DEF e
  <2>2. ASSUME NEW p \in DOMAIN s, s[p] = Comma, ~InBlock(s, p)
        PROVE  \E n \in 0..N : p = e[n]
    <3>1. PICK j \in 1..N : p \in (b[j - 1] + 1)..b[j]
      BY <1>12, <2>1
    <3>2. b[j - 1] \in Nat /\ b[j] \in Nat /\ Len(W(j)) \in Nat
          /\ b[j] = b[j - 1] + a(j) + Len(W(j)) /\ a(j) \in {0, 2}
      BY <1>S
    <3>. DEFINE B == b[j - 1]
                L == Len(W(j))
                c == B + a(j)
                x == p - c
    <3>3. IF p > c THEN x \in 1..L /\ c + x = p
          ELSE a(j) = 2 /\ (p = B + 1 \/ p = B + 2)
      <4>1. p \in (B + 1)..(B + a(j) + L)
        BY <3>1, <3>2
      <4>. HIDE DEF B, L
      <4>2. B \in Nat /\ L \in Nat /\ a(j) \in {0, 2}
        BY <3>2 DEF B, L
      <4>. QED  BY <4>1, <4>2, PlaceInPart
    <3>4. ~(p > c)
      <4>. SUFFICES ASSUME p > c PROVE FALSE
        OBVIOUS
      <4>1. x \in 1..L /\ c + x = p
        BY <3>3
      <4>2. s[c + x] = W(j)[x]
        <5>. HIDE DEF x
        <5>. QED  BY <1>10, <4>1
      <4>. HIDE DEF x, c
      <4>3. W(j)[x] = Comma
        BY <2>2, <4>1, <4>2
      <4>4. InBlock(s, c + x)
        BY <1>14, <4>1, <4>3 DEF c
      <4>. QED  BY <2>2, <4>1, <4>4
    <3>5. j # 1 /\ p = b[j - 1] + 1
      <4>1. a(j) = 2 /\ (p = b[j - 1] + 1 \/ p = b[j - 1] + 2)
        BY <3>3, <3>4
      <4>2. j # 1
        BY <1>8, <4>1
      <4>3. s[b[j - 1] + 2] = Space
        BY <1>10, <4>2
      <4>4. Comma # Space
        BY DEF Comma, Space
      <4>. QED  BY <2>2, <4>1, <4>2, <4>3, <4>4
    <3>6. p = e[j - 1] /\ j - 1 \in 0..N
      BY <1>I, <1>16, <3>5
    <3>. QED  BY <3>6
  <2>3. ASSUME NEW n \in 0..N, n # 0, n # N PROVE e[n] \in cuts
    <3>1. n + 1 \in 1..N /\ n + 1 # 1 /\ (n + 1) - 1 = n /\ n \in 1..N
      BY <1>1, <2>3
    <3>2. e[n] = b[n] + 1 /\ b[n] + 2 <= b[n + 1] /\ s[b[n] + 1] = Comma
      <4>1. e[(n + 1) - 1] = b[(n + 1) - 1] + 1 /\ b[(n + 1) - 1] + 2 <= b[n + 1]
        BY <1>16, <3>1
      <4>2. s[b[(n + 1) - 1] + 1] = Comma
        BY <1>10, <3>1
      <4>. QED  BY <3>1, <4>1, <4>2
    <3>3. b[n] + 1 \in 1..b[N]
      <4>1. b[n + 1] <= b[N] /\ b[n] \in Nat /\ b[n + 1] \in Nat /\ b[N] \in Nat
        BY <1>1, <1>T, <1>11, <3>1
      <4>. QED  BY <3>2, <4>1
    <3>4. ~InBlock(s, b[n] + 1)
      BY <1>13
    <3>. QED  BY <2>1, <3>2, <3>3, <3>4
  <2>4. ASSUME NEW n \in 0..N PROVE e[n] \in cuts
    <3>1. e[0] \in cuts /\ e[N] \in cuts
      BY <2>1
    <3>. HIDE DEF cuts
    <3>. QED  BY <2>3, <3>1
  <2>5. ASSUME NEW x \in cuts PROVE \E n \in 0..N : x = e[n]
    <3>1. CASE x = 0 \/ x = Len(s) + 1
      BY <2>1, <3>1
    <3>2. CASE x \in DOMAIN s /\ s[x] = Comma /\ ~InBlock(s, x)
      BY <2>2, <3>2
    <3>. QED  BY <3>1, <3>2
  <2>. HIDE DEF cuts
  <2>. QED  BY <2>4, <2>5
<1>. HIDE DEF e, cuts
<1>18. \A n \in 0..N : cut(n) = e[n]
  <2>1. \A n \in 0..N : Cardinality({d \in cuts : d < e[n]}) = n
    BY <1>1, <1>15, <1>16, <1>17, InFront
  <2>. SUFFICES ASSUME NEW n \in 0..N PROVE cut(n) = e[n]
    OBVIOUS
  <2>2. e[n] \in cuts /\ Cardinality({d \in cuts : d < e[n]}) = n
    BY <1>17, <2>1
  <2>3. ASSUME NEW x \in cuts, Cardinality({d \in cuts : d < x}) = n PROVE x = e[n]
    <3>1. PICK l \in 0..N : x = e[l]
      BY <1>17
    <3>2. l = n
      BY <2>1, <2>3, <3>1
    <3>. QED  BY <3>1, <3>2
  <2>. QED  BY <2>2, <2>3
<1>. DEFINE part == SubSeq(s, cut(k - 1) + 1, cut(k) - 1)
<1>19. RawWords(i, k) = IF part # <<>> /\ Head(part) = Space THEN Tail(part) ELSE part
  BY DEF RawWords, cuts, s
<1>20. cut(k - 1) = e[k - 1] /\ cut(k) = e[k]
  <2>1. k - 1 \in 0..N /\ k \in 0..N
    BY <1>1
  <2>. QED  BY <1>18, <2>1
<1>. HIDE DEF cut
<1>21. /\ e[k] = b[k] + 1 /\ b[k] \in Nat /\ b[k] <= Len(s) /\ b[k - 1] \in Nat
       /\ b[k] = b[k - 1] + a(k) + Len(W(k)) /\ Len(W(k)) \in Nat /\ W(k) \in Seq(S)
       /\ \A p \in 1..Len(W(k)) : s[b[k - 1] + a(k) + p] = W(k)[p]
  <2>1. k \in 0..N /\ k - 1 \in 0..N /\ N \in 0..N /\ k <= N
    BY <1>1
  <2>2. e[k] = b[k] + 1 /\ b[k] <= Len(s)
    <3>1. b[k] <= b[N] /\ Len(s) = b[N]
      BY <1>6, <1>11, <2>1
    <3>. QED  BY <1>1, <1>15, <3>1
  <2>3. k \in 1..N
    BY <1>1
  <2>. QED  BY <1>2, <1>S, <1>10, <2>2, <2>3
<1>. DEFINE w == W(k)
<1>22. CASE k = 1
  <2>1. cut(k - 1) = 0 /\ cut(k) = Len(w) + 1 /\ a(k) = 0 /\ b[k - 1] = 0 /\ b[k] = Len(w)
    <3>1. k - 1 = 0 /\ a(k) = 0
      BY <1>1, <1>8, <1>22
    <3>2. b[k - 1] = 0 /\ e[k - 1] = 0
      BY <1>9, <1>15, <3>1
    <3>3. b[k] = 0 + 0 + Len(w) /\ e[k] = b[k] + 1 /\ Len(w) \in Nat
      BY <1>21, <3>1, <3>2
    <3>. HIDE DEF w
    <3>. QED  BY <1>20, <3>1, <3>2, <3>3
  <2>2. /\ cut(k - 1) + 1 = 0 + 1 /\ cut(k) - 1 = 0 + Len(w) /\ 0 + Len(w) <= Len(s)
        /\ \A p \in 1..Len(w) : s[0 + p] = w[p]
    <3>. DEFINE L == Len(w)
    <3>1. L \in Nat /\ b[k] <= Len(s)
      BY <1>21
    <3>2. \A p \in 1..L : s[b[k - 1] + a(k) + p] = w[p]
      BY <1>21
    <3>3. b[k - 1] + a(k) = 0
      BY <2>1
    <3>. HIDE DEF L
    <3>4. \A p \in 1..L : s[0 + p] = w[p]
      BY <3>2, <3>3
    <3>5. cut(k - 1) = 0 /\ cut(k) = L + 1 /\ b[k] = L
      BY <2>1 DEF L
    <3>6. cut(k - 1) + 1 = 0 + 1 /\ cut(k) - 1 = 0 + L /\ 0 + L <= Len(s)
      BY <3>1, <3>5
    <3>. QED  BY <3>4, <3>6 DEF L
  <2>3. part = w
    <3>. HIDE DEF w
    <3>1. w \in Seq(S)
      BY <1>21 DEF w
    <3>. QED  BY <1>7, <2>2, <3>1, PartAt
  <2>4. w # <<>> /\ Head(w) # Space
    BY <1>1 DEF OneOperand
  <2>. HIDE DEF part, w
  <2>5. RawWords(i, k) = w
    BY <1>19, <2>3, <2>4
  <2>. QED  BY <2>5 DEF w, W, m
<1>23. CASE k # 1
  <2>. DEFINE x == <<Space>> \o w
              c == b[k - 1] + 1
  <2>1. /\ cut(k - 1) = c /\ a(k) = 2 /\ s[b[k - 1] + 2] = Space
        /\ c \in Nat /\ cut(k) - 1 = c + (Len(w) + 1) /\ c + (Len(w) + 1) <= Len(s)
    <3>1. a(k) = 2 /\ s[b[k - 1] + 2] = Space /\ e[k - 1] = b[k - 1] + 1
      <4>1. k \in 1..N
        BY <1>1
      <4>2. a(k) = 2
        BY <1>8, <1>23, <4>1
      <4>. QED  BY <1>10, <1>16, <1>23, <4>1, <4>2
    <3>. DEFINE L == Len(w)
                B == b[k - 1]
    <3>2. L \in Nat /\ B \in Nat /\ e[k] = (B + 2 + L) + 1 /\ B + 2 + L <= Len(s)
      BY <1>21, <3>1
    <3>3. Len(s) \in Nat
      BY <1>7
    <3>. HIDE DEF L
    <3>4. cut(k - 1) = B + 1 /\ cut(k) = (B + 2 + L) + 1
      BY <1>20, <3>1, <3>2
    <3>5. B + 1 \in Nat /\ cut(k) - 1 = (B + 1) + (L + 1) /\ (B + 1) + (L + 1) <= Len(s)
      <4>. HIDE DEF B
      <4>. QED  BY <3>2, <3>3, <3>4
    <3>. QED  BY <3>1, <3>4, <3>5 DEF L
  <2>2. w \in Seq(S) /\ <<Space>> \in Seq(S) /\ Space \in S
    BY <1>21 DEF S
  <2>. HIDE DEF w
  <2>3. x \in Seq(S) /\ Len(x) = Len(w) + 1 /\ x[1] = Space /\ \A p \in 1..Len(w) : x[1 + p] = w[p]
    <3>1. x \in Seq(S) /\ Len(x) = Len(w) + 1 /\ Len(<<Space>>) = 1 /\ <<Space>>[1] = Space
      BY <2>2
    <3>2. /\ \A q \in 1..Len(<<Space>>) : x[q] = <<Space>>[q]
          /\ \A q \in 1..Len(w) : x[Len(<<Space>>) + q] = w[q]
      BY <2>2, ConcatAt
    <3>. QED  BY <3>1, <3>2
  <2>4. \A p \in 1..Len(x) : s[c + p] = x[p]
    <3>. SUFFICES ASSUME NEW p \in 1..Len(x) PROVE s[c + p] = x[p]
      OBVIOUS
    <3>1. CASE p = 1
      <4>1. c + p = b[k - 1] + 2
        BY <1>21, <3>1
      <4>. QED  BY <2>1, <2>3, <3>1, <4>1
    <3>2. CASE p # 1
      <4>. DEFINE q == p - 1
      <4>1. q \in 1..Len(w) /\ p = 1 + q /\ c + p = b[k - 1] + a(k) + q
        <5>. DEFINE L == Len(w)
                    B == b[k - 1]
        <5>1. L \in Nat /\ p \in 1..(L + 1) /\ B \in Nat
          BY <1>21, <2>2, <2>3
        <5>. HIDE DEF L
        <5>2. p - 1 \in 1..L /\ p = 1 + (p - 1)
          BY <3>2, <5>1
        <5>3. (B + 1) + p = B + 2 + (p - 1)
          <6>. HIDE DEF B
          <6>. QED  BY <5>1
        <5>. QED  BY <2>1, <5>2, <5>3 DEF L
      <4>2. s[b[k - 1] + a(k) + q] = w[q]
        <5>. HIDE DEF q
        <5>. QED  BY <1>21, <4>1 DEF w
      <4>3. x[1 + q] = w[q]
        <5>. HIDE DEF q, x
        <5>. QED  BY <2>3, <4>1
      <4>. HIDE DEF x, c, q
      <4>. QED  BY <4>1, <4>2, <4>3
    <3>. QED  BY <3>1, <3>2
  <2>. HIDE DEF c
  <2>5. part = x
    <3>1. cut(k - 1) + 1 = c + 1 /\ cut(k) - 1 = c + Len(x) /\ c + Len(x) <= Len(s)
      BY <2>1, <2>3
    <3>. HIDE DEF x
    <3>. QED  BY <1>7, <2>1, <2>3, <2>4, <3>1, PartAt
  <2>. HIDE DEF part
  <2>6. x # <<>> /\ Head(x) = Space /\ Tail(x) = w
    BY <2>2, <2>3
  <2>7. RawWords(i, k) = w
    <3>. HIDE DEF x
    <3>. QED  BY <1>19, <2>5, <2>6
  <2>. QED  BY <2>7 DEF w, W, m
<1>. QED  BY <1>22, <1>23
-------------------------------------------------------------------------------
(* What was printed of operand k stays what it is while the table is.       *)
LEMMA ShownForStays ==
  ASSUME NEW i, NEW k, NEW v, ShownFor(i, k, v), table' = table
  PROVE  ShownFor(i, k, v)'
<1>1. ASSUME NEW s, NEW d, NEW r, Refers(s, d, r) PROVE Refers(s, d, r)'
  BY <1>1 DEF Refers, Forwarded, Ending
<1>. DEFINE e == Symbolic(i, k)
            d == InData(i, Fixed(i)[k])
            p == Prefix(i, k)
<1>2. ShownFor(i, k, v) <=>
        IF e = NoExpr THEN v = NoValue
        ELSE \E r : /\ Refers(e.sym, d, r)
                    /\ v = [printed |-> TRUE, n |-> e.addend, ref |-> r, prefix |-> p]
  BY DEF ShownFor
<1>3. ShownFor(i, k, v)' <=>
        IF e = NoExpr THEN v = NoValue
        ELSE \E r : /\ Refers(e.sym, d, r)'
                    /\ v = [printed |-> TRUE, n |-> e.addend, ref |-> r, prefix |-> p]
  BY DEF ShownFor
<1>. HIDE DEF e, d, p
<1>. QED  BY <1>1, <1>2, <1>3

(* An operand with a symbol is an immediate or a place in memory.           *)
LEMMA SymbolicPrintable ==
  ASSUME NEW i, NEW k, Symbolic(i, k) # NoExpr
  PROVE  Printable(Fixed(i)[k])
<1>1. Lookup(i, k) # NoExpr
  BY DEF Symbolic
<1>2. Fixed(i)[k].type \in {"imm", "mem"}
  BY <1>1 DEF Lookup
<1>. QED  BY <1>2 DEF Printable

(* Text x is one that is printed for operand k.                             *)
Written(i, k, x) == Printable(Fixed(i)[k]) /\ \E v : ShownFor(i, k, v) /\ x = TextOf(i, k, v)

(* What is printed of the operands of an instruction, one after the other.  *)
Texts ==
  /\ table \in Tables
  /\ state = "operands" =>
       \E i \in Insts(table) :
         /\ inst = i /\ (i.printer = "aarch64" <=> ~table.endings)
         /\ IsSequence(text)
         /\ \A k \in 1..Len(text) : \E x : text[k] = x /\ Written(i, k, x)

(* Every text is one that is printed for its operand, with a reference that *)
(* printSymbolReference may print for its symbol.                           *)
LEMMA TextsInvariant == AllSpec => []Texts
<1>1. AllInit => Texts
  BY DEF AllInit, Init, Texts
<1>2. Texts /\ [AllNext]_allVars => Texts'
  <2>. SUFFICES ASSUME Texts, [AllNext]_allVars PROVE Texts'
    OBVIOUS
  <2>1. ASSUME NEW i, NEW k, NEW x, Written(i, k, x), table' = table PROVE Written(i, k, x)'
    <3>1. PICK v : ShownFor(i, k, v) /\ x = TextOf(i, k, v)
      BY <2>1 DEF Written
    <3>2. ShownFor(i, k, v)'
      BY <2>1, <3>1, ShownForStays
    <3>3. (x = TextOf(i, k, v))' /\ Printable(Fixed(i)[k])'
      BY <2>1, <3>1 DEF Written
    <3>. QED  BY <3>2, <3>3 DEF Written
  <2>2. table' = table /\ table \in Tables
    <3>1. CASE UNCHANGED allVars
      BY <3>1 DEF Texts, allVars, vars
    <3>2. CASE AllNext
      BY <3>2 DEF Texts, AllNext, BeginInstruction, PrintNumber, PrintSymbolic, NoPrefixes, Exit,
                  EndInstruction, Elsewhere, Next, Define, vars, ReferForwarded, ReferSkipped,
                  ReferByName, ReferAmbiguous
    <3>. QED  BY <3>1, <3>2
  <2>3. ASSUME state = "operands", inst' = inst, NEW x, text' = Append(text, x),
               Written(inst, Current, x)
        PROVE  Texts'
    <3>1. PICK i \in Insts(table) :
            /\ inst = i /\ (i.printer = "aarch64" <=> ~table.endings)
            /\ IsSequence(text)
            /\ \A k \in 1..Len(text) : \E y : text[k] = y /\ Written(i, k, y)
      BY <2>3 DEF Texts
    <3>2. PICK S : text \in Seq(S)
      BY <3>1 DEF IsSequence
    <3>. DEFINE n == Len(text)
    <3>3. /\ text' \in Seq(S \cup {x}) /\ n \in Nat /\ Len(text') = n + 1 /\ text'[n + 1] = x
          /\ \A k \in 1..n : text'[k] = text[k]
      BY <2>3, <3>2
    <3>4. ASSUME NEW k \in 1..(n + 1) PROVE \E y : text'[k] = y /\ Written(i, k, y)'
      <4>1. CASE k = n + 1
        <5>1. Written(i, k, x)
          BY <2>3, <3>1, <4>1 DEF Current
        <5>2. Written(i, k, x)'
          BY <2>1, <2>2, <5>1
        <5>. QED  BY <3>3, <4>1, <5>2
      <4>2. CASE k # n + 1
        <5>1. k \in 1..n
          BY <3>3, <4>2
        <5>2. PICK y : text[k] = y /\ Written(i, k, y)
          BY <3>1, <5>1
        <5>3. Written(i, k, y)'
          BY <2>1, <2>2, <5>2
        <5>. QED  BY <3>3, <5>1, <5>2, <5>3
      <4>. QED  BY <4>1, <4>2
    <3>. HIDE DEF n
    <3>5. inst' = i /\ i \in Insts(table') /\ IsSequence(text')
      BY <2>2, <2>3, <3>1, <3>3 DEF IsSequence
    <3>. QED  BY <2>2, <3>1, <3>3, <3>4, <3>5 DEF Texts
  <2>4. ASSUME NEW a \in Addr, BeginInstruction(a) PROVE Texts'
    <3>1. /\ inst' \in Insts(table) /\ (inst'.printer = "aarch64" <=> ~table.endings)
          /\ text' = <<>>
      BY <2>4 DEF BeginInstruction
    <3>2. IsSequence(text') /\ Len(text') = 0
      BY <3>1, SequencesOfOne
    <3>. QED  BY <2>2, <3>1, <3>2 DEF Texts
  <2>5. CASE PrintNumber
    <3>1. /\ state = "operands" /\ inst' = inst
          /\ text' = Append(text, TextOf(inst, Current, NoValue))
          /\ Printable(Fixed(inst)[Current]) /\ Symbolic(inst, Current) = NoExpr
      BY <2>5 DEF PrintNumber, ToPrint
    <3>2. ShownFor(inst, Current, NoValue)
      BY <3>1 DEF ShownFor
    <3>3. Written(inst, Current, TextOf(inst, Current, NoValue))
      BY <3>1, <3>2 DEF Written
    <3>. QED  BY <2>3, <3>1, <3>3
  <2>6. CASE PrintSymbolic
    <3>. DEFINE e == Symbolic(inst, Current)
                d == InData(inst, Fixed(inst)[Current])
                v == [printed |-> TRUE, n |-> e.addend, ref |-> ref', prefix |-> Prefix(inst, Current)]
    <3>1. /\ state = "operands" /\ inst' = inst /\ e # NoExpr
          /\ text' = Append(text, TextOf(inst, Current, v))
          /\ state' = IF ref'.kind = "undefined" THEN "undefined" ELSE state
          /\ \/ ReferForwarded(e.sym, d)
             \/ ReferSkipped(e.sym) \/ ReferByName(e.sym) \/ ReferAmbiguous(e.sym)
      BY <2>6 DEF PrintSymbolic, ToPrint
    <3>2. CASE ref'.kind = "undefined"
      BY <2>2, <3>1, <3>2 DEF Texts
    <3>3. CASE ref'.kind # "undefined"
      <4>1. Refers(e.sym, d, ref')
        <5>. HIDE DEF e, d, v
        <5>1. CASE ReferForwarded(e.sym, d)
          BY <5>1 DEF Refers, ReferForwarded
        <5>2. CASE ReferSkipped(e.sym)
          BY <5>2 DEF Refers, ReferSkipped
        <5>3. CASE ReferByName(e.sym)
          BY <5>3 DEF Refers, ReferByName
        <5>4. CASE ReferAmbiguous(e.sym)
          BY <3>3, <5>4 DEF Refers, ReferAmbiguous
        <5>. QED  BY <3>1, <5>1, <5>2, <5>3, <5>4
      <4>2. ShownFor(inst, Current, v)
        BY <3>1, <4>1 DEF ShownFor
      <4>3. Printable(Fixed(inst)[Current])
        BY <3>1, SymbolicPrintable
      <4>4. Written(inst, Current, TextOf(inst, Current, v))
        <5>. HIDE DEF v
        <5>. QED  BY <4>2, <4>3 DEF Written
      <4>. HIDE DEF v
      <4>. QED  BY <2>3, <3>1, <4>4
    <3>. QED  BY <3>2, <3>3
  <2>7. CASE NoPrefixes \/ Exit \/ EndInstruction
    BY <2>2, <2>7 DEF NoPrefixes, Exit, EndInstruction, Texts
  <2>8. CASE Elsewhere
    BY <2>2, <2>8 DEF Elsewhere, instVars, Texts
  <2>9. CASE UNCHANGED allVars
    <3>1. CASE state # "operands"
      BY <2>2, <2>9, <3>1 DEF Texts, allVars, instVars
    <3>2. CASE state = "operands"
      <4>1. PICK i \in Insts(table) :
              /\ inst = i /\ (i.printer = "aarch64" <=> ~table.endings)
              /\ IsSequence(text)
            /\ \A k \in 1..Len(text) : \E x : text[k] = x /\ Written(i, k, x)
        BY <3>2 DEF Texts
      <4>2. inst' = i /\ text' = text
        BY <2>9, <4>1 DEF allVars, instVars
      <4>3. ASSUME NEW k \in 1..Len(text') PROVE \E x : text'[k] = x /\ Written(i, k, x)'
        <5>1. PICK x : text[k] = x /\ Written(i, k, x)
          BY <4>1, <4>2
        <5>2. Written(i, k, x)'
          BY <2>1, <2>2, <5>1
        <5>. QED  BY <4>2, <5>1, <5>2
      <4>. QED  BY <2>2, <4>1, <4>2, <4>3 DEF Texts
    <3>. QED  BY <3>1, <3>2
  <2>. QED  BY <2>4, <2>5, <2>6, <2>7, <2>8, <2>9 DEF AllNext
<1>. QED  BY <1>1, <1>2, PTL DEF AllSpec

(* What the assembler reads in the text of an instruction are the operands  *)
(* the instruction had, in each of the three syntaxes: fix-ups, the look-up *)
(* of symbols, the value that is printed and its punctuation fit together.  *)
THEOREM OperandsReadBack == AllSpec => []ReadsBack
<1>1. Texts /\ AllTypeOK => ReadsBack
  <2>. SUFFICES ASSUME Texts, AllTypeOK, state = "operands", ~ToPrint, Expressible(inst)
                PROVE  /\ Len(text) = Len(inst.means)
                       /\ \A k \in DOMAIN inst.means :
                            Reads(inst, text[IF inst.printer = "att" THEN Len(text) + 1 - k ELSE k],
                                  inst.means[k])
    BY DEF ReadsBack
  <2>1. PICK i \in Insts(table) :
          /\ inst = i /\ (i.printer = "aarch64" <=> ~table.endings)
          /\ IsSequence(text)
          /\ \A k \in 1..Len(text) : \E x : text[k] = x /\ Written(i, k, x)
    BY DEF Texts
  <2>. DEFINE m == i.means
              n == Len(m)
  <2>2. /\ table \in Tables /\ Expressible(i) /\ n \in Nat /\ DOMAIN m = 1..n
        /\ \A k \in 1..n : OperandOf(i, m[k])
        /\ i.printer \in {"intel", "att", "aarch64"}
    BY <2>1, InstsAssumption DEF Texts
  <2>3. Len(Fixed(i)) = n /\ \A k \in 1..n : Alike(i, Fixed(i)[Place(i, k)], m[k])
    BY <2>2, FixedMeans
  <2>4. Len(text) = n
    <3>1. Len(text) \in Nat
      BY <2>1 DEF IsSequence
    <3>2. Len(text) <= Len(Fixed(i)) /\ ~(Len(text) < Len(Fixed(i)))
      BY <2>1 DEF AllTypeOK, ToPrint
    <3>. QED  BY <2>2, <2>3, <3>1, <3>2
  <2>5. ASSUME NEW k \in 1..n PROVE Reads(i, text[Place(i, k)], m[k])
    <3>. DEFINE p == Place(i, k)
                f == Fixed(i)[p]
                op == m[k]
    <3>1. p \in 1..n
      BY <2>2 DEF Place
    <3>2. PICK v : Printable(f) /\ ShownFor(i, p, v) /\ text[p] = TextOf(i, p, v)
      <4>1. Written(i, p, text[p])
        BY <2>1, <2>4, <3>1
      <4>. QED  BY <4>1 DEF Written
    <3>3. Fits(i, v, op)
      <4>. HIDE DEF f
      <4>. QED  BY <2>1, <2>2, <3>2, ValueMeans DEF Fits
    <3>4. OperandOf(i, op) /\ Alike(i, f, op)
      BY <2>2, <2>3
    <3>5. op.type # "invalid"
      <4>1. f.type = op.type
        BY <3>4 DEF Alike, Operand
      <4>. QED  BY <3>2, <4>1 DEF Printable
    <3>6. CASE i.printer = "intel"
      <4>1. text[p] = IntelText(i, f, v)
        BY <3>2, <3>6 DEF TextOf
      <4>2. Reads(i, IntelText(i, f, v), op)
        <5>. HIDE DEF f, op
        <5>. QED  BY <3>3, <3>4, <3>5, <3>6, IntelReads
      <4>. QED  BY <4>1, <4>2
    <3>7. CASE i.printer = "att"
      <4>1. text[p] = AttText(i, f, v)
        BY <3>2, <3>7 DEF TextOf
      <4>2. Reads(i, AttText(i, f, v), op)
        <5>. HIDE DEF f, op
        <5>. QED  BY <3>3, <3>4, <3>5, <3>7, AttReads
      <4>. QED  BY <4>1, <4>2
    <3>8. CASE i.printer = "aarch64"
      <4>1. p = k
        BY <3>8 DEF Place
      <4>2. text[p] = AArch64Text(i, k, f, v)
        BY <3>2, <3>8, <4>1 DEF TextOf
      <4>3. op.type = "raw" => RawWords(i, k) = op.words
        BY <2>2, <3>8, RawMeans
      <4>4. Reads(i, AArch64Text(i, k, f, v), op)
        <5>. HIDE DEF f
        <5>. QED  BY <2>2, <2>3, <3>2, <3>3, <3>4, <3>8, <4>3, ArmReads
      <4>. QED  BY <4>2, <4>4
    <3>. QED  BY <2>2, <3>6, <3>7, <3>8
  <2>6. \A k \in 1..n : Place(i, k) = IF i.printer = "att" THEN Len(text) + 1 - k ELSE k
    BY <2>4 DEF Place
  <2>. QED  BY <2>1, <2>2, <2>4, <2>5, <2>6
<1>. QED  BY <1>1, TextsInvariant, AllTypesCorrect, PTL
===============================================================================
