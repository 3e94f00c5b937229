--------------------------- MODULE SymbolNamesProofs ---------------------------
(***************************************************************************)
(* No two addresses share a label, for every number of symbols, every      *)
(* choice of names that do not look like generated ones, and every way to  *)
(* generate names in which the address can be recognised.                  *)
(***************************************************************************)
EXTENDS SymbolNames, TLAPS

(* The labels that may be printed at an address. *)
Shown(a) == {Definition(s) : s \in SymbolsAt(a)} \cup FunctionNames(a)

(* What is printed for a symbol whose name is not ambiguous. *)
Plain(s) == {table.name[s], Format[table.name[s]]}

LabelsShown ==
  /\ table \in TableType
  /\ labels \subseteq [text : Text, addr : Addr]
  /\ \A l \in labels : l.text \in Shown(l.addr)

(* A label was generated from the address, or is due to a symbol there that *)
(* shares its name with no other.                                           *)
LEMMA TwoKinds ==
  ASSUME NEW a \in Addr, NEW t \in Shown(a), table \in TableType
  PROVE  \/ t \in GeneratedAt(a) /\ t \in Generated
         \/ \E s \in SymbolsAt(a) : ~Ambiguous(table.name[s]) /\ t \in Plain(s)
<1>1. \A s \in SymbolsAt(a) : s \in Sym /\ table.addr[s] = a
        /\ table.name[s] \in Name /\ table.name[s] \in Used
  BY DEF SymbolsAt, TableType, Used
<1>2. CASE t \in {Definition(s) : s \in SymbolsAt(a)}
  <2>1. PICK s \in SymbolsAt(a) : t = Definition(s)
    BY <1>2
  <2>2. CASE Ambiguous(table.name[s])
    <3>1. t = Local[a]
      BY <1>1, <2>1, <2>2 DEF Definition
    <3>2. QED
      BY <3>1 DEF GeneratedAt, Generated
  <2>3. CASE ~Ambiguous(table.name[s])
    BY <2>1, <2>3 DEF Definition, Plain
  <2>4. QED
    BY <2>2, <2>3
<1>3. CASE t \in FunctionNames(a)
  <2>1. CASE SymbolsAt(a) = {}
    <3>1. t = Unknown[a]
      BY <1>3, <2>1 DEF FunctionNames
    <3>2. QED
      BY <3>1 DEF GeneratedAt, Generated
  <2>2. CASE SymbolsAt(a) # {}
    <3>1. PICK s \in SymbolsAt(a) :
            t = IF Ambiguous(table.name[s]) THEN Numbered[table.name[s]][a]
                ELSE table.name[s]
      BY <1>3, <2>2 DEF FunctionNames
    <3>2. CASE Ambiguous(table.name[s])
      BY <1>1, <3>1, <3>2 DEF GeneratedAt, Generated
    <3>3. CASE ~Ambiguous(table.name[s])
      BY <3>1, <3>3 DEF Plain
    <3>4. QED
      BY <3>2, <3>3
  <2>3. QED
    BY <2>1, <2>2
<1>4. QED
  BY <1>2, <1>3 DEF Shown

(* Nothing that is printed at one address is printed at another.            *)
LEMMA Apart ==
  ASSUME NEW a \in Addr, NEW b \in Addr, NEW t, t \in Shown(a), t \in Shown(b),
         table \in TableType, NoLookalikes
  PROVE  a = b
<1>1. \A s \in Sym : table.name[s] \in Used
  BY DEF Used
<1>2. \A s \in Sym : Plain(s) \cap Generated = {}
  <2> TAKE s \in Sym
  <2>1. table.name[s] \notin Generated /\ Format[table.name[s]] \notin Generated
    BY <1>1 DEF NoLookalikes
  <2>2. QED
    BY <2>1 DEF Plain
<1>3. CASE t \in GeneratedAt(a) /\ t \in GeneratedAt(b)
  BY <1>3, GeneratedAssumption
<1>4. CASE t \in Generated
  <2>1. \A s \in Sym : t \notin Plain(s)
    BY <1>2, <1>4
  <2>2. t \in GeneratedAt(a) /\ t \in GeneratedAt(b)
    BY <2>1, TwoKinds DEF SymbolsAt
  <2>3. QED
    BY <2>2, <1>3
<1>5. CASE t \notin Generated
  <2>1. PICK s \in SymbolsAt(a) : ~Ambiguous(table.name[s]) /\ t \in Plain(s)
    BY <1>5, TwoKinds
  <2>2. PICK u \in SymbolsAt(b) : ~Ambiguous(table.name[u]) /\ t \in Plain(u)
    BY <1>5, TwoKinds
  <2>3. s \in Sym /\ u \in Sym /\ table.addr[s] = a /\ table.addr[u] = b
    BY <2>1, <2>2 DEF SymbolsAt
  <2>4. table.name[s] = table.name[u]
    <3>1. \A m, n \in Used : Format[m] = n \/ Format[m] = Format[n] => m = n
      BY DEF NoLookalikes
    <3>2. QED
      BY <2>1, <2>2, <2>3, <1>1, <3>1 DEF Plain
  <2>5. s = u
    BY <2>1, <2>3, <2>4 DEF Ambiguous
  <2>6. QED
    BY <2>3, <2>5
<1>6. QED
  BY <1>4, <1>5

(* There are no labels at first.                                            *)
LEMMA LabelsShownInit == Init => LabelsShown
BY NamesAssumption DEF Init, LabelsShown

(* The header and the definitions printed at an address are among those     *)
(* that may be shown there.                                                 *)
LEMMA TextsShown ==
  ASSUME NEW a, NEW T \in TextsAt(a)
  PROVE  T \subseteq Shown(a)
<1>1. \A h \in Headers(a) : h \subseteq FunctionNames(a)
  BY DEF Headers
<1>2. \/ T \in {{}, DefinitionsAt(a)}
      \/ \E h \in Headers(a) : T = h \cup DefinitionsAt(a)
  BY DEF TextsAt
<1>3. QED
  BY <1>1, <1>2 DEF Shown, DefinitionsAt

(* No step prints a label that may not be shown at its address.             *)
LEMMA LabelsShownStep == LabelsShown /\ [Next]_vars => LabelsShown'
<1> SUFFICES ASSUME LabelsShown, [Next]_vars
             PROVE  LabelsShown'
  OBVIOUS
<1>1. table' = table
  BY DEF Next, vars, Define, ReferForwarded, ReferSkipped, ReferByName, ReferAmbiguous
<1>2. \A a \in Addr : Shown(a)' = Shown(a)
  BY <1>1 DEF Shown, Definition, FunctionNames, SymbolsAt, Ambiguous
<1>3. ASSUME labels' = labels
      PROVE  LabelsShown'
  BY <1>1, <1>2, <1>3 DEF LabelsShown
<1>4. ASSUME NEW a \in Addr, Define(a), labels' # labels
      PROVE  LabelsShown'
  <2>1. PICK T \in TextsAt(a) : labels' = labels \cup {[text |-> t, addr |-> a] : t \in T}
    BY <1>4 DEF Define
  <2>2. T \subseteq Shown(a)
    BY TextsShown
  <2>3. Shown(a) \subseteq Text
    <3>1. \A s \in SymbolsAt(a) : table.addr[s] = a /\ table.name[s] \in Name
      BY DEF LabelsShown, SymbolsAt, TableType
    <3>2. \A n \in Name : Format[n] \in Text /\ Numbered[n][a] \in Text /\ n \in Text
      BY NamesAssumption
    <3>3. Local[a] \in Text /\ Unknown[a] \in Text
      BY NamesAssumption
    <3>4. QED
      BY <3>1, <3>2, <3>3 DEF Shown, Definition, FunctionNames
  <2>4. \A l \in labels' : l \in labels \/ (l \in [text : Text, addr : {a}] /\ l.text \in Shown(a))
    BY <2>1, <2>2, <2>3
  <2>5. QED
    BY <1>1, <1>2, <2>4 DEF LabelsShown
<1>5. QED
  BY <1>3, <1>4 DEF Next, vars, ReferForwarded, ReferSkipped, ReferByName, ReferAmbiguous

(* No label is defined at two addresses. *)
THEOREM LabelsUniqueAlways == Spec => []LabelsUnique
<1>1. LabelsShown => LabelsUnique
  BY Apart DEF LabelsShown, LabelsUnique
<1>2. QED
  BY <1>1, LabelsShownInit, LabelsShownStep, PTL DEF Spec

(* What a reference by name prints for a symbol: a name of the symbol, or   *)
(* the text that is generated from its address.                             *)
RefShown ==
  /\ table \in TableType
  /\ ref.kind = "name" =>
       /\ ref.sym \in Sym
       /\ \/ ref.text \in Plain(ref.sym)
          \/ table.addr[ref.sym] \in Addr /\ ref.text = Local[table.addr[ref.sym]]

(* Each kind of reference shows a name of its symbol, or its generated text. *)
LEMMA RefShownStep == RefShown /\ [Next]_vars => RefShown'
<1> SUFFICES ASSUME RefShown, [Next]_vars
             PROVE  RefShown'
  OBVIOUS
<1>1. table' = table
  BY DEF Next, vars, Define, ReferForwarded, ReferSkipped, ReferByName, ReferAmbiguous
<1>2. \A s \in Sym : Plain(s)' = Plain(s)
  BY <1>1 DEF Plain
<1>3. CASE ref' = ref
  BY <1>1, <1>2, <1>3 DEF RefShown
<1>4. ASSUME NEW s \in Sym, NEW inData \in BOOLEAN, ReferForwarded(s, inData)
      PROVE  RefShown'
  <2>1. table.forward[s] \in Sym
    BY <1>4 DEF ReferForwarded, Forwarded, RefShown, TableType
  <2>2. ref'.sym = table.forward[s] /\ ref'.text = table.name[table.forward[s]]
    BY <1>4 DEF ReferForwarded
  <2>. QED  BY <1>1, <1>2, <2>1, <2>2 DEF RefShown, Plain
<1>5. ASSUME NEW s \in Sym, ReferSkipped(s)
      PROVE  RefShown'
  <2>1. ref'.kind # "name"
    BY <1>5 DEF ReferSkipped
  <2>. QED  BY <1>1, <2>1 DEF RefShown
<1>6. ASSUME NEW s \in Sym, ReferByName(s)
      PROVE  RefShown'
  <2>1. ref'.sym = s /\ ref'.text = Format[table.name[s]]
    BY <1>6 DEF ReferByName
  <2>. QED  BY <1>1, <1>2, <2>1 DEF RefShown, Plain
<1>7. ASSUME NEW s \in Sym, ReferAmbiguous(s)
      PROVE  RefShown'
  <2>1. CASE table.addr[s] = NoAddr
    <3>1. ref'.kind # "name"
      BY <1>7, <2>1 DEF ReferAmbiguous
    <3>. QED  BY <1>1, <3>1 DEF RefShown
  <2>2. CASE table.addr[s] # NoAddr
    <3>1. ref'.sym = s /\ ref'.text = Local[table.addr[s]]
      BY <1>7, <2>2 DEF ReferAmbiguous
    <3>2. table.addr[s] \in Addr
      BY <2>2 DEF RefShown, TableType
    <3>. QED  BY <1>1, <3>1, <3>2 DEF RefShown
  <2>. QED  BY <2>1, <2>2
<1>. QED
  BY <1>3, <1>4, <1>5, <1>6, <1>7 DEF Next, vars, Define

(* A label with the text of a reference is generated from the address of    *)
(* the reference's symbol, or is due to the one symbol of its name.         *)
LEMMA RefAndLabels == LabelsShown /\ RefShown => RefersToNoOther
<1>. SUFFICES ASSUME LabelsShown, RefShown, NoLookalikes, ref.kind = "name",
                     NEW l \in labels, l.text = ref.text
              PROVE  l.addr = table.addr[ref.sym]
  BY DEF RefersToNoOther
<1>. DEFINE r == ref.sym
            t == ref.text
            b == l.addr
<1>1. r \in Sym /\ b \in Addr /\ t \in Shown(b) /\ table \in TableType
  BY DEF LabelsShown, RefShown
<1>2. \A s \in Sym : table.name[s] \in Used
  BY DEF Used
<1>3. \A s \in Sym : Plain(s) \cap Generated = {}
  <2>. TAKE s \in Sym
  <2>1. table.name[s] \notin Generated /\ Format[table.name[s]] \notin Generated
    BY <1>2 DEF NoLookalikes
  <2>. QED  BY <2>1 DEF Plain
<1>4. CASE t \in Plain(r)
  <2>1. PICK s \in SymbolsAt(b) : ~Ambiguous(table.name[s]) /\ t \in Plain(s)
    <3>1. t \notin Generated
      BY <1>1, <1>3, <1>4
    <3>. QED  BY <1>1, <3>1, TwoKinds
  <2>2. s \in Sym /\ table.addr[s] = b
    BY <2>1 DEF SymbolsAt
  <2>3. table.name[s] = table.name[r]
    <3>1. \A m, n \in Used : Format[m] = n \/ Format[m] = Format[n] => m = n
      BY DEF NoLookalikes
    <3>. QED  BY <1>1, <1>2, <1>4, <2>1, <2>2, <3>1 DEF Plain
  <2>4. s = r
    BY <1>1, <2>1, <2>2, <2>3 DEF Ambiguous
  <2>. QED  BY <2>2, <2>4
<1>5. CASE table.addr[r] \in Addr /\ t = Local[table.addr[r]]
  <2>1. t \in Generated /\ t \in GeneratedAt(table.addr[r])
    BY <1>5 DEF Generated, GeneratedAt
  <2>2. t \in GeneratedAt(b)
    <3>1. \A s \in SymbolsAt(b) : t \notin Plain(s)
      BY <1>3, <2>1 DEF SymbolsAt
    <3>. QED  BY <1>1, <3>1, TwoKinds
  <2>. QED  BY <1>1, <1>5, <2>1, <2>2, GeneratedAssumption
<1>. QED  BY <1>4, <1>5 DEF RefShown

(* The assembler never takes a reference for a symbol at another address:   *)
(* printSymbolReference and the labels agree, also about forwarded symbols. *)
THEOREM RefersToNoOtherAlways == Spec => []RefersToNoOther
<1>1. Init => RefShown
  BY NamesAssumption DEF Init, RefShown, NoRef
<1>. QED
  BY <1>1, LabelsShownInit, LabelsShownStep, RefShownStep, RefAndLabels, PTL DEF Spec

(* What a reference prints: types, and that the label printed at the        *)
(* symbol's address has the same text, unless the reference was forwarded.  *)
RefMatches ==
  ref.kind = "name" =>
    \/ ref.text = table.name[ref.sym]
    \/ ref.text = Definition(ref.sym)

(* At every address that the listing has reached and does not skip, there   *)
(* are the labels of all symbols.                                           *)
AllDefined ==
  \A a \in Addr \ (todo \cup table.skipped) : \A s \in SymbolsAt(a) :
    [text |-> Definition(s), addr |-> a] \in labels

Refs == [kind : {"none", "undefined"}]
          \cup [kind : {"number"}, sym : Sym, value : Addr]
          \cup [kind : {"name"}, sym : Sym, text : Text, ending : {"", "@PLT", "@GOTPCREL"}]

Endings == {"", "@PLT", "@GOTPCREL"}

(* The steps that print a reference print no label and change no table.     *)
LEMMA OtherSteps ==
  ASSUME [Next]_vars
  PROVE  /\ table' = table
         /\ \/ ref' = ref /\ ((\E a \in Addr : Define(a)) \/ UNCHANGED <<todo, labels>>)
            \/ /\ UNCHANGED <<todo, labels>>
               /\ \/ \E s \in Sym, inData \in BOOLEAN : ReferForwarded(s, inData)
                  \/ \E s \in Sym : ReferSkipped(s) \/ ReferByName(s) \/ ReferAmbiguous(s)
BY DEF Next, vars, Define, ReferForwarded, ReferSkipped, ReferByName, ReferAmbiguous

(* Every text that a label or a reference can have is in Text.              *)
LEMMA TextsTyped ==
  ASSUME table \in TableType
  PROVE  /\ \A s \in Sym : table.name[s] \in Text /\ Format[table.name[s]] \in Text
         /\ \A a \in Addr : Local[a] \in Text
         /\ \A a \in Addr : Shown(a) \subseteq Text
<1>1. \A s \in Sym : table.name[s] \in Name
  BY DEF TableType
<1>2. \A s \in Sym : table.name[s] \in Text /\ Format[table.name[s]] \in Text
  BY <1>1, NamesAssumption
<1>3. \A a \in Addr : Local[a] \in Text /\ Unknown[a] \in Text
  BY NamesAssumption
<1>4. ASSUME NEW a \in Addr
      PROVE  Shown(a) \subseteq Text
  <2>1. \A s \in SymbolsAt(a) : s \in Sym /\ table.addr[s] = a
    BY DEF SymbolsAt
  <2>2. \A s \in Sym : Numbered[table.name[s]][a] \in Text
    BY <1>1, NamesAssumption
  <2>. QED  BY <1>2, <1>3, <2>1, <2>2 DEF Shown, Definition, FunctionNames
<1>. QED  BY <1>2, <1>3, <1>4

(* The types of the variables are kept.                                     *)
THEOREM TypeCorrect == Spec => []TypeOK
<1>1. Init => TypeOK
  BY NamesAssumption DEF Init, TypeOK, NoRef
<1>2. TypeOK /\ [Next]_vars => TypeOK'
  <2>. SUFFICES ASSUME TypeOK, [Next]_vars PROVE TypeOK'
    OBVIOUS
  <2>1. table' = table /\ table \in TableType
    BY OtherSteps DEF TypeOK
  <2>2. (todo \subseteq Addr /\ labels \subseteq [text : Text, addr : Addr \ todo])'
    <3>1. CASE UNCHANGED <<todo, labels>>
      BY <3>1 DEF TypeOK
    <3>2. ASSUME NEW a \in Addr, Define(a)
          PROVE  (todo \subseteq Addr /\ labels \subseteq [text : Text, addr : Addr \ todo])'
      <4>1. todo' = todo \ {a}
        BY <3>2 DEF Define
      <4>2. \A l \in labels : l \in [text : Text, addr : Addr \ todo']
        BY <4>1 DEF TypeOK
      <4>3. PICK T \in TextsAt(a) : labels' = labels \cup {[text |-> t, addr |-> a] : t \in T}
        BY <3>2 DEF Define
      <4>4. T \subseteq Text
        BY <2>1, TextsShown, TextsTyped
      <4>5. a \in Addr \ todo'
        BY <4>1
      <4>6. \A l \in labels' : l \in labels \/ l \in [text : Text, addr : {a}]
        BY <4>3, <4>4
      <4>. QED  BY <4>1, <4>2, <4>5, <4>6 DEF TypeOK
    <3>. QED  BY <3>1, <3>2, OtherSteps
  <2>3. ref' \in Refs
    <3>1. CASE ref' = ref
      BY <3>1 DEF TypeOK, Refs
    <3>2. ASSUME NEW s \in Sym, NEW inData \in BOOLEAN, ReferForwarded(s, inData)
          PROVE  ref' \in Refs
      <4>1. table.forward[s] \in Sym
        BY <2>1, <3>2 DEF ReferForwarded, Forwarded, TableType
      <4>2. table.name[table.forward[s]] \in Text
        BY <2>1, <4>1, TextsTyped
      <4>3. Ending(s, inData) \in Endings
        BY DEF Ending, Endings
      <4>. QED  BY <3>2, <4>1, <4>2, <4>3 DEF ReferForwarded, Refs, Endings
    <3>3. ASSUME NEW s \in Sym, ReferSkipped(s)
          PROVE  ref' \in Refs
      <4>1. table.addr[s] \in Addr
        BY <2>1, <3>3 DEF ReferSkipped, TableType
      <4>. QED  BY <3>3, <4>1 DEF ReferSkipped, Refs
    <3>4. ASSUME NEW s \in Sym, ReferByName(s)
          PROVE  ref' \in Refs
      BY <3>4, <2>1, TextsTyped DEF ReferByName, Refs
    <3>5. ASSUME NEW s \in Sym, ReferAmbiguous(s)
          PROVE  ref' \in Refs
      <4>1. CASE table.addr[s] = NoAddr
        BY <3>5, <4>1 DEF ReferAmbiguous, Refs
      <4>2. CASE table.addr[s] # NoAddr
        <5>1. table.addr[s] \in Addr
          BY <2>1, <4>2 DEF TableType
        <5>. QED  BY <3>5, <4>2, <5>1, <2>1, TextsTyped DEF ReferAmbiguous, Refs
      <4>. QED  BY <4>1, <4>2
    <3>. QED  BY <3>1, <3>2, <3>3, <3>4, <3>5, OtherSteps
  <2>. QED  BY <2>1, <2>2, <2>3 DEF TypeOK, Refs
<1>. QED  BY <1>1, <1>2, PTL DEF Spec

(* A reference prints the name of its symbol as it is, or the very text     *)
(* that the definition of the symbol prints.                                *)
LEMMA RefMatchesStep ==
  ASSUME TypeOK, RefMatches, [Next]_vars
  PROVE  RefMatches'
<1>1. table' = table
  BY OtherSteps
<1>2. \A s : Definition(s)' = Definition(s)
  BY <1>1 DEF Definition, Ambiguous
<1>3. CASE ref' = ref
  BY <1>1, <1>2, <1>3 DEF RefMatches
<1>4. ASSUME NEW s \in Sym, NEW inData \in BOOLEAN, ReferForwarded(s, inData)
      PROVE  RefMatches'
  BY <1>1, <1>4 DEF ReferForwarded, RefMatches
<1>5. ASSUME NEW s \in Sym, ReferSkipped(s)
      PROVE  RefMatches'
  BY <1>5 DEF ReferSkipped, RefMatches
<1>6. ASSUME NEW s \in Sym, ReferByName(s)
      PROVE  RefMatches'
  <2>1. ref'.sym = s /\ ref'.text = Format[table.name[s]] /\ ~Ambiguous(table.name[s])
    BY <1>6 DEF ReferByName
  <2>2. ref'.text = Definition(s)
    BY <2>1 DEF Definition
  <2>3. (ref.text = Definition(ref.sym))'
    BY <1>1, <2>1, <2>2 DEF Definition, Ambiguous
  <2>. QED  BY <2>3 DEF RefMatches
<1>7. ASSUME NEW s \in Sym, ReferAmbiguous(s)
      PROVE  RefMatches'
  <2>1. CASE table.addr[s] = NoAddr
    BY <1>7, <2>1 DEF ReferAmbiguous, RefMatches
  <2>2. CASE table.addr[s] # NoAddr
    <3>1. ref'.sym = s /\ ref'.text = Local[table.addr[s]] /\ Ambiguous(table.name[s])
      BY <1>7, <2>2 DEF ReferAmbiguous
    <3>2. (ref.text = Definition(ref.sym))'
      BY <1>1, <3>1 DEF Definition, Ambiguous
    <3>. QED  BY <3>2 DEF RefMatches
  <2>. QED  BY <2>1, <2>2
<1>. QED  BY <1>3, <1>4, <1>5, <1>6, <1>7, OtherSteps

(* When the listing reaches an address, all symbols there get their labels. *)
LEMMA AllDefinedStep ==
  ASSUME TypeOK, AllDefined, [Next]_vars
  PROVE  AllDefined'
<1>1. table' = table
  BY OtherSteps
<1>2. \A a : SymbolsAt(a)' = SymbolsAt(a)
  BY <1>1 DEF SymbolsAt
<1>3. \A s : Definition(s)' = Definition(s)
  BY <1>1 DEF Definition, Ambiguous
<1>4. CASE UNCHANGED <<todo, labels>>
  BY <1>1, <1>2, <1>3, <1>4 DEF AllDefined
<1>5. ASSUME NEW a \in Addr, Define(a)
      PROVE  AllDefined'
  <2>1. todo' = todo \ {a} /\ labels \subseteq labels'
    BY <1>5 DEF Define
  <2>2. a \notin table.skipped =>
          \A s \in SymbolsAt(a) : [text |-> Definition(s), addr |-> a] \in labels'
    BY <1>5 DEF Define, TextsAt, DefinitionsAt
  <2>3. \A b \in Addr \ (todo' \cup table.skipped) : \A s \in SymbolsAt(b) :
          [text |-> Definition(s), addr |-> b] \in labels'
    BY <2>1, <2>2 DEF AllDefined
  <2>. QED  BY <1>1, <1>2, <1>3, <2>3 DEF AllDefined
<1>. QED  BY <1>4, <1>5, OtherSteps

(* A reference that is not forwarded, and one with a name that the syntax   *)
(* leaves as it is and no other symbol has, has the text of the label.      *)
LEMMA MatchedIsLabel == TypeOK /\ RefMatches /\ AllDefined => RefersToLabel
<1>. SUFFICES ASSUME TypeOK, RefMatches, AllDefined, ref.kind = "name",
                     table.addr[ref.sym] \in Addr \ (todo \cup table.skipped),
                     ref.text = table.name[ref.sym] =>
                       /\ ~Ambiguous(table.name[ref.sym])
                       /\ Format[table.name[ref.sym]] = table.name[ref.sym]
              PROVE  [text |-> ref.text, addr |-> table.addr[ref.sym]] \in labels
  BY DEF RefersToLabel
<1>1. ref.sym \in Sym
  BY DEF TypeOK
<1>2. ref.text = Definition(ref.sym)
  BY DEF RefMatches, Definition
<1>3. ref.sym \in SymbolsAt(table.addr[ref.sym])
  BY <1>1 DEF SymbolsAt
<1>. QED  BY <1>2, <1>3 DEF AllDefined

(* A reference by name finds its label where its symbol is, as soon as the  *)
(* listing has reached that address: what printSymbolReference prints and   *)
(* what printSymbolDefinition printed are the same text.                    *)
THEOREM RefersToLabelAlways == Spec => []RefersToLabel
<1>1. Init => RefMatches /\ AllDefined
  BY DEF Init, RefMatches, AllDefined, NoRef
<1>2. TypeOK /\ (RefMatches /\ AllDefined) /\ [Next]_vars => (RefMatches /\ AllDefined)'
  BY RefMatchesStep, AllDefinedStep
<1>. QED  BY <1>1, <1>2, TypeCorrect, MatchedIsLabel, PTL DEF Spec
===============================================================================
