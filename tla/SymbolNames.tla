------------------------------ MODULE SymbolNames ------------------------------
(***************************************************************************)
(* The names of symbols in a listing: the labels that define them and the  *)
(* references to them are printed at different places of the listing, by   *)
(* different functions, and only the texts connect them.                   *)
(*                                                                         *)
(* Labels are printed address by address, references in between.  A text   *)
(* is what stands in the listing; what the program makes of a name or an   *)
(* address is a constant function.                                         *)
(***************************************************************************)
EXTENDS Integers

CONSTANTS
  Sym,       \* symbols
  Addr,      \* addresses, a set of numbers
  Text,      \* what may stand in the listing for a symbol
  Name,      \* the names symbols may have
  Format,    \* Format[n] is Syntax::formatSymbolName(n)
  Local,     \* Local[a] is getSymbolName(a), ".L_" and the address
  Numbered,  \* Numbered[n][a] is a name with "_" and an address
  Unknown,   \* Unknown[a] is "unknown_function_" and an address
  Tables     \* what a module may look like: records of TableType

NoAddr == -1   \* a symbol without an address
NoSym  == "none"

TableType ==
  [name    : [Sym -> Name],
   addr    : [Sym -> Addr \cup {NoAddr}],
   forward : [Sym -> Sym \cup {NoSym}],      \* SymbolForwarding
   entries : SUBSET Addr,                    \* functionEntry
   skipped : SUBSET Addr,                    \* the addresses for which skipEA holds
   sect    : [Addr -> {"plt", "got", "other"}],  \* the container of an address
   endings : BOOLEAN]                        \* FALSE for AArch64PrettyPrinter

ASSUME NamesAssumption ==
  /\ NoSym \notin Sym /\ Addr \subseteq Nat
  /\ Name \subseteq Text
  /\ Format \in [Name -> Text] /\ Numbered \in [Name -> [Addr -> Text]]
  /\ Local \in [Addr -> Text] /\ Unknown \in [Addr -> Text]
  /\ Tables \subseteq TableType

(* What is generated at an address ends with it. *)
GeneratedAt(a) == {Local[a], Unknown[a]} \cup {Numbered[n][a] : n \in Name}

ASSUME GeneratedAssumption ==
  \A a, b \in Addr : a # b => GeneratedAt(a) \cap GeneratedAt(b) = {}

VARIABLES
  table,   \* the module
  todo,    \* the addresses whose labels are not printed yet
  labels,  \* the labels in the listing: texts and addresses
  ref      \* the last reference printed

vars == <<table, todo, labels, ref>>

NoRef == [kind |-> "none"]

Init ==
  /\ table \in Tables
  /\ todo = Addr
  /\ labels = {}
  /\ ref = NoRef

-------------------------------------------------------------------------------
(* Mutant of Ambiguous: undefined symbols do not count.                     *)
Ambiguous_Defined(n) ==
  \E s, t \in Sym : /\ s # t /\ table.name[s] = n /\ table.name[t] = n
                    /\ table.addr[s] # NoAddr /\ table.addr[t] # NoAddr

(* isAmbiguousSymbol *)
Ambiguous(n) == \E s, t \in Sym : s # t /\ table.name[s] = n /\ table.name[t] = n

SymbolsAt(a) == {s \in Sym : table.addr[s] = a}

(* Mutant of Definition: names are used as they are.                        *)
Definition_Plain(s) ==
  IF Ambiguous(table.name[s]) THEN Local[table.addr[s]] ELSE table.name[s]

(* The label printSymbolDefinitionsAtAddress prints for a symbol.           *)
Definition(s) ==
  IF Ambiguous(table.name[s]) THEN Local[table.addr[s]] ELSE Format[table.name[s]]

(* Mutant of FunctionNames: the name of a function is just that of its      *)
(* symbol.                                                                  *)
FunctionNames_Plain(a) ==
  IF SymbolsAt(a) = {} THEN {Unknown[a]} ELSE {table.name[s] : s \in SymbolsAt(a)}

(* getFunctionName of an entry: any symbol there may be the first.          *)
FunctionNames(a) ==
  IF SymbolsAt(a) = {} THEN {Unknown[a]}
  ELSE {IF Ambiguous(table.name[s]) THEN Numbered[table.name[s]][a] ELSE table.name[s] :
          s \in SymbolsAt(a)}

DefinitionsAt(a) == {Definition(s) : s \in SymbolsAt(a)}

(* The names in the header of a function, if a code block starts there.     *)
Headers(a) == IF a \in table.entries THEN {{n} : n \in FunctionNames(a)} ELSE {{}}

(* What may be printed at an address: the header of a function, then the    *)
(* labels of all symbols.  A block that is skipped prints neither; but if   *)
(* none is printed there, a gap, the end of the block in front or the end   *)
(* of the module prints the labels without asking whether they are skipped. *)
TextsAt(a) ==
  IF a \in table.skipped THEN {{}, DefinitionsAt(a)}
  ELSE {h \cup DefinitionsAt(a) : h \in Headers(a)}

(* The listing reaches address a. *)
Define(a) ==
  /\ a \in todo
  /\ todo' = todo \ {a}
  /\ \E T \in TextsAt(a) : labels' = labels \cup {[text |-> t, addr |-> a] : t \in T}
  /\ UNCHANGED <<table, ref>>

(* getForwardedSymbolEnding *)
Ending(s, inData) ==
  IF table.addr[s] = NoAddr \/ ~table.endings THEN ""
  ELSE CASE table.sect[table.addr[s]] = "plt" /\ ~inData -> "@PLT"
         [] table.sect[table.addr[s]] = "got" -> "@GOTPCREL"
         [] OTHER -> ""

Forwarded(s) == table.forward[s] # NoSym

(* printSymbolReference, first case                                         *)
ReferForwarded(s, inData) ==
  /\ Forwarded(s)
  /\ ref' = [kind |-> "name", sym |-> table.forward[s],
             text |-> table.name[table.forward[s]], ending |-> Ending(s, inData)]
  /\ UNCHANGED <<table, todo, labels>>

(* Mutant of ReferSkipped: whether there is an address is not asked.        *)
ReferSkipped_Unchecked(s) ==
  /\ ~Forwarded(s)
  /\ table.addr[s] \notin Addr \ table.skipped
  /\ ref' = [kind |-> "number", sym |-> s, value |-> table.addr[s]]
  /\ UNCHANGED <<table, todo, labels>>

(* A symbol that is not printed is referred to by its address.              *)
ReferSkipped(s) ==
  /\ ~Forwarded(s)
  /\ table.addr[s] \in table.skipped
  /\ ref' = [kind |-> "number", sym |-> s, value |-> table.addr[s]]
  /\ UNCHANGED <<table, todo, labels>>

ReferByName(s) ==
  /\ ~Forwarded(s)
  /\ table.addr[s] \notin table.skipped
  /\ ~Ambiguous(table.name[s])
  /\ ref' = [kind |-> "name", sym |-> s, text |-> Format[table.name[s]], ending |-> ""]
  /\ UNCHANGED <<table, todo, labels>>

(* An ambiguous symbol is referred to by its address; if it has none, an    *)
(* empty optional is dereferenced, and any text may come of it.             *)
ReferAmbiguous(s) ==
  /\ ~Forwarded(s)
  /\ table.addr[s] \notin table.skipped
  /\ Ambiguous(table.name[s])
  /\ ref' = IF table.addr[s] = NoAddr THEN [kind |-> "undefined"]
            ELSE [kind |-> "name", sym |-> s, text |-> Local[table.addr[s]], ending |-> ""]
  /\ UNCHANGED <<table, todo, labels>>

Next ==
  \/ \E a \in Addr : Define(a)
  \/ \E s \in Sym, inData \in BOOLEAN : ReferForwarded(s, inData)
  \/ \E s \in Sym : ReferSkipped(s) \/ ReferByName(s) \/ ReferAmbiguous(s)

Spec == Init /\ [][Next]_vars
-------------------------------------------------------------------------------
(* Type invariant.                                                          *)
TypeOK ==
  /\ table \in TableType
  /\ todo \subseteq Addr
  /\ labels \subseteq [text : Text, addr : Addr \ todo]
  /\ ref \in [kind : {"none", "undefined"}]
       \cup [kind : {"number"}, sym : Sym, value : Addr]
       \cup [kind : {"name"}, sym : Sym, text : Text, ending : {"", "@PLT", "@GOTPCREL"}]

Used      == {table.name[s] : s \in Sym}
Generated == {Local[a] : a \in Addr} \cup {Unknown[a] : a \in Addr}
               \cup {Numbered[n][a] : n \in Used, a \in Addr}

(* No symbol has a name that looks like what is generated from another one. *)
NoLookalikes ==
  /\ \A n \in Used : n \notin Generated /\ Format[n] \notin Generated
  /\ \A m, n \in Used : Format[m] \in {n, Format[n]} => m = n

(* No label is defined at two addresses, whatever symbols share a name and  *)
(* whichever of them is taken for the name of a function.                   *)
LabelsUnique ==
  NoLookalikes => \A l, m \in labels : l.text = m.text => l.addr = m.addr

(* The assembler never takes a reference for a symbol at another address:   *)
(* neither for one of the same name, nor, when it was forwarded, for the    *)
(* symbol that was forwarded.                                               *)
RefersToNoOther ==
  NoLookalikes /\ ref.kind = "name" =>
    \A l \in labels : l.text = ref.text => l.addr = table.addr[ref.sym]

(* A reference by name finds its label where the symbol is.  (A forwarded   *)
(* reference has the bare name of its destination; this is a label if the   *)
(* name is neither ambiguous nor one that is avoided.)                      *)
RefersToLabel ==
  ref.kind = "name" =>
    LET n == table.name[ref.sym]
        a == table.addr[ref.sym]
    IN  /\ a \in Addr \ (todo \cup table.skipped)
        /\ ref.text = n => ~Ambiguous(n) /\ Format[n] = n
        => [text |-> ref.text, addr |-> a] \in labels
===============================================================================
