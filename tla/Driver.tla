-------------------------------- MODULE Driver --------------------------------
(***************************************************************************)
(* The programs gtirb-pprinter and gtirb-binary-printer from the first     *)
(* static initialiser to the exit status: printers register themselves,    *)
(* main loads the IR, chooses a target, configures a PrettyPrinter and     *)
(* prints the modules.  And the program gtirb-layout, which lays out the   *)
(* modules of an IR, or undoes that, and saves it.  What a layout and a    *)
(* listing are is left to the other modules; here they may fail.           *)
(***************************************************************************)
EXTENDS Integers, Sequences, Functions

CONSTANTS
  Format, Syntax,  \* the names of formats and syntaxes
  Factory,         \* printer factories
  Function,        \* names of functions
  Registrations,   \* the calls of registerPrinter in static initialisers
  DefaultSkip,     \* skipFunctions of a factory's default policy
  MaxModules,      \* bounds the modules of an IR, and with them the files
  Requests         \* command lines and IRs: records of RequestType

Target == Format \X Syntax

None   == "none"   \* an option that is not given, or a default syntax not set
Absent == "absent" \* no element of a map
Null   == "null"   \* a shared_ptr that was moved from

Registration ==
  [formats : Seq(Format), syntaxes : Seq(Syntax), factory : Factory, isDefault : BOOLEAN]

RequestType ==
  [program : {"pprinter", "binary", "layout"},
   found   : BOOLEAN,                     \* the file with the IR exists
   modules : Seq([format : Format, addressed : BOOLEAN]),
   format  : Format \cup {None}, syntax : Syntax \cup {None},
   keep    : SUBSET Function, skip : SUBSET Function,
   output  : {None, "no filename", "extension", "no extension", "-"},
   remove  : BOOLEAN,                     \* the option of gtirb-layout
   locked  : SUBSET Nat,                  \* the files that cannot be opened
   module  : Int]                         \* the index for standard output

ASSUME DriverAssumption ==
  /\ {None, Absent, Null} \cap (Format \cup Syntax \cup Factory) = {}
  /\ Registrations \subseteq Registration
  /\ \A r \in Registrations :
       /\ r.formats # <<>> /\ IsInjective(r.formats)
       /\ r.syntaxes # <<>> /\ IsInjective(r.syntaxes)
  /\ DefaultSkip \in [Factory -> SUBSET Function]
  /\ MaxModules \in Nat
  /\ Requests \subseteq RequestType
  /\ \A q \in Requests :
       /\ Len(q.modules) <= MaxModules
       /\ q.program = "binary" => q.format = None
       /\ q.program = "layout" => q.output # None
       /\ q.program # "layout" => q.output # "-" /\ ~q.remove

(* Registrations of one format and one syntax each, as all those in the     *)
(* repository are.  Of any other one only the first pair gets the factory,  *)
(* and the rest a null pointer.                                             *)
OnePairEach ==
  \A r \in Registrations : Len(r.formats) = 1 /\ Len(r.syntaxes) = 1

VARIABLES
  pending,    \* static initialisers that have not run
  factories,  \* getFactories()
  defaults,   \* getSyntaxes()
  req,        \* the request; it does not change
  valid,      \* the modules that have addresses by now
  pp,         \* the PrettyPrinter: m_format and m_syntax, m_keep_funcs, m_skip_funcs
  i,          \* the loop over the modules
  out,        \* file number n, or standard output: the listing or IR it holds
  status,     \* what main returns
  pc

NoFile == [holds |-> "no file"]
Empty  == [holds |-> "nothing"]

Unset == -1  \* nothing returned yet

vars == <<pending, factories, defaults, req, valid, pp, i, out, status, pc>>

Stdout == -1
Files  == Stdout .. MaxModules

Init ==
  /\ factories = [t \in Target |-> Absent]
  /\ defaults = [f \in Format |-> None]
  /\ req \in Requests
  /\ pending = IF req.program = "layout" THEN {} ELSE Registrations
  /\ valid = {} /\ i = 0 /\ status = Unset
  /\ pp = [target |-> <<>>, keep |-> {}, skip |-> {}]
  /\ out = [n \in Files |-> NoFile]
  /\ pc = "static"

Indices == DOMAIN req.modules

Leave(r) == pc' = "returned" /\ status' = r /\ UNCHANGED <<pending, factories, defaults, req>>

-------------------------------------------------------------------------------
(* Static initialisation *)

Pairs(r) == {<<r.formats[m], r.syntaxes[n]>> : m \in DOMAIN r.formats, n \in DOMAIN r.syntaxes}
FirstPair(r) == <<r.formats[1], r.syntaxes[1]>>

Registers(r) ==
  /\ pc = "static" /\ r \in pending
  /\ pending' = pending \ {r}
  /\ factories' = [t \in Target |-> IF t = FirstPair(r) THEN r.factory
                                    ELSE IF t \in Pairs(r) THEN Null ELSE factories[t]]
  /\ UNCHANGED <<req, valid, pp, i, out, status, pc>>

(* Mutant of Register: the first default stays.                             *)
Register_NoDefault(r) == Registers(r) /\ UNCHANGED defaults

(* registerPrinter, in the order of the static initialisers, which is not   *)
(* specified.  The loop moves the factory into the first entry.             *)
Register(r) ==
  /\ Registers(r)
  /\ defaults' = [f \in Format |->
       IF r.isDefault /\ \E n \in DOMAIN r.formats : r.formats[n] = f
       THEN r.syntaxes[Len(r.syntaxes)] ELSE defaults[f]]

Main ==
  /\ pc = "static" /\ pending = {}
  /\ pc' = "load"
  /\ UNCHANGED <<pending, factories, defaults, req, valid, pp, i, out, status>>

-------------------------------------------------------------------------------
(* main, up to the configured PrettyPrinter *)

Loaded == req.found /\ (req.modules = <<>> => req.program = "layout")

(* "IR not found", "IR has no modules" *)
LoadFails ==
  /\ pc = "load" /\ ~Loaded
  /\ Leave(1) /\ UNCHANGED <<valid, pp, i, out>>

Addressed == {m \in Indices : req.modules[m].addressed}

(* The modules without addresses are laid out; nobody asks whether that     *)
(* worked.                                                                  *)
LayOut ==
  /\ pc = "load" /\ Loaded /\ req.program # "layout"
  /\ \E V \in SUBSET Indices :
       Addressed \subseteq V /\ valid' = V
  /\ pc' = "target"
  /\ UNCHANGED <<pending, factories, defaults, req, pp, i, out, status>>

FormatChosen == IF req.format # None THEN req.format ELSE req.modules[1].format
SyntaxChosen ==
  IF req.syntax # None THEN req.syntax
  ELSE IF defaults[FormatChosen] # None THEN defaults[FormatChosen] ELSE ""
TargetChosen == <<FormatChosen, SyntaxChosen>>

Registered == TargetChosen \in Target /\ factories[TargetChosen] # Absent

(* "Unsupported combination" *)
Unsupported ==
  /\ pc = "target" /\ ~Registered
  /\ Leave(1) /\ UNCHANGED <<valid, pp, i, out>>

(* After setTarget, and keepFunction and skipFunction for all that are named. *)
Configured == [target |-> TargetChosen, keep |-> req.keep, skip |-> req.skip]

(* Mutant of Configure: the target is not looked up first.                  *)
Configure_Unchecked ==
  /\ pc = "target"
  /\ pp' = Configured
  /\ pc' = IF req.program = "binary" THEN "link" ELSE IF req.output = None THEN "stdout" ELSE "files"
  /\ UNCHANGED <<pending, factories, defaults, req, valid, i, out, status>>

(* The PrettyPrinter is ready.                                              *)
Configure ==
  /\ pc = "target" /\ Registered
  /\ pp' = Configured
  /\ pc' = IF req.program = "binary" THEN "link" ELSE IF req.output = None THEN "stdout" ELSE "files"
  /\ UNCHANGED <<pending, factories, defaults, req, valid, i, out, status>>

-------------------------------------------------------------------------------
(* PrettyPrinter::print *)

(* Mutant of SkipFunctions: kept first, then skipped.                       *)
SkipFunctions_SkipLast(f) == (DefaultSkip[f] \ pp.keep) \cup pp.skip

(* policy.skipFunctions, for a factory.                                     *)
SkipFunctions(f) == (DefaultSkip[f] \cup pp.skip) \ pp.keep

(* main has set a target, so the format of the module is not asked.         *)
Found == pp.target \in Target /\ factories[pp.target] # Absent

(* Module m is printed to file n.  The listing is cut off when writing      *)
(* fails, which nobody looks at, and when an instruction cannot be printed: *)
(* then the process exits.                                                  *)
PrintTo(n, m, next) ==
  /\ Found /\ factories[pp.target] # Null /\ m \in valid
  /\ \E whole \in BOOLEAN :
       /\ out' = [out EXCEPT ![n] =
            [holds |-> "listing", module |-> m, by |-> factories[pp.target],
             whole |-> whole, skip |-> SkipFunctions(factories[pp.target])]]
       /\ \/ next
          \/ ~whole /\ pc' = "exited" /\ UNCHANGED <<i, status>>

(* getFactories().at throws, and nobody catches; or a factory that is null  *)
(* is called, or addresses that are not there are read.                     *)
CannotPrintTo(n, m) ==
  /\ ~Found \/ factories[pp.target] = Null \/ m \notin valid
  /\ out' = [out EXCEPT ![n] = Empty]
  /\ pc' = IF Found THEN "undefined" ELSE "threw"
  /\ UNCHANGED <<i, status>>

Prints(n, m, next) ==
  /\ PrintTo(n, m, next) \/ CannotPrintTo(n, m)
  /\ UNCHANGED <<pending, factories, defaults, req, valid, pp>>

-------------------------------------------------------------------------------
(* main, the output *)

(* "The given path has no filename" *)
NoFilename ==
  /\ pc = "files" /\ i = 0 /\ req.output = "no filename"
  /\ Leave(1) /\ UNCHANGED <<valid, pp, i, out>>

AtModule == pc = "files" /\ req.output # "no filename" /\ i < Len(req.modules)

(* getAsmFileName: the number goes in front of the last dot of the name, or *)
(* in front of its end if it has no dot, which is out of range.             *)
Nameable(n) == n = 0 \/ req.output = "extension"

NameThrows ==
  /\ AtModule /\ ~Nameable(i)
  /\ pc' = "threw"
  /\ UNCHANGED <<pending, factories, defaults, req, valid, pp, i, out, status>>

(* Mutant of WriteModule: the first module has number 1 as well.            *)
WriteModule_FromOne ==
  /\ AtModule /\ Nameable(i) /\ i \notin req.locked
  /\ Prints(IF i = 0 THEN 1 ELSE i, i + 1, i' = i + 1 /\ UNCHANGED <<status, pc>>)

WriteModule ==
  /\ AtModule /\ Nameable(i) /\ i \notin req.locked
  /\ Prints(i, i + 1, i' = i + 1 /\ UNCHANGED <<status, pc>>)

(* Mutant of CannotOpen: tries again.                                       *)
CannotOpen_Again ==
  /\ AtModule /\ Nameable(i) /\ i \in req.locked
  /\ UNCHANGED vars

(* Mutant of CannotOpen: counts the module twice.                           *)
CannotOpen_Twice ==
  /\ AtModule /\ Nameable(i) /\ i \in req.locked
  /\ i' = i + 2
  /\ UNCHANGED <<pending, factories, defaults, req, valid, pp, out, status, pc>>

(* "Could not output assembly output file": goes on with the next module.   *)
CannotOpen ==
  /\ AtModule /\ Nameable(i) /\ i \in req.locked
  /\ i' = i + 1
  /\ UNCHANGED <<pending, factories, defaults, req, valid, pp, out, status, pc>>

AllWritten ==
  /\ pc = "files" /\ req.output # "no filename" /\ i = Len(req.modules)
  /\ Leave(0) /\ UNCHANGED <<valid, pp, i, out>>

HasIndex == req.module >= 0 /\ req.module < Len(req.modules)

(* Mutant of NoSuchModule: the heading comes before the check.              *)
NoSuchModule_Says ==
  /\ pc = "stdout" /\ ~HasIndex
  /\ Leave(1) /\ out' = [out EXCEPT ![Stdout] = Empty] /\ UNCHANGED <<valid, pp, i>>

(* "The ir has n modules, module with index m cannot be printed" *)
NoSuchModule ==
  /\ pc = "stdout" /\ ~HasIndex
  /\ Leave(1) /\ UNCHANGED <<valid, pp, i, out>>

WriteStdout ==
  /\ pc = "stdout" /\ HasIndex
  /\ Prints(Stdout, req.module + 1, pc' = "returned" /\ status' = 0 /\ UNCHANGED i)

(* ElfBinaryPrinter::link prints the modules one by one to files of its own *)
(* and returns a number, which main ignores.                                *)
LinkPrint ==
  /\ pc = "link" /\ req.output # None /\ i < Len(req.modules)
  /\ Prints(i, i + 1, i' = i + 1 /\ UNCHANGED <<status, pc>>)

(* link is done, or has given up early because a file cannot be opened or   *)
(* the compiler is missing; or there is no name: "Please specify a binary   *)
(* name".                                                                   *)
LinkReturns ==
  /\ pc = "link"
  /\ Leave(0) /\ UNCHANGED <<valid, pp, i, out>>

(* The search for libraries may throw.                                      *)
LinkThrows ==
  /\ pc = "link" /\ req.output # None /\ i = Len(req.modules)
  /\ pc' = "threw"
  /\ UNCHANGED <<pending, factories, defaults, req, valid, pp, i, out, status>>

-------------------------------------------------------------------------------
(* main of gtirb-layout *)

BeginTool ==
  /\ pc = "load" /\ Loaded /\ req.program = "layout"
  /\ valid' = Addressed /\ pc' = "tool"
  /\ UNCHANGED <<pending, factories, defaults, req, pp, i, out, status>>

AtToolModule == pc = "tool" /\ i < Len(req.modules)

ToolLayOut ==
  /\ AtToolModule /\ ~req.remove
  /\ valid' = valid \cup {i + 1} /\ i' = i + 1
  /\ UNCHANGED <<pending, factories, defaults, req, pp, out, status, pc>>

(* Mutant of ToolFails: goes on, as the printers do.                        *)
ToolFails_Ignored ==
  /\ AtToolModule /\ ~req.remove
  /\ i' = i + 1
  /\ UNCHANGED <<pending, factories, defaults, req, valid, pp, out, status, pc>>

(* "Laying out module failed!": sections in front of the one that failed    *)
(* have new addresses.                                                      *)
ToolFails ==
  /\ AtToolModule /\ ~req.remove
  /\ valid' \in {valid, valid \cup {i + 1}}
  /\ Leave(1) /\ UNCHANGED <<pp, i, out>>

(* This never fails. *)
ToolRemove ==
  /\ AtToolModule /\ req.remove
  /\ valid' = valid \ {i + 1} /\ i' = i + 1
  /\ UNCHANGED <<pending, factories, defaults, req, pp, out, status, pc>>

ToolFile == IF req.output = "-" THEN Stdout ELSE 0

(* The stream is looked at before the last of what is written leaves its    *)
(* buffer, so that a failure may go unnoticed.                              *)
ToolSave ==
  /\ pc = "tool" /\ i = Len(req.modules)
  /\ req.output # "no filename" /\ ToolFile \notin req.locked
  /\ \E whole, noticed \in BOOLEAN :
       /\ out' = [out EXCEPT ![ToolFile] = [holds |-> "IR", valid |-> valid, whole |-> whole]]
       /\ Leave(IF ~whole /\ noticed THEN 1 ELSE 0)
  /\ UNCHANGED <<valid, pp, i>>

ToolCannotOpen ==
  /\ pc = "tool" /\ i = Len(req.modules)
  /\ req.output = "no filename" \/ ToolFile \in req.locked
  /\ Leave(1) /\ UNCHANGED <<valid, pp, i, out>>

Next ==
  \/ \E r \in Registrations : Register(r)
  \/ Main \/ LoadFails \/ LayOut \/ Unsupported \/ Configure
  \/ NoFilename \/ NameThrows \/ WriteModule \/ CannotOpen \/ AllWritten
  \/ NoSuchModule \/ WriteStdout \/ LinkPrint \/ LinkReturns \/ LinkThrows
  \/ BeginTool \/ ToolLayOut \/ ToolFails \/ ToolRemove \/ ToolSave \/ ToolCannotOpen

Spec == Init /\ [][Next]_vars

(* The program runs until it ends. *)
FairSpec == Spec /\ WF_vars(Next)
-------------------------------------------------------------------------------
Listing ==
  [holds : {"listing"}, module : 1 .. MaxModules, by : Factory, whole : BOOLEAN,
   skip : SUBSET Function]

SavedIR == [holds : {"IR"}, valid : SUBSET (1 .. MaxModules), whole : BOOLEAN]

Listed(n) == out[n].holds = "listing"

Ended == pc \in {"returned", "threw", "undefined", "exited"}

(* The types of the variables.                                              *)
TypeOK ==
  /\ pending \subseteq Registrations
  /\ factories \in [Target -> Factory \cup {Absent, Null}]
  /\ defaults \in [Format -> Syntax \cup {None}]
  /\ req \in Requests
  /\ valid \subseteq Indices
  /\ pp \in [target : {<<>>} \cup (Format \X (Syntax \cup {""})),
            keep : SUBSET Function, skip : SUBSET Function]
  /\ i \in 0 .. Len(req.modules)
  /\ out \in [Files -> Listing \cup SavedIR \cup {NoFile, Empty}]
  /\ status \in {Unset, 0, 1}
  /\ Ended \/ pc \in {"static", "load", "target", "files", "stdout", "link", "tool"}

(* A run that ends with an error status has written no listing and no whole *)
(* IR: all that can be refused is refused before a file is opened.          *)
FailureTouchesNothing ==
  pc = "returned" /\ status = 1 =>
    \A n \in Files : out[n] = NoFile \/ (out[n].holds = "IR" /\ ~out[n].whole)

(* What gtirb-layout saves is laid out everywhere, or nowhere when that was *)
(* asked for: no layout that failed is ever passed on.  And it succeeds     *)
(* only if it has saved something, so that the next program finds it.       *)
SavedMeansDone ==
  req.program = "layout" =>
    /\ \A n \in Files : out[n].holds = "IR" =>
         out[n].valid = IF req.remove THEN {} ELSE Indices
    /\ pc = "returned" /\ status = 0 => out[ToolFile].holds = "IR"

(* The files of a run that succeeds: each holds its own module, no module   *)
(* overwrites another one's file, and only files that could not be opened   *)
(* are missing.  The number is the index getAsmFileName gets, and puts in   *)
(* front of the extension: the second module of x.s is in x1.s, as the test *)
(* of two modules expects.  The help text of the option disagrees: it names *)
(* the files "FILE, FILE_2 ... FILE_n", so that the number would be one     *)
(* more, and behind the name.  This property is what the code does.         *)
OwnFiles ==
  /\ \A n \in Files \ {Stdout} : Listed(n) => out[n].module = n + 1
  /\ pc = "returned" /\ status = 0 /\ req.program = "pprinter" /\ req.output # None =>
       \A m \in Indices : m - 1 \in req.locked \/ Listed(m - 1)

(* "Print the given functions even if they are skipped by default": no      *)
(* listing leaves out a function that was to be kept, and each leaves out   *)
(* those to be skipped that were not to be kept.                            *)
KeepWins ==
  \A n \in Files : Listed(n) =>
    /\ out[n].skip \cap req.keep = {}
    /\ req.skip \ req.keep \subseteq out[n].skip

(* Whatever the order of the initialisers and the options, there is a       *)
(* printer behind each target that was accepted: printing a module with     *)
(* addresses never fails for want of one.                                   *)
PrinterThere == (\E n \in Files : out[n] = Empty) => valid # Indices

(* Whatever the order of the initialisers, a format that anybody is the     *)
(* default of has a default syntax, and with it a printer: an IR in such a  *)
(* format is refused only for what was asked, never by default.             *)
DefaultWorks ==
  pc = "returned" /\ status = 1 /\ Loaded /\ req.syntax = None /\ req.program # "layout" =>
    \/ \A r \in Registrations : r.isDefault => FormatChosen \notin Range(r.formats)
    \/ req.output = "no filename"
    \/ req.output = None /\ ~HasIndex

(* The program ends, whatever fails.                                        *)
Terminates == <>Ended

(* "If the name does not have an extension, we add the number at the end":  *)
(* with a name of either kind, every module gets a file name.               *)
NamesMade == pc = "threw" => req.program = "binary"
===============================================================================
