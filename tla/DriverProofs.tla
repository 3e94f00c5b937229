----------------------------- MODULE DriverProofs -----------------------------
(***************************************************************************)
(* Proofs about Driver, for all printers that register themselves in any   *)
(* order, all command lines and all IRs: what a program refuses, writes    *)
(* and promises with its exit status.                                      *)
(***************************************************************************)
EXTENDS Driver, TLAPS

(* Only some programs come to some places.                                  *)
Programs ==
  /\ pc = "tool" => req.program = "layout"
  /\ pc \in {"target", "files", "stdout", "link"} => req.program # "layout"
  /\ pc = "files" => req.output # None
  /\ pc = "stdout" => req.program = "pprinter" /\ req.output = None
  /\ pc = "link" => req.program = "binary"
  /\ status # Unset => pc = "returned"
  /\ pc \in {"static", "load", "target"} => i = 0

(* Once there is a PrettyPrinter it has a target that somebody registered,  *)
(* and is told what to keep and to skip.                                    *)
Chosen ==
  pc \in {"files", "stdout", "link"} =>
    /\ Found
    /\ pp.keep = req.keep /\ pp.skip = req.skip

(* No file is there before the first that is printed or saved.              *)
Untouched ==
  pc \in {"static", "load", "target", "stdout", "tool"} \/ (pc = "files" /\ i = 0) =>
    \A n \in Files : out[n] = NoFile

(* gtirb-layout has done with the modules in front of i.                    *)
Done(V) == IF req.remove THEN V \cap (1 .. i) = {} ELSE 1 .. i \subseteq V

LaidOut == pc = "tool" => Done(valid)

(* The modules in front of i have their files.                              *)
Written == pc = "files" => \A m \in 1 .. i : m - 1 \in req.locked \/ Listed(m - 1)

(* Who is the default of a format gives it a syntax, and whatever syntax is *)
(* a format's default, there is a printer for both.                         *)
Defaults ==
  /\ req.program # "layout" /\ pc # "static" => pending = {}
  /\ req.program # "layout" =>
       \A r \in Registrations \ pending : r.isDefault =>
         \A f \in Range(r.formats) : defaults[f] # None
  /\ \A f \in Format : defaults[f] # None => factories[<<f, defaults[f]>>] # Absent

(* What an error status says about an IR with modules.                      *)
Refused ==
  pc = "returned" /\ status = 1 /\ Loaded /\ req.program # "layout" =>
    ~Registered \/ req.output = "no filename" \/ (req.output = None /\ ~HasIndex)
-------------------------------------------------------------------------------
(* What the requests are: an IR has 1 .. Len(req.modules) as indices.       *)
LEMMA RequestTypes ==
  ASSUME req \in Requests
  PROVE  /\ Len(req.modules) \in Nat /\ Len(req.modules) <= MaxModules
         /\ Indices = 1 .. Len(req.modules)
         /\ Indices \subseteq 1 .. MaxModules
         /\ req.keep \in SUBSET Function /\ req.skip \in SUBSET Function
         /\ req.module \in Int
<1>1. /\ req.modules \in Seq([format : Format, addressed : BOOLEAN])
      /\ req.keep \in SUBSET Function /\ req.skip \in SUBSET Function /\ req.module \in Int
      /\ Len(req.modules) <= MaxModules /\ MaxModules \in Nat
  BY DriverAssumption DEF RequestType
<1>2. Len(req.modules) \in Nat /\ DOMAIN req.modules = 1 .. Len(req.modules)
  BY <1>1
<1> QED
  BY <1>1, <1>2 DEF Indices

(* What happens to a file that module m is printed to.                      *)
Printing(n, m) ==
  \/ /\ Found /\ factories[pp.target] # Null /\ m \in valid
     /\ \E whole \in BOOLEAN :
          out' = [out EXCEPT ![n] =
                    [holds |-> "listing", module |-> m, by |-> factories[pp.target],
                     whole |-> whole, skip |-> SkipFunctions(factories[pp.target])]]
  \/ /\ ~Found \/ factories[pp.target] = Null \/ m \notin valid
     /\ out' = [out EXCEPT ![n] = Empty]
     /\ pc' \in {"undefined", "threw"}

(* The three steps that print: they leave the target and the request alone, *)
(* and if they do not go on, the process ends.                              *)
LEMMA Prints3 ==
  /\ WriteModule =>
       /\ Printing(i, i + 1) /\ AtModule /\ i \notin req.locked
       /\ UNCHANGED <<pending, factories, defaults, req, valid, pp>>
       /\ \/ i' = i + 1 /\ UNCHANGED <<status, pc>>
          \/ UNCHANGED <<i, status>> /\ pc' \in {"exited", "undefined", "threw"}
  /\ WriteStdout =>
       /\ Printing(Stdout, req.module + 1) /\ pc = "stdout" /\ HasIndex
       /\ UNCHANGED <<pending, factories, defaults, req, valid, pp, i>>
       /\ \/ pc' = "returned" /\ status' = 0
          \/ UNCHANGED status /\ pc' \in {"exited", "undefined", "threw"}
  /\ LinkPrint =>
       /\ Printing(i, i + 1) /\ pc = "link" /\ i < Len(req.modules)
       /\ UNCHANGED <<pending, factories, defaults, req, valid, pp>>
       /\ \/ i' = i + 1 /\ UNCHANGED <<status, pc>>
          \/ UNCHANGED <<i, status>> /\ pc' \in {"exited", "undefined", "threw"}
<1>1. ASSUME WriteModule
      PROVE  /\ Printing(i, i + 1) /\ AtModule /\ i \notin req.locked
             /\ UNCHANGED <<pending, factories, defaults, req, valid, pp>>
             /\ \/ i' = i + 1 /\ UNCHANGED <<status, pc>>
                \/ UNCHANGED <<i, status>> /\ pc' \in {"exited", "undefined", "threw"}
  BY <1>1 DEF WriteModule, Prints, PrintTo, CannotPrintTo, Printing
<1>2. ASSUME WriteStdout
      PROVE  /\ Printing(Stdout, req.module + 1) /\ pc = "stdout" /\ HasIndex
             /\ UNCHANGED <<pending, factories, defaults, req, valid, pp, i>>
             /\ \/ pc' = "returned" /\ status' = 0
                \/ UNCHANGED status /\ pc' \in {"exited", "undefined", "threw"}
  BY <1>2 DEF WriteStdout, Prints, PrintTo, CannotPrintTo, Printing
<1>3. ASSUME LinkPrint
      PROVE  /\ Printing(i, i + 1) /\ pc = "link" /\ i < Len(req.modules)
             /\ UNCHANGED <<pending, factories, defaults, req, valid, pp>>
             /\ \/ i' = i + 1 /\ UNCHANGED <<status, pc>>
                \/ UNCHANGED <<i, status>> /\ pc' \in {"exited", "undefined", "threw"}
  BY <1>3 DEF LinkPrint, Prints, PrintTo, CannotPrintTo, Printing
<1> QED
  BY <1>1, <1>2, <1>3

(* What is printed to a file keeps the type of the files.                   *)
LEMMA PrintingTypes ==
  ASSUME TypeOK, NEW n \in Files, NEW m, Printing(n, m)
  PROVE  out' \in [Files -> Listing \cup SavedIR \cup {NoFile, Empty}]
<1> DEFINE F == Listing \cup SavedIR \cup {NoFile, Empty}
<1>0. out \in [Files -> F]
  BY DEF TypeOK
<1>1. CASE out' = [out EXCEPT ![n] = Empty]
  BY <1>0, <1>1
<1>2. CASE Found /\ factories[pp.target] # Null /\ m \in valid
  <2>1. factories[pp.target] \in Factory
    BY <1>2 DEF TypeOK, Found
  <2>2. SkipFunctions(factories[pp.target]) \in SUBSET Function
    <3>1. pp.skip \in SUBSET Function /\ DefaultSkip[factories[pp.target]] \in SUBSET Function
      BY <2>1, DriverAssumption DEF TypeOK
    <3> QED
      BY <3>1 DEF SkipFunctions
  <2>3. m \in 1 .. MaxModules
    BY <1>2, RequestTypes DEF TypeOK
  <2>4. ASSUME NEW whole \in BOOLEAN
        PROVE  [holds |-> "listing", module |-> m, by |-> factories[pp.target],
                whole |-> whole, skip |-> SkipFunctions(factories[pp.target])] \in F
    BY <2>1, <2>2, <2>3 DEF Listing
  <2>5. PICK whole \in BOOLEAN :
          out' = [out EXCEPT ![n] =
                    [holds |-> "listing", module |-> m, by |-> factories[pp.target],
                     whole |-> whole, skip |-> SkipFunctions(factories[pp.target])]]
    BY <1>2 DEF Printing
  <2> QED
    BY <1>0, <2>4, <2>5
<1> QED
  BY <1>1, <1>2 DEF Printing

(* The initial types.                                                       *)
LEMMA TypesInit == Init => TypeOK
<1> SUFFICES ASSUME Init PROVE TypeOK
  OBVIOUS
<1>1. Len(req.modules) \in Nat
  BY RequestTypes DEF Init
<1> QED
  BY <1>1 DEF Init, TypeOK, Unset, Ended

(* Every step keeps the types.                                              *)
LEMMA TypesStep ==
  ASSUME TypeOK, Next
  PROVE  TypeOK'
<1>0. /\ Len(req.modules) \in Nat /\ Len(req.modules) <= MaxModules
      /\ Indices = 1 .. Len(req.modules) /\ Indices \subseteq 1 .. MaxModules
      /\ req.keep \in SUBSET Function /\ req.skip \in SUBSET Function
      /\ req.module \in Int /\ MaxModules \in Nat
  BY RequestTypes, DriverAssumption DEF TypeOK
<1>i. ASSUME i < Len(req.modules)
      PROVE  i \in Files /\ i + 1 \in 0 .. Len(req.modules) /\ i + 1 \in Indices
  <2>1. i \in 0 .. Len(req.modules)
    BY DEF TypeOK
  <2> QED
    BY <1>0, <1>i, <2>1 DEF Files, Stdout
<1> USE <1>0
<1>1. ASSUME NEW r \in Registrations, Register(r) PROVE TypeOK'
  <2>1. r.factory \in Factory /\ r.syntaxes \in Seq(Syntax) /\ r.syntaxes # <<>>
    BY DriverAssumption DEF Registration
  <2>2. r.syntaxes[Len(r.syntaxes)] \in Syntax
    BY <2>1
  <2>3. factories' \in [Target -> Factory \cup {Absent, Null}]
    BY <1>1, <2>1 DEF Register, Registers, TypeOK
  <2>4. defaults' \in [Format -> Syntax \cup {None}]
    BY <1>1, <2>2 DEF Register, TypeOK
  <2> QED
    BY <1>1, <2>3, <2>4 DEF Register, Registers, TypeOK, Ended, Indices
<1>2. CASE Main
  BY <1>2 DEF Main, TypeOK, Ended, Indices
<1>3. CASE LoadFails
  BY <1>3 DEF LoadFails, Leave, TypeOK, Ended, Indices
<1>4. CASE LayOut
  BY <1>4 DEF LayOut, TypeOK, Ended, Indices
<1>5. CASE Unsupported
  BY <1>5 DEF Unsupported, Leave, TypeOK, Ended, Indices
<1>6. CASE Configure
  <2>1. TargetChosen \in Format \X (Syntax \cup {""})
    BY <1>6 DEF Configure, Registered, Target
  <2>2. pp' \in [target : {<<>>} \cup (Format \X (Syntax \cup {""})),
                 keep : SUBSET Function, skip : SUBSET Function]
    BY <1>6, <2>1 DEF Configure, Configured
  <2> QED
    BY <1>6, <2>2 DEF Configure, TypeOK, Ended, Indices
<1>7. CASE NoFilename
  BY <1>7 DEF NoFilename, Leave, TypeOK, Ended, Indices
<1>8. CASE NameThrows
  BY <1>8 DEF NameThrows, TypeOK, Ended, Indices
<1>9. CASE WriteModule
  <2>1. i \in Files /\ i + 1 \in 0 .. Len(req.modules)
    BY <1>9, <1>i, Prints3 DEF AtModule
  <2>2. out' \in [Files -> Listing \cup SavedIR \cup {NoFile, Empty}]
    BY <1>9, <2>1, Prints3, PrintingTypes
  <2> QED
    BY <1>9, <2>1, <2>2, Prints3 DEF TypeOK, Ended, Indices
<1>10. CASE CannotOpen
  BY <1>10, <1>i DEF CannotOpen, AtModule, TypeOK, Ended, Indices
<1>11. CASE AllWritten
  BY <1>11 DEF AllWritten, Leave, TypeOK, Ended, Indices
<1>12. CASE NoSuchModule
  BY <1>12 DEF NoSuchModule, Leave, TypeOK, Ended, Indices
<1>13. CASE WriteStdout
  <2>1. Stdout \in Files
    BY DEF Files, Stdout
  <2>2. out' \in [Files -> Listing \cup SavedIR \cup {NoFile, Empty}]
    BY <1>13, <2>1, Prints3, PrintingTypes
  <2> QED
    BY <1>13, <2>2, Prints3 DEF TypeOK, Ended, Indices
<1>14. CASE LinkPrint
  <2>1. i \in Files /\ i + 1 \in 0 .. Len(req.modules)
    BY <1>14, <1>i, Prints3
  <2>2. out' \in [Files -> Listing \cup SavedIR \cup {NoFile, Empty}]
    BY <1>14, <2>1, Prints3, PrintingTypes
  <2> QED
    BY <1>14, <2>1, <2>2, Prints3 DEF TypeOK, Ended, Indices
<1>15. CASE LinkReturns
  BY <1>15 DEF LinkReturns, Leave, TypeOK, Ended, Indices
<1>16. CASE LinkThrows
  BY <1>16 DEF LinkThrows, TypeOK, Ended, Indices
<1>17. CASE BeginTool
  BY <1>17 DEF BeginTool, Addressed, TypeOK, Ended, Indices
<1>18. CASE ToolLayOut
  <2>1. i + 1 \in 0 .. Len(req.modules) /\ i + 1 \in Indices
    BY <1>18, <1>i DEF ToolLayOut, AtToolModule
  <2>2. valid' \subseteq Indices
    BY <1>18, <2>1 DEF ToolLayOut, TypeOK
  <2> QED
    BY <1>18, <2>1, <2>2 DEF ToolLayOut, TypeOK, Ended, Indices
<1>19. CASE ToolFails
  <2>1. i + 1 \in 0 .. Len(req.modules) /\ i + 1 \in Indices
    BY <1>19, <1>i DEF ToolFails, AtToolModule
  <2>2. valid' \subseteq Indices
    BY <1>19, <2>1 DEF ToolFails, TypeOK
  <2> QED
    BY <1>19, <2>1, <2>2 DEF ToolFails, Leave, TypeOK, Ended, Indices
<1>20. CASE ToolRemove
  <2>1. i + 1 \in 0 .. Len(req.modules) /\ i + 1 \in Indices
    BY <1>20, <1>i DEF ToolRemove, AtToolModule
  <2>2. valid' \subseteq Indices
    BY <1>20, <2>1 DEF ToolRemove, TypeOK
  <2> QED
    BY <1>20, <2>1, <2>2 DEF ToolRemove, TypeOK, Ended, Indices
<1>21. CASE ToolSave
  <2>1. PICK whole \in BOOLEAN, noticed \in BOOLEAN :
          /\ out' = [out EXCEPT ![ToolFile] = [holds |-> "IR", valid |-> valid, whole |-> whole]]
          /\ Leave(IF ~whole /\ noticed THEN 1 ELSE 0)
    BY <1>21 DEF ToolSave
  <2>2. [holds |-> "IR", valid |-> valid, whole |-> whole] \in SavedIR
    BY DEF SavedIR, TypeOK
  <2>3. out' \in [Files -> Listing \cup SavedIR \cup {NoFile, Empty}]
    BY <2>1, <2>2 DEF TypeOK
  <2> QED
    BY <1>21, <2>1, <2>3 DEF ToolSave, Leave, TypeOK, Ended, Indices
<1>22. CASE ToolCannotOpen
  BY <1>22 DEF ToolCannotOpen, Leave, TypeOK, Ended, Indices
<1> QED
  BY <1>1, <1>2, <1>3, <1>4, <1>5, <1>6, <1>7, <1>8, <1>9, <1>10, <1>11, <1>12, <1>13, <1>14,
     <1>15, <1>16, <1>17, <1>18, <1>19, <1>20, <1>21, <1>22 DEF Next

(* A stutter keeps the types.                                               *)
LEMMA TypesStutter == TypeOK /\ UNCHANGED vars => TypeOK'
  BY DEF vars, TypeOK, Ended, Indices

(* The variables keep their types.                                          *)
THEOREM TypeCorrect == Spec => []TypeOK
<1>1. TypeOK /\ [Next]_vars => TypeOK'
  BY TypesStep, TypesStutter
<1> QED
  BY TypesInit, <1>1, PTL DEF Spec
-------------------------------------------------------------------------------
(* Which steps do what: where the program goes, ...                         *)
LEMMA Goes ==
  Next =>
    /\ req' = req
    /\ pc' = pc \/ Main \/ LayOut \/ Configure \/ BeginTool \/ Ended'
    /\ status' = status \/ pc' = "returned"
    /\ pc \notin {"returned", "threw", "undefined", "exited"}
<1> SUFFICES ASSUME Next
             PROVE  /\ req' = req
                    /\ pc' = pc \/ Main \/ LayOut \/ Configure \/ BeginTool \/ Ended'
                    /\ status' = status \/ pc' = "returned"
                    /\ pc \notin {"returned", "threw", "undefined", "exited"}
  OBVIOUS
<1>1. CASE WriteModule \/ WriteStdout \/ LinkPrint
  BY <1>1, Prints3 DEF Ended, AtModule
<1>2. CASE ~(WriteModule \/ WriteStdout \/ LinkPrint)
  BY <1>2 DEF Next, Register, Registers, Main, LoadFails, LayOut, Unsupported, Configure,
     NoFilename, NameThrows, AtModule, CannotOpen, AllWritten, NoSuchModule, LinkReturns,
     LinkThrows, BeginTool, AtToolModule, ToolLayOut, ToolFails, ToolRemove, ToolSave,
     ToolCannotOpen, Leave, Ended
<1> QED
  BY <1>1, <1>2

(* ... who changes printers and target, ...                                 *)
LEMMA Sets ==
  Next =>
    /\ \/ \E r \in Registrations : Register(r)
       \/ UNCHANGED <<pending, factories, defaults>>
    /\ Configure \/ UNCHANGED pp
<1>1. WriteModule \/ WriteStdout \/ LinkPrint =>
        UNCHANGED <<pending, factories, defaults, pp>>
  BY Prints3
<1> QED
  BY <1>1 DEF Next, Register, Registers, Main, LoadFails, LayOut, Unsupported, Configure,
     NoFilename, NameThrows, CannotOpen, AllWritten, NoSuchModule, LinkReturns, LinkThrows,
     BeginTool, ToolLayOut, ToolFails, ToolRemove, ToolSave, ToolCannotOpen, Leave

(* ... and who writes.                                                      *)
LEMMA Writes ==
  Next => WriteModule \/ WriteStdout \/ LinkPrint \/ ToolSave \/ out' = out
  BY DEF Next, Register, Registers, Main, LoadFails, LayOut, Unsupported, Configure,
     NoFilename, NameThrows, CannotOpen, AllWritten, NoSuchModule, LinkReturns, LinkThrows,
     BeginTool, ToolLayOut, ToolFails, ToolRemove, ToolCannotOpen, Leave

(* No file is a listing, nor is an empty one.                               *)
LEMMA Kinds == NoFile.holds = "no file" /\ Empty.holds = "nothing"
  BY DEF NoFile, Empty

(* One file is written at a time.                                           *)
LEMMA OneFile ==
  ASSUME TypeOK, NEW k, NEW x, out' = [out EXCEPT ![k] = x], NEW n \in Files
  PROVE  out'[n] = IF n = k THEN x ELSE out[n]
<1>1. DOMAIN out = Files
  BY DEF TypeOK
<1> QED
  BY <1>1

(* What the file that a module is printed to holds then.                    *)
LEMMA PrintedFile ==
  ASSUME TypeOK, NEW k, NEW m, Printing(k, m), NEW n \in Files
  PROVE  \/ n # k /\ out'[n] = out[n]
         \/ /\ n = k /\ ~(Found /\ factories[pp.target] # Null /\ m \in valid)
            /\ out'[n] = Empty /\ pc' \in {"undefined", "threw"}
         \/ /\ n = k /\ Found /\ factories[pp.target] # Null /\ m \in valid
            /\ out'[n].holds = "listing" /\ out'[n].module = m
            /\ out'[n].skip = SkipFunctions(factories[pp.target])
<1>1. CASE Found /\ factories[pp.target] # Null /\ m \in valid
  <2>1. PICK whole \in BOOLEAN :
          out' = [out EXCEPT ![k] =
                    [holds |-> "listing", module |-> m, by |-> factories[pp.target],
                     whole |-> whole, skip |-> SkipFunctions(factories[pp.target])]]
    BY <1>1 DEF Printing
  <2>2. out'[n] = IF n = k
                  THEN [holds |-> "listing", module |-> m, by |-> factories[pp.target],
                        whole |-> whole, skip |-> SkipFunctions(factories[pp.target])]
                  ELSE out[n]
    BY <2>1, OneFile
  <2> QED
    BY <1>1, <2>1, <2>2
<1>2. CASE ~(Found /\ factories[pp.target] # Null /\ m \in valid)
  <2>1. out' = [out EXCEPT ![k] = Empty] /\ pc' \in {"undefined", "threw"}
    BY <1>2 DEF Printing
  <2>2. out'[n] = IF n = k THEN Empty ELSE out[n]
    BY <2>1, OneFile
  <2> QED
    BY <1>2, <2>1, <2>2
<1> QED
  BY <1>1, <1>2

(* i counts modules, in the places where they are gone through.             *)
LEMMA Counts ==
  Next => i' = i \/ (i' = i + 1 /\ pc' = pc /\ pc \in {"files", "link", "tool"})
<1>1. WriteModule \/ WriteStdout \/ LinkPrint =>
        i' = i \/ (i' = i + 1 /\ pc' = pc /\ pc \in {"files", "link", "tool"})
  BY Prints3 DEF AtModule
<1> QED
  BY <1>1 DEF Next, Register, Registers, Main, LoadFails, LayOut, Unsupported, Configure,
     NoFilename, NameThrows, AtModule, CannotOpen, AllWritten, NoSuchModule, LinkReturns,
     LinkThrows, BeginTool, AtToolModule, ToolLayOut, ToolFails, ToolRemove, ToolSave,
     ToolCannotOpen, Leave

(* Who returns what.                                                        *)
LEMMA Returns ==
  Next /\ pc' = "returned" =>
    \/ /\ LoadFails \/ Unsupported \/ NoFilename \/ NoSuchModule \/ ToolFails \/ ToolCannotOpen
       /\ status' = 1 /\ out' = out
    \/ (AllWritten \/ LinkReturns) /\ status' = 0 /\ out' = out
    \/ WriteStdout /\ status' = 0
    \/ ToolSave
<1> SUFFICES ASSUME Next, pc' = "returned"
             PROVE  \/ /\ \/ LoadFails \/ Unsupported \/ NoFilename \/ NoSuchModule
                          \/ ToolFails \/ ToolCannotOpen
                       /\ status' = 1 /\ out' = out
                    \/ (AllWritten \/ LinkReturns) /\ status' = 0 /\ out' = out
                    \/ WriteStdout /\ status' = 0
                    \/ ToolSave
  OBVIOUS
<1>1. pc # "returned"
  BY Goes
<1>2. /\ LoadFails \/ Unsupported \/ NoFilename \/ NoSuchModule \/ ToolFails \/ ToolCannotOpen
           => status' = 1 /\ out' = out
      /\ AllWritten \/ LinkReturns => status' = 0 /\ out' = out
  BY DEF LoadFails, Unsupported, NoFilename, NoSuchModule, ToolFails, ToolCannotOpen,
         AllWritten, LinkReturns, Leave
<1>3. WriteModule \/ WriteStdout \/ LinkPrint => WriteStdout /\ status' = 0
  BY <1>1, Prints3 DEF AtModule
<1>4. ~(Main \/ LayOut \/ Configure \/ NameThrows \/ LinkThrows \/ BeginTool)
  BY DEF Main, LayOut, Configure, NameThrows, LinkThrows, BeginTool
<1>5. ~((\E r \in Registrations : Register(r)) \/ CannotOpen \/ ToolLayOut \/ ToolRemove)
  BY <1>1 DEF Register, Registers, CannotOpen, ToolLayOut, ToolRemove
<1> QED
  BY <1>2, <1>3, <1>4, <1>5 DEF Next

(* i is a number, and of a module while there are any.                      *)
LEMMA Counter == TypeOK => i \in Nat /\ i <= Len(req.modules) /\ Len(req.modules) \in Nat
<1>1. TypeOK => Len(req.modules) \in Nat /\ i \in 0 .. Len(req.modules)
  BY RequestTypes DEF TypeOK
<1> QED
  BY <1>1

(* Where the program is tells which program it is, and with what options.   *)
LEMMA ProgramsHold == Spec => [](TypeOK /\ Programs)
<1>1. Init => TypeOK /\ Programs
  BY TypesInit DEF Init, Programs, Unset
<1>2. TypeOK /\ Programs /\ [Next]_vars => (TypeOK /\ Programs)'
  <2> SUFFICES ASSUME TypeOK, Programs, [Next]_vars PROVE Programs'
    BY TypesStep, TypesStutter
  <2>1. CASE Next
    <3>1. CASE LayOut \/ Main \/ BeginTool
      BY <3>1 DEF Programs, LayOut, Main, BeginTool
    <3>2. CASE Configure
      <4>1. req.program \in {"pprinter", "binary", "layout"}
        BY DriverAssumption DEF TypeOK, RequestType
      <4> QED
        BY <3>2, <4>1 DEF Programs, Configure
    <3>3. CASE Ended' \/ pc' = pc
      BY <2>1, <3>3, Goes, Counts DEF Programs, Ended
    <3> QED
      BY <2>1, <3>1, <3>2, <3>3, Goes
  <2>2. CASE UNCHANGED vars
    BY <2>2 DEF vars, Programs
  <2> QED
    BY <2>1, <2>2
<1> QED
  BY <1>1, <1>2, PTL DEF Spec

(* A target that is chosen is registered, and stays so: no printer is taken *)
(* back, and what to keep and to skip is not told again.                    *)
LEMMA ChosenHolds == Spec => []Chosen
<1>1. Init => Chosen
  BY DEF Init, Chosen
<1>2. Chosen /\ [Next]_vars => Chosen'
  <2> SUFFICES ASSUME Chosen, [Next]_vars PROVE Chosen'
    OBVIOUS
  <2>1. CASE Next
    <3>1. CASE Configure
      BY <3>1 DEF Chosen, Configure, Registered, Configured, Found
    <3>2. CASE LayOut \/ Main \/ BeginTool
      BY <3>2 DEF Chosen, LayOut, Main, BeginTool
    <3>3. CASE Ended' \/ pc' = pc
      <4>1. CASE \E r \in Registrations : Register(r)
        BY <4>1 DEF Register, Registers, Chosen
      <4>2. CASE UNCHANGED <<factories, pp, req>>
        BY <3>3, <4>2 DEF Chosen, Found, Ended
      <4> QED
        BY <2>1, <3>1, <4>1, <4>2, Goes, Sets
    <3> QED
      BY <2>1, <3>1, <3>2, <3>3, Goes
  <2>2. CASE UNCHANGED vars
    BY <2>2 DEF vars, Chosen, Found
  <2> QED
    BY <2>1, <2>2
<1> QED
  BY <1>1, <1>2, PTL DEF Spec

(* "Print the given functions even if they are skipped by default":         *)
(* whatever the printers skip by default and however the initialisers ran,  *)
(* no listing leaves out a function that was to be kept, and each leaves    *)
(* out those to be skipped that were not to be kept.                        *)
THEOREM KeptFunctionsArePrinted == Spec => []KeepWins
<1>1. Init => KeepWins
  <2> SUFFICES ASSUME Init, NEW n \in Files PROVE ~Listed(n)
    BY DEF KeepWins
  <2>1. out[n] = NoFile
    BY DEF Init
  <2> QED
    BY <2>1, Kinds DEF Listed
<1>2. TypeOK /\ Chosen /\ KeepWins /\ [Next]_vars => KeepWins'
  <2> SUFFICES ASSUME TypeOK, Chosen, KeepWins, [Next]_vars,
                      NEW n \in Files, Listed(n)'
               PROVE  out'[n].skip \cap req'.keep = {} /\ req'.skip \ req'.keep \subseteq out'[n].skip
    BY DEF KeepWins
  <2>1. req' = req
    BY Goes DEF vars
  <2>2. ASSUME NEW k, NEW m, Printing(k, m), pp.keep = req.keep, pp.skip = req.skip
        PROVE  out'[n].skip \cap req.keep = {} /\ req.skip \ req.keep \subseteq out'[n].skip
    <3>1. CASE out'[n] = out[n]
      BY <3>1 DEF KeepWins, Listed
    <3>2. CASE out'[n] # out[n]
      <4>1. out'[n].skip = SkipFunctions(factories[pp.target])
        BY <2>2, <3>2, PrintedFile DEF Listed, Empty
      <4> QED
        BY <2>2, <4>1 DEF SkipFunctions
    <3> QED
      BY <3>1, <3>2
  <2>3. CASE WriteModule \/ WriteStdout \/ LinkPrint
    BY <2>1, <2>2, <2>3, Prints3 DEF Chosen, AtModule
  <2>4. CASE ToolSave
    <3>1. out'[n] = out[n]
      <4>1. PICK whole \in BOOLEAN :
              out' = [out EXCEPT ![ToolFile] = [holds |-> "IR", valid |-> valid, whole |-> whole]]
        BY <2>4 DEF ToolSave
      <4> QED
        BY <4>1, OneFile DEF Listed
    <3> QED
      BY <2>1, <3>1 DEF KeepWins, Listed
  <2>5. CASE out' = out
    BY <2>1, <2>5 DEF KeepWins, Listed
  <2> QED
    BY <2>3, <2>4, <2>5, Writes DEF vars
<1> QED
  BY TypeCorrect, ChosenHolds, <1>1, <1>2, PTL DEF Spec

(* No file is there before the first that is printed or saved, and all that *)
(* can be refused is refused before.                                        *)
LEMMA UntouchedHolds == Spec => [](Untouched /\ FailureTouchesNothing)
<1>1. Init => Untouched /\ FailureTouchesNothing
  BY DEF Init, Untouched, FailureTouchesNothing
<1>2. /\ TypeOK /\ Programs /\ Untouched /\ FailureTouchesNothing /\ [Next]_vars
      => (Untouched /\ FailureTouchesNothing)'
  <2> SUFFICES ASSUME TypeOK, Programs, Untouched, FailureTouchesNothing, [Next]_vars
               PROVE  Untouched' /\ FailureTouchesNothing'
    OBVIOUS
  <2>1. CASE WriteModule
    <3>1. pc' # "returned"
      BY <2>1, Prints3 DEF AtModule
    <3>2. pc' \notin {"static", "load", "target", "stdout", "tool"} /\ ~(pc' = "files" /\ i' = 0)
      <4>1. i \in Nat
        BY Counter
      <4>2. \/ i' = i + 1 /\ pc' = "files"
            \/ pc' \in {"exited", "undefined", "threw"}
        BY <2>1, Prints3 DEF AtModule
      <4> QED
        BY <4>1, <4>2
    <3> QED
      BY <3>1, <3>2 DEF Untouched, FailureTouchesNothing
  <2>2. CASE WriteStdout \/ LinkPrint
    BY <2>2, Prints3 DEF Programs, Untouched, FailureTouchesNothing, Unset
  <2>3. CASE ToolSave
    <3>1. PICK whole \in BOOLEAN, noticed \in BOOLEAN :
            /\ out' = [out EXCEPT ![ToolFile] = [holds |-> "IR", valid |-> valid, whole |-> whole]]
            /\ pc' = "returned" /\ status' = IF ~whole /\ noticed THEN 1 ELSE 0
      BY <2>3 DEF ToolSave, Leave
    <3>2. \A n \in Files : out[n] = NoFile
      BY <2>3 DEF ToolSave, Untouched
    <3>3. Untouched'
      BY <3>1 DEF Untouched
    <3>4. ASSUME status' = 1, NEW n \in Files
          PROVE  out'[n] = NoFile \/ (out'[n].holds = "IR" /\ ~out'[n].whole)
      BY <3>1, <3>2, <3>4, OneFile
    <3> QED
      BY <3>3, <3>4 DEF FailureTouchesNothing
  <2>4. CASE Next /\ ~(WriteModule \/ WriteStdout \/ LinkPrint \/ ToolSave)
    <3>0. out' = out
      BY <2>4, Writes
    <3>1. Untouched'
      <4>1. pc' \in {"static", "load", "target", "stdout", "tool"} \/ (pc' = "files" /\ i' = 0) =>
              pc \in {"static", "load", "target", "stdout", "tool"} \/ (pc = "files" /\ i = 0)
        BY <2>4, Goes, Counts, Counter DEF Main, LayOut, Configure, BeginTool, Ended
      <4> QED
        BY <3>0, <4>1 DEF Untouched
    <3>2. FailureTouchesNothing'
      <4>1. pc' = "returned" /\ status' = 1 =>
              LoadFails \/ Unsupported \/ NoFilename \/ NoSuchModule \/ ToolFails \/ ToolCannotOpen
        BY <2>4, Returns
      <4>2. LoadFails \/ Unsupported \/ NoFilename \/ NoSuchModule \/ ToolFails \/ ToolCannotOpen
              => \A n \in Files : out[n] = NoFile
        BY DEF Untouched, LoadFails, Unsupported, NoFilename, NoSuchModule, ToolFails,
               ToolCannotOpen, AtToolModule
      <4> QED
        BY <3>0, <4>1, <4>2 DEF FailureTouchesNothing
    <3> QED
      BY <3>1, <3>2
  <2>5. CASE UNCHANGED vars
    BY <2>5 DEF vars, Untouched, FailureTouchesNothing
  <2> QED
    BY <2>1, <2>2, <2>3, <2>4, <2>5
<1> QED
  BY TypeCorrect, ProgramsHold, <1>1, <1>2, PTL DEF Spec

(* A run that ends with an error status has written no listing and no whole *)
(* IR, whatever was asked and whatever failed.                              *)
THEOREM FailedRunsWriteNothing == Spec => []FailureTouchesNothing
  BY UntouchedHolds, PTL

(* What gtirb-layout has done is done for the modules in front of i, and so *)
(* for all when it saves.                                                   *)
LEMMA SavedStep ==
  /\ TypeOK /\ Programs /\ LaidOut /\ SavedMeansDone /\ Next
  => LaidOut' /\ SavedMeansDone'
<1> SUFFICES ASSUME TypeOK, Programs, LaidOut, SavedMeansDone, Next
             PROVE  LaidOut' /\ SavedMeansDone'
  OBVIOUS
<1>0. /\ req' = req /\ pc # "returned"
      /\ i \in Nat /\ i <= Len(req.modules) /\ Len(req.modules) \in Nat
      /\ Indices = 1 .. Len(req.modules) /\ Indices' = Indices /\ valid \subseteq Indices
  BY Goes, Counter, RequestTypes DEF TypeOK, Indices
<1>1. LaidOut'
  <2> SUFFICES ASSUME pc' = "tool" PROVE Done(valid)'
    BY DEF LaidOut
  <2>1. CASE BeginTool
    <3>1. i' = 0
      BY <2>1 DEF BeginTool, Programs
    <3> QED
      BY <3>1 DEF Done
  <2>2. CASE ToolLayOut
    <3>1. ~req.remove /\ i' = i + 1 /\ valid' = valid \cup {i + 1} /\ 1 .. i \subseteq valid
      BY <2>2 DEF ToolLayOut, AtToolModule, LaidOut, Done
    <3>2. 1 .. i + 1 \subseteq valid'
      BY <1>0, <3>1
    <3> QED
      BY <1>0, <3>1, <3>2 DEF Done
  <2>3. CASE ToolRemove
    <3>1. req.remove /\ i' = i + 1 /\ valid' = valid \ {i + 1} /\ valid \cap (1 .. i) = {}
      BY <2>3 DEF ToolRemove, AtToolModule, LaidOut, Done
    <3>2. valid' \cap (1 .. i + 1) = {}
      BY <1>0, <3>1
    <3> QED
      BY <1>0, <3>1, <3>2 DEF Done
  <2>4. CASE ~(BeginTool \/ ToolLayOut \/ ToolRemove)
    <3>1. pc = "tool"
      BY <2>4, Goes DEF Main, LayOut, Configure, Ended
    <3>2. i' = i /\ valid' = valid
      <4>1. ~(WriteModule \/ WriteStdout \/ LinkPrint)
        BY <3>1, Prints3 DEF AtModule
      <4> QED
        BY <2>4, <3>1, <4>1 DEF Next, Register, Registers, Main, LoadFails, LayOut, Unsupported,
           Configure, NoFilename, NameThrows, AtModule, CannotOpen, AllWritten, NoSuchModule,
           LinkReturns, LinkThrows, ToolFails, ToolSave, ToolCannotOpen, Leave
    <3> QED
      BY <1>0, <3>1, <3>2 DEF LaidOut, Done
  <2> QED
    BY <2>1, <2>2, <2>3, <2>4
<1>2. SavedMeansDone'
  <2> SUFFICES ASSUME req.program = "layout"
               PROVE  /\ \A n \in Files : out'[n].holds = "IR" =>
                           out'[n].valid = IF req.remove THEN {} ELSE Indices
                      /\ pc' = "returned" /\ status' = 0 => out'[ToolFile].holds = "IR"
    BY <1>0 DEF SavedMeansDone, ToolFile
  <2>0. ~(WriteModule \/ WriteStdout \/ LinkPrint \/ AllWritten \/ LinkReturns)
    BY Prints3 DEF AtModule, AllWritten, LinkReturns, Programs
  <2>1. CASE ToolSave
    <3>1. PICK whole \in BOOLEAN :
            out' = [out EXCEPT ![ToolFile] = [holds |-> "IR", valid |-> valid, whole |-> whole]]
      BY <2>1 DEF ToolSave
    <3>2. valid = IF req.remove THEN {} ELSE Indices
      <4>1. i = Len(req.modules) /\ Done(valid)
        BY <2>1 DEF ToolSave, LaidOut
      <4> QED
        BY <1>0, <4>1 DEF Done
    <3>3. ToolFile \in Files
      BY DriverAssumption DEF ToolFile, Files, Stdout
    <3>4. ASSUME NEW n \in Files, out'[n].holds = "IR"
          PROVE  out'[n].valid = IF req.remove THEN {} ELSE Indices
      BY <3>1, <3>2, <3>4, OneFile DEF SavedMeansDone
    <3>5. out'[ToolFile].holds = "IR"
      <4>1. out'[ToolFile] = [holds |-> "IR", valid |-> valid, whole |-> whole]
        BY <3>1, <3>3 DEF TypeOK
      <4> QED
        BY <4>1
    <3> QED
      BY <3>4, <3>5
  <2>2. CASE ~ToolSave
    <3>1. out' = out
      BY <2>0, <2>2, Writes
    <3>2. pc' = "returned" => status' = 1
      BY <2>0, <2>2, Returns
    <3> QED
      BY <3>1, <3>2 DEF SavedMeansDone
  <2> QED
    BY <2>1, <2>2
<1> QED
  BY <1>1, <1>2

(* What gtirb-layout saves is laid out in every module, or in none when     *)
(* that was asked for, and it succeeds only if it has saved something.      *)
THEOREM OnlyFinishedWorkIsSaved == Spec => []SavedMeansDone
<1>1. Init => LaidOut /\ SavedMeansDone
  <2> SUFFICES ASSUME Init PROVE SavedMeansDone
    BY DEF Init, LaidOut
  <2>1. \A n \in Files : out[n].holds # "IR"
    BY Kinds DEF Init
  <2> QED
    BY <2>1 DEF Init, SavedMeansDone
<1>2. LaidOut /\ SavedMeansDone /\ UNCHANGED vars => (LaidOut /\ SavedMeansDone)'
  BY DEF vars, LaidOut, Done, SavedMeansDone, Indices, ToolFile
<1> QED
  BY ProgramsHold, SavedStep, <1>1, <1>2, PTL DEF Spec
-------------------------------------------------------------------------------
(* The files in front of i stay, and the next one is of the next module.    *)
LEMMA OwnFilesStep ==
  TypeOK /\ Programs /\ Written /\ OwnFiles /\ Next => Written' /\ OwnFiles'
<1> SUFFICES ASSUME TypeOK, Programs, Written, OwnFiles, Next
             PROVE  Written' /\ OwnFiles'
  OBVIOUS
<1>0. /\ req' = req
      /\ i \in Nat /\ i <= Len(req.modules) /\ Len(req.modules) \in Nat /\ Len(req.modules) <= MaxModules
      /\ Indices = 1 .. Len(req.modules) /\ Indices' = Indices /\ MaxModules \in Nat
  BY Goes, Counter, RequestTypes, DriverAssumption DEF TypeOK, Indices
<1>1. ASSUME NEW n \in Files \ {Stdout}, Listed(n)'
      PROVE  out'[n].module = n + 1
  <2>1. CASE out'[n] = out[n]
    BY <1>1, <2>1 DEF OwnFiles, Listed
  <2>2. CASE WriteModule \/ LinkPrint
    <3>1. Printing(i, i + 1)
      BY <2>2, Prints3
    <3>2. out'[n] = out[n] \/ out'[n] = Empty \/ (n = i /\ out'[n].module = i + 1)
      BY <3>1, PrintedFile
    <3> QED
      BY <1>1, <2>1, <3>2, Kinds DEF Listed
  <2>3. CASE WriteStdout
    <3>1. Printing(Stdout, req.module + 1)
      BY <2>3, Prints3
    <3> QED
      BY <1>1, <2>1, <3>1, PrintedFile
  <2>4. CASE ToolSave
    <3>1. PICK whole \in BOOLEAN :
            out' = [out EXCEPT ![ToolFile] = [holds |-> "IR", valid |-> valid, whole |-> whole]]
      BY <2>4 DEF ToolSave
    <3> QED
      BY <1>1, <2>1, <3>1, OneFile DEF Listed
  <2> QED
    BY <2>1, <2>2, <2>3, <2>4, Writes
<1>2. Written'
  <2> SUFFICES ASSUME pc' = "files", NEW m \in 1 .. i'
               PROVE  m - 1 \in req.locked \/ Listed(m - 1)'
    BY <1>0 DEF Written
  <2>1. CASE WriteModule
    <3>1. Printing(i, i + 1) /\ i' = i + 1 /\ pc = "files" /\ i < Len(req.modules)
      BY <2>1, Prints3 DEF AtModule
    <3>2. m - 1 \in Files /\ (m = i + 1 \/ m \in 1 .. i)
      BY <1>0, <3>1 DEF Files, Stdout
    <3>3. CASE m = i + 1
      <4>1. i \in Files /\ m - 1 = i
        BY <1>0, <3>2, <3>3
      <4>2. out'[i].holds = "listing"
        BY <3>1, <4>1, PrintedFile
      <4> QED
        BY <4>1, <4>2 DEF Listed
    <3>4. CASE m \in 1 .. i
      <4>1. m - 1 # i
        BY <1>0, <3>4
      <4>2. out'[m - 1] = out[m - 1]
        BY <3>1, <3>2, <4>1, PrintedFile
      <4> QED
        BY <3>1, <3>4, <4>2 DEF Written, Listed
    <3> QED
      BY <3>2, <3>3, <3>4
  <2>2. CASE CannotOpen
    <3>1. i' = i + 1 /\ i \in req.locked /\ out' = out /\ pc = "files"
      BY <2>2 DEF CannotOpen, AtModule
    <3>2. m - 1 = i \/ m \in 1 .. i
      BY <1>0, <3>1
    <3> QED
      BY <3>1, <3>2 DEF Written, Listed
  <2>3. CASE Configure
    BY <1>0, <2>3 DEF Configure, Programs
  <2>4. CASE ~(WriteModule \/ CannotOpen \/ Configure)
    <3>1. pc = "files"
      BY <2>4, Goes DEF Main, LayOut, BeginTool, Ended
    <3>2. i' = i /\ out' = out
      <4>1. ~(WriteStdout \/ LinkPrint)
        BY <3>1, Prints3
      <4> QED
        BY <2>4, <3>1, <4>1 DEF Next, Register, Registers, Main, LoadFails, LayOut, Unsupported,
           NoFilename, NameThrows, AllWritten, NoSuchModule, LinkReturns, LinkThrows, BeginTool,
           AtToolModule, ToolLayOut, ToolFails, ToolRemove, ToolSave, ToolCannotOpen, Leave
    <3> QED
      BY <3>1, <3>2 DEF Written, Listed
  <2> QED
    BY <2>1, <2>2, <2>3, <2>4
<1>3. ASSUME pc' = "returned", status' = 0, req.program = "pprinter", req.output # None
      PROVE  \A m \in Indices : m - 1 \in req.locked \/ Listed(m - 1)'
  <2>1. AllWritten
    <3>1. ~(LinkReturns \/ WriteStdout \/ ToolSave)
      BY <1>3, Prints3 DEF Programs, LinkReturns, ToolSave
    <3> QED
      BY <1>3, <3>1, Returns
  <2> QED
    BY <1>0, <2>1 DEF AllWritten, Written, Listed
<1> QED
  BY <1>0, <1>1, <1>2, <1>3 DEF OwnFiles

(* The file with the index n, counted from 0 as getAsmFileName does, has    *)
(* the listing of module n + 1, and when all went well each module has one, *)
(* but for the files that could not be opened.                              *)
THEOREM EachModuleHasItsFile == Spec => []OwnFiles
<1>1. Init => Written /\ OwnFiles
  <2> SUFFICES ASSUME Init PROVE Written /\ OwnFiles
    OBVIOUS
  <2>1. \A n \in Files : ~Listed(n)
    BY Kinds DEF Init, Listed
  <2> QED
    BY <2>1 DEF Init, Written, OwnFiles
<1>2. Written /\ OwnFiles /\ UNCHANGED vars => (Written /\ OwnFiles)'
  BY DEF vars, Written, OwnFiles, Listed, Indices
<1> QED
  BY ProgramsHold, OwnFilesStep, <1>1, <1>2, PTL DEF Spec
-------------------------------------------------------------------------------
(* Nobody is registered with a null pointer then.                           *)
NoNull == \A t \in Target : factories[t] # Null

(* No printer is ever null then.                                            *)
LEMMA NoNullHolds == ASSUME OnePairEach PROVE Spec => []NoNull
<1>1. Init => NoNull
  BY DEF Init, NoNull, Absent, Null
<1>2. NoNull /\ [Next]_vars => NoNull'
  <2> SUFFICES ASSUME NoNull, [Next]_vars PROVE NoNull'
    OBVIOUS
  <2>1. CASE factories' = factories
    BY <2>1 DEF NoNull
  <2>2. ASSUME NEW r \in Registrations, Register(r) PROVE NoNull'
    <3>1. Pairs(r) = {FirstPair(r)}
      <4>1. Len(r.formats) = 1 /\ Len(r.syntaxes) = 1
        BY DEF OnePairEach
      <4>2. DOMAIN r.formats = {1} /\ DOMAIN r.syntaxes = {1}
        BY <4>1, DriverAssumption DEF Registration
      <4> QED
        BY <4>2 DEF Pairs, FirstPair
    <3>2. r.factory # Null
      BY DriverAssumption DEF Registration
    <3> QED
      BY <2>2, <3>1, <3>2 DEF Register, Registers, NoNull
  <2> QED
    BY <2>1, <2>2, Sets DEF vars
<1> QED
  BY <1>1, <1>2, PTL DEF Spec

(* Addresses are made, and taken away, before anything is printed.          *)
LEMMA AddressesFirst == Next => valid' = valid \/ (pc \in {"load", "tool"} /\ out' = out)
<1>1. WriteModule \/ WriteStdout \/ LinkPrint => valid' = valid
  BY Prints3
<1> QED
  BY <1>1 DEF Next, Register, Registers, Main, LoadFails, LayOut, Unsupported, Configure,
     NoFilename, NameThrows, CannotOpen, AllWritten, NoSuchModule, LinkReturns, LinkThrows,
     BeginTool, AtToolModule, ToolLayOut, ToolFails, ToolRemove, ToolSave, ToolCannotOpen, Leave

(* Whatever the order of the initialisers and the options, there is a       *)
(* printer behind each target that was accepted, if all registrations are   *)
(* of one pair: a file stays empty only for want of addresses.              *)
THEOREM AcceptedTargetHasPrinter == ASSUME OnePairEach PROVE Spec => []PrinterThere
<1>1. Init => PrinterThere
  BY Kinds DEF Init, PrinterThere
<1>2. /\ TypeOK /\ Chosen /\ NoNull /\ Untouched /\ PrinterThere /\ [Next]_vars
      => PrinterThere'
  <2> SUFFICES ASSUME TypeOK, Chosen, NoNull, Untouched, PrinterThere, [Next]_vars,
                      NEW n \in Files, out'[n] = Empty
               PROVE  valid' # Indices'
    BY DEF PrinterThere
  <2>0. Indices' = Indices
    BY Goes DEF vars, Indices
  <2>1. CASE UNCHANGED <<valid, out>>
    BY <2>0, <2>1 DEF PrinterThere
  <2>2. CASE Next /\ valid' # valid
    <3>1. out'[n] = NoFile
      BY <2>2, AddressesFirst DEF Untouched
    <3> QED
      BY <3>1, Kinds
  <2>3. ASSUME NEW k, NEW m \in Indices, Printing(k, m), Found, valid' = valid
        PROVE  valid' # Indices'
    <3>1. factories[pp.target] # Null
      BY <2>3 DEF NoNull, Found
    <3>2. out'[n] = out[n] \/ m \notin valid \/ out'[n].holds = "listing"
      BY <2>3, <3>1, PrintedFile
    <3> QED
      BY <2>0, <2>3, <3>2, Kinds DEF PrinterThere
  <2>4. CASE WriteModule \/ LinkPrint
    <3>1. Printing(i, i + 1) /\ i < Len(req.modules) /\ valid' = valid /\ pc \in {"files", "link"}
      BY <2>4, Prints3 DEF AtModule
    <3>2. i + 1 \in Indices
      <4>1. i \in Nat /\ Len(req.modules) \in Nat
        BY Counter
      <4>2. Indices = 1 .. Len(req.modules)
        BY RequestTypes DEF TypeOK
      <4> QED
        BY <3>1, <4>1, <4>2
    <3> QED
      BY <2>3, <3>1, <3>2 DEF Chosen
  <2>5. CASE WriteStdout
    <3>1. Printing(Stdout, req.module + 1) /\ valid' = valid /\ pc = "stdout" /\ HasIndex
      BY <2>5, Prints3
    <3>2. req.module + 1 \in Indices
      <4>1. Indices = 1 .. Len(req.modules) /\ Len(req.modules) \in Nat /\ req.module \in Int
        BY RequestTypes DEF TypeOK
      <4> QED
        BY <3>1, <4>1 DEF HasIndex
    <3> QED
      BY <2>3, <3>1, <3>2 DEF Chosen
  <2>6. CASE ToolSave
    <3>1. PICK whole \in BOOLEAN :
            out' = [out EXCEPT ![ToolFile] = [holds |-> "IR", valid |-> valid, whole |-> whole]]
      BY <2>6 DEF ToolSave
    <3>2. out'[n] = out[n] \/ out'[n] = [holds |-> "IR", valid |-> valid, whole |-> whole]
      BY <3>1, OneFile
    <3>3. out'[n] = out[n]
      <4>1. [holds |-> "IR", valid |-> valid, whole |-> whole].holds = "IR"
        OBVIOUS
      <4> QED
        BY <3>2, <4>1, Kinds
    <3>4. valid' = valid
      BY <2>6 DEF ToolSave
    <3> QED
      BY <2>0, <3>3, <3>4 DEF PrinterThere
  <2> QED
    BY <2>1, <2>2, <2>4, <2>5, <2>6, Writes DEF vars
<1> QED
  BY ProgramsHold, ChosenHolds, NoNullHolds, UntouchedHolds, <1>1, <1>2, PTL DEF Spec

(* Who has a default syntax has a printer for it, and who is the default of *)
(* a format gives it one, whatever registers after it.                      *)
LEMMA DefaultsHold == Spec => []Defaults
<1>1. Init => Defaults
  BY DEF Init, Defaults
<1>2. TypeOK /\ Defaults /\ [Next]_vars => Defaults'
  <2> SUFFICES ASSUME TypeOK, Defaults, [Next]_vars PROVE Defaults'
    OBVIOUS
  <2>0. req' = req /\ (pc' = pc \/ pc # "static" \/ pending = {})
    <3>1. Next /\ pc = "static" => Main \/ \E r \in Registrations : Register(r)
      <4>1. pc = "static" => ~(WriteModule \/ WriteStdout \/ LinkPrint)
        BY Prints3 DEF AtModule
      <4> QED
        BY <4>1 DEF Next, LoadFails, LayOut, Unsupported, Configure, NoFilename, NameThrows,
           AtModule, CannotOpen, AllWritten, NoSuchModule, LinkReturns, LinkThrows, BeginTool,
           AtToolModule, ToolLayOut, ToolFails, ToolRemove, ToolSave, ToolCannotOpen
    <3> QED
      BY <3>1, Goes DEF vars, Main, Register, Registers
  <2>1. ASSUME NEW r \in Registrations, Register(r) PROVE Defaults'
    <3> DEFINE s == r.syntaxes[Len(r.syntaxes)]
    <3>1. r.factory # Absent /\ r.factory \in Factory
      BY DriverAssumption DEF Registration
    <3>2. s \in Syntax /\ s # None /\ Len(r.syntaxes) \in DOMAIN r.syntaxes
      <4>1. r.syntaxes \in Seq(Syntax) /\ r.syntaxes # <<>>
        BY DriverAssumption DEF Registration
      <4>2. s \in Syntax /\ Len(r.syntaxes) \in DOMAIN r.syntaxes
        BY <4>1
      <4> QED
        BY <4>2, DriverAssumption
    <3>3. /\ pc = "static" /\ pc' = pc /\ pending' = pending \ {r}
          /\ factories' = [t \in Target |-> IF t = FirstPair(r) THEN r.factory
                                            ELSE IF t \in Pairs(r) THEN Null ELSE factories[t]]
          /\ defaults' = [f \in Format |->
               IF r.isDefault /\ \E n \in DOMAIN r.formats : r.formats[n] = f
               THEN s ELSE defaults[f]]
      BY <2>1 DEF Register, Registers
    <3>4. ASSUME NEW q \in Registrations \ pending', q.isDefault, req.program # "layout",
                 NEW f \in Range(q.formats)
          PROVE  defaults'[f] # None
      <4>1. f \in Format
        BY DriverAssumption DEF Registration, Range
      <4>2. CASE q = r
        BY <3>2, <3>3, <3>4, <4>1, <4>2 DEF Range
      <4>3. CASE q # r
        BY <3>2, <3>3, <3>4, <4>1, <4>3 DEF Defaults
      <4> QED
        BY <4>2, <4>3
    <3>5. ASSUME NEW f \in Format, defaults'[f] # None
          PROVE  factories'[<<f, defaults'[f]>>] # Absent
      <4>1. CASE r.isDefault /\ \E n \in DOMAIN r.formats : r.formats[n] = f
        <5>1. defaults'[f] = s /\ <<f, s>> \in Target /\ <<f, s>> \in Pairs(r)
          BY <3>2, <3>3, <4>1 DEF Pairs, Target
        <5> QED
          BY <3>1, <3>3, <5>1 DEF Absent, Null
      <4>2. CASE ~(r.isDefault /\ \E n \in DOMAIN r.formats : r.formats[n] = f)
        <5>1. defaults'[f] = defaults[f] /\ factories[<<f, defaults[f]>>] # Absent
          BY <3>3, <3>5, <4>2 DEF Defaults
        <5>2. <<f, defaults[f]>> \in Target
          BY <3>5, <5>1 DEF Target, TypeOK
        <5> QED
          BY <3>1, <3>3, <5>1, <5>2 DEF Absent, Null
      <4> QED
        BY <4>1, <4>2
    <3> QED
      BY <2>0, <3>3, <3>4, <3>5 DEF Defaults
  <2>2. CASE UNCHANGED <<pending, factories, defaults>>
    BY <2>0, <2>2 DEF Defaults
  <2> QED
    BY <2>1, <2>2, Sets DEF vars
<1> QED
  BY TypeCorrect, <1>1, <1>2, PTL DEF Spec

(* A run that fails although there is an IR with modules was asked for a    *)
(* target nobody registered, or for a file or a module that cannot be.      *)
LEMMA RefusedHolds == Spec => []Refused
<1>1. Init => Refused
  BY DEF Init, Refused
<1>2. TypeOK /\ Programs /\ Refused /\ [Next]_vars => Refused'
  <2> SUFFICES ASSUME Programs, Refused, [Next]_vars,
                      pc' = "returned", status' = 1, Loaded', req'.program # "layout"
               PROVE  ~Registered' \/ req'.output = "no filename" \/ (req'.output = None /\ ~HasIndex')
    BY DEF Refused
  <2>1. CASE UNCHANGED vars
    BY <2>1 DEF vars, Refused, Loaded, Registered, TargetChosen, FormatChosen, SyntaxChosen, HasIndex
  <2>2. CASE Next
    <3>1. req' = req
      BY <2>2, Goes
    <3>2. ~(LoadFails \/ ToolFails \/ ToolCannotOpen \/ ToolSave)
      BY <3>1 DEF LoadFails, Loaded, ToolFails, AtToolModule, ToolCannotOpen, ToolSave, Programs
    <3>3. Unsupported \/ NoFilename \/ NoSuchModule
      BY <2>2, <3>2, Returns
    <3>4. CASE Unsupported
      BY <3>4 DEF Unsupported, Leave, Registered, TargetChosen, FormatChosen, SyntaxChosen
    <3>5. CASE NoFilename
      BY <3>1, <3>5 DEF NoFilename
    <3>6. CASE NoSuchModule
      BY <3>1, <3>6 DEF NoSuchModule, Programs, HasIndex
    <3> QED
      BY <3>3, <3>4, <3>5, <3>6
  <2> QED
    BY <2>1, <2>2
<1> QED
  BY ProgramsHold, <1>1, <1>2, PTL DEF Spec

(* Whatever the order of the initialisers, a format that anybody is the     *)
(* default of has a default syntax, and a printer with it: an IR in such a  *)
(* format is never refused for want of one.                                 *)
THEOREM DefaultSyntaxWorks == Spec => []DefaultWorks
<1>1. TypeOK /\ Defaults /\ Refused => DefaultWorks
  <2> SUFFICES ASSUME TypeOK, Defaults, Refused,
                      pc = "returned", status = 1, Loaded, req.syntax = None,
                      req.program # "layout", ~Registered,
                      NEW r \in Registrations, r.isDefault, FormatChosen \in Range(r.formats)
               PROVE  FALSE
    BY DEF DefaultWorks, Refused
  <2>1. FormatChosen \in Format
    BY DriverAssumption DEF Registration, Range
  <2>2. defaults[FormatChosen] # None
    BY DEF Defaults
  <2>3. factories[<<FormatChosen, defaults[FormatChosen]>>] # Absent
    BY <2>1, <2>2 DEF Defaults
  <2>4. TargetChosen = <<FormatChosen, defaults[FormatChosen]>>
    BY <2>2 DEF TargetChosen, SyntaxChosen
  <2>5. TargetChosen \in Target
    BY <2>1, <2>2, <2>4 DEF TypeOK, Target
  <2> QED
    BY <2>3, <2>4, <2>5 DEF Registered
<1> QED
  BY TypeCorrect, DefaultsHold, RefusedHolds, <1>1, PTL
===============================================================================
