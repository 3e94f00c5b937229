----------------------------- MODULE BinaryPrinter -----------------------------
(***************************************************************************)
(* ElfBinaryPrinter::link: every module of the IR is printed to a          *)
(* temporary file, and a compiler makes a binary of these files.  Several  *)
(* processes may be at it at the same time; they share the directory of    *)
(* the temporary files.                                                    *)
(*                                                                         *)
(* The modules are printed by a PrettyPrinter, which may end the process   *)
(* with exit(1), and the libraries are searched as in LibrarySearch, which *)
(* may throw.                                                              *)
(***************************************************************************)
EXTENDS Integers, Sequences

CONSTANTS
  Proc,      \* processes, each in one call of link
  NMod,      \* the number of modules in the IR of each process
  TempName,  \* the names mkstemps can come up with
  Compilers  \* whether search_path finds the compiler: a subset of BOOLEAN

ASSUME NModAssumption == NMod \in [Proc -> Nat]

Absent == [by |-> "nobody"]

ASSUME ProcAssumption == Absent.by \notin Proc

(* A file was created by a process and holds a listing of a module, whole   *)
(* or cut off because it could not be written, or nothing yet.              *)
File ==
  [by : Proc, holds : {"nothing"}]
    \cup [by : Proc, holds : {"whole", "part"}, of : Proc \X Nat]

VARIABLES
  tmp,      \* the temporary directory
  pc,       \* where each process is in link
  files,    \* tempFiles: each element's name, whether its stream is good, and
            \* whether mkstemps made the file, which the program does not know
  sources,  \* tempFileNames
  gone,     \* how many elements of tempFiles are destroyed
  result    \* what link returns

vars == <<tmp, pc, files, sources, gone, result>>

Init ==
  /\ tmp = [n \in TempName |-> Absent]
  /\ pc = [p \in Proc |-> "construct"]
  /\ files = [p \in Proc |-> <<>>]
  /\ sources = [p \in Proc |-> <<>>]
  /\ gone = [p \in Proc |-> 0]
  /\ result = [p \in Proc |-> 0]

Goto(p, l) == pc' = [pc EXCEPT ![p] = l]

(* Return from link with r: the local tempFiles is destroyed. *)
Leave(p, r) == result' = [result EXCEPT ![p] = r] /\ Goto(p, "destroy")

Created(p)    == [by |-> p, holds |-> "nothing"]
Constructed(p) == Len(files[p]) = NMod[p]

-------------------------------------------------------------------------------
(* Mutant of TempFile: the name is made up without creating the file.       *)
TempFile_NotExclusive(p) ==
  /\ pc[p] = "construct" /\ ~Constructed(p)
  /\ \E n \in TempName :
       /\ tmp' = [tmp EXCEPT ![n] = Created(p)]
       /\ files' = [files EXCEPT ![p] = Append(@, [name |-> n, good |-> TRUE, made |-> TRUE])]
  /\ UNCHANGED <<pc, sources, gone, result>>

(* The constructor.  mkstemps creates a file that was not there; if it      *)
(* fails, which nothing checks, the name is one it tried last, of no file.  *)
(* Opening the stream would create the file, but may fail as well.          *)
TempFile(p) ==
  /\ pc[p] = "construct" /\ ~Constructed(p)
  /\ \E n \in {n \in TempName : tmp[n] = Absent}, made, good \in BOOLEAN :
       /\ tmp' = IF made \/ good THEN [tmp EXCEPT ![n] = Created(p)] ELSE tmp
       /\ files' = [files EXCEPT ![p] = Append(@, [name |-> n, good |-> good, made |-> made])]
  /\ UNCHANGED <<pc, sources, gone, result>>

BeginPrinting(p) ==
  /\ pc[p] = "construct" /\ Constructed(p)
  /\ Goto(p, "print")
  /\ UNCHANGED <<tmp, files, sources, gone, result>>

Current(p) == Len(sources[p]) + 1

(* pp.print and close.  Neither the stream nor the result of print is       *)
(* looked at: a listing that was cut off goes unnoticed.                    *)
PrintModule(p) ==
  /\ pc[p] = "print" /\ Current(p) <= NMod[p]
  /\ files[p][Current(p)].good
  /\ \E holds \in {"whole", "part"} :
       tmp' = [tmp EXCEPT ![files[p][Current(p)].name] =
                 IF @.by = p THEN [by |-> p, holds |-> holds, of |-> <<p, Current(p)>>]
                 ELSE @]  \* a file that was removed or replaced meanwhile
  /\ sources' = [sources EXCEPT ![p] = Append(@, files[p][Current(p)].name)]
  /\ UNCHANGED <<pc, files, gone, result>>

(* Mutant of NotWritable: the module is left out.                           *)
NotWritable_Skip(p) ==
  /\ pc[p] = "print" /\ Current(p) <= NMod[p]
  /\ ~files[p][Current(p)].good
  /\ Goto(p, "compile")
  /\ UNCHANGED <<tmp, files, sources, gone, result>>

(* "ERROR: Could not write assembly into a temporary file." *)
NotWritable(p) ==
  /\ pc[p] = "print" /\ Current(p) <= NMod[p]
  /\ ~files[p][Current(p)].good
  /\ Leave(p, -1)
  /\ UNCHANGED <<tmp, files, sources, gone>>

(* print calls exit(1), which destroys no local variable of any caller.     *)
PrintExits(p) ==
  /\ pc[p] = "print" /\ Current(p) <= NMod[p]
  /\ files[p][Current(p)].good
  /\ Goto(p, "exited")
  /\ UNCHANGED <<tmp, files, sources, gone, result>>

FindCompiler(p) ==
  /\ pc[p] = "print" /\ Current(p) > NMod[p]
  /\ \/ TRUE \in Compilers /\ Goto(p, "compile") /\ UNCHANGED result
     \/ FALSE \in Compilers /\ Leave(p, -1)
  /\ UNCHANGED <<tmp, files, sources, gone>>

(* buildCompilerArgs throws.  Nobody catches, and the program is terminated *)
(* without unwinding the stack or after it, as the implementation decides.  *)
ArgsThrow(p) ==
  /\ pc[p] = "compile"
  /\ \/ Goto(p, "exited") /\ UNCHANGED result
     \/ Leave(p, -1)
  /\ UNCHANGED <<tmp, files, sources, gone>>

(* bp::system waits for the compiler, which reads the files.                *)
Compile(p) ==
  /\ pc[p] = "compile"
  /\ \E r \in {0, 1} : Leave(p, r)
  /\ UNCHANGED <<tmp, files, sources, gone>>

(* Mutant of Destroy: the file is removed if link printed to it.            *)
Destroy_Printed(p) ==
  /\ pc[p] = "destroy" /\ gone[p] < Len(files[p])
  /\ LET f == files[p][gone[p] + 1]
     IN  tmp' = IF f.good THEN [tmp EXCEPT ![f.name] = Absent] ELSE tmp
  /\ gone' = [gone EXCEPT ![p] = @ + 1]
  /\ UNCHANGED <<pc, files, sources, result>>

(* Mutant of Destroy: every other element is left out.                      *)
Destroy_EveryOther(p) ==
  /\ pc[p] = "destroy" /\ gone[p] < Len(files[p])
  /\ tmp' = [tmp EXCEPT ![files[p][gone[p] + 1].name] = Absent]
  /\ gone' = [gone EXCEPT ![p] = @ + 2]
  /\ UNCHANGED <<pc, files, sources, result>>

(* The destructor of an element removes its file if there is one.           *)
Destroy(p) ==
  /\ pc[p] = "destroy" /\ gone[p] < Len(files[p])
  /\ tmp' = [tmp EXCEPT ![files[p][gone[p] + 1].name] = Absent]
  /\ gone' = [gone EXCEPT ![p] = @ + 1]
  /\ UNCHANGED <<pc, files, sources, result>>

Return(p) ==
  /\ pc[p] = "destroy" /\ gone[p] = Len(files[p])
  /\ Goto(p, "returned")
  /\ UNCHANGED <<tmp, files, sources, gone, result>>

Step(p) ==
  \/ TempFile(p) \/ BeginPrinting(p) \/ PrintModule(p) \/ NotWritable(p)
  \/ PrintExits(p) \/ FindCompiler(p) \/ ArgsThrow(p) \/ Compile(p)
  \/ Destroy(p) \/ Return(p)

Next == \E p \in Proc : Step(p)

Spec == Init /\ [][Next]_vars
-------------------------------------------------------------------------------
(* Type invariant.                                                          *)
TypeOK ==
  /\ tmp \in [TempName -> File \cup {Absent}]
  /\ pc \in [Proc -> {"construct", "print", "compile", "destroy", "returned", "exited"}]
  /\ files \in [Proc -> Seq([name : TempName, good : BOOLEAN, made : BOOLEAN])]
  /\ sources \in [Proc -> Seq(TempName)]
  /\ gone \in [Proc -> Nat] /\ \A p \in Proc : gone[p] <= Len(files[p])
  /\ result \in [Proc -> {-1, 0, 1}]

(* Up to now mkstemps has worked.  If it fails, the name that is left can   *)
(* be drawn by another process, whose file the destructor would remove.     *)
MkstempsWorked == \A p \in Proc : \A i \in DOMAIN files[p] : files[p][i].made

(* The compiler gets the listings of all modules of its own process, in the *)
(* order of the modules, whatever other processes do.                       *)
OwnListings ==
  MkstempsWorked =>
    \A p \in Proc : pc[p] = "compile" =>
      /\ Len(sources[p]) = NMod[p]
      /\ \A i \in 1 .. NMod[p] :
           /\ tmp[sources[p][i]].by = p
           /\ tmp[sources[p][i]].holds # "nothing" /\ tmp[sources[p][i]].of = <<p, i>>

(* However link returns, it leaves no file behind: not those printed, nor   *)
(* those that never were, nor any of which only the name was used.          *)
CleansUp ==
  \A p \in Proc : pc[p] = "returned" => \A n \in TempName : tmp[n].by # p

(* A file changes only when the process that created it takes a step.       *)
OthersUntouched ==
  [][MkstempsWorked =>
       \A n \in TempName : tmp[n] # Absent /\ tmp'[n] # tmp[n] =>
         \E p \in Proc :
           /\ p = tmp[n].by
           /\ <<pc'[p], files'[p], sources'[p], gone'[p]>>
                # <<pc[p], files[p], sources[p], gone[p]>>
    ]_vars

Ended(p) == pc[p] \in {"returned", "exited"}

(* The comment on TempFile: "make sure we delete the temporary assembly     *)
(* file at the end".                                                        *)
TempFilesDeleted ==
  \A p \in Proc : Ended(p) => \A n \in TempName : tmp[n].by # p
===============================================================================
