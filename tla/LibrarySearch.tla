----------------------------- MODULE LibrarySearch -----------------------------
(***************************************************************************)
(* ElfBinaryPrinter::buildCompilerArgs: the libraries a binary needs       *)
(* become arguments of the compiler.  A library named lib*.so* is left to  *)
(* the linker; any other one is searched by findLibrary, which follows     *)
(* symbolic links itself.  One action is one iteration of a loop.          *)
(*                                                                         *)
(* A path is a directory and a name.  A symbolic link holds a path, or     *)
(* just a name, which for the operating system is one in the directory of  *)
(* the link; findLibrary uses the text of the link as it is, so that it is *)
(* one in the working directory of the process.                            *)
(***************************************************************************)
EXTENDS Naturals, Sequences, SequencesExt

CONSTANTS
  Dir,      \* directories
  Cwd,      \* the working directory
  Name,     \* names of files
  Infix,    \* the names that match ^lib(.*)\.so.*
  Requests  \* what may be asked for, where: records of RequestType

ASSUME DirAssumption ==
  /\ IsFiniteSet(Dir) /\ IsFiniteSet(Name) /\ Name # {}
  /\ Cwd \in Dir /\ Infix \subseteq Name

Path == Dir \X Name

(* What is at a path: nothing, something of no use, a file, something that  *)
(* may not be looked at, or a link.                                         *)
Node ==
  [kind : {"none", "other", "file", "denied"}]
    \cup [kind : {"abs"}, to : Path] \cup [kind : {"rel"}, to : Name]

RequestType ==
  [user  : Seq(Dir),                                 \* userLibraryPaths
   mods  : Seq([libs : Seq(Name), paths : Seq(Dir)]),  \* Libraries, LibraryPaths
   files : [Path -> Node]]

ASSUME RequestsAssumption == Requests \subseteq RequestType

VARIABLES
  req,   \* the request; the file system stays as it is
  args,  \* the arguments for libraries and library paths
  k,     \* the library the outer loops are at
  ip,    \* the path the loop of findLibrary is at
  cur,   \* resolvedFilePath
  pc

vars == <<req, args, k, ip, cur, pc>>

(* Mutant of AllPaths: the paths of the binary come first. *)
AllPaths_BinaryFirst ==
  FlattenSeq([m \in DOMAIN req.mods |-> req.mods[m].paths]) \o req.user

(* allBinaryPaths *)
AllPaths == req.user \o FlattenSeq([m \in DOMAIN req.mods |-> req.mods[m].paths])

(* The libraries of all modules, in order. *)
Wanted == FlattenSeq([m \in DOMAIN req.mods |-> req.mods[m].libs])

Init ==
  /\ req \in Requests
  /\ args = <<>> /\ k = 1 /\ ip = 1
  /\ cur = CHOOSE p \in Path : TRUE
  /\ pc = "libraries"

Arg(kind, x) == [kind |-> kind, of |-> x]

(* The linker will look for it. *)
PassInfix ==
  /\ pc = "libraries" /\ k <= Len(Wanted) /\ Wanted[k] \in Infix
  /\ args' = Append(args, Arg("-l", Wanted[k]))
  /\ k' = k + 1
  /\ UNCHANGED <<req, ip, cur, pc>>

(* Mutant of CallFindLibrary: the search goes on where the last one ended.  *)
CallFindLibrary_GoOn ==
  /\ pc = "libraries" /\ k <= Len(Wanted) /\ Wanted[k] \notin Infix
  /\ pc' = "paths"
  /\ UNCHANGED <<req, args, k, ip, cur>>

CallFindLibrary ==
  /\ pc = "libraries" /\ k <= Len(Wanted) /\ Wanted[k] \notin Infix
  /\ pc' = "paths" /\ ip' = 1
  /\ UNCHANGED <<req, args, k, cur>>

TryPath ==
  /\ pc = "paths" /\ ip <= Len(AllPaths)
  /\ cur' = <<AllPaths[ip], Wanted[k]>>
  /\ pc' = "resolve"
  /\ UNCHANGED <<req, args, k, ip>>

(* is_symlink *)
IsLink(p) == req.files[p].kind \in {"abs", "rel"}

(* Where the link at p leads, if a name in it is one in home.               *)
Target(p, home) ==
  IF req.files[p].kind = "abs" THEN req.files[p].to ELSE <<home, req.files[p].to>>

(* read_symlink *)
FollowLink ==
  /\ pc = "resolve"
  /\ IsLink(cur) /\ cur' = Target(cur, Cwd)
  /\ UNCHANGED <<req, args, k, ip, pc>>

(* Mutant of Found: the loop moves on twice. *)
Found_Twice ==
  /\ pc = "resolve" /\ req.files[cur].kind = "file"
  /\ args' = Append(args, Arg("file", <<AllPaths[ip], Wanted[k]>>))
  /\ k' = k + 2 /\ pc' = "libraries"
  /\ UNCHANGED <<req, ip, cur>>

Found ==
  /\ pc = "resolve" /\ req.files[cur].kind = "file"
  /\ args' = Append(args, Arg("file", <<AllPaths[ip], Wanted[k]>>))
  /\ k' = k + 1 /\ pc' = "libraries"
  /\ UNCHANGED <<req, ip, cur>>

(* Mutant of NoFile: the loop does not move on. *)
NoFile_Same ==
  /\ pc = "resolve" /\ req.files[cur].kind \in {"none", "other"}
  /\ pc' = "paths"
  /\ UNCHANGED <<req, args, k, ip, cur>>

NoFile ==
  /\ pc = "resolve" /\ req.files[cur].kind \in {"none", "other"}
  /\ ip' = ip + 1 /\ pc' = "paths"
  /\ UNCHANGED <<req, args, k, cur>>

(* is_symlink throws, and nothing in buildCompilerArgs or link catches it.  *)
Throw ==
  /\ pc = "resolve" /\ req.files[cur].kind = "denied"
  /\ pc' = "threw"
  /\ UNCHANGED <<req, args, k, ip, cur>>

(* "ERROR: Could not find library"; the compiler is called all the same.    *)
NotFound ==
  /\ pc = "paths" /\ ip > Len(AllPaths)
  /\ k' = k + 1 /\ pc' = "libraries"
  /\ UNCHANGED <<req, args, ip, cur>>

(* The loops over userLibraryPaths and over each module's LibraryPaths.     *)
AddPaths ==
  /\ pc = "libraries" /\ k > Len(Wanted)
  /\ args' = args
       \o [i \in DOMAIN req.user |-> Arg("-L", req.user[i])]
       \o FlattenSeq([m \in DOMAIN req.mods |->
            FlattenSeq([i \in DOMAIN req.mods[m].paths |->
              <<Arg("-L", req.mods[m].paths[i]), Arg("-rpath", req.mods[m].paths[i])>>])])
  /\ pc' = "done"
  /\ UNCHANGED <<req, k, ip, cur>>

Next ==
  \/ PassInfix \/ CallFindLibrary \/ TryPath \/ FollowLink \/ Found \/ NoFile
  \/ Throw \/ NotFound \/ AddPaths

Spec == Init /\ [][Next]_vars

(* One call, that runs on. *)
FairSpec == Spec /\ WF_vars(Next)
-------------------------------------------------------------------------------
(* Type invariant.                                                          *)
TypeOK ==
  /\ req \in RequestType
  /\ args \in Seq([kind : {"-l"}, of : Name] \cup [kind : {"file"}, of : Path]
                  \cup [kind : {"-L", "-rpath"}, of : Dir])
  /\ k \in 1 .. Len(Wanted) + 1
  /\ ip \in 1 .. Len(AllPaths) + 1
  /\ cur \in Path
  /\ pc \in {"libraries", "paths", "resolve", "done", "threw"}
  /\ pc \in {"paths", "resolve"} => k <= Len(Wanted)
  /\ pc = "resolve" => ip <= Len(AllPaths)

(* Where the links from p end, if a name in a link at q is one in Home(q);  *)
(* a link again if they do not end.                                         *)
EndOf(p, Home(_)) ==
  LET after[n \in 0 .. Cardinality(Path)] ==
        IF n = 0 THEN p
        ELSE LET q == after[n - 1]
             IN  IF IsLink(q) THEN Target(q, Home(q)) ELSE q
  IN  after[Cardinality(Path)]

(* As the operating system opens p. *)
Opened(p) == EndOf(p, LAMBDA q : q[1])

LeadsToFile(p) == req.files[Opened(p)].kind = "file"

(* The search paths on which a library can be opened. *)
Places(lib) == {i \in DOMAIN AllPaths : LeadsToFile(<<AllPaths[i], lib>>)}

(* What a library should become. *)
Expected(lib) ==
  IF lib \in Infix THEN <<Arg("-l", lib)>>
  ELSE IF Places(lib) = {} THEN <<>>
  ELSE <<Arg("file", <<AllPaths[Min(Places(lib))], lib>>)>>

(* Links whose text means the same to findLibrary as to the system.         *)
TextIsPath ==
  \A p \in Path : req.files[p].kind = "rel" => p[1] = Cwd

Expectation == FlattenSeq([i \in DOMAIN Wanted |-> Expected(Wanted[i])])

(* The libraries among the arguments are those of es, in their order, and   *)
(* stand in front of all others.                                            *)
LibrariesAre(es) ==
  \A n \in 1 .. Len(args) + Len(es) :
    IF n <= Len(es) THEN n <= Len(args) /\ args[n] = es[n]
    ELSE n <= Len(args) => args[n].kind \notin {"-l", "file"}

(* Without relative links, each library is replaced by the first place on   *)
(* the search paths that leads to a file, and the order of the libraries,   *)
(* which matters to the linker, is kept.                                    *)
FirstMatch == pc = "done" /\ TextIsPath => LibrariesAre(Expectation)

(* The linker searches the libraries left to it in the same directories, in *)
(* the same order, as findLibrary those it looks for itself.                *)
SamePaths ==
  pc = "done" =>
    \E at \in [DOMAIN AllPaths -> {n \in DOMAIN args : args[n].kind = "-L"}] :
      /\ \A i, j \in DOMAIN AllPaths : i < j => at[i] < at[j]
      /\ \A n \in DOMAIN args : args[n].kind = "-L" => \E i \in DOMAIN AllPaths : at[i] = n
      /\ \A i \in DOMAIN AllPaths : args[at[i]].of = AllPaths[i]

(* The links, as findLibrary reads them, end. *)
NoCycle == \A p \in Path : ~IsLink(EndOf(p, LAMBDA q : Cwd))

(* The search comes to an end unless it runs into a cycle of links.         *)
Terminates == NoCycle ~> pc \in {"done", "threw"}

(* The comment in findLibrary: "check that if filePath is a symbolic link,  *)
(* it eventually leads to a regular file".                                  *)
LinksChecked == pc = "done" => LibrariesAre(Expectation)
===============================================================================
