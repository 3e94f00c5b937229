------------------------- MODULE BinaryPrinterProofs -------------------------
(***************************************************************************)
(* Proofs about BinaryPrinter, for any number of processes, of modules and *)
(* of names: link leaves no file behind when it returns, the compiler gets *)
(* the listings of its own process, and no process touches the file of     *)
(* another.  The last two are about a stretch of time in which mkstemps    *)
(* has worked; it only ever gets shorter (WorkedBefore).                   *)
(***************************************************************************)
EXTENDS BinaryPrinter, TLAPS

(* How far link has come, by where it is.                                   *)
Phases ==
  \A p \in Proc :
    /\ pc[p] \in {"construct", "print", "compile"} => gone[p] = 0
    /\ pc[p] = "construct" => Len(sources[p]) = 0
    /\ pc[p] \in {"print", "compile"} => Len(files[p]) = NMod[p]
    /\ pc[p] = "compile" => Len(sources[p]) = NMod[p]
    /\ pc[p] = "returned" => gone[p] = Len(files[p])

(* What the compiler is given are the names of tempFiles, in their order.   *)
Named ==
  \A p \in Proc :
    /\ Len(sources[p]) <= Len(files[p])
    /\ \A i \in 1 .. Len(sources[p]) : sources[p][i] = files[p][i].name

(* The elements of tempFiles that are not yet destroyed.                    *)
Alive(p) == gone[p] + 1 .. Len(files[p])

(* A file of a process is that of an element it has yet to destroy.         *)
Tracked ==
  \A p \in Proc, n \in TempName :
    tmp[n].by = p => \E i \in Alive(p) : files[p][i].name = n

(* And the other way round: such an element has a file of this process, and *)
(* no two of them have the same.                                            *)
Owned ==
  MkstempsWorked =>
    \A p \in Proc : \A i \in Alive(p) :
      /\ tmp[files[p][i].name].by = p
      /\ \A j \in Alive(p) : files[p][i].name = files[p][j].name => i = j

(* What was printed stays as it is until the compiler has it.               *)
Listed ==
  MkstempsWorked =>
    \A p \in Proc : pc[p] \in {"print", "compile"} =>
      \A i \in 1 .. Len(sources[p]) :
        /\ tmp[files[p][i].name].holds # "nothing"
        /\ tmp[files[p][i].name].of = <<p, i>>

-------------------------------------------------------------------------------
(* What TypeOK says of one file that is drawn, written or removed.          *)
LEMMA FileTypes ==
  ASSUME NEW p \in Proc, NEW holds \in {"whole", "part"}, NEW i \in Nat
  PROVE  /\ Created(p) \in File
         /\ [by |-> p, holds |-> holds, of |-> <<p, i>>] \in File
  BY DEF Created, File

(* An element of a sequence is of its type.                                 *)
LEMMA ElementType ==
  ASSUME NEW S, NEW s \in Seq(S), NEW i \in 1 .. Len(s)
  PROVE  s[i] \in S
  OBVIOUS

(* Appending keeps the type.                                                *)
LEMMA AppendType ==
  ASSUME NEW S, NEW s \in Seq(S), NEW e \in S
  PROVE  Append(s, e) \in Seq(S)
  OBVIOUS

(* A new file is that of the element that is appended to tempFiles.         *)
NewElement(p, n, made, good) ==
  /\ tmp[n] = Absent
  /\ tmp' = IF made \/ good THEN [tmp EXCEPT ![n] = Created(p)] ELSE tmp
  /\ files'[p] = Append(files[p], [name |-> n, good |-> good, made |-> made])
  /\ Len(files'[p]) = Len(files[p]) + 1
  /\ files'[p][Len(files[p]) + 1] = [name |-> n, good |-> good, made |-> made]
  /\ \A i \in 1 .. Len(files[p]) : files'[p][i] = files[p][i]
  /\ \A q \in Proc \ {p} : files'[q] = files[q]

(* TempFile makes such an element.                                          *)
LEMMA TempFileMakesOne ==
  ASSUME TypeOK, NEW p \in Proc, TempFile(p)
  PROVE  \E n \in TempName, made, good \in BOOLEAN : NewElement(p, n, made, good)
<1>1. PICK n \in TempName, made \in BOOLEAN, good \in BOOLEAN :
        /\ tmp[n] = Absent
        /\ tmp' = IF made \/ good THEN [tmp EXCEPT ![n] = Created(p)] ELSE tmp
        /\ files' = [files EXCEPT ![p] =
                      Append(@, [name |-> n, good |-> good, made |-> made])]
  BY DEF TempFile
<1> DEFINE f == [name |-> n, good |-> good, made |-> made]
<1>2. f \in [name : TempName, good : BOOLEAN, made : BOOLEAN]
  OBVIOUS
<1>3. files[p] \in Seq([name : TempName, good : BOOLEAN, made : BOOLEAN])
  BY DEF TypeOK
<1>4. files'[p] = Append(files[p], f) /\ \A q \in Proc \ {p} : files'[q] = files[q]
  BY <1>1 DEF TypeOK
<1> HIDE DEF f
<1>5. /\ Len(files'[p]) = Len(files[p]) + 1
      /\ files'[p][Len(files[p]) + 1] = f
      /\ \A i \in 1 .. Len(files[p]) : files'[p][i] = files[p][i]
  BY <1>2, <1>3, <1>4
<1> QED
  BY <1>1, <1>4, <1>5 DEF f, NewElement

(* The element whose stream gets a listing.                                 *)
LEMMA CurrentElement ==
  ASSUME TypeOK, Phases, NEW p \in Proc, PrintModule(p)
  PROVE  /\ Current(p) \in 1 .. Len(files[p])
         /\ files[p][Current(p)].name \in TempName
         /\ gone[p] = 0
<1>1. gone[p] = 0 /\ Len(files[p]) = NMod[p]
  BY DEF PrintModule, Phases
<1>2. Current(p) \in 1 .. Len(files[p])
  <2>1. Len(sources[p]) \in Nat
    BY DEF TypeOK
  <2> QED
    BY <1>1, <2>1, NModAssumption DEF PrintModule, Current
<1>3. files[p] \in Seq([name : TempName, good : BOOLEAN, made : BOOLEAN])
  BY DEF TypeOK
<1>4. files[p][Current(p)] \in [name : TempName, good : BOOLEAN, made : BOOLEAN]
  BY <1>2, <1>3, ElementType
<1> QED
  BY <1>1, <1>2, <1>4

(* The variables keep their types, and with them link is where Phases and   *)
(* Named say: an element that is printed to must be one that is there.      *)
Basics == TypeOK /\ Phases /\ Named

(* In the beginning there is no element yet.                                *)
LEMMA BasicsInit == Init => Basics
  BY NModAssumption DEF Init, Basics, TypeOK, Phases, Named

(* Every step of a process keeps them.                                      *)
LEMMA BasicsStep ==
  ASSUME Basics, NEW p \in Proc, Step(p)
  PROVE  Basics'
<1> USE NModAssumption DEF Basics
<1>1. CASE TempFile(p)
  <2>1. PICK n \in TempName, made \in BOOLEAN, good \in BOOLEAN : NewElement(p, n, made, good)
    BY <1>1, TempFileMakesOne
  <2>2. tmp' \in [TempName -> File \cup {Absent}]
    BY <2>1, FileTypes DEF NewElement, TypeOK
  <2>3. files' \in [Proc -> Seq([name : TempName, good : BOOLEAN, made : BOOLEAN])]
    <3>1. [name |-> n, good |-> good, made |-> made]
            \in [name : TempName, good : BOOLEAN, made : BOOLEAN]
      OBVIOUS
    <3>2. files'[p] \in Seq([name : TempName, good : BOOLEAN, made : BOOLEAN])
      <4>1. files[p] \in Seq([name : TempName, good : BOOLEAN, made : BOOLEAN])
        BY DEF TypeOK
      <4>2. Append(files[p], [name |-> n, good |-> good, made |-> made])
              \in Seq([name : TempName, good : BOOLEAN, made : BOOLEAN])
        BY <3>1, <4>1, AppendType
      <4> QED
        BY <2>1, <4>2 DEF NewElement
    <3>3. \A q \in Proc \ {p} : files'[q] = files[q]
      BY <2>1 DEF NewElement
    <3>4. files' = [q \in Proc |-> files'[q]]
      BY <1>1 DEF TempFile, TypeOK
    <3> QED
      BY <3>2, <3>3, <3>4 DEF TypeOK
  <2>4. \A q \in Proc : gone[q] <= Len(files'[q])
    <3>1. \A q \in Proc : Len(files[q]) \in Nat /\ gone[q] \in Nat /\ gone[q] <= Len(files[q])
      BY DEF TypeOK
    <3>2. \A q \in Proc : Len(files'[q]) >= Len(files[q])
      BY <2>1, <3>1 DEF NewElement
    <3>3. \A q \in Proc : Len(files'[q]) \in Nat
      BY <2>1, <3>1 DEF NewElement
    <3> QED
      BY <3>1, <3>2, <3>3
  <2>5. TypeOK'
    BY <1>1, <2>2, <2>3, <2>4 DEF TempFile, TypeOK
  <2>6. Phases'
    BY <1>1, <2>1 DEF TempFile, NewElement, Phases
  <2>7. Named'
    <3>1. sources' = sources
      BY <1>1 DEF TempFile
    <3>2. ASSUME NEW q \in Proc
          PROVE  /\ Len(files'[q]) >= Len(files[q])
                 /\ \A i \in 1 .. Len(files[q]) : files'[q][i] = files[q][i]
      <4>1. Len(files[q]) \in Nat
        BY DEF TypeOK
      <4> QED
        BY <2>1, <4>1 DEF NewElement
    <3>3. ASSUME NEW q \in Proc
          PROVE  /\ Len(sources'[q]) <= Len(files'[q])
                 /\ \A i \in 1 .. Len(sources'[q]) : sources'[q][i] = files'[q][i].name
      <4>1. /\ Len(sources[q]) \in Nat /\ Len(files[q]) \in Nat
            /\ Len(files'[q]) \in Nat
        BY <2>3 DEF TypeOK
      <4>2. /\ Len(sources[q]) <= Len(files[q])
            /\ \A i \in 1 .. Len(sources[q]) : sources[q][i] = files[q][i].name
        BY DEF Named
      <4> QED
        BY <3>1, <3>2, <4>1, <4>2
    <3> QED
      BY <3>3 DEF Named
  <2> QED
    BY <2>5, <2>6, <2>7
<1>2. CASE BeginPrinting(p)
  BY <1>2 DEF BeginPrinting, Constructed, Goto, TypeOK, Phases, Named
<1>3. CASE PrintModule(p)
  <2> DEFINE c == Current(p)
             f == files[p][c].name
  <2>1. c \in Nat /\ c \in 1 .. Len(files[p]) /\ f \in TempName
    <3>1. Current(p) \in Nat
      BY DEF Current, TypeOK
    <3> QED
      BY <1>3, <3>1, CurrentElement
  <2>2. PICK holds \in {"whole", "part"} :
          tmp' = [tmp EXCEPT ![f] = IF @.by = p THEN [by |-> p, holds |-> holds, of |-> <<p, c>>]
                                    ELSE @]
    BY <1>3 DEF PrintModule
  <2>3. tmp' \in [TempName -> File \cup {Absent}]
    BY <2>1, <2>2, FileTypes DEF TypeOK
  <2>4. sources' \in [Proc -> Seq(TempName)]
    BY <1>3, <2>1 DEF PrintModule, TypeOK
  <2>5. TypeOK'
    BY <1>3, <2>3, <2>4 DEF PrintModule, TypeOK
  <2>6. Phases'
    BY <1>3 DEF PrintModule, Phases, TypeOK
  <2>7. Named'
    BY <1>3, <2>1 DEF PrintModule, Current, Named, TypeOK
  <2> QED
    BY <2>5, <2>6, <2>7
<1>4. CASE NotWritable(p)
  BY <1>4 DEF NotWritable, Leave, Goto, TypeOK, Phases, Named
<1>5. CASE PrintExits(p)
  BY <1>5 DEF PrintExits, Goto, TypeOK, Phases, Named
<1>6. CASE FindCompiler(p)
  <2>1. TypeOK'
    BY <1>6 DEF FindCompiler, Leave, Goto, TypeOK
  <2>2. Phases'
    <3>1. Len(sources[p]) \in Nat
      BY DEF TypeOK
    <3>2. Len(sources[p]) = NMod[p]
      BY <1>6, <3>1 DEF FindCompiler, Current, Phases, Named
    <3> QED
      BY <1>6, <3>2 DEF FindCompiler, Leave, Goto, TypeOK, Phases
  <2>3. Named'
    BY <1>6 DEF FindCompiler, Named
  <2> QED
    BY <2>1, <2>2, <2>3
<1>7. CASE ArgsThrow(p)
  BY <1>7 DEF ArgsThrow, Leave, Goto, TypeOK, Phases, Named
<1>8. CASE Compile(p)
  <2>1. /\ UNCHANGED <<tmp, files, sources, gone>>
        /\ pc' = [pc EXCEPT ![p] = "destroy"]
        /\ \E r \in {0, 1} : result' = [result EXCEPT ![p] = r]
    BY <1>8 DEF Compile, Leave, Goto
  <2>2. TypeOK'
    BY <2>1 DEF TypeOK
  <2>3. Phases'
    BY <2>1 DEF TypeOK, Phases
  <2>4. Named'
    BY <2>1 DEF Named
  <2> QED
    BY <2>2, <2>3, <2>4
<1>9. CASE Destroy(p)
  <2>1. tmp' \in [TempName -> File \cup {Absent}]
    BY <1>9 DEF Destroy, TypeOK
  <2>2. gone' \in [Proc -> Nat] /\ \A q \in Proc : gone'[q] <= Len(files[q])
    BY <1>9 DEF Destroy, TypeOK
  <2>3. TypeOK'
    BY <1>9, <2>1, <2>2 DEF Destroy, TypeOK
  <2>4. Phases' /\ Named'
    BY <1>9 DEF Destroy, TypeOK, Phases, Named
  <2> QED
    BY <2>3, <2>4
<1>10. CASE Return(p)
  BY <1>10 DEF Return, Goto, TypeOK, Phases, Named
<1> QED
  BY <1>1, <1>2, <1>3, <1>4, <1>5, <1>6, <1>7, <1>8, <1>9, <1>10 DEF Step

(* So does a stutter.                                                       *)
LEMMA BasicsUnchanged == Basics /\ UNCHANGED vars => Basics'
<1> SUFFICES ASSUME Basics, UNCHANGED vars
             PROVE  Basics'
  OBVIOUS
<1>1. UNCHANGED <<tmp, pc, files, sources, gone, result>>
  BY DEF vars
<1>2. TypeOK'
  BY <1>1 DEF Basics, TypeOK
<1>3. Phases'
  BY <1>1 DEF Basics, Phases
<1>4. Named'
  BY <1>1 DEF Basics, Named
<1> QED
  BY <1>2, <1>3, <1>4 DEF Basics

(* The variables keep their types.                                          *)
THEOREM TypeCorrect == Spec => []TypeOK
<1>1. Basics /\ [Next]_vars => Basics'
  BY BasicsStep, BasicsUnchanged DEF Next
<1>2. Basics => TypeOK
  BY DEF Basics
<1> QED
  BY BasicsInit, <1>1, <1>2, PTL DEF Spec
-------------------------------------------------------------------------------
(* A file of nobody is nobody's; and a file that is there is known by who   *)
(* created it.                                                              *)
LEMMA Owners ==
  ASSUME TypeOK, NEW n \in TempName, tmp[n] # Absent
  PROVE  tmp[n].by \in Proc
  BY DEF TypeOK, File

(* An element yet to be destroyed is one of tempFiles.                      *)
LEMMA AliveElement ==
  ASSUME TypeOK, NEW p \in Proc, NEW i \in Alive(p)
  PROVE  /\ i \in 1 .. Len(files[p])
         /\ i \in Nat /\ gone[p] < i
         /\ files[p][i].name \in TempName
<1>1. gone[p] \in Nat /\ files[p] \in Seq([name : TempName, good : BOOLEAN, made : BOOLEAN])
  BY DEF TypeOK
<1>2. i \in 1 .. Len(files[p]) /\ i \in Nat /\ gone[p] < i
  BY <1>1 DEF Alive
<1>3. files[p][i] \in [name : TempName, good : BOOLEAN, made : BOOLEAN]
  BY <1>1, <1>2, ElementType
<1> QED
  BY <1>2, <1>3

(* In the beginning there is no file to track.                              *)
LEMMA TrackedInit == Init => Tracked
  BY ProcAssumption DEF Init, Tracked

(* A step keeps Tracked: only TempFile makes a file, and only Destroy takes *)
(* an element out of what is alive, with its file.                          *)
LEMMA TrackedStep ==
  ASSUME Basics, Tracked, NEW p \in Proc, Step(p)
  PROVE  Tracked'
<1> USE ProcAssumption DEF Basics
<1> SUFFICES ASSUME NEW q \in Proc, NEW n \in TempName, tmp'[n].by = q
             PROVE  \E i \in Alive(q)' : files'[q][i].name = n
  BY DEF Tracked
<1>1. CASE TempFile(p)
  <2>1. PICK m \in TempName, made \in BOOLEAN, good \in BOOLEAN : NewElement(p, m, made, good)
    BY <1>1, TempFileMakesOne
  <2>2. gone' = gone /\ gone[p] \in Nat /\ gone[p] <= Len(files[p]) /\ Len(files[p]) \in Nat
    BY <1>1 DEF TempFile, TypeOK
  <2>3. CASE tmp'[n] # tmp[n]
    <3>1. n = m /\ q = p
      BY <2>1, <2>3 DEF NewElement, Created, TypeOK
    <3>2. Len(files[p]) + 1 \in Alive(p)'
      BY <2>1, <2>2 DEF NewElement, Alive
    <3> QED
      BY <2>1, <3>1, <3>2 DEF NewElement
  <2>4. CASE tmp'[n] = tmp[n]
    <3>1. PICK i \in Alive(q) : files[q][i].name = n
      BY <2>4 DEF Tracked
    <3>2. i \in 1 .. Len(files[q]) /\ files'[q][i] = files[q][i]
      BY <2>1, AliveElement DEF NewElement
    <3>3. i \in Alive(q)'
      BY <2>1, <2>2, <3>2 DEF NewElement, Alive
    <3> QED
      BY <3>1, <3>2, <3>3
  <2> QED
    BY <2>3, <2>4
<1>2. CASE PrintModule(p)
  <2>1. tmp[n].by = q /\ files' = files /\ gone' = gone
    <3>1. files[p][Current(p)].name \in TempName
      BY <1>2, CurrentElement
    <3> QED
      BY <1>2, <3>1 DEF PrintModule, TypeOK
  <2> QED
    BY <2>1 DEF Tracked, Alive
<1>3. CASE Destroy(p)
  <2>1. gone[p] + 1 \in Alive(p)
    BY <1>3 DEF Destroy, Alive, TypeOK
  <2> DEFINE d == files[p][gone[p] + 1].name
  <2>2. d \in TempName
    BY <2>1, AliveElement
  <2>3. n # d /\ tmp[n].by = q
    BY <1>3, <2>2 DEF Destroy, TypeOK
  <2>4. PICK i \in Alive(q) : files[q][i].name = n
    BY <2>3 DEF Tracked
  <2>5. i \in Alive(q)'
    <3>1. i # gone[p] + 1 \/ q # p
      BY <2>3, <2>4
    <3>2. gone[q] \in Nat /\ Len(files[q]) \in Nat
      BY DEF TypeOK
    <3>3. files' = files /\ gone'[q] = IF q = p THEN gone[q] + 1 ELSE gone[q]
      BY <1>3 DEF Destroy, TypeOK
    <3> QED
      BY <3>1, <3>2, <3>3 DEF Alive
  <2> QED
    BY <1>3, <2>4, <2>5 DEF Destroy
<1>4. CASE UNCHANGED <<tmp, files, gone>>
  BY <1>4 DEF Tracked, Alive
<1>5. TempFile(p) \/ PrintModule(p) \/ Destroy(p) \/ UNCHANGED <<tmp, files, gone>>
  BY DEF Step, BeginPrinting, NotWritable, PrintExits, FindCompiler, ArgsThrow, Compile, Return
<1> QED
  BY <1>1, <1>2, <1>3, <1>4, <1>5

(* However link returns, and whether or not mkstemps worked, it leaves no   *)
(* file behind: each is tracked by an element that is not yet destroyed,    *)
(* and none is left when link has returned.                                 *)
THEOREM NothingLeft == Spec => []CleansUp
<1>1. Basics /\ Tracked /\ [Next]_vars => (Basics /\ Tracked)'
  <2>1. Basics /\ Tracked /\ UNCHANGED vars => (Basics /\ Tracked)'
    BY BasicsUnchanged DEF vars, Tracked, Alive
  <2> QED
    BY <2>1, BasicsStep, TrackedStep DEF Next
<1>2. Basics /\ Tracked => CleansUp
  <2> SUFFICES ASSUME Basics, Tracked, NEW p \in Proc, pc[p] = "returned",
                      NEW n \in TempName, tmp[n].by = p
               PROVE  FALSE
    BY DEF CleansUp
  <2>1. gone[p] = Len(files[p]) /\ gone[p] \in Nat
    BY DEF Basics, Phases, TypeOK
  <2>2. Alive(p) = {}
    BY <2>1 DEF Alive
  <2> QED
    BY <2>2 DEF Tracked
<1> QED
  BY BasicsInit, TrackedInit, <1>1, <1>2, PTL DEF Spec
-------------------------------------------------------------------------------
(* If mkstemps has worked, it had before: tempFiles only grows.             *)
LEMMA WorkedBefore ==
  ASSUME Basics, NEW p \in Proc, Step(p), MkstempsWorked'
  PROVE  MkstempsWorked
<1>1. CASE TempFile(p)
  <2>1. PICK n \in TempName, made \in BOOLEAN, good \in BOOLEAN : NewElement(p, n, made, good)
    BY <1>1, TempFileMakesOne DEF Basics
  <2> SUFFICES ASSUME NEW q \in Proc, NEW i \in DOMAIN files[q]
               PROVE  files[q][i].made
    BY DEF MkstempsWorked
  <2>2. Len(files[q]) \in Nat /\ i \in 1 .. Len(files[q])
    BY DEF Basics, TypeOK
  <2>3. files'[q] \in Seq([name : TempName, good : BOOLEAN, made : BOOLEAN])
    <3>1. Basics'
      BY BasicsStep
    <3> QED
      BY <3>1 DEF Basics, TypeOK
  <2>4. i \in DOMAIN files'[q] /\ files'[q][i] = files[q][i]
    BY <2>1, <2>2, <2>3 DEF NewElement
  <2> QED
    BY <2>4 DEF MkstempsWorked
<1>2. CASE files' = files
  BY <1>2 DEF MkstempsWorked
<1> QED
  BY <1>1, <1>2 DEF Step, BeginPrinting, PrintModule, NotWritable, PrintExits, FindCompiler,
                    ArgsThrow, Compile, Destroy, Return

(* The new element is the one mkstemps made the file of.                    *)
LEMMA WorkedNow ==
  ASSUME Basics, NEW p \in Proc, Step(p), MkstempsWorked',
         NEW n, NEW made \in BOOLEAN, NEW good, NewElement(p, n, made, good)
  PROVE  tmp' = [tmp EXCEPT ![n] = Created(p)]
<1>1. files'[p] \in Seq([name : TempName, good : BOOLEAN, made : BOOLEAN]) /\ Len(files[p]) \in Nat
  <2>1. TypeOK /\ TypeOK'
    BY BasicsStep DEF Basics
  <2>2. files'[p] \in Seq([name : TempName, good : BOOLEAN, made : BOOLEAN])
    BY <2>1 DEF TypeOK
  <2>3. files[p] \in Seq([name : TempName, good : BOOLEAN, made : BOOLEAN])
    BY <2>1 DEF TypeOK
  <2> QED
    BY <2>2, <2>3
<1>2. Len(files[p]) + 1 \in DOMAIN files'[p]
  BY <1>1 DEF NewElement
<1>3. files'[p][Len(files[p]) + 1].made
  BY <1>2 DEF MkstempsWorked
<1> QED
  BY <1>3 DEF NewElement

(* While link prints and compiles, all it has printed to is alive.          *)
LEMMA ListedAlive ==
  ASSUME Basics, NEW p \in Proc, pc[p] \in {"print", "compile"}, NEW i \in 1 .. Len(sources[p])
  PROVE  i \in Alive(p)
<1>1. gone[p] = 0 /\ Len(sources[p]) \in Nat /\ Len(files[p]) \in Nat /\ Len(sources[p]) <= Len(files[p])
  BY DEF Basics, Phases, Named, TypeOK
<1> QED
  BY <1>1 DEF Alive

(* In the beginning nothing is alive and nothing is printed.                *)
LEMMA OwnedInit == Init => Owned /\ Listed
  BY DEF Init, Owned, Listed, Alive

(* A step keeps Owned and Listed.  A new file was not there before, so it   *)
(* is of no element that is alive; a process prints to and removes files    *)
(* of its own only, and removes them when it has stopped printing.          *)
LEMMA OwnedStep ==
  ASSUME Basics, Owned, Listed, NEW p \in Proc, Step(p)
  PROVE  Owned' /\ Listed'
<1> USE ProcAssumption
<1> SUFFICES ASSUME MkstempsWorked'
             PROVE  /\ \A q \in Proc : \A i \in Alive(q)' :
                         /\ tmp'[files'[q][i].name].by = q
                         /\ \A j \in Alive(q)' :
                              files'[q][i].name = files'[q][j].name => i = j
                    /\ \A q \in Proc : pc'[q] \in {"print", "compile"} =>
                         \A i \in 1 .. Len(sources'[q]) :
                           /\ tmp'[files'[q][i].name].holds # "nothing"
                           /\ tmp'[files'[q][i].name].of = <<q, i>>
  BY DEF Owned, Listed
<1>0. MkstempsWorked /\ TypeOK
  BY WorkedBefore DEF Basics
<1>1. CASE TempFile(p)
  <2>1. PICK n \in TempName, made \in BOOLEAN, good \in BOOLEAN : NewElement(p, n, made, good)
    BY <1>0, <1>1, TempFileMakesOne
  <2>2. tmp' = [tmp EXCEPT ![n] = Created(p)] /\ tmp[n] = Absent
    BY <2>1, WorkedNow DEF NewElement
  <2>3. /\ gone' = gone /\ gone[p] \in Nat /\ Len(files[p]) \in Nat
        /\ pc' = pc /\ pc[p] = "construct" /\ sources' = sources
    BY <1>1, <1>0 DEF TempFile, TypeOK
  <2>4. ASSUME NEW q \in Proc, NEW i \in Alive(q)
        PROVE  /\ files'[q][i] = files[q][i] /\ files[q][i].name # n
               /\ tmp'[files[q][i].name] = tmp[files[q][i].name]
    <3>1. i \in 1 .. Len(files[q]) /\ files[q][i].name \in TempName
      BY <1>0, AliveElement
    <3>2. tmp[files[q][i].name].by = q
      BY <1>0 DEF Owned
    <3>3. files[q][i].name # n
      BY <2>2, <3>2
    <3>4. files'[q][i] = files[q][i]
      BY <2>1, <3>1 DEF NewElement
    <3> QED
      BY <1>0, <2>2, <3>1, <3>3, <3>4 DEF TypeOK
  <2>5. ASSUME NEW q \in Proc, NEW i \in Alive(q)', i \notin Alive(q)
        PROVE  q = p /\ i = Len(files[p]) + 1
    <3>1. gone[q] \in Nat /\ Len(files[q]) \in Nat
      BY <1>0 DEF TypeOK
    <3> QED
      BY <2>1, <2>3, <2>5, <3>1 DEF NewElement, Alive
  <2>6. files'[p][Len(files[p]) + 1].name = n /\ tmp'[n].by = p
    BY <1>0, <2>1, <2>2 DEF NewElement, Created, TypeOK
  <2>7. ASSUME NEW q \in Proc, NEW i \in Alive(q)'
        PROVE  /\ tmp'[files'[q][i].name].by = q
               /\ \A j \in Alive(q)' : files'[q][i].name = files'[q][j].name => i = j
    <3>1. CASE i \in Alive(q)
      BY <1>0, <2>4, <2>5, <2>6, <3>1 DEF Owned
    <3>2. CASE i \notin Alive(q)
      BY <2>4, <2>5, <2>6, <3>2
    <3> QED
      BY <3>1, <3>2
  <2>8. ASSUME NEW q \in Proc, pc'[q] \in {"print", "compile"}, NEW i \in 1 .. Len(sources'[q])
        PROVE  /\ tmp'[files'[q][i].name].holds # "nothing"
               /\ tmp'[files'[q][i].name].of = <<q, i>>
    <3>1. i \in Alive(q)
      BY <2>3, <2>8, ListedAlive
    <3>2. /\ tmp[files[q][i].name].holds # "nothing"
          /\ tmp[files[q][i].name].of = <<q, i>>
      BY <1>0, <2>3, <2>8 DEF Listed
    <3>3. tmp'[files'[q][i].name] = tmp[files[q][i].name]
      BY <2>4, <3>1
    <3> QED
      BY <3>2, <3>3
  <2> QED
    BY <2>7, <2>8
<1>2. CASE PrintModule(p)
  <2> DEFINE c == Current(p)
             f == files[p][c].name
  <2>1. c \in 1 .. Len(files[p]) /\ f \in TempName /\ gone[p] = 0 /\ Len(files[p]) \in Nat
    <3>1. Phases /\ Len(files[p]) \in Nat
      BY DEF Basics, TypeOK
    <3> QED
      BY <1>2, <1>0, <3>1, CurrentElement
  <2>2. c \in Alive(p)
    BY <2>1 DEF Alive
  <2>3. tmp[f].by = p
    BY <1>0, <2>2 DEF Owned
  <2>4. PICK holds \in {"whole", "part"} :
          tmp' = [tmp EXCEPT ![f] = [by |-> p, holds |-> holds, of |-> <<p, c>>]]
    BY <1>2, <2>3 DEF PrintModule
  <2>5. files' = files /\ gone' = gone /\ pc' = pc
    BY <1>2 DEF PrintModule
  <2>6. ASSUME NEW q \in Proc, NEW i \in Alive(q)
        PROVE  tmp'[files[q][i].name].by = q
    <3>1. files[q][i].name \in TempName /\ tmp[files[q][i].name].by = q
      BY <1>0, AliveElement DEF Owned
    <3> QED
      BY <1>0, <2>3, <2>4, <3>1 DEF TypeOK
  <2>7. ASSUME NEW q \in Proc, pc'[q] \in {"print", "compile"}, NEW i \in 1 .. Len(sources'[q])
        PROVE  /\ tmp'[files[q][i].name].holds # "nothing"
               /\ tmp'[files[q][i].name].of = <<q, i>>
    <3>1. CASE q = p /\ i = c
      BY <1>0, <2>1, <2>4, <3>1 DEF TypeOK
    <3>2. CASE ~(q = p /\ i = c)
      <4>1. i \in 1 .. Len(sources[q])
        <5>1. Len(sources[q]) \in Nat /\ sources[q] \in Seq(TempName)
          BY <1>0 DEF TypeOK
        <5>2. Len(sources'[q]) = IF q = p THEN Len(sources[p]) + 1 ELSE Len(sources[q])
          BY <1>0, <1>2, <2>1 DEF PrintModule, TypeOK
        <5> QED
          BY <3>2, <5>1, <5>2 DEF Current
      <4>2. i \in Alive(q)
        BY <2>5, <2>7, <4>1, ListedAlive
      <4>3. files[q][i].name \in TempName /\ tmp[files[q][i].name].by = q
        BY <1>0, <4>2, AliveElement DEF Owned
      <4>4. files[q][i].name # f
        <5>1. CASE q = p
          BY <1>0, <2>2, <3>2, <4>2, <5>1 DEF Owned
        <5>2. CASE q # p
          BY <2>3, <4>3, <5>2
        <5> QED
          BY <5>1, <5>2
      <4>5. tmp'[files[q][i].name] = tmp[files[q][i].name]
        BY <1>0, <2>4, <4>3, <4>4 DEF TypeOK
      <4> QED
        BY <1>0, <2>5, <2>7, <4>1, <4>5 DEF Listed
    <3> QED
      BY <3>1, <3>2
  <2>8. \A q \in Proc : Alive(q)' = Alive(q)
    BY <2>5 DEF Alive
  <2>9. ASSUME NEW q \in Proc, NEW i \in Alive(q)'
        PROVE  /\ tmp'[files'[q][i].name].by = q
               /\ \A j \in Alive(q)' : files'[q][i].name = files'[q][j].name => i = j
    <3>1. i \in Alive(q)
      BY <2>8, <2>9
    <3>2. tmp'[files'[q][i].name].by = q
      BY <2>5, <2>6, <3>1
    <3>3. \A j \in Alive(q) : files[q][i].name = files[q][j].name => i = j
      BY <1>0, <3>1 DEF Owned
    <3> QED
      BY <2>5, <2>8, <3>2, <3>3
  <2>10. ASSUME NEW q \in Proc, pc'[q] \in {"print", "compile"}, NEW i \in 1 .. Len(sources'[q])
         PROVE  /\ tmp'[files'[q][i].name].holds # "nothing"
                /\ tmp'[files'[q][i].name].of = <<q, i>>
    BY <2>5, <2>7, <2>10
  <2> QED
    BY <2>9, <2>10
<1>3. CASE Destroy(p)
  <2> DEFINE d == files[p][gone[p] + 1].name
  <2>1. /\ files' = files /\ sources' = sources /\ pc' = pc /\ pc[p] = "destroy"
        /\ tmp' = [tmp EXCEPT ![d] = Absent]
        /\ gone' = [gone EXCEPT ![p] = @ + 1]
    BY <1>3 DEF Destroy
  <2>2. gone[p] + 1 \in Alive(p)
    BY <1>0, <1>3 DEF Destroy, Alive, TypeOK
  <2>3. tmp[d].by = p
    BY <1>0, <2>2 DEF Owned
  <2>4. ASSUME NEW q \in Proc, NEW i \in Alive(q), ~(q = p /\ i = gone[p] + 1)
        PROVE  tmp'[files[q][i].name] = tmp[files[q][i].name]
    <3>1. files[q][i].name \in TempName /\ tmp[files[q][i].name].by = q
      BY <1>0, AliveElement DEF Owned
    <3>2. files[q][i].name # d
      <4>1. CASE q = p
        BY <1>0, <2>2, <2>4, <4>1 DEF Owned
      <4>2. CASE q # p
        BY <2>3, <3>1, <4>2
      <4> QED
        BY <4>1, <4>2
    <3> QED
      BY <1>0, <2>1, <3>1, <3>2 DEF TypeOK
  <2>5. ASSUME NEW q \in Proc, NEW i \in Alive(q)'
        PROVE  i \in Alive(q) /\ ~(q = p /\ i = gone[p] + 1)
    <3>1. gone[q] \in Nat /\ Len(files[q]) \in Nat
      BY <1>0 DEF TypeOK
    <3>2. gone'[q] = IF q = p THEN gone[p] + 1 ELSE gone[q]
      BY <1>0, <2>1 DEF TypeOK
    <3> QED
      BY <2>1, <3>1, <3>2 DEF Alive
  <2>6. ASSUME NEW q \in Proc, pc'[q] \in {"print", "compile"}, NEW i \in 1 .. Len(sources'[q])
        PROVE  /\ tmp'[files'[q][i].name].holds # "nothing"
               /\ tmp'[files'[q][i].name].of = <<q, i>>
    <3>1. q # p /\ i \in Alive(q)
      BY <2>1, <2>6, ListedAlive
    <3>2. /\ tmp[files[q][i].name].holds # "nothing"
          /\ tmp[files[q][i].name].of = <<q, i>>
      BY <1>0, <2>1, <2>6 DEF Listed
    <3> QED
      BY <2>1, <2>4, <3>1, <3>2
  <2>7. ASSUME NEW q \in Proc, NEW i \in Alive(q)'
        PROVE  /\ tmp'[files'[q][i].name].by = q
               /\ \A j \in Alive(q)' : files'[q][i].name = files'[q][j].name => i = j
    <3>1. i \in Alive(q) /\ tmp'[files[q][i].name] = tmp[files[q][i].name]
      BY <2>4, <2>5
    <3>2. tmp[files[q][i].name].by = q
      BY <1>0, <3>1 DEF Owned
    <3>3. \A j \in Alive(q) : files[q][i].name = files[q][j].name => i = j
      BY <1>0, <3>1 DEF Owned
    <3> QED
      BY <2>1, <2>5, <3>1, <3>2, <3>3
  <2> QED
    BY <2>6, <2>7
<1>4. CASE /\ UNCHANGED <<tmp, files, gone, sources>>
           /\ \A q \in Proc : pc'[q] \in {"print", "compile"} =>
                pc[q] \in {"print", "compile"} \/ Len(sources[q]) = 0
  <2>1. ASSUME NEW q \in Proc, pc'[q] \in {"print", "compile"}, NEW i \in 1 .. Len(sources'[q])
        PROVE  /\ tmp'[files'[q][i].name].holds # "nothing"
               /\ tmp'[files'[q][i].name].of = <<q, i>>
    <3>1. pc[q] \in {"print", "compile"} /\ i \in 1 .. Len(sources[q])
      BY <1>4, <2>1
    <3> QED
      BY <1>0, <1>4, <3>1 DEF Listed
  <2>2. ASSUME NEW q \in Proc, NEW i \in Alive(q)'
        PROVE  /\ tmp'[files'[q][i].name].by = q
               /\ \A j \in Alive(q)' : files'[q][i].name = files'[q][j].name => i = j
    <3>1. Alive(q)' = Alive(q)
      BY <1>4 DEF Alive
    <3>2. i \in Alive(q)
      BY <2>2, <3>1
    <3>3. /\ tmp[files[q][i].name].by = q
          /\ \A j \in Alive(q) : files[q][i].name = files[q][j].name => i = j
      BY <1>0, <3>2 DEF Owned
    <3> QED
      BY <1>4, <3>1, <3>3
  <2> QED
    BY <2>1, <2>2
<1>5. ASSUME UNCHANGED <<tmp, files, gone, sources>>
      PROVE  \A q \in Proc : pc'[q] \in {"print", "compile"} =>
               pc[q] \in {"print", "compile"} \/ Len(sources[q]) = 0
  BY <1>0, <1>5 DEF Basics, Phases, TypeOK, Step, TempFile, PrintModule, Destroy, BeginPrinting,
       NotWritable, PrintExits, FindCompiler, ArgsThrow, Compile, Return, Leave, Goto
<1>6. TempFile(p) \/ PrintModule(p) \/ Destroy(p) \/ UNCHANGED <<tmp, files, gone, sources>>
  BY DEF Step, BeginPrinting, NotWritable, PrintExits, FindCompiler, ArgsThrow, Compile, Return
<1> QED
  BY <1>1, <1>2, <1>3, <1>4, <1>5, <1>6

(* What Basics, Owned and Listed say of one step or stutter.                *)
LEMMA OwnedStepOrStutter ==
  Basics /\ Owned /\ Listed /\ [Next]_vars => (Basics /\ Owned /\ Listed)'
<1>1. Basics /\ Owned /\ Listed /\ UNCHANGED vars => (Basics /\ Owned /\ Listed)'
  <2> SUFFICES ASSUME Basics, Owned, Listed, UNCHANGED vars
               PROVE  (Basics /\ Owned /\ Listed)'
    OBVIOUS
  <2>1. UNCHANGED <<tmp, pc, files, sources, gone>>
    BY DEF vars
  <2>2. Owned'
    BY <2>1 DEF Owned, Alive, MkstempsWorked
  <2>3. Listed'
    BY <2>1 DEF Listed, MkstempsWorked
  <2> QED
    BY BasicsUnchanged, <2>2, <2>3
<1> QED
  BY <1>1, BasicsStep, OwnedStep DEF Next

(* As long as mkstemps works, what the compiler gets are the listings of    *)
(* all modules of its own process, in their order, however many processes   *)
(* share the directory and however they interleave.                         *)
THEOREM CompilerGetsOwnListings == Spec => []OwnListings
<1>1. Basics /\ Owned /\ Listed => OwnListings
  <2> SUFFICES ASSUME Basics, Owned, Listed, MkstempsWorked,
                      NEW p \in Proc, pc[p] = "compile"
               PROVE  /\ Len(sources[p]) = NMod[p]
                      /\ \A i \in 1 .. NMod[p] :
                           /\ tmp[sources[p][i]].by = p
                           /\ tmp[sources[p][i]].holds # "nothing"
                           /\ tmp[sources[p][i]].of = <<p, i>>
    BY DEF OwnListings
  <2>1. Len(sources[p]) = NMod[p]
    BY DEF Basics, Phases
  <2> SUFFICES ASSUME NEW i \in 1 .. Len(sources[p])
               PROVE  /\ tmp[sources[p][i]].by = p
                      /\ tmp[sources[p][i]].holds # "nothing"
                      /\ tmp[sources[p][i]].of = <<p, i>>
    BY <2>1
  <2>2. sources[p][i] = files[p][i].name
    BY DEF Basics, Named
  <2>3. tmp[files[p][i].name].by = p
    BY ListedAlive DEF Owned
  <2>4. tmp[files[p][i].name].holds # "nothing" /\ tmp[files[p][i].name].of = <<p, i>>
    BY DEF Listed
  <2> QED
    BY <2>1, <2>2, <2>3, <2>4
<1> QED
  BY BasicsInit, OwnedInit, OwnedStepOrStutter, <1>1, PTL DEF Spec

(* As long as mkstemps works, a file is written and removed only by a step  *)
(* of the process that made it.                                             *)
THEOREM FilesOfOthersUntouched == Spec => OthersUntouched
<1> DEFINE Untouched ==
      MkstempsWorked =>
        \A n \in TempName : tmp[n] # Absent /\ tmp'[n] # tmp[n] =>
          \E p \in Proc :
            /\ p = tmp[n].by
            /\ <<pc'[p], files'[p], sources'[p], gone'[p]>>
                 # <<pc[p], files[p], sources[p], gone[p]>>
<1>1. Basics /\ Owned /\ Listed /\ [Next]_vars => [Untouched]_vars
  <2> SUFFICES ASSUME Basics, Owned, NEW p \in Proc, Step(p), MkstempsWorked,
                      NEW n \in TempName, tmp[n] # Absent, tmp'[n] # tmp[n]
               PROVE  /\ p = tmp[n].by
                      /\ <<pc'[p], files'[p], sources'[p], gone'[p]>>
                           # <<pc[p], files[p], sources[p], gone[p]>>
    BY DEF Next
  <2>0. TypeOK /\ Phases
    BY DEF Basics
  <2>1. CASE TempFile(p)
    <3>1. PICK m \in TempName, made \in BOOLEAN, good \in BOOLEAN : NewElement(p, m, made, good)
      BY <2>0, <2>1, TempFileMakesOne
    <3>2. n # m
      BY <3>1 DEF NewElement
    <3>3. tmp'[n] = tmp[n]
      BY <2>0, <3>1, <3>2 DEF NewElement, TypeOK
    <3> QED
      BY <3>3
  <2>2. CASE PrintModule(p)
    <3>1. files[p][Current(p)].name \in TempName
      BY <2>0, <2>2, CurrentElement
    <3>2. n = files[p][Current(p)].name /\ tmp[n].by = p
      BY <2>0, <2>2, <3>1 DEF PrintModule, TypeOK
    <3>3. sources'[p] # sources[p]
      <4>1. sources[p] \in Seq(TempName) /\ sources'[p] = Append(sources[p], n)
        BY <2>0, <2>2, <3>2 DEF PrintModule, TypeOK
      <4> QED
        BY <4>1
    <3> QED
      BY <3>2, <3>3
  <2>3. CASE Destroy(p)
    <3>1. gone[p] + 1 \in Alive(p)
      BY <2>0, <2>3 DEF Destroy, Alive, TypeOK
    <3>2. n = files[p][gone[p] + 1].name
      BY <2>0, <2>3 DEF Destroy, TypeOK
    <3>3. tmp[n].by = p
      BY <3>1, <3>2 DEF Owned
    <3>4. gone'[p] # gone[p]
      BY <2>0, <2>3 DEF Destroy, TypeOK
    <3> QED
      BY <3>3, <3>4
  <2>4. CASE tmp' = tmp
    BY <2>4
  <2> QED
    BY <2>1, <2>2, <2>3, <2>4 DEF Step, BeginPrinting, NotWritable, PrintExits, FindCompiler,
                                  ArgsThrow, Compile, Return
<1> QED
  BY BasicsInit, OwnedInit, OwnedStepOrStutter, <1>1, PTL DEF Spec, OthersUntouched
===============================================================================
