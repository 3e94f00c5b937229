-------------------------- MODULE LibrarySearchProofs --------------------------
(***************************************************************************)
(* Proofs about LibrarySearch, for any libraries, search paths and file    *)
(* system.                                                                 *)
(***************************************************************************)
EXTENDS LibrarySearch, NaturalsInduction, FiniteSetTheorems, TLAPS

-------------------------------------------------------------------------------
(* Recursion over an interval of numbers *)

Below == OpToRel(<, Nat)

(* A set of natural numbers has a least element.                            *)
LEMMA LeastNumber ==
  ASSUME NEW T \in SUBSET Nat, T # {}
  PROVE  \E x \in T : \A y \in T : x <= y
<1>1. \A x, y \in Nat : <<x, y>> \in Below <=> x < y
  BY DEF Below, OpToRel
<1>2. IsWellFoundedOn(Below, Nat)
  BY NatLessThanWellFounded DEF Below
<1>3. PICK x \in T : \A y \in T : ~(<<y, x>> \in Below)
  BY <1>2, WFMin
<1>4. \A y \in T : ~(y < x)
  BY <1>1, <1>3
<1> QED
  BY <1>4

(* What contains 0, and with n also n + 1 up to N, contains all up to N.    *)
LEMMA InductionUpTo ==
  ASSUME NEW N \in Nat, NEW S \in SUBSET (0 .. N), 0 \in S,
         \A n \in S : n < N => n + 1 \in S
  PROVE  S = 0 .. N
<1> SUFFICES ASSUME (0 .. N) \ S # {}
             PROVE  FALSE
  OBVIOUS
<1> DEFINE R == (0 .. N) \ S
<1>1. PICK x \in R : \A y \in R : x <= y
  <2>1. R \in SUBSET Nat /\ R # {}
    OBVIOUS
  <2> QED
    BY <2>1, LeastNumber
<1>2. x \in 1 .. N /\ x - 1 \in 0 .. N
  BY <1>1
<1>3. x - 1 \in S
  BY <1>1, <1>2
<1> QED
  BY <1>1, <1>2, <1>3

(* f starts with a and goes on with next.                                   *)
Iterates(f, a, next, N) ==
  f[0] = a /\ \A n \in 1 .. N : f[n] = next[n][f[n - 1]]

(* There is such a function.                                                *)
LEMMA IterationExists ==
  ASSUME NEW S, NEW a \in S, NEW N \in Nat, NEW next \in [1 .. N -> [S -> S]]
  PROVE  \E f \in [0 .. N -> S] : Iterates(f, a, next, N)
<1> DEFINE T == {m \in 0 .. N : \E f \in [0 .. m -> S] : Iterates(f, a, next, m)}
<1>1. 0 \in T
  <2>1. [n \in 0 .. 0 |-> a] \in [0 .. 0 -> S]
    OBVIOUS
  <2>2. Iterates([n \in 0 .. 0 |-> a], a, next, 0)
    BY DEF Iterates
  <2> QED
    BY <2>1, <2>2
<1>2. ASSUME NEW m \in T, m < N
      PROVE  m + 1 \in T
  <2>1. PICK f \in [0 .. m -> S] : Iterates(f, a, next, m)
    BY <1>2
  <2>2. m \in Nat /\ m + 1 \in 1 .. N /\ m \in 0 .. m
    BY <1>2
  <2> DEFINE g == [n \in 0 .. (m + 1) |-> IF n = m + 1 THEN next[m + 1][f[m]] ELSE f[n]]
  <2>3. next[m + 1][f[m]] \in S
    BY <2>2
  <2>4. g \in [0 .. (m + 1) -> S]
    BY <2>2, <2>3
  <2>5. g[0] = a
    BY <2>1, <2>2 DEF Iterates
  <2>6. ASSUME NEW n \in 1 .. (m + 1)
        PROVE  g[n] = next[n][g[n - 1]]
    <3>1. n - 1 \in 0 .. m /\ g[n - 1] = f[n - 1]
      BY <2>2
    <3>2. CASE n = m + 1
      BY <2>2, <3>1, <3>2
    <3>3. CASE n # m + 1
      <4>1. n \in 1 .. m
        BY <2>2, <3>3
      <4> QED
        BY <2>1, <2>2, <3>1, <4>1 DEF Iterates
    <3> QED
      BY <3>2, <3>3
  <2>7. Iterates(g, a, next, m + 1)
    <3> HIDE DEF g
    <3> QED
      BY <2>5, <2>6 DEF Iterates
  <2> QED
    BY <2>2, <2>4, <2>7
<1>3. T = 0 .. N
  <2> HIDE DEF T
  <2>1. T \in SUBSET (0 .. N)
    BY DEF T
  <2> QED
    BY <1>1, <1>2, <2>1, InductionUpTo
<1>4. N \in T
  BY <1>3
<1> QED
  BY <1>4
-------------------------------------------------------------------------------
(* Flattened sequences *)

(* g[n] are the first n sequences of ss, one behind the other.              *)
Joins(g, ss) ==
  g[0] = <<>> /\ \A n \in 1 .. Len(ss) : g[n] = g[n - 1] \o ss[n]

(* Concatenation keeps the type.                                            *)
LEMMA ConcatType ==
  ASSUME NEW S, NEW s \in Seq(S), NEW t \in Seq(S)
  PROVE  s \o t \in Seq(S)
  OBVIOUS

(* There is such a function.                                                *)
LEMMA JoinsExists ==
  ASSUME NEW S, NEW ss \in Seq(Seq(S))
  PROVE  \E g \in [0 .. Len(ss) -> Seq(S)] : Joins(g, ss)
<1> DEFINE next == [n \in 1 .. Len(ss) |-> [s \in Seq(S) |-> s \o ss[n]]]
<1>1. Len(ss) \in Nat /\ <<>> \in Seq(S) /\ \A n \in 1 .. Len(ss) : ss[n] \in Seq(S)
  OBVIOUS
<1>2. next \in [1 .. Len(ss) -> [Seq(S) -> Seq(S)]]
  BY <1>1, ConcatType
<1>3. PICK g \in [0 .. Len(ss) -> Seq(S)] : Iterates(g, <<>>, next, Len(ss))
  <2> HIDE DEF next
  <2> QED
    BY <1>1, <1>2, IterationExists
<1>4. ASSUME NEW n \in 1 .. Len(ss)
      PROVE  g[n] = g[n - 1] \o ss[n]
  <2>1. g[n - 1] \in Seq(S)
    <3>1. n - 1 \in 0 .. Len(ss)
      BY <1>1
    <3> QED
      BY <3>1
  <2>2. g[n] = next[n][g[n - 1]]
    <3> HIDE DEF next
    <3> QED
      BY <1>3 DEF Iterates
  <2> QED
    BY <2>1, <2>2
<1>5. g[0] = <<>>
  BY <1>3 DEF Iterates
<1> QED
  BY <1>4, <1>5 DEF Joins

(* FlattenSeq is its last value.                                            *)
LEMMA FlattenJoins ==
  ASSUME NEW S, NEW ss \in Seq(Seq(S)), NEW g \in [0 .. Len(ss) -> Seq(S)], Joins(g, ss)
  PROVE  FlattenSeq(ss) = g[Len(ss)]
<1>1. Len(ss) \in Nat
  OBVIOUS
<1>2. CASE Len(ss) = 0
  <2>1. ss = <<>> /\ FlattenSeq(ss) = ss
    BY <1>2 DEF FlattenSeq
  <2> QED
    BY <1>2, <2>1 DEF Joins
<1>3. CASE Len(ss) # 0
  <2> DEFINE N == Len(ss)
             Is(f) == f = [i \in 1 .. N |-> IF i = 1 THEN ss[i] ELSE f[i - 1] \o ss[i]]
             h == CHOOSE f : Is(f)
  <2>1. FlattenSeq(ss) = h[N]
    BY <1>3 DEF FlattenSeq
  <2>2. N \in Nat \ {0} /\ \A i \in 1 .. N : ss[i] \in Seq(S)
    BY <1>1, <1>3
  <2>3. Is([i \in 1 .. N |-> g[i]])
    <3> DEFINE w == [i \in 1 .. N |-> g[i]]
    <3>1. ASSUME NEW i \in 1 .. N
          PROVE  w[i] = IF i = 1 THEN ss[i] ELSE w[i - 1] \o ss[i]
      <4>1. g[i] = g[i - 1] \o ss[i]
        BY DEF Joins
      <4>2. CASE i = 1
        <5>1. g[0] = <<>> /\ i - 1 = 0
          BY <4>2 DEF Joins
        <5>2. <<>> \o ss[i] = ss[i]
          BY <2>2
        <5> QED
          BY <4>1, <4>2, <5>1, <5>2
      <4>3. CASE i # 1
        <5>1. i - 1 \in 1 .. N
          BY <2>2, <4>3
        <5> QED
          BY <4>1, <4>3, <5>1
      <4> QED
        BY <4>2, <4>3
    <3> QED
      BY <3>1
  <2>4. Is(h)
    <3> HIDE DEF Is
    <3> QED
      BY <2>3
  <2> DEFINE T == {n \in 0 .. N : n # 0 => h[n] = g[n]}
  <2>5. 0 \in T
    BY <2>2
  <2>6. ASSUME NEW n \in T, n < N
        PROVE  n + 1 \in T
    <3>1. n + 1 \in 1 .. N /\ (n + 1) - 1 = n
      BY <2>2, <2>6
    <3>2. h[n + 1] = IF n + 1 = 1 THEN ss[n + 1] ELSE h[n] \o ss[n + 1]
      <4> HIDE DEF h
      <4> QED
        BY <2>4, <3>1
    <3>3. g[n + 1] = g[n] \o ss[n + 1]
      BY <3>1 DEF Joins
    <3>4. CASE n = 0
      <4>1. g[0] = <<>> /\ <<>> \o ss[n + 1] = ss[n + 1]
        BY <2>2, <3>1 DEF Joins
      <4>2. h[n + 1] = ss[n + 1] /\ g[n + 1] = ss[n + 1]
        <5> HIDE DEF h
        <5> QED
          BY <3>2, <3>3, <3>4, <4>1
      <4> HIDE DEF h
      <4> QED
        BY <3>1, <4>2
    <3>5. CASE n # 0
      <4>1. h[n] = g[n] /\ n + 1 # 1
        BY <3>5
      <4>2. h[n + 1] = g[n + 1]
        <5> HIDE DEF h, N
        <5> QED
          BY <3>2, <3>3, <4>1
      <4> HIDE DEF h
      <4> QED
        BY <3>1, <4>2
    <3> QED
      BY <3>4, <3>5
  <2>7. T = 0 .. N
    <3> HIDE DEF T
    <3>1. T \in SUBSET (0 .. N)
      BY DEF T
    <3> QED
      BY <1>1, <2>5, <2>6, <3>1, InductionUpTo
  <2>8. h[N] = g[N]
    <3>1. N \in T /\ N # 0
      <4> HIDE DEF T
      <4> QED
        BY <2>2, <2>7
    <3> HIDE DEF h, N
    <3> QED
      BY <3>1
  <2> QED
    BY <2>1, <2>8
<1> QED
  BY <1>2, <1>3

(* So flattening keeps the type.                                            *)
LEMMA FlattenType ==
  ASSUME NEW S, NEW ss \in Seq(Seq(S))
  PROVE  FlattenSeq(ss) \in Seq(S)
<1>1. PICK g \in [0 .. Len(ss) -> Seq(S)] : Joins(g, ss)
  BY JoinsExists
<1>2. Len(ss) \in 0 .. Len(ss)
  OBVIOUS
<1> QED
  BY <1>1, <1>2, FlattenJoins
-------------------------------------------------------------------------------
(* Types *)

LibraryArg == [kind : {"-l"}, of : Name] \cup [kind : {"file"}, of : Path]
PathArg    == [kind : {"-L", "-rpath"}, of : Dir]

(* The arguments that AddPaths adds, and which come from a list of paths.   *)
PathArgs(paths) ==
  FlattenSeq([i \in DOMAIN paths |-> <<Arg("-L", paths[i]), Arg("-rpath", paths[i])>>])
BinaryArgs == FlattenSeq([m \in DOMAIN req.mods |-> PathArgs(req.mods[m].paths)])
UserArgs   == [i \in DOMAIN req.user |-> Arg("-L", req.user[i])]

BinaryPaths == [m \in DOMAIN req.mods |-> req.mods[m].paths]

(* An element of a sequence is of its type.                                 *)
LEMMA ElementType ==
  ASSUME NEW S, NEW s \in Seq(S)
  PROVE  Len(s) \in Nat /\ DOMAIN s = 1 .. Len(s) /\ \A i \in DOMAIN s : s[i] \in S
  OBVIOUS

(* A function on the places of a sequence is a sequence.                    *)
LEMMA MapType ==
  ASSUME NEW S, NEW T, NEW s \in Seq(S), NEW f \in [DOMAIN s -> T]
  PROVE  f \in Seq(T) /\ Len(f) = Len(s) /\ DOMAIN f = DOMAIN s
<1>1. Len(s) \in Nat /\ DOMAIN s = 1 .. Len(s)
  BY ElementType
<1> QED
  BY <1>1

(* The parts of a request.                                                  *)
LEMMA RequestParts ==
  ASSUME req \in RequestType
  PROVE  /\ req.user \in Seq(Dir)
         /\ req.mods \in Seq([libs : Seq(Name), paths : Seq(Dir)])
         /\ req.files \in [Path -> Node]
         /\ \A m \in DOMAIN req.mods :
              req.mods[m].libs \in Seq(Name) /\ req.mods[m].paths \in Seq(Dir)
<1>1. /\ req.user \in Seq(Dir)
      /\ req.mods \in Seq([libs : Seq(Name), paths : Seq(Dir)])
      /\ req.files \in [Path -> Node]
  BY DEF RequestType
<1>2. ASSUME NEW m \in DOMAIN req.mods
      PROVE  req.mods[m] \in [libs : Seq(Name), paths : Seq(Dir)]
  BY <1>1, ElementType
<1> QED
  BY <1>1, <1>2

(* Search paths are directories, and libraries have names.                  *)
LEMMA SearchTypes ==
  ASSUME req \in RequestType
  PROVE  /\ BinaryPaths \in Seq(Seq(Dir))
         /\ AllPaths \in Seq(Dir) /\ Wanted \in Seq(Name)
<1>1. BinaryPaths \in Seq(Seq(Dir))
  <2>1. BinaryPaths \in [DOMAIN req.mods -> Seq(Dir)]
    BY RequestParts DEF BinaryPaths
  <2> QED
    BY <2>1, RequestParts, MapType
<1>2. AllPaths \in Seq(Dir)
  <2>1. FlattenSeq(BinaryPaths) \in Seq(Dir)
    BY <1>1, FlattenType
  <2>2. AllPaths = req.user \o FlattenSeq(BinaryPaths)
    BY DEF AllPaths, BinaryPaths
  <2> QED
    BY <2>1, <2>2, RequestParts, ConcatType
<1>3. Wanted \in Seq(Name)
  <2> DEFINE libs == [m \in DOMAIN req.mods |-> req.mods[m].libs]
  <2>1. libs \in Seq(Seq(Name))
    <3>1. libs \in [DOMAIN req.mods -> Seq(Name)]
      BY RequestParts
    <3> HIDE DEF libs
    <3> QED
      BY <3>1, RequestParts, MapType
  <2>2. FlattenSeq(libs) \in Seq(Name)
    <3> HIDE DEF libs
    <3> QED
      BY <2>1, FlattenType
  <2> QED
    BY <2>2 DEF Wanted
<1> QED
  BY <1>1, <1>2, <1>3

(* So are the arguments made of the paths.                                  *)
LEMMA PathArgsType ==
  ASSUME NEW paths \in Seq(Dir)
  PROVE  PathArgs(paths) \in Seq(PathArg)
<1> DEFINE pairs == [i \in DOMAIN paths |-> <<Arg("-L", paths[i]), Arg("-rpath", paths[i])>>]
<1>1. ASSUME NEW i \in DOMAIN paths
      PROVE  pairs[i] \in Seq(PathArg)
  <2>1. paths[i] \in Dir
    BY ElementType
  <2>2. Arg("-L", paths[i]) \in PathArg /\ Arg("-rpath", paths[i]) \in PathArg
    BY <2>1 DEF Arg, PathArg
  <2> QED
    BY <2>2
<1>2. pairs \in Seq(Seq(PathArg))
  <2>1. pairs \in [DOMAIN paths -> Seq(PathArg)]
    BY <1>1
  <2> HIDE DEF pairs
  <2> QED
    BY <2>1, MapType
<1>3. FlattenSeq(pairs) \in Seq(PathArg)
  <2> HIDE DEF pairs
  <2> QED
    BY <1>2, FlattenType
<1> QED
  BY <1>3 DEF PathArgs

LEMMA AddedTypes ==
  ASSUME req \in RequestType
  PROVE  /\ UserArgs \in Seq(PathArg) /\ BinaryArgs \in Seq(PathArg)
         /\ [m \in DOMAIN req.mods |-> PathArgs(req.mods[m].paths)] \in Seq(Seq(PathArg))
<1>1. UserArgs \in Seq(PathArg)
  <2>1. ASSUME NEW i \in DOMAIN req.user
        PROVE  UserArgs[i] \in PathArg
    <3>1. req.user[i] \in Dir
      BY RequestParts, ElementType
    <3> QED
      BY <3>1 DEF UserArgs, Arg, PathArg
  <2>2. UserArgs \in [DOMAIN req.user -> PathArg]
    BY <2>1 DEF UserArgs
  <2> QED
    BY <2>2, RequestParts, MapType
<1> DEFINE lists == [m \in DOMAIN req.mods |-> PathArgs(req.mods[m].paths)]
<1>2. lists \in Seq(Seq(PathArg))
  <2>1. \A m \in DOMAIN req.mods : lists[m] \in Seq(PathArg)
    BY RequestParts, PathArgsType
  <2>2. lists \in [DOMAIN req.mods -> Seq(PathArg)]
    BY <2>1
  <2> HIDE DEF lists
  <2> QED
    BY <2>2, RequestParts, MapType
<1>3. BinaryArgs \in Seq(PathArg)
  <2> HIDE DEF lists
  <2>1. FlattenSeq(lists) \in Seq(PathArg)
    BY <1>2, FlattenType
  <2> QED
    BY <2>1 DEF BinaryArgs, lists
<1> QED
  BY <1>1, <1>2, <1>3

(* A link of a file system leads to a path.                                 *)
LEMMA TargetType ==
  ASSUME req \in RequestType, NEW p \in Path, IsLink(p), NEW home \in Dir
  PROVE  Target(p, home) \in Path
<1>1. req.files[p] \in Node
  BY RequestParts
<1>2. CASE req.files[p].kind = "abs"
  BY <1>1, <1>2 DEF Node, Target
<1>3. CASE req.files[p].kind = "rel"
  <2>1. req.files[p].to \in Name
    BY <1>1, <1>3 DEF Node
  <2>2. Target(p, home) = <<home, req.files[p].to>>
    BY <1>3 DEF Target
  <2> QED
    BY <2>1, <2>2 DEF Path
<1> QED
  BY <1>2, <1>3 DEF IsLink

(* What AddPaths does to the arguments.                                     *)
LEMMA AddPathsArgs == AddPaths => args' = (args \o UserArgs) \o BinaryArgs
  BY DEF AddPaths, UserArgs, BinaryArgs, PathArgs

Arguments == LibraryArg \cup PathArg

LEMMA ArgumentTypes ==
  [kind : {"-l"}, of : Name] \cup [kind : {"file"}, of : Path]
    \cup [kind : {"-L", "-rpath"}, of : Dir] = Arguments
  BY DEF Arguments, LibraryArg, PathArg

(* The types at the beginning.                                              *)
LEMMA TypesInit == Init => TypeOK
<1> SUFFICES ASSUME Init
             PROVE  TypeOK
  OBVIOUS
<1>1. req \in RequestType
  BY RequestsAssumption DEF Init
<1>2. Len(AllPaths) \in Nat /\ Len(Wanted) \in Nat
  BY <1>1, SearchTypes, ElementType
<1>3. cur \in Path
  <2>1. \E p \in Path : TRUE
    <3>1. PICK n \in Name : TRUE
      BY DirAssumption
    <3>2. <<Cwd, n>> \in Path
      BY DirAssumption DEF Path
    <3> QED
      BY <3>2
  <2> QED
    BY <2>1 DEF Init
<1>4. args \in Seq(Arguments)
  BY DEF Init
<1> QED
  BY <1>1, <1>2, <1>3, <1>4, ArgumentTypes DEF Init, TypeOK

(* What is left of the types when only pc, k, ip and cur can go wrong.      *)
Control ==
  /\ k \in 1 .. Len(Wanted) + 1
  /\ ip \in 1 .. Len(AllPaths) + 1
  /\ cur \in Path
  /\ pc \in {"libraries", "paths", "resolve", "done", "threw"}
  /\ pc \in {"paths", "resolve"} => k <= Len(Wanted)
  /\ pc = "resolve" => ip <= Len(AllPaths)

LEMMA TypeParts ==
  TypeOK <=> req \in RequestType /\ args \in Seq(Arguments) /\ Control
  BY ArgumentTypes DEF TypeOK, Control

LEMMA TypePartsNext ==
  req' \in RequestType /\ args' \in Seq(Arguments) /\ Control' => TypeOK'
  BY ArgumentTypes DEF TypeOK, Control

(* The searched paths and the libraries are those of the request.           *)
LEMMA Fixed ==
  ASSUME req' = req
  PROVE  /\ AllPaths' = AllPaths /\ Wanted' = Wanted
  BY DEF AllPaths, Wanted

(* Every step keeps the types.                                              *)
LEMMA TypesStep ==
  ASSUME TypeOK, [Next]_vars
  PROVE  TypeOK'
<1>1. req \in RequestType /\ args \in Seq(Arguments) /\ Control
  BY TypeParts
<1>2. req' = req
  BY DEF Next, vars, PassInfix, CallFindLibrary, TryPath, FollowLink, Found, NoFile, Throw,
         NotFound, AddPaths
<1>3. AllPaths' = AllPaths /\ Wanted' = Wanted
  BY <1>2, Fixed
<1>4. /\ Len(AllPaths) \in Nat /\ \A i \in 1 .. Len(AllPaths) : AllPaths[i] \in Dir
      /\ Len(Wanted) \in Nat /\ \A i \in 1 .. Len(Wanted) : Wanted[i] \in Name
  BY <1>1, SearchTypes, ElementType
<1>5. CASE PassInfix
  <2>1. Arg("-l", Wanted[k]) \in Arguments
    BY <1>1, <1>4, <1>5 DEF PassInfix, Control, Arg, Arguments, LibraryArg
  <2>2. args' \in Seq(Arguments)
    BY <1>1, <1>5, <2>1 DEF PassInfix
  <2>3. Control'
    BY <1>1, <1>3, <1>4, <1>5 DEF PassInfix, Control
  <2> QED
    BY <1>1, <1>2, <2>2, <2>3, TypePartsNext
<1>6. CASE CallFindLibrary
  <2>1. Control'
    BY <1>1, <1>3, <1>4, <1>6 DEF CallFindLibrary, Control
  <2> QED
    BY <1>1, <1>2, <1>6, <2>1, TypePartsNext DEF CallFindLibrary
<1>7. CASE TryPath
  <2>1. cur' \in Path
    BY <1>1, <1>4, <1>7 DEF TryPath, Control, Path
  <2>2. Control'
    BY <1>1, <1>3, <1>4, <1>7, <2>1 DEF TryPath, Control
  <2> QED
    BY <1>1, <1>2, <1>7, <2>2, TypePartsNext DEF TryPath
<1>8. CASE FollowLink
  <2>1. cur' \in Path
    BY <1>1, <1>8, TargetType, DirAssumption DEF FollowLink, Control
  <2>2. Control'
    BY <1>1, <1>3, <1>8, <2>1 DEF FollowLink, Control
  <2> QED
    BY <1>1, <1>2, <1>8, <2>2, TypePartsNext DEF FollowLink
<1>9. CASE Found
  <2>1. <<AllPaths[ip], Wanted[k]>> \in Path
    BY <1>1, <1>4, <1>9 DEF Found, Control, Path
  <2>2. Arg("file", <<AllPaths[ip], Wanted[k]>>) \in Arguments
    BY <2>1 DEF Arg, Arguments, LibraryArg
  <2>3. args' \in Seq(Arguments)
    BY <1>1, <1>9, <2>2 DEF Found
  <2>4. Control'
    BY <1>1, <1>3, <1>4, <1>9 DEF Found, Control
  <2> QED
    BY <1>1, <1>2, <2>3, <2>4, TypePartsNext
<1>10. CASE NoFile
  <2>1. Control'
    BY <1>1, <1>3, <1>4, <1>10 DEF NoFile, Control
  <2> QED
    BY <1>1, <1>2, <1>10, <2>1, TypePartsNext DEF NoFile
<1>11. CASE Throw
  <2>1. Control'
    BY <1>1, <1>3, <1>11 DEF Throw, Control
  <2> QED
    BY <1>1, <1>2, <1>11, <2>1, TypePartsNext DEF Throw
<1>12. CASE NotFound
  <2>1. Control'
    BY <1>1, <1>3, <1>4, <1>12 DEF NotFound, Control
  <2> QED
    BY <1>1, <1>2, <1>12, <2>1, TypePartsNext DEF NotFound
<1>13. CASE AddPaths
  <2>1. UserArgs \in Seq(Arguments) /\ BinaryArgs \in Seq(Arguments)
    BY <1>1, AddedTypes DEF Arguments
  <2>2. args' \in Seq(Arguments)
    <3>1. args \o UserArgs \in Seq(Arguments)
      BY <1>1, <2>1, ConcatType
    <3>2. (args \o UserArgs) \o BinaryArgs \in Seq(Arguments)
      BY <2>1, <3>1, ConcatType
    <3> QED
      BY <1>13, <3>2, AddPathsArgs
  <2>3. Control'
    BY <1>1, <1>3, <1>13 DEF AddPaths, Control
  <2> QED
    BY <1>1, <1>2, <2>2, <2>3, TypePartsNext
<1>14. CASE UNCHANGED vars
  <2>1. Control'
    BY <1>1, <1>3, <1>14 DEF vars, Control
  <2> QED
    BY <1>1, <1>2, <1>14, <2>1, TypePartsNext DEF vars
<1> QED
  BY <1>5, <1>6, <1>7, <1>8, <1>9, <1>10, <1>11, <1>12, <1>13, <1>14 DEF Next

(* The indices of the loops stay in range, and links lead to paths.         *)
THEOREM TypeCorrect == Spec => []TypeOK
<1>1. TypeOK /\ [Next]_vars => TypeOK'
  BY TypesStep
<1> QED
  BY TypesInit, <1>1, PTL DEF Spec
-------------------------------------------------------------------------------
(* The paths of the linker *)

(* as are the arguments for the paths ps: a -L and an -rpath for each.      *)
Doubles(as, ps) ==
  /\ Len(as) = 2 * Len(ps)
  /\ \A i \in 1 .. Len(ps) :
       as[2 * i - 1] = Arg("-L", ps[i]) /\ as[2 * i] = Arg("-rpath", ps[i])

(* Where the elements of two sequences are in their concatenation.          *)
LEMMA ConcatElements ==
  ASSUME NEW S, NEW s \in Seq(S), NEW t \in Seq(S)
  PROVE  /\ Len(s) \in Nat /\ Len(t) \in Nat /\ Len(s \o t) = Len(s) + Len(t)
         /\ \A x \in 1 .. Len(s) : (s \o t)[x] = s[x]
         /\ \A x \in 1 .. Len(t) : (s \o t)[Len(s) + x] = t[x]
  OBVIOUS

(* So are longer ones, made of two such lists.                              *)
LEMMA DoublesConcat ==
  ASSUME NEW a1 \in Seq(PathArg), NEW a2 \in Seq(PathArg),
         NEW p1 \in Seq(Dir), NEW p2 \in Seq(Dir), Doubles(a1, p1), Doubles(a2, p2)
  PROVE  Doubles(a1 \o a2, p1 \o p2)
<1>1. /\ Len(p1) \in Nat /\ Len(p2) \in Nat /\ Len(p1 \o p2) = Len(p1) + Len(p2)
      /\ \A x \in 1 .. Len(p1) : (p1 \o p2)[x] = p1[x]
      /\ \A x \in 1 .. Len(p2) : (p1 \o p2)[Len(p1) + x] = p2[x]
  BY ConcatElements
<1>2. Len(a1) = 2 * Len(p1) /\ Len(a2) = 2 * Len(p2)
  BY DEF Doubles
<1>3. /\ Len(a1 \o a2) = 2 * Len(p1) + 2 * Len(p2)
      /\ \A x \in 1 .. 2 * Len(p1) : (a1 \o a2)[x] = a1[x]
      /\ \A x \in 1 .. 2 * Len(p2) : (a1 \o a2)[2 * Len(p1) + x] = a2[x]
  <2>1. /\ Len(a1 \o a2) = Len(a1) + Len(a2)
        /\ \A x \in 1 .. Len(a1) : (a1 \o a2)[x] = a1[x]
        /\ \A x \in 1 .. Len(a2) : (a1 \o a2)[Len(a1) + x] = a2[x]
    BY ConcatElements
  <2> QED
    BY <1>2, <2>1
<1>4. ASSUME NEW i \in 1 .. Len(p1)
      PROVE  /\ (a1 \o a2)[2 * i - 1] = Arg("-L", (p1 \o p2)[i])
             /\ (a1 \o a2)[2 * i] = Arg("-rpath", (p1 \o p2)[i])
  <2>1. 2 * i - 1 \in 1 .. 2 * Len(p1) /\ 2 * i \in 1 .. 2 * Len(p1)
    BY <1>1
  <2> QED
    BY <1>1, <1>3, <2>1 DEF Doubles
<1>5. ASSUME NEW j \in 1 .. Len(p2)
      PROVE  /\ (a1 \o a2)[2 * (Len(p1) + j) - 1] = Arg("-L", (p1 \o p2)[Len(p1) + j])
             /\ (a1 \o a2)[2 * (Len(p1) + j)] = Arg("-rpath", (p1 \o p2)[Len(p1) + j])
  <2>1. /\ 2 * j - 1 \in 1 .. 2 * Len(p2) /\ 2 * j \in 1 .. 2 * Len(p2)
        /\ 2 * (Len(p1) + j) - 1 = 2 * Len(p1) + (2 * j - 1)
        /\ 2 * (Len(p1) + j) = 2 * Len(p1) + 2 * j
    BY <1>1
  <2>2. /\ (a1 \o a2)[2 * (Len(p1) + j) - 1] = a2[2 * j - 1]
        /\ (a1 \o a2)[2 * (Len(p1) + j)] = a2[2 * j]
    BY <1>3, <2>1
  <2> QED
    BY <1>1, <2>2 DEF Doubles
<1>6. ASSUME NEW i \in 1 .. Len(p1 \o p2)
      PROVE  /\ (a1 \o a2)[2 * i - 1] = Arg("-L", (p1 \o p2)[i])
             /\ (a1 \o a2)[2 * i] = Arg("-rpath", (p1 \o p2)[i])
  <2>1. CASE i \in 1 .. Len(p1)
    BY <1>4, <2>1
  <2>2. CASE i \notin 1 .. Len(p1)
    <3>1. PICK j \in 1 .. Len(p2) : i = Len(p1) + j
      <4>1. i - Len(p1) \in 1 .. Len(p2) /\ i = Len(p1) + (i - Len(p1))
        BY <1>1, <2>2
      <4> QED
        BY <4>1
    <3> QED
      BY <1>5, <3>1
  <2> QED
    BY <2>1, <2>2
<1>7. Len(a1 \o a2) = 2 * Len(p1 \o p2)
  BY <1>1, <1>3
<1> QED
  BY <1>6, <1>7 DEF Doubles

(* The arguments of one list of paths.                                      *)
LEMMA PathArgsDouble ==
  ASSUME NEW paths \in Seq(Dir)
  PROVE  Doubles(PathArgs(paths), paths)
<1> DEFINE pairs == [i \in DOMAIN paths |-> <<Arg("-L", paths[i]), Arg("-rpath", paths[i])>>]
           N     == Len(paths)
<1>1. N \in Nat /\ DOMAIN paths = 1 .. N /\ \A i \in 1 .. N : paths[i] \in Dir
  BY ElementType
<1>2. pairs \in Seq(Seq(PathArg)) /\ Len(pairs) = N
  <2>1. \A i \in 1 .. N : Arg("-L", paths[i]) \in PathArg /\ Arg("-rpath", paths[i]) \in PathArg
    BY <1>1 DEF Arg, PathArg
  <2>2. pairs \in [DOMAIN paths -> Seq(PathArg)]
    BY <1>1, <2>1
  <2> HIDE DEF pairs
  <2> QED
    BY <2>2, MapType
<1>3. PICK g \in [0 .. N -> Seq(PathArg)] : Joins(g, pairs)
  <2> HIDE DEF pairs
  <2> QED
    BY <1>2, JoinsExists
<1> DEFINE T == {n \in 0 .. N : Len(g[n]) = 2 * n /\ \A i \in 1 .. n :
                    g[n][2 * i - 1] = Arg("-L", paths[i]) /\ g[n][2 * i] = Arg("-rpath", paths[i])}
<1>4. 0 \in T
  BY <1>1, <1>3 DEF Joins
<1>5. ASSUME NEW n \in T, n < N
      PROVE  n + 1 \in T
  <2>1. n + 1 \in 1 .. N /\ (n + 1) - 1 = n /\ n \in Nat
    BY <1>1, <1>5
  <2>2. g[n + 1] = g[n] \o <<Arg("-L", paths[n + 1]), Arg("-rpath", paths[n + 1])>>
    BY <1>1, <1>2, <1>3, <2>1 DEF Joins
  <2>3. g[n] \in Seq(PathArg) /\ Len(g[n]) = 2 * n
    BY <1>5, <2>1
  <2>4. /\ Arg("-L", paths[n + 1]) \in PathArg /\ Arg("-rpath", paths[n + 1]) \in PathArg
    BY <1>1, <2>1 DEF Arg, PathArg
  <2>5. /\ Len(g[n + 1]) = 2 * (n + 1)
        /\ g[n + 1][2 * n + 1] = Arg("-L", paths[n + 1])
        /\ g[n + 1][2 * n + 2] = Arg("-rpath", paths[n + 1])
        /\ \A x \in 1 .. 2 * n : g[n + 1][x] = g[n][x]
    BY <2>1, <2>2, <2>3, <2>4
  <2>6. ASSUME NEW i \in 1 .. (n + 1)
        PROVE  /\ g[n + 1][2 * i - 1] = Arg("-L", paths[i])
               /\ g[n + 1][2 * i] = Arg("-rpath", paths[i])
    <3>1. CASE i = n + 1
      <4>1. 2 * i - 1 = 2 * n + 1 /\ 2 * i = 2 * n + 2
        BY <2>1, <3>1
      <4> QED
        BY <2>5, <3>1, <4>1
    <3>2. CASE i # n + 1
      <4>1. i \in 1 .. n /\ 2 * i - 1 \in 1 .. 2 * n /\ 2 * i \in 1 .. 2 * n
        BY <2>1, <3>2
      <4>2. g[n][2 * i - 1] = Arg("-L", paths[i]) /\ g[n][2 * i] = Arg("-rpath", paths[i])
        BY <4>1
      <4> QED
        BY <2>5, <4>1, <4>2
    <3> QED
      BY <3>1, <3>2
  <2> QED
    BY <2>1, <2>5, <2>6
<1>6. T = 0 .. N
  <2> HIDE DEF T
  <2>1. T \in SUBSET (0 .. N)
    BY DEF T
  <2> QED
    BY <1>1, <1>4, <1>5, <2>1, InductionUpTo
<1>7. N \in T
  <2> HIDE DEF T
  <2> QED
    BY <1>1, <1>6
<1>8. PathArgs(paths) = g[N]
  <2>1. FlattenSeq(pairs) = g[N]
    <3> HIDE DEF pairs
    <3> QED
      BY <1>2, <1>3, FlattenJoins
  <2> QED
    BY <2>1 DEF PathArgs
<1> QED
  BY <1>7, <1>8 DEF Doubles

(* And those of all modules.                                                *)
LEMMA BinaryArgsDouble ==
  ASSUME req \in RequestType
  PROVE  Doubles(BinaryArgs, FlattenSeq(BinaryPaths))
<1> DEFINE lists == [m \in DOMAIN req.mods |-> PathArgs(req.mods[m].paths)]
           N     == Len(req.mods)
<1>1. /\ N \in Nat /\ DOMAIN req.mods = 1 .. N
      /\ \A m \in 1 .. N : req.mods[m].paths \in Seq(Dir)
  <2>1. N \in Nat /\ DOMAIN req.mods = 1 .. N
    BY RequestParts, ElementType
  <2> QED
    BY <2>1, RequestParts
<1>2. lists \in Seq(Seq(PathArg)) /\ Len(lists) = N
  <2>1. lists \in [DOMAIN req.mods -> Seq(PathArg)]
    BY <1>1, PathArgsType
  <2> HIDE DEF lists
  <2> QED
    BY <2>1, RequestParts, MapType
<1>3. BinaryPaths \in Seq(Seq(Dir)) /\ Len(BinaryPaths) = N
  <2>1. BinaryPaths \in [DOMAIN req.mods -> Seq(Dir)]
    BY <1>1 DEF BinaryPaths
  <2> QED
    BY <2>1, RequestParts, MapType
<1>4. PICK g \in [0 .. N -> Seq(PathArg)] : Joins(g, lists)
  <2> HIDE DEF lists
  <2> QED
    BY <1>2, JoinsExists
<1>5. PICK h \in [0 .. N -> Seq(Dir)] : Joins(h, BinaryPaths)
  BY <1>3, JoinsExists
<1> DEFINE T == {n \in 0 .. N : Doubles(g[n], h[n])}
<1>6. 0 \in T
  <2>1. g[0] = <<>> /\ h[0] = <<>>
    BY <1>4, <1>5 DEF Joins
  <2>2. Doubles(<<>>, <<>>)
    BY DEF Doubles
  <2> QED
    BY <1>1, <2>1, <2>2
<1>7. ASSUME NEW n \in T, n < N
      PROVE  n + 1 \in T
  <2>1. n + 1 \in 1 .. N /\ (n + 1) - 1 = n /\ n \in 0 .. N /\ n + 1 \in 0 .. N
    BY <1>1, <1>7
  <2>2. g[n + 1] = g[n] \o PathArgs(req.mods[n + 1].paths)
    BY <1>1, <1>2, <1>4, <2>1 DEF Joins
  <2>3. h[n + 1] = h[n] \o req.mods[n + 1].paths
    BY <1>1, <1>3, <1>5, <2>1 DEF Joins, BinaryPaths
  <2>4. /\ g[n] \in Seq(PathArg) /\ h[n] \in Seq(Dir) /\ Doubles(g[n], h[n])
        /\ req.mods[n + 1].paths \in Seq(Dir)
    BY <1>1, <2>1
  <2>5. Doubles(g[n + 1], h[n + 1])
    BY <2>2, <2>3, <2>4, DoublesConcat, PathArgsDouble, PathArgsType
  <2> QED
    BY <2>1, <2>5
<1>8. T = 0 .. N
  <2> HIDE DEF T
  <2>1. T \in SUBSET (0 .. N)
    BY DEF T
  <2> QED
    BY <1>1, <1>6, <1>7, <2>1, InductionUpTo
<1>9. Doubles(g[N], h[N])
  <2>1. N \in T
    <3> HIDE DEF T
    <3> QED
      BY <1>1, <1>8
  <2> QED
    BY <2>1
<1>10. BinaryArgs = g[N]
  <2>1. FlattenSeq(lists) = g[N]
    <3> HIDE DEF lists
    <3> QED
      BY <1>2, <1>4, FlattenJoins
  <2> QED
    BY <2>1 DEF BinaryArgs
<1>11. FlattenSeq(BinaryPaths) = h[N]
  BY <1>3, <1>5, FlattenJoins
<1> QED
  BY <1>9, <1>10, <1>11

(* The arguments for libraries come first, then those for paths.            *)
Parts(libs) ==
  /\ libs \in Seq(LibraryArg)
  /\ args = IF pc = "done" THEN (libs \o UserArgs) \o BinaryArgs ELSE libs

(* Where everything is then.                                                *)
LEMMA PartsElements ==
  ASSUME req \in RequestType, pc = "done", NEW libs, Parts(libs)
  PROVE  /\ Len(libs) \in Nat /\ Len(req.user) \in Nat /\ Len(FlattenSeq(BinaryPaths)) \in Nat
         /\ Len(args) = Len(libs) + Len(req.user) + 2 * Len(FlattenSeq(BinaryPaths))
         /\ \A i \in 1 .. Len(libs) : args[i] = libs[i] /\ libs[i] \in LibraryArg
         /\ \A i \in 1 .. Len(req.user) : args[Len(libs) + i] = Arg("-L", req.user[i])
         /\ \A i \in 1 .. Len(FlattenSeq(BinaryPaths)) :
              /\ args[Len(libs) + Len(req.user) + 2 * i - 1]
                   = Arg("-L", FlattenSeq(BinaryPaths)[i])
              /\ args[Len(libs) + Len(req.user) + 2 * i]
                   = Arg("-rpath", FlattenSeq(BinaryPaths)[i])
<1> DEFINE U == UserArgs
           B == BinaryArgs
           P == FlattenSeq(BinaryPaths)
<1>1. /\ libs \in Seq(Arguments) /\ U \in Seq(Arguments) /\ B \in Seq(Arguments)
      /\ libs \in Seq(LibraryArg) /\ req.user \in Seq(Dir) /\ P \in Seq(Dir)
  BY AddedTypes, RequestParts, SearchTypes, FlattenType DEF Parts, Arguments
<1>2. Len(U) = Len(req.user) /\ \A i \in 1 .. Len(req.user) : U[i] = Arg("-L", req.user[i])
  <2>1. Len(req.user) \in Nat /\ DOMAIN req.user = 1 .. Len(req.user)
    BY <1>1, ElementType
  <2> QED
    BY <2>1 DEF UserArgs
<1>3. Doubles(B, P)
  BY BinaryArgsDouble
<1> HIDE DEF U, B, P
<1>4. /\ Len(libs) \in Nat /\ Len(U) \in Nat /\ Len(B) \in Nat /\ Len(P) \in Nat
      /\ \A i \in 1 .. Len(libs) : libs[i] \in LibraryArg
  <2>1. DOMAIN libs = 1 .. Len(libs)
    BY <1>1, ElementType
  <2> QED
    BY <1>1, <2>1, ElementType
<1>5. /\ Len(libs \o U) = Len(libs) + Len(U)
      /\ \A x \in 1 .. Len(libs) : (libs \o U)[x] = libs[x]
      /\ \A x \in 1 .. Len(U) : (libs \o U)[Len(libs) + x] = U[x]
  BY <1>1, ConcatElements
<1>6. /\ args = (libs \o U) \o B /\ libs \o U \in Seq(Arguments)
  BY <1>1, ConcatType DEF Parts, U, B
<1>7. /\ Len(args) = Len(libs \o U) + Len(B)
      /\ \A x \in 1 .. Len(libs \o U) : args[x] = (libs \o U)[x]
      /\ \A x \in 1 .. Len(B) : args[Len(libs \o U) + x] = B[x]
  BY <1>1, <1>6, ConcatElements
<1>8. Len(B) = 2 * Len(P)
  BY <1>3 DEF Doubles
<1>9. ASSUME NEW i \in 1 .. Len(libs)
      PROVE  args[i] = libs[i]
  BY <1>4, <1>5, <1>7
<1>10. ASSUME NEW i \in 1 .. Len(req.user)
       PROVE  args[Len(libs) + i] = Arg("-L", req.user[i])
  <2>1. i \in 1 .. Len(U) /\ Len(libs) + i \in 1 .. Len(libs \o U)
    BY <1>2, <1>4, <1>5
  <2>2. args[Len(libs) + i] = U[i]
    BY <1>5, <1>7, <2>1
  <2> QED
    BY <1>2, <2>2
<1>11. ASSUME NEW i \in 1 .. Len(P)
       PROVE  /\ args[Len(libs) + Len(req.user) + 2 * i - 1] = Arg("-L", P[i])
              /\ args[Len(libs) + Len(req.user) + 2 * i] = Arg("-rpath", P[i])
  <2>1. /\ 2 * i - 1 \in 1 .. Len(B) /\ 2 * i \in 1 .. Len(B)
        /\ Len(libs) + Len(req.user) + 2 * i - 1 = Len(libs \o U) + (2 * i - 1)
        /\ Len(libs) + Len(req.user) + 2 * i = Len(libs \o U) + 2 * i
    BY <1>2, <1>4, <1>5, <1>8
  <2>2. /\ args[Len(libs) + Len(req.user) + 2 * i - 1] = B[2 * i - 1]
        /\ args[Len(libs) + Len(req.user) + 2 * i] = B[2 * i]
    BY <1>7, <2>1
  <2> QED
    BY <1>3, <2>2 DEF Doubles
<1>12. Len(args) = Len(libs) + Len(req.user) + 2 * Len(P)
  BY <1>2, <1>5, <1>7, <1>8
<1> QED
  BY <1>2, <1>4, <1>9, <1>10, <1>11, <1>12 DEF P

(* Behind the first L + U elements there are pairs.                         *)
LEMMA HalfOf ==
  ASSUME NEW L \in Nat, NEW U \in Nat, NEW P \in Nat,
         NEW n \in 1 .. (L + U + 2 * P), ~(n <= L + U)
  PROVE  \E i \in 1 .. P : n = L + U + 2 * i - 1 \/ n = L + U + 2 * i
<1> DEFINE i == (n - L - U + 1) \div 2
<1>1. n - L - U \in 1 .. 2 * P
  OBVIOUS
<1>2. \A r \in Nat : (r + 1) \div 2 \in Nat
        /\ (r + 1 = 2 * ((r + 1) \div 2) \/ r + 1 = 2 * ((r + 1) \div 2) + 1)
  OBVIOUS
<1>3. i \in Nat /\ (n - L - U + 1 = 2 * i \/ n - L - U + 1 = 2 * i + 1)
  BY <1>1, <1>2
<1> HIDE DEF i
<1>4. i \in 1 .. P /\ (n = L + U + 2 * i - 1 \/ n = L + U + 2 * i)
  BY <1>1, <1>3
<1> QED
  BY <1>4

(* So the -L arguments are those for the searched paths, in their order.    *)
LEMMA PartsSamePaths ==
  ASSUME req \in RequestType, pc = "done", NEW libs, Parts(libs)
  PROVE  SamePaths
<1> DEFINE L  == Len(libs)
           U  == Len(req.user)
           P  == FlattenSeq(BinaryPaths)
           at == [i \in DOMAIN AllPaths |-> IF i <= U THEN L + i ELSE L + U + 2 * (i - U) - 1]
<1>1. L \in Nat /\ U \in Nat /\ Len(P) \in Nat /\ Len(args) = L + U + 2 * Len(P)
  BY PartsElements
<1>2. /\ DOMAIN AllPaths = 1 .. (U + Len(P))
      /\ \A i \in 1 .. U : AllPaths[i] = req.user[i]
      /\ \A i \in 1 .. Len(P) : AllPaths[U + i] = P[i]
  <2>1. AllPaths \in Seq(Dir) /\ AllPaths = req.user \o P /\ req.user \in Seq(Dir) /\ P \in Seq(Dir)
    BY SearchTypes, RequestParts, FlattenType DEF AllPaths, BinaryPaths
  <2> HIDE DEF P
  <2>2. DOMAIN AllPaths = 1 .. Len(AllPaths)
    BY <2>1, ElementType
  <2> QED
    BY <2>1, <2>2, ConcatElements
<1>3. \A i \in 1 .. L : args[i].kind # "-L"
  BY PartsElements DEF LibraryArg
<1>4. \A i \in 1 .. U : args[L + i].kind = "-L" /\ args[L + i].of = req.user[i]
  <2>1. \A i \in 1 .. U : args[L + i] = Arg("-L", req.user[i])
    BY PartsElements
  <2> HIDE DEF L, U
  <2>2. ASSUME NEW x, NEW y, x = Arg("-L", y)
        PROVE  x.kind = "-L" /\ x.of = y
    BY <2>2 DEF Arg
  <2> QED
    BY <2>1, <2>2
<1>5. \A i \in 1 .. Len(P) :
        /\ args[L + U + 2 * i - 1].kind = "-L" /\ args[L + U + 2 * i - 1].of = P[i]
        /\ args[L + U + 2 * i].kind = "-rpath"
  <2>1. \A i \in 1 .. Len(P) :
          /\ args[L + U + 2 * i - 1] = Arg("-L", P[i])
          /\ args[L + U + 2 * i] = Arg("-rpath", P[i])
    BY PartsElements
  <2> HIDE DEF L, U, P
  <2>2. ASSUME NEW x, NEW kind, NEW y, x = Arg(kind, y)
        PROVE  x.kind = kind /\ x.of = y
    BY <2>2 DEF Arg
  <2> QED
    BY <2>1, <2>2
<1> HIDE DEF L, U, P
<1>6. DOMAIN args = 1 .. (L + U + 2 * Len(P))
  <2>1. args \in Seq(Arguments)
    <3>1. /\ libs \in Seq(Arguments) /\ UserArgs \in Seq(Arguments)
          /\ BinaryArgs \in Seq(Arguments)
      BY AddedTypes DEF Parts, Arguments
    <3> QED
      BY <3>1, ConcatType DEF Parts
  <2> QED
    BY <1>1, <2>1, ElementType
<1>7. ASSUME NEW i \in DOMAIN AllPaths
      PROVE  /\ at[i] \in DOMAIN args /\ args[at[i]].kind = "-L"
             /\ args[at[i]].of = AllPaths[i]
  <2>1. CASE i <= U
    <3>1. i \in 1 .. U /\ at[i] = L + i
      BY <1>1, <1>2, <2>1
    <3> QED
      BY <1>1, <1>2, <1>4, <1>6, <3>1
  <2>2. CASE ~(i <= U)
    <3>1. i - U \in 1 .. Len(P) /\ i = U + (i - U) /\ at[i] = L + U + 2 * (i - U) - 1
      BY <1>1, <1>2, <2>2
    <3>2. at[i] \in DOMAIN args
      BY <1>1, <1>6, <3>1
    <3>3. args[at[i]].kind = "-L" /\ args[at[i]].of = P[i - U]
      <4> HIDE DEF at
      <4> QED
        BY <1>5, <3>1
    <3> QED
      BY <1>2, <3>1, <3>2, <3>3
  <2> QED
    BY <2>1, <2>2
<1>8. ASSUME NEW i \in DOMAIN AllPaths, NEW j \in DOMAIN AllPaths, i < j
      PROVE  at[i] < at[j]
  BY <1>1, <1>2, <1>8
<1>9. ASSUME NEW n \in DOMAIN args, args[n].kind = "-L"
      PROVE  \E i \in DOMAIN AllPaths : at[i] = n
  <2>1. n > L
    BY <1>1, <1>3, <1>6, <1>9
  <2>2. CASE n <= L + U
    <3>1. n - L \in DOMAIN AllPaths /\ at[n - L] = n
      BY <1>1, <1>2, <2>1, <2>2
    <3> QED
      BY <3>1
  <2>3. CASE n > L + U
    <3>1. PICK i \in 1 .. Len(P) : n = L + U + 2 * i - 1 \/ n = L + U + 2 * i
      <4>1. n \in 1 .. (L + U + 2 * Len(P)) /\ ~(n <= L + U)
        BY <1>1, <1>6, <2>3
      <4> QED
        BY <1>1, <4>1, HalfOf
    <3>2. n = L + U + 2 * i - 1
      BY <1>5, <1>9, <3>1
    <3>3. U + i \in DOMAIN AllPaths /\ at[U + i] = n
      BY <1>1, <1>2, <3>2
    <3> QED
      BY <3>3
  <2> QED
    BY <1>1, <1>6, <2>2, <2>3
<1>10. at \in [DOMAIN AllPaths -> {n \in DOMAIN args : args[n].kind = "-L"}]
  <2>1. at = [i \in DOMAIN AllPaths |-> at[i]]
    OBVIOUS
  <2> HIDE DEF at
  <2> QED
    BY <1>7, <2>1
<1> HIDE DEF at
<1> QED
  BY <1>7, <1>8, <1>9, <1>10 DEF SamePaths
-------------------------------------------------------------------------------
(* Symbolic links *)

(* One step of the operating system.                                        *)
Hop(q) == IF IsLink(q) THEN Target(q, q[1]) ELSE q

(* f goes from p along the links.                                           *)
Follows(f, p, N) == f[0] = p /\ \A n \in 1 .. N : f[n] = Hop(f[n - 1])

LEMMA HopType ==
  ASSUME req \in RequestType, NEW q \in Path
  PROVE  Hop(q) \in Path
<1>1. q[1] \in Dir
  BY DEF Path
<1> QED
  BY <1>1, TargetType DEF Hop

(* There are finitely many paths.                                           *)
LEMMA PathsFinite == IsFiniteSet(Path) /\ Cardinality(Path) \in Nat
<1>1. IsFiniteSet(Path)
  BY DirAssumption, FS_Product DEF Path
<1> QED
  BY <1>1, FS_CardinalityType

(* Links can be followed any number of times.                               *)
LEMMA FollowsExists ==
  ASSUME req \in RequestType, NEW p \in Path, NEW N \in Nat
  PROVE  \E f \in [0 .. N -> Path] : Follows(f, p, N)
<1> DEFINE next == [n \in 1 .. N |-> [q \in Path |-> Hop(q)]]
<1>1. next \in [1 .. N -> [Path -> Path]]
  BY HopType
<1>2. PICK f \in [0 .. N -> Path] : Iterates(f, p, next, N)
  <2> HIDE DEF next
  <2> QED
    BY <1>1, IterationExists
<1>3. ASSUME NEW n \in 1 .. N
      PROVE  f[n] = Hop(f[n - 1])
  <2>1. f[n] = next[n][f[n - 1]]
    <3> HIDE DEF next
    <3> QED
      BY <1>2 DEF Iterates
  <2>2. f[n - 1] \in Path
    <3>1. n - 1 \in 0 .. N
      OBVIOUS
    <3> QED
      BY <3>1
  <2> QED
    BY <2>1, <2>2
<1> QED
  BY <1>2, <1>3 DEF Iterates, Follows

(* Where the system ends up is where they lead after as many steps as there *)
(* are paths.                                                               *)
LEMMA OpenedFollows ==
  ASSUME req \in RequestType, NEW p \in Path,
         NEW f \in [0 .. Cardinality(Path) -> Path], Follows(f, p, Cardinality(Path))
  PROVE  Opened(p) = f[Cardinality(Path)]
<1> DEFINE N == Cardinality(Path)
           Is(g) == g = [n \in 0 .. N |->
                           IF n = 0 THEN p
                           ELSE IF IsLink(g[n - 1]) THEN Target(g[n - 1], g[n - 1][1])
                           ELSE g[n - 1]]
           h == CHOOSE g : Is(g)
<1>1. Opened(p) = h[N]
  BY DEF Opened, EndOf
<1>2. N \in Nat
  BY PathsFinite
<1>3. Is(f)
  <2>1. ASSUME NEW n \in 0 .. N
        PROVE  f[n] = IF n = 0 THEN p
                      ELSE IF IsLink(f[n - 1]) THEN Target(f[n - 1], f[n - 1][1])
                      ELSE f[n - 1]
    <3>1. CASE n = 0
      BY <3>1 DEF Follows
    <3>2. CASE n # 0
      <4>1. n \in 1 .. N
        BY <1>2, <3>2
      <4>2. f[n] = Hop(f[n - 1])
        BY <4>1 DEF Follows
      <4> QED
        BY <3>2, <4>2 DEF Hop
    <3> QED
      BY <3>1, <3>2
  <2> QED
    BY <2>1
<1>4. Is(h)
  <2> HIDE DEF Is
  <2> QED
    BY <1>3
<1> DEFINE T == {n \in 0 .. N : h[n] = f[n]}
<1>5. 0 \in T
  <2>1. 0 \in 0 .. N
    BY <1>2
  <2>2. h[0] = p
    <3> HIDE DEF h
    <3> QED
      BY <1>4, <2>1
  <2>3. f[0] = p
    BY DEF Follows
  <2> QED
    BY <2>1, <2>2, <2>3
<1>6. ASSUME NEW n \in T, n < N
      PROVE  n + 1 \in T
  <2>1. n + 1 \in 1 .. N /\ (n + 1) - 1 = n /\ n + 1 # 0
    BY <1>2, <1>6
  <2>2. h[n + 1] = Hop(h[n])
    <3> HIDE DEF h
    <3> QED
      BY <1>4, <2>1 DEF Hop
  <2>3. f[n + 1] = Hop(f[n])
    BY <2>1 DEF Follows
  <2>4. h[n] = f[n]
    OBVIOUS
  <2>5. h[n + 1] = f[n + 1]
    <3> HIDE DEF h, N
    <3> QED
      BY <2>2, <2>3, <2>4
  <2> QED
    BY <2>1, <2>5
<1>7. T = 0 .. N
  <2> HIDE DEF T
  <2>1. T \in SUBSET (0 .. N)
    BY DEF T
  <2> QED
    BY <1>2, <1>5, <1>6, <2>1, InductionUpTo
<1>8. h[N] = f[N]
  <2>1. N \in T
    <3> HIDE DEF T
    <3> QED
      BY <1>2, <1>7
  <2> HIDE DEF h, N
  <2> QED
    BY <2>1
<1> QED
  BY <1>1, <1>8

(* A path without a link is opened itself.                                  *)
LEMMA NoLinkOpened ==
  ASSUME req \in RequestType, NEW p \in Path, ~IsLink(p)
  PROVE  Opened(p) = p
<1> DEFINE N == Cardinality(Path)
           f == [n \in 0 .. N |-> p]
<1>1. f \in [0 .. N -> Path] /\ N \in Nat
  BY PathsFinite
<1>2. Follows(f, p, N)
  BY <1>1 DEF Follows, Hop
<1>3. f[N] = p
  BY <1>1
<1> HIDE DEF f
<1> QED
  BY <1>1, <1>2, <1>3, OpenedFollows

(* Where there is no link, following stays.                                 *)
LEMMA FollowsStays ==
  ASSUME NEW N \in Nat, NEW f \in [0 .. N -> Path], NEW p, Follows(f, p, N),
         NEW m \in 0 .. N, ~IsLink(f[m]), NEW n \in 0 .. N, m <= n
  PROVE  f[n] = f[m]
<1> DEFINE T == {x \in 0 .. N : x >= m => f[x] = f[m]}
<1>1. 0 \in T
  OBVIOUS
<1>2. ASSUME NEW x \in T, x < N
      PROVE  x + 1 \in T
  <2>1. x + 1 \in 1 .. N /\ (x + 1) - 1 = x
    BY <1>2
  <2>2. f[x + 1] = Hop(f[x])
    BY <2>1 DEF Follows
  <2>3. CASE x >= m
    <3>1. f[x] = f[m]
      BY <2>3
    <3>2. f[x + 1] = f[m]
      BY <2>2, <3>1 DEF Hop
    <3> QED
      BY <2>1, <3>2
  <2>4. CASE ~(x >= m)
    <3>1. x + 1 = m \/ ~(x + 1 >= m)
      BY <2>1, <2>4
    <3> QED
      BY <2>1, <3>1
  <2> QED
    BY <2>3, <2>4
<1>3. T = 0 .. N
  <2> HIDE DEF T
  <2>1. T \in SUBSET (0 .. N)
    BY DEF T
  <2> QED
    BY <1>1, <1>2, <2>1, InductionUpTo
<1> QED
  BY <1>3

(* Links that have been followed from the same path agree.                  *)
LEMMA FollowsMeet ==
  ASSUME NEW N \in Nat, NEW f \in [0 .. N -> Path], NEW p, Follows(f, p, N),
         NEW x \in 0 .. N, NEW y \in 0 .. N, x < y, f[x] = f[y]
  PROVE  \A d \in 0 .. (N - y) : f[x + d] = f[y + d]
<1> DEFINE M == N - y
           T == {d \in 0 .. M : f[x + d] = f[y + d]}
<1>1. M \in Nat /\ x + 0 = x /\ y + 0 = y
  OBVIOUS
<1>2. 0 \in T
  BY <1>1
<1>3. ASSUME NEW d \in T, d < M
      PROVE  d + 1 \in T
  <2>1. /\ x + (d + 1) \in 1 .. N /\ y + (d + 1) \in 1 .. N /\ d + 1 \in 0 .. M
        /\ x + (d + 1) - 1 = x + d /\ y + (d + 1) - 1 = y + d
    BY <1>1, <1>3
  <2>2. f[x + (d + 1)] = Hop(f[x + d]) /\ f[y + (d + 1)] = Hop(f[y + d])
    BY <2>1 DEF Follows
  <2>3. f[x + d] = f[y + d]
    OBVIOUS
  <2> QED
    BY <2>1, <2>2, <2>3
<1>4. T = 0 .. M
  <2> HIDE DEF T
  <2>1. T \in SUBSET (0 .. M)
    BY DEF T
  <2> QED
    BY <1>1, <1>2, <1>3, <2>1, InductionUpTo
<1> QED
  BY <1>4

(* If there is still a link after as many steps as there are paths, there   *)
(* is one after any further step: a path was met twice.                     *)
LEMMA CycleGoesOn ==
  ASSUME NEW N \in Nat, N = Cardinality(Path), NEW f \in [0 .. (N + 1) -> Path],
         NEW p, Follows(f, p, N + 1), IsLink(f[N])
  PROVE  IsLink(f[N + 1])
<1>1. ASSUME NEW m \in 0 .. N
      PROVE  IsLink(f[m])
  <2>1. m \in 0 .. (N + 1) /\ N \in 0 .. (N + 1) /\ m <= N /\ N + 1 \in Nat
    OBVIOUS
  <2> QED
    BY <2>1, FollowsStays
<1>2. PICK x, y \in 0 .. N : x # y /\ f[x] = f[y]
  <2> DEFINE g == [n \in 0 .. N |-> f[n]]
  <2>1. g \in [0 .. N -> Path]
    OBVIOUS
  <2>2. IsFiniteSet(0 .. N) /\ Cardinality(0 .. N) = N + 1
    BY FS_Interval
  <2>3. \E x, y \in 0 .. N : x # y /\ g[x] = g[y]
    <3> HIDE DEF g
    <3>1. Cardinality(Path) < Cardinality(0 .. N)
      BY <2>2
    <3> QED
      BY <2>1, <2>2, <3>1, PathsFinite, FS_PigeonHole
  <2> QED
    BY <2>3
<1>3. ASSUME NEW u \in 0 .. N, NEW v \in 0 .. N, u < v, f[u] = f[v]
      PROVE  IsLink(f[N + 1])
  <2>1. PICK M \in Nat : M = N + 1
    OBVIOUS
  <2>2. PICK d \in Nat : d = M - v
    BY <2>1
  <2>3. u \in 0 .. M /\ v \in 0 .. M /\ f \in [0 .. M -> Path] /\ Follows(f, p, M)
    BY <2>1
  <2>4. \A n \in 0 .. (M - v) : f[u + n] = f[v + n]
    BY <1>3, <2>3, FollowsMeet
  <2>5. d \in 0 .. (M - v) /\ v + d = M
    BY <2>1, <2>2
  <2>6. u + d \in 0 .. N
    BY <1>3, <2>1, <2>2
  <2>7. f[u + d] = f[M]
    BY <2>4, <2>5
  <2>8. IsLink(f[M])
    BY <1>1, <2>6, <2>7
  <2> QED
    BY <2>1, <2>8
<1> QED
  BY <1>2, <1>3

(* A link leads to a file if what it leads to does.                         *)
LEMMA HopLeads ==
  ASSUME req \in RequestType, NEW p \in Path
  PROVE  LeadsToFile(Hop(p)) <=> LeadsToFile(p)
<1> DEFINE N == Cardinality(Path)
<1>1. N \in Nat /\ N + 1 \in Nat /\ 0 \in 0 .. N /\ N \in 0 .. N
  BY PathsFinite
<1>2. PICK f \in [0 .. (N + 1) -> Path] : Follows(f, p, N + 1)
  BY <1>1, FollowsExists
<1> HIDE DEF N
<1>3. Opened(p) = f[N]
  <2> DEFINE g == [n \in 0 .. N |-> f[n]]
  <2>1. g \in [0 .. N -> Path]
    BY <1>1
  <2>2. Follows(g, p, N)
    BY <1>1, <1>2 DEF Follows
  <2>3. g[N] = f[N]
    BY <1>1
  <2> HIDE DEF g
  <2> QED
    BY <2>1, <2>2, <2>3, OpenedFollows DEF N
<1>4. Opened(Hop(p)) = f[N + 1]
  <2> DEFINE g == [n \in 0 .. N |-> f[n + 1]]
  <2>1. g \in [0 .. N -> Path]
    BY <1>1
  <2>2. Follows(g, Hop(p), N)
    <3>1. g[0] = Hop(p)
      BY <1>1, <1>2 DEF Follows
    <3>2. ASSUME NEW n \in 1 .. N
          PROVE  g[n] = Hop(g[n - 1])
      <4>1. n + 1 \in 1 .. (N + 1) /\ n - 1 \in 0 .. N /\ (n + 1) - 1 = (n - 1) + 1 /\ n \in 0 .. N
        BY <1>1
      <4>2. f[n + 1] = Hop(f[(n - 1) + 1])
        BY <1>2, <4>1 DEF Follows
      <4> QED
        BY <4>1, <4>2
    <3> HIDE DEF g
    <3> QED
      BY <3>1, <3>2 DEF Follows
  <2>3. g[N] = f[N + 1]
    BY <1>1
  <2> HIDE DEF g
  <2> QED
    BY <2>1, <2>2, <2>3, OpenedFollows, HopType DEF N
<1>5. CASE IsLink(f[N])
  <2>1. IsLink(f[N + 1])
    BY <1>1, <1>2, <1>5, CycleGoesOn DEF N
  <2> QED
    BY <1>3, <1>4, <1>5, <2>1 DEF LeadsToFile, IsLink
<1>6. CASE ~IsLink(f[N])
  <2>1. f[N + 1] = Hop(f[N])
    BY <1>1, <1>2 DEF Follows
  <2>2. f[N + 1] = f[N]
    BY <1>6, <2>1 DEF Hop
  <2> QED
    BY <1>3, <1>4, <2>2 DEF LeadsToFile
<1> QED
  BY <1>5, <1>6
-------------------------------------------------------------------------------
(* The arguments while they are collected *)

(* Nothing that is asked about the request changes.                         *)
LEMMA FixedParts ==
  ASSUME req' = req
  PROVE  /\ UserArgs' = UserArgs /\ BinaryArgs' = BinaryArgs
         /\ TextIsPath' <=> TextIsPath
         /\ \A p : LeadsToFile(p)' <=> LeadsToFile(p)
<1>1. UserArgs' = UserArgs /\ BinaryArgs' = BinaryArgs
  BY DEF UserArgs, BinaryArgs
<1>2. TextIsPath' <=> TextIsPath
  BY DEF TextIsPath
<1>3. \A p : LeadsToFile(p)' <=> LeadsToFile(p)
  BY DEF LeadsToFile, Opened, EndOf, IsLink, Target
<1> QED
  BY <1>1, <1>2, <1>3

(* Arguments of another step than AddPaths are added to those of libraries. *)
LEMMA PartsAppend ==
  ASSUME NEW libs, Parts(libs), NEW x \in LibraryArg, pc # "done", pc' # "done",
         args' = Append(args, x)
  PROVE  Parts(libs \o <<x>>)'
<1>1. libs \in Seq(LibraryArg) /\ args = libs
  BY DEF Parts
<1>2. Append(libs, x) = libs \o <<x>> /\ libs \o <<x>> \in Seq(LibraryArg)
  BY <1>1
<1> QED
  BY <1>1, <1>2 DEF Parts

LEMMA PartsSame ==
  ASSUME NEW libs, Parts(libs), pc # "done", pc' # "done", args' = args
  PROVE  Parts(libs)'
  BY DEF Parts

LEMMA PartsAdd ==
  ASSUME NEW libs, Parts(libs), AddPaths
  PROVE  Parts(libs)'
<1>1. pc # "done" /\ pc' = "done" /\ req' = req
  BY DEF AddPaths
<1> QED
  BY <1>1, AddPathsArgs, FixedParts DEF Parts

LEMMA PartsStutter ==
  ASSUME NEW libs, Parts(libs), UNCHANGED vars
  PROVE  Parts(libs)'
  BY FixedParts DEF vars, Parts

(* What the two steps that add a library add.                               *)
LEMMA AddedLibrary ==
  ASSUME TypeOK
  PROVE  /\ PassInfix => Arg("-l", Wanted[k]) \in LibraryArg
         /\ Found => Arg("file", <<AllPaths[ip], Wanted[k]>>) \in LibraryArg
<1>1. req \in RequestType /\ Control
  BY TypeParts
<1>2. /\ Len(AllPaths) \in Nat /\ \A i \in 1 .. Len(AllPaths) : AllPaths[i] \in Dir
      /\ Len(Wanted) \in Nat /\ \A i \in 1 .. Len(Wanted) : Wanted[i] \in Name
  BY <1>1, SearchTypes, ElementType
<1>3. ASSUME PassInfix
      PROVE  Arg("-l", Wanted[k]) \in LibraryArg
  <2>1. Wanted[k] \in Name
    BY <1>1, <1>2, <1>3 DEF PassInfix, Control
  <2> QED
    BY <2>1 DEF Arg, LibraryArg
<1>4. ASSUME Found
      PROVE  Arg("file", <<AllPaths[ip], Wanted[k]>>) \in LibraryArg
  <2>1. Wanted[k] \in Name /\ AllPaths[ip] \in Dir
    BY <1>1, <1>2, <1>4 DEF Found, Control
  <2>2. <<AllPaths[ip], Wanted[k]>> \in Path
    BY <2>1 DEF Path
  <2> QED
    BY <2>2 DEF Arg, LibraryArg
<1> QED
  BY <1>3, <1>4

(* In every state the arguments are those of some libraries, and in the end *)
(* those of the paths behind them.                                          *)
LEMMA PartsStep ==
  ASSUME TypeOK, NEW libs, Parts(libs), [Next]_vars
  PROVE  \E ls : Parts(ls)'
<1>1. CASE PassInfix
  <2>1. PICK x : x = Arg("-l", Wanted[k])
    OBVIOUS
  <2>2. x \in LibraryArg /\ pc # "done" /\ pc' # "done" /\ args' = Append(args, x)
    BY <1>1, <2>1, AddedLibrary DEF PassInfix
  <2>3. Parts(libs \o <<x>>)'
    BY <2>2, PartsAppend
  <2> QED
    BY <2>3
<1>2. CASE Found
  <2>1. PICK x : x = Arg("file", <<AllPaths[ip], Wanted[k]>>)
    OBVIOUS
  <2>2. x \in LibraryArg /\ pc # "done" /\ pc' # "done" /\ args' = Append(args, x)
    BY <1>2, <2>1, AddedLibrary DEF Found
  <2>3. Parts(libs \o <<x>>)'
    BY <2>2, PartsAppend
  <2> QED
    BY <2>3
<1>3. CASE CallFindLibrary \/ TryPath \/ FollowLink \/ NoFile \/ Throw \/ NotFound
  <2>1. pc # "done" /\ pc' # "done" /\ args' = args
    BY <1>3 DEF CallFindLibrary, TryPath, FollowLink, NoFile, Throw, NotFound
  <2> QED
    BY <2>1, PartsSame
<1>4. CASE AddPaths
  BY <1>4, PartsAdd
<1>5. CASE UNCHANGED vars
  BY <1>5, PartsStutter
<1> QED
  BY <1>1, <1>2, <1>3, <1>4, <1>5 DEF Next

(* The linker gets each searched path once, in the order of the search.     *)
THEOREM SamePathsAlways == Spec => []SamePaths
<1> DEFINE Inv == TypeOK /\ \E libs : Parts(libs)
<1>1. Init => Inv
  <2>1. ASSUME Init
        PROVE  Parts(<<>>)
    BY <2>1 DEF Init, Parts
  <2> QED
    BY <2>1, TypesInit
<1>2. Inv /\ [Next]_vars => Inv'
  BY TypesStep, PartsStep
<1>3. Inv => SamePaths
  <2>1. pc # "done" => SamePaths
    BY DEF SamePaths
  <2>2. TypeOK => req \in RequestType
    BY DEF TypeOK
  <2> QED
    BY <2>1, <2>2, PartsSamePaths
<1> HIDE DEF Inv
<1> QED
  BY <1>1, <1>2, <1>3, PTL DEF Spec
-------------------------------------------------------------------------------
(* The first match *)

(* If the text of links means the same to both, findLibrary takes the step  *)
(* of the operating system.                                                 *)
LEMMA SameTarget ==
  ASSUME TextIsPath, NEW q \in Path, IsLink(q)
  PROVE  Target(q, Cwd) = Hop(q)
<1>1. CASE req.files[q].kind = "abs"
  BY <1>1 DEF Target, Hop
<1>2. CASE req.files[q].kind # "abs"
  <2>1. req.files[q].kind = "rel"
    BY <1>2 DEF IsLink
  <2>2. q[1] = Cwd
    BY <2>1 DEF TextIsPath
  <2> QED
    BY <2>2 DEF Hop
<1> QED
  BY <1>1, <1>2

(* The first place that leads to a file.                                    *)
LEMMA ExpectedFirst ==
  ASSUME req \in RequestType, NEW lib, lib \notin Infix, NEW n \in 1 .. Len(AllPaths),
         LeadsToFile(<<AllPaths[n], lib>>),
         \A i \in 1 .. n - 1 : ~LeadsToFile(<<AllPaths[i], lib>>)
  PROVE  Expected(lib) = <<Arg("file", <<AllPaths[n], lib>>)>>
<1>1. DOMAIN AllPaths = 1 .. Len(AllPaths) /\ Len(AllPaths) \in Nat
  BY SearchTypes, ElementType
<1>2. n \in Places(lib)
  BY <1>1 DEF Places
<1>3. \A i \in Places(lib) : i \in Nat /\ n <= i
  BY <1>1 DEF Places
<1>4. Min(Places(lib)) = n
  <2>1. \A m \in Places(lib) : (\A i \in Places(lib) : m <= i) => m = n
    BY <1>2, <1>3
  <2> QED
    BY <1>2, <1>3, <2>1 DEF Min
<1> QED
  BY <1>2, <1>4 DEF Expected

LEMMA ExpectedNone ==
  ASSUME req \in RequestType, NEW lib, lib \notin Infix,
         \A i \in 1 .. Len(AllPaths) : ~LeadsToFile(<<AllPaths[i], lib>>)
  PROVE  Expected(lib) = <<>>
<1>1. DOMAIN AllPaths = 1 .. Len(AllPaths)
  BY SearchTypes, ElementType
<1>2. Places(lib) = {}
  BY <1>1 DEF Places
<1> QED
  BY <1>2 DEF Expected

(* What a library should become is an argument for a library.               *)
LEMMA ExpectedType ==
  ASSUME req \in RequestType, NEW lib \in Name
  PROVE  Expected(lib) \in Seq(LibraryArg)
<1>1. CASE lib \in Infix
  <2>1. Arg("-l", lib) \in LibraryArg
    BY DEF Arg, LibraryArg
  <2> QED
    BY <1>1, <2>1 DEF Expected
<1>2. CASE lib \notin Infix /\ Places(lib) = {}
  BY <1>2 DEF Expected
<1>3. CASE lib \notin Infix /\ Places(lib) # {}
  <2>1. DOMAIN AllPaths = 1 .. Len(AllPaths) /\ Len(AllPaths) \in Nat
    BY SearchTypes, ElementType
  <2>2. Places(lib) \in SUBSET Nat
    BY <2>1 DEF Places
  <2>3. PICK n \in Places(lib) : \A i \in Places(lib) : n <= i
    BY <1>3, <2>2, LeastNumber
  <2>4. Min(Places(lib)) \in DOMAIN AllPaths
    <3>1. Min(Places(lib)) \in Places(lib)
      BY <2>3 DEF Min
    <3> QED
      BY <3>1 DEF Places
  <2>5. AllPaths[Min(Places(lib))] \in Dir
    BY <2>4, SearchTypes, ElementType
  <2>6. Arg("file", <<AllPaths[Min(Places(lib))], lib>>) \in LibraryArg
    BY <2>5 DEF Arg, LibraryArg, Path
  <2> QED
    BY <1>3, <2>6 DEF Expected
<1> QED
  BY <1>1, <1>2, <1>3

Expecteds == [i \in DOMAIN Wanted |-> Expected(Wanted[i])]

LEMMA ExpectedsType ==
  ASSUME req \in RequestType
  PROVE  /\ Expecteds \in Seq(Seq(LibraryArg)) /\ Len(Expecteds) = Len(Wanted)
         /\ \A i \in 1 .. Len(Wanted) : Expecteds[i] = Expected(Wanted[i])
<1>1. Wanted \in Seq(Name) /\ DOMAIN Wanted = 1 .. Len(Wanted)
  BY SearchTypes, ElementType
<1>2. \A i \in DOMAIN Wanted : Expected(Wanted[i]) \in Seq(LibraryArg)
  BY <1>1, ElementType, ExpectedType
<1>3. Expecteds \in [DOMAIN Wanted -> Seq(LibraryArg)]
  BY <1>2 DEF Expecteds
<1>4. Expecteds \in Seq(Seq(LibraryArg)) /\ Len(Expecteds) = Len(Wanted)
  BY <1>1, <1>3, MapType
<1> QED
  BY <1>1, <1>4 DEF Expecteds

(* The paths that lead to a file.                                           *)
Files == {p \in Path : LeadsToFile(p)}

(* What is known of the library that is searched: the paths up to now do    *)
(* not lead to a file, and the link that is followed leads to one if the    *)
(* path does.                                                               *)
Searched ==
  /\ pc \in {"paths", "resolve"} =>
       /\ Wanted[k] \notin Infix
       /\ \A i \in 1 .. ip - 1 : <<AllPaths[i], Wanted[k]>> \notin Files
  /\ pc = "resolve" => (cur \in Files <=> <<AllPaths[ip], Wanted[k]>> \in Files)

(* libs are what the libraries in front of k should become.                 *)
AsExpected(libs) ==
  \E g \in [0 .. Len(Wanted) -> Seq(LibraryArg)] : Joins(g, Expecteds) /\ libs = g[k - 1]

(* None of this is changed by a step.                                       *)
LEMMA FixedExpected ==
  ASSUME req' = req
  PROVE  Files' = Files /\ Expecteds' = Expecteds
<1>1. Files' = Files
  BY DEF Files, LeadsToFile, Opened, EndOf, IsLink, Target
<1>2. AllPaths' = AllPaths /\ Wanted' = Wanted
  BY Fixed
<1>3. Expecteds' = Expecteds
  BY <1>2 DEF Expecteds, Expected, Places, LeadsToFile, Opened, EndOf, IsLink, Target
<1> QED
  BY <1>1, <1>3

(* A path that is no link leads to a file if it is one.                     *)
LEMMA NoLinkLeads ==
  ASSUME req \in RequestType, NEW p \in Path, ~IsLink(p)
  PROVE  p \in Files <=> req.files[p].kind = "file"
  BY NoLinkOpened DEF Files, LeadsToFile

LEMMA SearchedStep ==
  ASSUME TypeOK, TextIsPath, Searched, [Next]_vars
  PROVE  Searched'
<1>1. req \in RequestType /\ Control
  BY TypeParts
<1>2. req' = req
  BY DEF Next, vars, PassInfix, CallFindLibrary, TryPath, FollowLink, Found, NoFile, Throw,
         NotFound, AddPaths
<1>3. AllPaths' = AllPaths /\ Wanted' = Wanted /\ Files' = Files
  BY <1>2, Fixed, FixedExpected
<1>4. CASE PassInfix \/ Found \/ Throw \/ NotFound \/ AddPaths
  <2>1. pc' \notin {"paths", "resolve"}
    BY <1>4 DEF PassInfix, Found, Throw, NotFound, AddPaths
  <2> QED
    BY <2>1 DEF Searched
<1>5. CASE CallFindLibrary
  <2>1. pc' = "paths" /\ ip' = 1 /\ k' = k /\ Wanted[k] \notin Infix
    BY <1>5 DEF CallFindLibrary
  <2> QED
    BY <1>3, <2>1 DEF Searched
<1>6. CASE TryPath
  <2>1. /\ pc = "paths" /\ pc' = "resolve" /\ ip' = ip /\ k' = k
        /\ cur' = <<AllPaths[ip], Wanted[k]>>
    BY <1>6 DEF TryPath
  <2> QED
    BY <1>3, <2>1 DEF Searched
<1>7. CASE FollowLink
  <2>1. /\ pc = "resolve" /\ pc' = pc /\ ip' = ip /\ k' = k
        /\ IsLink(cur) /\ cur' = Target(cur, Cwd)
    BY <1>7 DEF FollowLink
  <2>2. cur \in Path
    BY <1>1 DEF Control
  <2>3. cur' = Hop(cur)
    BY <2>1, <2>2, SameTarget
  <2>4. Hop(cur) \in Files <=> cur \in Files
    BY <1>1, <2>2, HopType, HopLeads DEF Files
  <2> QED
    BY <1>3, <2>1, <2>3, <2>4 DEF Searched
<1>8. CASE NoFile
  <2>1. /\ pc = "resolve" /\ pc' = "paths" /\ ip' = ip + 1 /\ k' = k
        /\ req.files[cur].kind \in {"none", "other"}
    BY <1>8 DEF NoFile
  <2>2. cur \in Path /\ ~IsLink(cur)
    BY <1>1, <2>1 DEF Control, IsLink
  <2>3. cur \notin Files
    BY <1>1, <2>1, <2>2, NoLinkLeads
  <2>4. \A i \in 1 .. ip : <<AllPaths[i], Wanted[k]>> \notin Files
    BY <1>1, <2>1, <2>3 DEF Searched, Control
  <2>5. ip' - 1 = ip
    BY <1>1, <2>1 DEF Control
  <2>6. Wanted[k] \notin Infix
    BY <2>1 DEF Searched
  <2> QED
    BY <1>3, <2>1, <2>4, <2>5, <2>6 DEF Searched
<1>9. CASE UNCHANGED vars
  BY <1>3, <1>9 DEF vars, Searched
<1> QED
  BY <1>4, <1>5, <1>6, <1>7, <1>8, <1>9 DEF Next

(* A library that is done with has become what it should.                   *)
LEMMA AsExpectedMore ==
  ASSUME TypeOK, NEW libs, AsExpected(libs), req' = req, k <= Len(Wanted), k' = k + 1,
         NEW more, more = Expected(Wanted[k])
  PROVE  AsExpected(libs \o more)'
<1>1. req \in RequestType /\ k \in Nat \ {0} /\ Len(Wanted) \in Nat
  BY SearchTypes, ElementType, TypeParts DEF Control
<1>2. Wanted' = Wanted /\ Expecteds' = Expecteds
  BY Fixed, FixedExpected
<1>3. PICK g \in [0 .. Len(Wanted) -> Seq(LibraryArg)] : Joins(g, Expecteds) /\ libs = g[k - 1]
  BY DEF AsExpected
<1>4. g[k] = g[k - 1] \o Expected(Wanted[k])
  <2>1. k \in 1 .. Len(Expecteds) /\ Expecteds[k] = Expected(Wanted[k])
    BY <1>1, ExpectedsType
  <2> QED
    BY <1>3, <2>1 DEF Joins
<1>5. k' - 1 = k
  BY <1>1
<1>6. libs \o more = g[k' - 1]
  BY <1>3, <1>4, <1>5
<1>7. Joins(g, Expecteds)'
  BY <1>2, <1>3 DEF Joins
<1> QED
  BY <1>2, <1>6, <1>7 DEF AsExpected

LEMMA AsExpectedSame ==
  ASSUME NEW libs, AsExpected(libs), req' = req, k' = k
  PROVE  AsExpected(libs)'
<1>1. Wanted' = Wanted /\ Expecteds' = Expecteds
  BY Fixed, FixedExpected
<1>2. PICK g \in [0 .. Len(Wanted) -> Seq(LibraryArg)] : Joins(g, Expecteds) /\ libs = g[k - 1]
  BY DEF AsExpected
<1>3. Joins(g, Expecteds)'
  BY <1>1, <1>2 DEF Joins
<1> QED
  BY <1>1, <1>2, <1>3 DEF AsExpected

(* Each library that has been added is the one that should be, and the one  *)
(* that is not found should not be there.                                   *)
LEMMA ExpectedStep ==
  ASSUME TypeOK, Searched, NEW libs, Parts(libs), pc # "threw" => AsExpected(libs), [Next]_vars
  PROVE  \E ls : Parts(ls)' /\ (pc' # "threw" => AsExpected(ls)')
<1>1. req \in RequestType /\ Control
  BY TypeParts
<1>2. /\ Len(AllPaths) \in Nat /\ \A i \in 1 .. Len(AllPaths) : AllPaths[i] \in Dir
      /\ Len(Wanted) \in Nat /\ \A i \in 1 .. Len(Wanted) : Wanted[i] \in Name
  BY <1>1, SearchTypes, ElementType
<1>3. CASE PassInfix
  <2>1. PICK x : x = Arg("-l", Wanted[k])
    OBVIOUS
  <2>2. /\ x \in LibraryArg /\ pc # "done" /\ pc' # "done" /\ args' = Append(args, x)
        /\ req' = req /\ k <= Len(Wanted) /\ k' = k + 1 /\ pc # "threw"
    BY <1>3, <2>1, AddedLibrary DEF PassInfix
  <2>3. Parts(libs \o <<x>>)'
    BY <2>2, PartsAppend
  <2>4. <<x>> = Expected(Wanted[k])
    BY <1>3, <2>1 DEF PassInfix, Expected
  <2>5. AsExpected(libs \o <<x>>)'
    BY <2>2, <2>4, AsExpectedMore
  <2> QED
    BY <2>3, <2>5
<1>4. CASE Found
  <2>1. PICK x : x = Arg("file", <<AllPaths[ip], Wanted[k]>>)
    OBVIOUS
  <2>2. /\ pc = "resolve" /\ req.files[cur].kind = "file"
        /\ pc' = "libraries" /\ args' = Append(args, x) /\ req' = req /\ k' = k + 1
    BY <1>4, <2>1 DEF Found
  <2>3. /\ x \in LibraryArg /\ k <= Len(Wanted) /\ ip \in 1 .. Len(AllPaths) /\ cur \in Path
    BY <1>1, <1>2, <1>4, <2>1, <2>2, AddedLibrary DEF Control
  <2>4. Parts(libs \o <<x>>)'
    BY <2>2, <2>3, PartsAppend
  <2>5. cur \in Files
    BY <1>1, <2>2, <2>3, NoLinkLeads DEF IsLink
  <2>6. /\ Wanted[k] \notin Infix
        /\ <<AllPaths[ip], Wanted[k]>> \in Files
        /\ \A i \in 1 .. ip - 1 : <<AllPaths[i], Wanted[k]>> \notin Files
    BY <2>2, <2>5 DEF Searched
  <2>7. \A i \in 1 .. Len(AllPaths) : <<AllPaths[i], Wanted[k]>> \in Path
    BY <1>1, <1>2, <2>3 DEF Control, Path
  <2>8. /\ LeadsToFile(<<AllPaths[ip], Wanted[k]>>)
        /\ \A i \in 1 .. ip - 1 : ~LeadsToFile(<<AllPaths[i], Wanted[k]>>)
    BY <1>2, <2>3, <2>6, <2>7 DEF Files
  <2>9. <<x>> = Expected(Wanted[k])
    BY <1>1, <2>1, <2>3, <2>6, <2>8, ExpectedFirst
  <2>10. AsExpected(libs \o <<x>>)'
    BY <2>2, <2>3, <2>9, AsExpectedMore
  <2> QED
    BY <2>4, <2>10
<1>5. CASE NotFound
  <2>1. /\ pc = "paths" /\ ip > Len(AllPaths) /\ req' = req /\ k' = k + 1
        /\ pc' = "libraries" /\ args' = args
    BY <1>5 DEF NotFound
  <2>2. k <= Len(Wanted) /\ ip = Len(AllPaths) + 1
    BY <1>1, <1>2, <2>1 DEF Control
  <2>3. /\ Wanted[k] \notin Infix
        /\ \A i \in 1 .. Len(AllPaths) : <<AllPaths[i], Wanted[k]>> \notin Files
    BY <1>2, <2>1, <2>2 DEF Searched
  <2>4. \A i \in 1 .. Len(AllPaths) : <<AllPaths[i], Wanted[k]>> \in Path
    BY <1>1, <1>2, <2>2 DEF Control, Path
  <2>5. \A i \in 1 .. Len(AllPaths) : ~LeadsToFile(<<AllPaths[i], Wanted[k]>>)
    BY <2>3, <2>4 DEF Files
  <2>6. <<>> = Expected(Wanted[k])
    BY <1>1, <2>3, <2>5, ExpectedNone
  <2>7. AsExpected(libs \o <<>>)'
    BY <2>1, <2>2, <2>6, AsExpectedMore
  <2>8. libs \o <<>> = libs
    <3>1. libs \in Seq(LibraryArg)
      BY DEF Parts
    <3> QED
      BY <3>1
  <2>9. Parts(libs)'
    BY <2>1, PartsSame
  <2> QED
    BY <2>7, <2>8, <2>9
<1>6. CASE CallFindLibrary \/ TryPath \/ FollowLink \/ NoFile
  <2>1. /\ pc # "done" /\ pc' # "done" /\ args' = args /\ pc # "threw"
        /\ req' = req /\ k' = k
    BY <1>6 DEF CallFindLibrary, TryPath, FollowLink, NoFile
  <2> QED
    BY <2>1, PartsSame, AsExpectedSame
<1>7. CASE Throw
  <2>1. pc # "done" /\ pc' = "threw" /\ args' = args
    BY <1>7 DEF Throw
  <2> QED
    BY <2>1, PartsSame
<1>8. CASE AddPaths
  <2>1. pc # "threw" /\ req' = req /\ k' = k
    BY <1>8 DEF AddPaths
  <2> QED
    BY <1>8, <2>1, PartsAdd, AsExpectedSame
<1>9. CASE UNCHANGED vars
  <2>1. req' = req /\ k' = k /\ pc' = pc
    BY <1>9 DEF vars
  <2> QED
    BY <1>9, <2>1, PartsStutter, AsExpectedSame
<1> QED
  BY <1>3, <1>4, <1>5, <1>6, <1>7, <1>8, <1>9 DEF Next

(* In the end all libraries are.                                            *)
LEMMA AllAsExpected ==
  ASSUME TypeOK, pc = "done", k = Len(Wanted) + 1, NEW libs, Parts(libs), AsExpected(libs)
  PROVE  LibrariesAre(Expectation)
<1>1. req \in RequestType
  BY TypeParts
<1>2. Len(Wanted) \in Nat
  BY <1>1, SearchTypes, ElementType
<1>3. PICK g \in [0 .. Len(Wanted) -> Seq(LibraryArg)] : Joins(g, Expecteds) /\ libs = g[k - 1]
  BY DEF AsExpected
<1>4. libs = g[Len(Wanted)]
  BY <1>2, <1>3
<1>5. Expectation = libs
  <2>1. FlattenSeq(Expecteds) = g[Len(Expecteds)]
    BY <1>1, <1>3, ExpectedsType, FlattenJoins
  <2> QED
    BY <1>1, <1>4, <2>1, ExpectedsType DEF Expectation, Expecteds
<1> DEFINE L == Len(libs)
           U == Len(req.user)
           P == FlattenSeq(BinaryPaths)
<1>6. /\ L \in Nat /\ U \in Nat /\ Len(P) \in Nat /\ Len(args) = L + U + 2 * Len(P)
      /\ \A i \in 1 .. L : args[i] = libs[i]
      /\ \A i \in 1 .. U : args[L + i] = Arg("-L", req.user[i])
      /\ \A i \in 1 .. Len(P) :
           /\ args[L + U + 2 * i - 1] = Arg("-L", P[i])
           /\ args[L + U + 2 * i] = Arg("-rpath", P[i])
  BY <1>1, PartsElements
<1>7. ASSUME NEW n, NEW kind \in {"-L", "-rpath"}, NEW x, args[n] = Arg(kind, x)
      PROVE  args[n].kind \notin {"-l", "file"}
  BY <1>7 DEF Arg
<1> HIDE DEF L, U, P
<1>8. ASSUME NEW n \in 1 .. Len(args), ~(n <= L)
      PROVE  args[n].kind \notin {"-l", "file"}
  <2>1. CASE n <= L + U
    <3>1. n - L \in 1 .. U /\ L + (n - L) = n
      BY <1>6, <1>8, <2>1
    <3> QED
      BY <1>6, <1>7, <3>1
  <2>2. CASE ~(n <= L + U)
    <3>1. PICK i \in 1 .. Len(P) : n = L + U + 2 * i - 1 \/ n = L + U + 2 * i
      <4>1. n \in 1 .. (L + U + 2 * Len(P))
        BY <1>6
      <4> QED
        BY <1>6, <2>2, <4>1, HalfOf
    <3> QED
      BY <1>6, <1>7, <3>1
  <2> QED
    BY <2>1, <2>2
<1>9. LibrariesAre(libs)
  BY <1>6, <1>8 DEF LibrariesAre, L
<1> QED
  BY <1>5, <1>9

(* Without relative links, each library becomes the first place that leads  *)
(* to a file, in the order in which the linker will need them.              *)
THEOREM FirstMatchAlways == Spec => []FirstMatch
<1> DEFINE Inv ==
      /\ TypeOK
      /\ pc = "done" => k = Len(Wanted) + 1
      /\ TextIsPath =>
           /\ Searched
           /\ \E libs : Parts(libs) /\ (pc # "threw" => AsExpected(libs))
<1>1. Init => Inv
  <2> SUFFICES ASSUME Init
               PROVE  Inv
    OBVIOUS
  <2>1. TypeOK /\ req \in RequestType
    BY TypesInit, TypeParts
  <2>2. pc = "libraries" /\ k = 1 /\ args = <<>>
    BY DEF Init
  <2>3. Searched /\ Parts(<<>>)
    BY <2>2 DEF Searched, Parts
  <2>4. AsExpected(<<>>)
    <3>1. PICK g \in [0 .. Len(Expecteds) -> Seq(LibraryArg)] : Joins(g, Expecteds)
      BY <2>1, ExpectedsType, JoinsExists
    <3>2. g[k - 1] = <<>>
      BY <2>2, <3>1 DEF Joins
    <3>3. Len(Expecteds) = Len(Wanted)
      BY <2>1, ExpectedsType
    <3> QED
      BY <3>1, <3>2, <3>3 DEF AsExpected
  <2> QED
    BY <2>1, <2>2, <2>3, <2>4
<1>2. ASSUME Inv, [Next]_vars
      PROVE  Inv'
  <2>1. TypeOK'
    BY <1>2, TypesStep
  <2>2. (pc = "done" => k = Len(Wanted) + 1)'
    <3>1. req' = req
      BY <1>2 DEF Next, vars, PassInfix, CallFindLibrary, TryPath, FollowLink, Found, NoFile,
                  Throw, NotFound, AddPaths
    <3>2. Wanted' = Wanted
      BY <3>1, Fixed
    <3>3. CASE AddPaths
      <4>1. req \in RequestType /\ Control /\ k > Len(Wanted) /\ k' = k
        BY <1>2, <3>3, TypeParts DEF AddPaths
      <4>2. Len(Wanted) \in Nat
        BY <4>1, SearchTypes, ElementType
      <4>3. k = Len(Wanted) + 1
        BY <4>1, <4>2 DEF Control
      <4> QED
        BY <3>2, <4>1, <4>3
    <3>4. CASE PassInfix \/ CallFindLibrary \/ TryPath \/ FollowLink \/ Found \/ NoFile
                 \/ Throw \/ NotFound
      BY <3>4 DEF PassInfix, CallFindLibrary, TryPath, FollowLink, Found, NoFile, Throw, NotFound
    <3>5. CASE UNCHANGED vars
      BY <1>2, <3>2, <3>5 DEF vars
    <3> QED
      BY <1>2, <3>3, <3>4, <3>5 DEF Next
  <2>3. TextIsPath' <=> TextIsPath
    <3>1. req' = req
      BY <1>2 DEF Next, vars, PassInfix, CallFindLibrary, TryPath, FollowLink, Found, NoFile,
                  Throw, NotFound, AddPaths
    <3> QED
      BY <3>1, FixedParts
  <2>4. ASSUME TextIsPath
        PROVE  /\ Searched'
               /\ \E libs : Parts(libs)' /\ (pc' # "threw" => AsExpected(libs)')
    <3>1. Searched'
      BY <1>2, <2>4, SearchedStep
    <3>2. PICK libs : Parts(libs) /\ (pc # "threw" => AsExpected(libs))
      BY <1>2, <2>4
    <3>3. \E ls : Parts(ls)' /\ (pc' # "threw" => AsExpected(ls)')
      BY <1>2, <2>4, <3>2, ExpectedStep
    <3> QED
      BY <3>1, <3>3
  <2> QED
    BY <2>1, <2>2, <2>3, <2>4
<1>3. Inv => FirstMatch
  <2> SUFFICES ASSUME Inv, pc = "done", TextIsPath
               PROVE  LibrariesAre(Expectation)
    BY DEF FirstMatch
  <2>1. PICK libs : Parts(libs) /\ AsExpected(libs)
    OBVIOUS
  <2> QED
    BY <2>1, AllAsExpected
<1> HIDE DEF Inv
<1> QED
  BY <1>1, <1>2, <1>3, PTL DEF Spec
===============================================================================
