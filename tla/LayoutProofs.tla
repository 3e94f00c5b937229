---------------------------- MODULE LayoutProofs ----------------------------
(***************************************************************************)
(* Proofs about Layout for modules of every size.  Everything rests on one *)
(* inductive invariant, IInv: the type invariant, the items in place, what *)
(* the address loop has established for the intervals it has passed, and   *)
(* what the merge loop has established for the intervals it has passed.    *)
(***************************************************************************)
EXTENDS Layout, FiniteSetTheorems, TLAPS

(* The section loop is at a section, or has gone past the last one. *)
CurInRange ==
  /\ pc \in {"scan", "assign"} => cur <= NS
  /\ pc = "laid" => cur = NS + 1

(* The intervals that layoutModule has given addresses so far. *)
Placed(i) ==
  /\ Live(i)
  /\ sec[i] < cur \/ (pc = "assign" /\ sec[i] = cur /\ i < it)

Placement ==
  pc \in {"scan", "assign", "laid"} =>
    \A i \in Interval : Placed(i) =>
      /\ addr[i] # NoAddr
      /\ addr[i] + size[i] <= A
      /\ \A j \in Interval :
           Placed(j) /\ Before(i, j) => addr[i] + size[i] <= addr[j]

(* The intervals findAndMergeBIs has gone past for good or since it last    *)
(* started over.                                                            *)
Scanned(i) ==
  /\ Live(i)
  /\ \/ sec[i] < cur
     \/ sec[i] = cur /\ (pc = "assign" \/ (pc = "scan" /\ i < it))

Scanning ==
  pc \in {"scan", "assign", "laid"} =>
    \A i \in Interval : Scanned(i) => Settled(i)

IInv ==
  TypeOK /\ CurInRange /\ InBounds(mod) /\ ItemsIntact /\ Placement /\ Scanning
-----------------------------------------------------------------------------
(* A merge joins two different live intervals of the section being laid out *)
(* and moves the items of the second behind the bytes of the first.         *)
LEMMA MergeShape ==
  ASSUME TypeOK, Merge
  PROVE  \E j \in Interval :
           /\ it \in Interval /\ sec[it] = cur /\ sec[j] = cur /\ j # it
           /\ MergeInto(it, j)
           /\ it' = 1 /\ pc = "scan"
           /\ UNCHANGED <<mod, addr, pc, cur, A>>
PROOF
<1>1. PICK c \in Fronts(it), back \in Backs(it) : \E e \in Pending(it, c) :
        Mergeable(it, back, e.dst) /\ MergeInto(it, bi[e.dst])
  BY DEF Merge
<1>2. PICK e \in Pending(it, c) :
        Mergeable(it, back, e.dst) /\ MergeInto(it, bi[e.dst])
  BY <1>1
<1>3. e.dst \in Code /\ e.dst \in Item
  BY <1>2 DEF Mergeable, Item, Block
<1>4. bi[e.dst] \in Interval /\ bi[e.dst] # it /\ sec[bi[e.dst]] = cur
  BY <1>2, <1>3 DEF Pending, Mergeable, TypeOK
<1> QED
  BY <1>2, <1>4 DEF Merge

(* What a module looks like when it is loaded.                              *)
LEMMA InitIInv == Init => IInv
PROOF
<1> SUFFICES ASSUME Init PROVE IInv
  OBVIOUS
<1>1. mod \in ModuleType /\ InBounds(mod)
  BY ModulesAssumption DEF Init
<1>2. TypeOK
  <2>1. \A i \in Interval : bytes[i] \in [0 .. (size[i] - 1) -> Interval \X Nat]
    <3> SUFFICES ASSUME NEW i \in Interval
                 PROVE  bytes[i] \in [0 .. (size[i] - 1) -> Interval \X Nat]
      OBVIOUS
    <3>1. bytes[i] = [k \in 0 .. (mod.size[i] - 1) |-> <<i, k>>] /\ size = mod.size
      BY DEF Init, LoadedBytes
    <3>2. mod.size[i] \in Nat
      BY <1>1 DEF ModuleType
    <3> QED
      BY <3>1, <3>2
  <2>2. bytes = [i \in Interval |-> bytes[i]]
    BY DEF Init, LoadedBytes
  <2> QED
    BY <1>1, <2>1, <2>2, SizesAssumption
    DEF Init, TypeOK, ModuleType, Interval, Sect, Gone
<1>3. ItemsIntact
  <2> SUFFICES ASSUME NEW x \in Item
               PROVE  /\ sec[bi[x]] = mod.sec[mod.bi[x]]
                      /\ off[x] + mod.len[x] <= size[bi[x]]
                      /\ \A k \in 0 .. (mod.len[x] - 1) :
                           bytes[bi[x]][off[x] + k] = <<mod.bi[x], mod.off[x] + k>>
    BY DEF ItemsIntact
  <2>1. /\ mod.bi[x] \in Interval /\ mod.off[x] \in Nat /\ mod.len[x] \in Nat
        /\ mod.size[mod.bi[x]] \in Nat
        /\ mod.off[x] + mod.len[x] <= mod.size[mod.bi[x]]
    BY <1>1 DEF ModuleType, InBounds
  <2>2. bytes[bi[x]] = [k \in 0 .. (mod.size[mod.bi[x]] - 1) |-> <<mod.bi[x], k>>]
    BY <2>1 DEF Init, LoadedBytes
  <2>3. /\ sec = mod.sec /\ size = mod.size /\ bi = mod.bi /\ off = mod.off
    BY DEF Init
  <2>4. ASSUME NEW k \in 0 .. (mod.len[x] - 1)
        PROVE  bytes[bi[x]][off[x] + k] = <<mod.bi[x], mod.off[x] + k>>
    <3>1. mod.off[x] + k \in 0 .. (mod.size[mod.bi[x]] - 1)
      BY <2>1
    <3> QED
      BY <2>2, <2>3, <3>1
  <2> QED
    BY <2>1, <2>3, <2>4
<1>4. CurInRange /\ Placement /\ Scanning
  BY DEF Init, CurInRange, Placement, Scanning
<1> QED
  BY <1>1, <1>2, <1>3, <1>4 DEF IInv

(* Each step keeps the shape of the module, and the cursor in its bounds.   *)
LEMMA TypeStep ==
  ASSUME TypeOK, CurInRange, [Next]_vars
  PROVE  TypeOK' /\ CurInRange'
PROOF
<1>1. CASE Merge
  <2>1. PICK j \in Interval :
          /\ it \in Interval /\ j # it /\ MergeInto(it, j)
          /\ it' = 1 /\ UNCHANGED <<mod, addr, pc, cur, A>>
    BY <1>1, MergeShape
  <2> DEFINE joined == [k \in 0 .. (size[it] + size[j] - 1) |->
               IF k < size[it] THEN bytes[it][k] ELSE bytes[j][k - size[it]]]
  <2>2. /\ size[it] \in Nat /\ size[j] \in Nat
        /\ bytes[it] \in [0 .. (size[it] - 1) -> Interval \X Nat]
        /\ bytes[j] \in [0 .. (size[j] - 1) -> Interval \X Nat]
    BY <2>1 DEF TypeOK
  <2>3. joined \in [0 .. (size[it] + size[j] - 1) -> Interval \X Nat]
    <3> SUFFICES ASSUME NEW k \in 0 .. (size[it] + size[j] - 1)
                 PROVE  (IF k < size[it] THEN bytes[it][k] ELSE bytes[j][k - size[it]])
                          \in Interval \X Nat
      OBVIOUS
    <3>1. k < size[it] => k \in 0 .. (size[it] - 1)
      BY <2>2
    <3>2. ~(k < size[it]) => (k - size[it]) \in 0 .. (size[j] - 1)
      BY <2>2
    <3> QED
      BY <2>2, <3>1, <3>2
  <2>4. bytes' = [bytes EXCEPT ![it] = joined] /\ size'[it] = size[it] + size[j]
    BY <2>1 DEF MergeInto, TypeOK
  <2> HIDE DEF joined
  <2>5. bytes' = [i \in Interval |-> IF i = it THEN joined ELSE bytes[i]]
    BY <2>1, <2>4 DEF TypeOK
  <2>6. \A i \in Interval : bytes'[i] \in [0 .. (size'[i] - 1) -> Interval \X Nat]
    <3> SUFFICES ASSUME NEW i \in Interval
                 PROVE  bytes'[i] \in [0 .. (size'[i] - 1) -> Interval \X Nat]
      OBVIOUS
    <3>1. CASE i = it
      <4>1. bytes'[i] = joined
        BY <2>5, <3>1
      <4>2. size'[i] = size[it] + size[j]
        BY <2>4, <3>1
      <4> QED
        BY <2>2, <2>3, <4>1, <4>2
    <3>2. CASE i # it
      <4>1. bytes'[i] = bytes[i]
        BY <2>5, <3>2
      <4>2. size'[i] = size[i]
        BY <2>1, <3>2 DEF MergeInto, TypeOK
      <4> QED
        BY <4>1, <4>2 DEF TypeOK
    <3> QED
      BY <3>1, <3>2
  <2>7. bytes' = [i \in Interval |-> bytes'[i]]
    BY <2>5
  <2>8. /\ sec' \in [Interval -> Sect \cup {Gone}]
        /\ size' \in [Interval -> Nat]
        /\ bi' \in [Item -> Interval]
        /\ off' \in [Item -> Nat]
    BY <2>1 DEF MergeInto, TypeOK
  <2>9. it' \in 1 .. (NI + 1)
    BY <2>1, SizesAssumption
  <2>10. /\ mod' = mod /\ addr' = addr /\ pc' = pc /\ cur' = cur /\ A' = A
    BY <2>1
  <2>11. TypeOK'
    BY <2>6, <2>7, <2>8, <2>9, <2>10 DEF TypeOK
  <2> QED
    BY <2>10, <2>11 DEF CurInRange
<1>2. CASE BeginLayout
  BY <1>2, SizesAssumption DEF BeginLayout, TypeOK, CurInRange, content
<1>3. CASE Pass
  BY <1>3, SizesAssumption DEF Pass, TypeOK, CurInRange, content, Interval
<1>4. CASE Reject
  BY <1>4 DEF Reject, TypeOK, CurInRange, content
<1>5. CASE EndScan
  BY <1>5, SizesAssumption DEF EndScan, TypeOK, CurInRange, content
<1>6. CASE Assign
  <2>1. it' \in 1 .. (NI + 1)
    BY <1>6, SizesAssumption DEF Assign, TypeOK, Interval
  <2>2. A' \in Nat /\ addr' \in [Interval -> Nat \cup {NoAddr}]
    <3>1. CASE sec[it] = cur
      <4>1. addr' = [addr EXCEPT ![it] = A] /\ A' = A + size[it] /\ it \in Interval
        BY <1>6, <3>1 DEF Assign
      <4> QED
        BY <4>1 DEF TypeOK
    <3>2. CASE sec[it] # cur
      BY <1>6, <3>2 DEF Assign, TypeOK
    <3> QED
      BY <3>1, <3>2
  <2> QED
    BY <1>6, <2>1, <2>2 DEF Assign, TypeOK, CurInRange, content
<1>7. CASE EndAssign
  BY <1>7, SizesAssumption DEF EndAssign, TypeOK, CurInRange, content
<1>8. CASE Remove
  BY <1>8 DEF Remove, TypeOK, CurInRange, content
<1>9. CASE UNCHANGED vars
  BY <1>9 DEF vars, TypeOK, CurInRange, content
<1> QED
  BY <1>1, <1>2, <1>3, <1>4, <1>5, <1>6, <1>7, <1>8, <1>9 DEF Next, LayoutStep

(* Whatever the size of the module, the state keeps its shape through any    *)
(* sequence of layouts and removals; in particular the loops stay in range. *)
THEOREM TypeCorrect == Spec => []TypeOK
PROOF
<1>1. Init => TypeOK /\ CurInRange
  BY InitIInv DEF IInv
<1>2. TypeOK /\ CurInRange /\ [Next]_vars => (TypeOK /\ CurInRange)'
  BY TypeStep
<1> QED
  BY <1>1, <1>2, PTL DEF Spec

(* A merge is the only step that moves items, and it moves them as it moves *)
(* the bytes they lie on.                                                   *)
LEMMA ItemsStep ==
  ASSUME TypeOK, ItemsIntact, [Next]_vars
  PROVE  ItemsIntact'
PROOF
<1>1. CASE Merge
  <2>1. PICK j \in Interval :
          /\ it \in Interval /\ sec[it] = cur /\ sec[j] = cur /\ j # it
          /\ MergeInto(it, j) /\ UNCHANGED mod
    BY <1>1, MergeShape
  <2> SUFFICES ASSUME NEW x \in Item
               PROVE  /\ sec'[bi'[x]] = mod.sec[mod.bi[x]]
                      /\ off'[x] + mod.len[x] <= size'[bi'[x]]
                      /\ \A k \in 0 .. (mod.len[x] - 1) :
                           bytes'[bi'[x]][off'[x] + k] = <<mod.bi[x], mod.off[x] + k>>
    BY <2>1 DEF ItemsIntact
  <2> DEFINE joined == [k \in 0 .. (size[it] + size[j] - 1) |->
               IF k < size[it] THEN bytes[it][k] ELSE bytes[j][k - size[it]]]
  <2>2. /\ sec[bi[x]] = mod.sec[mod.bi[x]]
        /\ off[x] + mod.len[x] <= size[bi[x]]
        /\ \A k \in 0 .. (mod.len[x] - 1) :
             bytes[bi[x]][off[x] + k] = <<mod.bi[x], mod.off[x] + k>>
    BY DEF ItemsIntact
  <2>3. /\ bi[x] \in Interval /\ off[x] \in Nat /\ mod.len[x] \in Nat
        /\ size[it] \in Nat /\ size[j] \in Nat /\ size[bi[x]] \in Nat
    BY <2>1 DEF TypeOK, ModuleType
  <2>4. /\ bytes' = [i \in Interval |-> IF i = it THEN joined ELSE bytes[i]]
        /\ size' = [i \in Interval |-> IF i = it THEN size[it] + size[j] ELSE size[i]]
        /\ sec' = [i \in Interval |-> IF i = j THEN Gone ELSE sec[i]]
        /\ bi'[x] = (IF bi[x] = j THEN it ELSE bi[x])
        /\ off'[x] = (IF bi[x] = j THEN size[it] + off[x] ELSE off[x])
    BY <2>1 DEF MergeInto, TypeOK
  <2>5. CASE bi[x] = j
    <3>1. /\ bi'[x] = it /\ off'[x] = size[it] + off[x]
          /\ sec'[it] = sec[j] /\ size'[it] = size[it] + size[j]
          /\ bytes'[it] = joined
      BY <2>1, <2>4, <2>5
    <3>2. ASSUME NEW k \in 0 .. (mod.len[x] - 1)
          PROVE  joined[size[it] + off[x] + k] = bytes[j][off[x] + k]
      <4>1. /\ size[it] + off[x] + k \in 0 .. (size[it] + size[j] - 1)
            /\ ~(size[it] + off[x] + k < size[it])
            /\ (size[it] + off[x] + k) - size[it] = off[x] + k
        BY <2>2, <2>3, <2>5
      <4> QED
        BY <4>1
    <3> HIDE DEF joined
    <3>3. \A k \in 0 .. (mod.len[x] - 1) :
            bytes'[it][off'[x] + k] = <<mod.bi[x], mod.off[x] + k>>
      BY <2>2, <2>5, <3>1, <3>2
    <3>4. sec'[bi'[x]] = mod.sec[mod.bi[x]] /\ off'[x] + mod.len[x] <= size'[bi'[x]]
      BY <2>2, <2>3, <2>5, <3>1
    <3> QED
      BY <3>1, <3>3, <3>4
  <2>6. CASE bi[x] = it
    <3>1. /\ bi'[x] = it /\ off'[x] = off[x]
          /\ sec'[it] = sec[it] /\ size'[it] = size[it] + size[j]
          /\ bytes'[it] = joined
      BY <2>1, <2>4, <2>6
    <3>2. ASSUME NEW k \in 0 .. (mod.len[x] - 1)
          PROVE  joined[off[x] + k] = bytes[it][off[x] + k]
      <4>1. off[x] + k \in 0 .. (size[it] + size[j] - 1) /\ off[x] + k < size[it]
        BY <2>2, <2>3, <2>6
      <4> QED
        BY <4>1
    <3> HIDE DEF joined
    <3>3. \A k \in 0 .. (mod.len[x] - 1) :
            bytes'[it][off'[x] + k] = <<mod.bi[x], mod.off[x] + k>>
      BY <2>2, <2>6, <3>1, <3>2
    <3>4. sec'[bi'[x]] = mod.sec[mod.bi[x]] /\ off'[x] + mod.len[x] <= size'[bi'[x]]
      BY <2>2, <2>3, <2>6, <3>1
    <3> QED
      BY <3>1, <3>3, <3>4
  <2>7. CASE bi[x] # it /\ bi[x] # j
    BY <2>2, <2>3, <2>4, <2>7
  <2> QED
    BY <2>5, <2>6, <2>7
<1>2. ASSUME UNCHANGED <<mod, content>> PROVE ItemsIntact'
  BY <1>2 DEF ItemsIntact, content
<1>3. Next /\ ~Merge => UNCHANGED <<mod, content>>
  BY DEF Next, LayoutStep, BeginLayout, Pass, Reject, EndScan, Assign, EndAssign, Remove
<1> QED
  BY <1>1, <1>2, <1>3 DEF vars

(* However many intervals findAndMergeBIs joins, in a module of any size,   *)
(* every block and symbolic expression stays on the bytes it was loaded on. *)
THEOREM ItemsIntactAlways == Spec => []ItemsIntact
PROOF
<1>1. Init => TypeOK /\ CurInRange /\ ItemsIntact
  BY InitIInv DEF IInv
<1>2. TypeOK /\ CurInRange /\ ItemsIntact /\ [Next]_vars
        => (TypeOK /\ CurInRange /\ ItemsIntact)'
  BY TypeStep, ItemsStep
<1> QED
  BY <1>1, <1>2, PTL DEF Spec

(* No merge, layout or removal changes the distance of two items of one     *)
(* interval.                                                                *)
THEOREM DistanceKeptAlways == Spec => DistanceKept
PROOF
<1> DEFINE Kept == \A x, y \in Item : bi[x] = bi[y] =>
                     bi'[x] = bi'[y] /\ off'[x] - off'[y] = off[x] - off[y]
<1>1. ASSUME TypeOK, [Next]_vars PROVE Kept \/ UNCHANGED vars
  <2>1. CASE Merge
    <3>1. PICK j \in Interval : MergeInto(it, j) /\ it \in Interval
      BY <1>1, <2>1, MergeShape
    <3> SUFFICES ASSUME NEW x \in Item, NEW y \in Item, bi[x] = bi[y]
                 PROVE  bi'[x] = bi'[y] /\ off'[x] - off'[y] = off[x] - off[y]
      OBVIOUS
    <3>2. off[x] \in Nat /\ off[y] \in Nat /\ size[it] \in Nat
      BY <1>1, <3>1 DEF TypeOK
    <3>3. /\ bi'[x] = (IF bi[x] = j THEN it ELSE bi[x])
          /\ bi'[y] = (IF bi[y] = j THEN it ELSE bi[y])
          /\ off'[x] = (IF bi[x] = j THEN size[it] + off[x] ELSE off[x])
          /\ off'[y] = (IF bi[y] = j THEN size[it] + off[y] ELSE off[y])
      BY <3>1 DEF MergeInto
    <3> QED
      BY <3>2, <3>3
  <2>2. Next /\ ~Merge => UNCHANGED <<bi, off>>
    BY DEF Next, LayoutStep, BeginLayout, Pass, Reject, EndScan, Assign, EndAssign,
           Remove, content
  <2> QED
    BY <1>1, <2>1, <2>2
<1>2. Spec => []TypeOK
  BY TypeCorrect
<1>3. TypeOK /\ [Next]_vars => [Kept]_vars
  BY <1>1
<1> QED
  BY <1>2, <1>3, PTL DEF Spec, DistanceKept

-----------------------------------------------------------------------------
(* Assigning an address keeps the intervals in front of the cursor in order; *)
(* no other step assigns one.                                               *)
LEMMA PlacementStep ==
  ASSUME TypeOK, CurInRange, Placement, [Next]_vars
  PROVE  Placement'
PROOF
<1> USE DEF Live, Gone
<1>1. CASE Merge
  <2>1. PICK j \in Interval :
          /\ it \in Interval /\ sec[it] = cur /\ sec[j] = cur /\ j # it
          /\ MergeInto(it, j) /\ pc = "scan"
          /\ UNCHANGED <<addr, pc, cur, A>>
    BY <1>1, MergeShape
  <2>2. \A i \in Interval : Placed(i)' =>
          /\ i # it /\ i # j /\ Placed(i)
          /\ sec'[i] = sec[i] /\ size'[i] = size[i] /\ addr'[i] = addr[i]
    BY <2>1 DEF MergeInto, Placed, TypeOK
  <2> QED
    BY <2>1, <2>2 DEF Placement, Before
<1>2. CASE BeginLayout
  BY <1>2 DEF BeginLayout, Placement, Placed, TypeOK, content, Sect
<1>3. CASE Pass
  BY <1>3 DEF Pass, Placement, Placed, Before, content
<1>4. CASE Reject
  BY <1>4 DEF Reject, Placement
<1>5. CASE EndScan
  BY <1>5 DEF EndScan, Placement, Placed, Before, content, Interval
<1>6. CASE Assign
  <2>1. /\ pc = "assign" /\ pc' = "assign" /\ it \in Interval /\ it' = it + 1
        /\ cur' = cur /\ sec' = sec /\ size' = size
    BY <1>6 DEF Assign, content
  <2>2. CASE sec[it] # cur
    <3>1. addr' = addr /\ A' = A
      BY <1>6, <2>2 DEF Assign
    <3>2. \A i \in Interval : Placed(i)' => Placed(i)
      BY <2>1, <2>2, SizesAssumption DEF Placed, Interval
    <3> QED
      BY <2>1, <3>1, <3>2 DEF Placement, Before
  <2>3. CASE sec[it] = cur
    <3>1. addr' = [addr EXCEPT ![it] = A] /\ A' = A + size[it]
      BY <1>6, <2>3 DEF Assign
    <3>2. /\ A \in Nat /\ size[it] \in Nat /\ A # NoAddr
          /\ addr'[it] = A
          /\ \A i \in Interval : i # it => addr'[i] = addr[i]
      BY <2>1, <3>1 DEF TypeOK, NoAddr
    <3>3. \A i \in Interval : Placed(i)' => Placed(i) \/ i = it
      BY <2>1, SizesAssumption DEF Placed, Interval
    <3>4. ~Placed(it) /\ \A i \in Interval : Placed(i) => ~Before(it, i)
      BY <2>1, <2>3, SizesAssumption DEF Placed, Before, Interval, TypeOK, Sect
    <3>5. ASSUME NEW i \in Interval, Placed(i)'
          PROVE  /\ addr'[i] # NoAddr /\ addr'[i] + size[i] <= A'
                 /\ \A j \in Interval : Placed(j)' /\ Before(i, j) =>
                      addr'[i] + size[i] <= addr'[j]
      <4>1. CASE i = it
        <5>1. \A j \in Interval : Placed(j)' /\ Before(i, j) => FALSE
          BY <3>3, <3>4, <4>1, <2>1, SizesAssumption DEF Before, Interval, TypeOK, Sect
        <5> QED
          BY <3>1, <3>2, <4>1, <5>1
      <4>2. CASE i # it
        <5>1. Placed(i) /\ addr'[i] = addr[i] /\ addr[i] # NoAddr /\ addr[i] + size[i] <= A
          BY <2>1, <3>2, <3>3, <3>5, <4>2 DEF Placement
        <5>2. addr[i] \in Nat /\ size[i] \in Nat
          BY <5>1 DEF TypeOK
        <5>3. ASSUME NEW j \in Interval, Placed(j)', Before(i, j)
              PROVE  addr'[i] + size[i] <= addr'[j]
          <6>1. CASE j = it
            BY <3>2, <5>1, <6>1
          <6>2. CASE j # it
            <7>1. Placed(j) /\ addr'[j] = addr[j]
              BY <3>2, <3>3, <5>3, <6>2
            <7> QED
              BY <2>1, <5>1, <5>3, <7>1 DEF Placement
          <6> QED
            BY <6>1, <6>2
        <5> QED
          BY <3>1, <3>2, <5>1, <5>2, <5>3
      <4> QED
        BY <4>1, <4>2
    <3> QED
      BY <2>1, <3>5 DEF Placement, Before
  <2> QED
    BY <2>2, <2>3
<1>7. CASE EndAssign
  <2>1. \A i \in Interval : Placed(i)' => Placed(i)
    BY <1>7, SizesAssumption DEF EndAssign, Placed, Interval, TypeOK, content, Sect
  <2> QED
    BY <1>7, <2>1 DEF EndAssign, Placement, Before, content
<1>8. CASE Remove
  BY <1>8 DEF Remove, Placement
<1>9. CASE UNCHANGED vars
  BY <1>9 DEF vars, content, Placement, Placed, Before
<1> QED
  BY <1>1, <1>2, <1>3, <1>4, <1>5, <1>6, <1>7, <1>8, <1>9 DEF Next, LayoutStep

(* A layout that layoutModule reports as successful has addresses for all   *)
(* intervals, and they neither overlap nor leave their order.               *)
THEOREM NonOverlappingAlways == Spec => []NonOverlapping
PROOF
<1> DEFINE Inv == TypeOK /\ CurInRange /\ Placement
<1>1. Init => Inv
  BY InitIInv DEF IInv
<1>2. Inv /\ [Next]_vars => Inv'
  BY TypeStep, PlacementStep
<1>3. Inv => NonOverlapping
  <2> SUFFICES ASSUME Inv, pc = "laid"
               PROVE  /\ \A i \in Interval : Live(i) => addr[i] # NoAddr
                      /\ \A i, j \in Interval :
                           Live(i) /\ Live(j) /\ Before(i, j) =>
                             addr[i] + size[i] <= addr[j]
    BY DEF NonOverlapping
  <2>1. \A i \in Interval : Live(i) => Placed(i)
    BY SizesAssumption DEF CurInRange, Placed, Live, TypeOK, Sect
  <2> QED
    BY <2>1 DEF Placement
<1> QED
  BY <1>1, <1>2, <1>3, PTL DEF Spec

-----------------------------------------------------------------------------
(* What the scan has passed stays settled: a merge in section cur disturbs  *)
(* only intervals of cur, and then the scan of cur starts anew.             *)
LEMMA ScanningStep ==
  ASSUME TypeOK, CurInRange, Scanning, [Next]_vars
  PROVE  Scanning'
PROOF
<1> USE DEF Live, Gone
<1>1. CASE Merge
  <2>1. PICK j \in Interval :
          /\ it \in Interval /\ sec[it] = cur /\ sec[j] = cur /\ j # it
          /\ MergeInto(it, j) /\ it' = 1 /\ pc = "scan"
          /\ UNCHANGED <<mod, pc, cur>>
    BY <1>1, MergeShape
  <2> SUFFICES ASSUME NEW i \in Interval, Scanned(i)'
               PROVE  Settled(i)'
    BY DEF Scanning
  <2>2. i # it /\ i # j /\ Scanned(i)
    BY <2>1 DEF MergeInto, Scanned, TypeOK, Interval
  <2>3. \A x \in Item : (bi'[x] = i <=> bi[x] = i) /\ (bi[x] = i => off'[x] = off[x])
    BY <2>1, <2>2 DEF MergeInto
  <2>4. CodeIn(i)' = CodeIn(i)
    BY <2>3 DEF CodeIn, Item, Block
  <2>5. Settled(i)
    BY <2>1, <2>2 DEF Scanning
  <2>6. CASE CodeIn(i) = {}
    BY <2>4, <2>6 DEF Settled
  <2>7. ASSUME NEW c \in Fronts(i), Pending(i, c) = {} PROVE Settled(i)'
    <3>1. c \in Fronts(i)'
      BY <2>3, <2>4 DEF Fronts, CodeIn, Item, Block
    <3>2. Pending(i, c)' = {}
      BY <2>1, <2>3, <2>7 DEF Pending, Item, Block
    <3> QED
      BY <3>1, <3>2 DEF Settled
  <2> QED
    BY <2>5, <2>6, <2>7 DEF Settled
<1>2. ASSUME UNCHANGED <<mod, content>>,
             \A i \in Interval : Scanned(i)' /\ pc' \in {"scan", "assign", "laid"} =>
               Settled(i)
      PROVE  Scanning'
  BY <1>2 DEF Scanning, Settled, Fronts, Pending, CodeIn, content
<1>3. CASE BeginLayout
  BY <1>2, <1>3 DEF BeginLayout, Scanned, TypeOK, content, Sect, Interval
<1>4. CASE Pass
  <2>1. \A i \in Interval : Scanned(i)' => Scanned(i) \/ (i = it /\ sec[it] = cur)
    BY <1>4, SizesAssumption DEF Pass, Scanned, Interval, content
  <2>2. sec[it] = cur => Settled(it)
    BY <1>4 DEF Pass, Settled
  <2> QED
    BY <1>2, <1>4, <2>1, <2>2 DEF Pass, Scanning
<1>5. CASE Reject
  BY <1>2, <1>5 DEF Reject
<1>6. CASE EndScan
  <2>1. \A i \in Interval : Scanned(i)' => Scanned(i)
    BY <1>6, SizesAssumption DEF EndScan, Scanned, Interval, content
  <2> QED
    BY <1>2, <1>6, <2>1 DEF EndScan, Scanning
<1>7. CASE Assign
  <2>1. \A i \in Interval : Scanned(i)' => Scanned(i)
    BY <1>7 DEF Assign, Scanned, content
  <2> QED
    BY <1>2, <1>7, <2>1 DEF Assign, Scanning
<1>8. CASE EndAssign
  <2>1. \A i \in Interval : Scanned(i)' => Scanned(i)
    BY <1>8, SizesAssumption DEF EndAssign, Scanned, Interval, TypeOK, content, Sect
  <2> QED
    BY <1>2, <1>8, <2>1 DEF EndAssign, Scanning
<1>9. CASE Remove
  BY <1>2, <1>9 DEF Remove
<1>10. CASE UNCHANGED vars
  BY <1>10 DEF vars, content, Scanning, Scanned, Settled, Fronts, Pending, CodeIn
<1> QED
  BY <1>1, <1>3, <1>4, <1>5, <1>6, <1>7, <1>8, <1>9, <1>10 DEF Next, LayoutStep

(* A layout that layoutModule reports as successful leaves no interval that *)
(* findAndMergeBIs would still merge or reject.                             *)
THEOREM NothingPendingAlways == Spec => []NothingPending
PROOF
<1> DEFINE Inv == TypeOK /\ CurInRange /\ Scanning
<1>1. Init => Inv
  BY InitIInv DEF IInv
<1>2. Inv /\ [Next]_vars => Inv'
  BY TypeStep, ScanningStep
<1>3. Inv => NothingPending
  BY SizesAssumption
  DEF CurInRange, Scanning, Scanned, NothingPending, Live, TypeOK, Sect
<1> QED
  BY <1>1, <1>2, <1>3, PTL DEF Spec

-----------------------------------------------------------------------------
(* Sums over sets.  MapThenSumSet is a recursive function on sets that      *)
(* takes elements away in an order of its own; what matters here is that    *)
(* any order gives the same sum.                                            *)

(* The element of a set that MapThenSumSet deals with next.                 *)
Pick(s) == CHOOSE x \in s : TRUE

(* h gives the sums of f over the subsets of S.                             *)
Solves(f, h, S) ==
  h = [s \in SUBSET S |-> IF s = {} THEN 0 ELSE f[Pick(s)] + h[s \ {Pick(s)}]]

(* The sum of f over S.                                                     *)
Total(f, S) == MapThenSumSet(LAMBDA j : f[j], S)

(* What MapThenSumSet means: its recursion is over the subsets of S.        *)
LEMMA TotalDef ==
  ASSUME NEW f, NEW S
  PROVE  Total(f, S) = (CHOOSE h : Solves(f, h, S))[S]
BY DEF Total, MapThenSumSet, MapThenFoldSet, Solves, Pick

(* Induction over the subsets of a finite set, in the form of sets: N has   *)
(* them all if it has every one of which it has all smaller ones.           *)
LEMMA SubsetInduction ==
  ASSUME NEW S, IsFiniteSet(S), NEW N,
         \A s \in SUBSET S : (\A t \in SUBSET s : t # s => t \in N) => s \in N
  PROVE  \A s \in SUBSET S : s \in N
<1>. DEFINE T == {s \in SUBSET S : s \notin N}
<1>. SUFFICES ASSUME T # {} PROVE FALSE
  OBVIOUS
<1>1. IsWellFoundedOn(StrictSubsetOrdering(S), SUBSET S)
  <2>1. IsWellFoundedOn(StrictSubsetOrdering(S), FiniteSubsetsOf(S))
    BY FS_StrictSubsetOrderingWellFounded
  <2>2. FiniteSubsetsOf(S) = SUBSET S
    BY FS_FiniteSubsetsOfFinite
  <2>. QED  BY <2>1, <2>2
<1>2. PICK s \in T : \A t \in T : ~ (<<t, s>> \in StrictSubsetOrdering(S))
  <2>1. T \subseteq SUBSET S
    OBVIOUS
  <2>. HIDE DEF T
  <2>. QED  BY <1>1, <2>1, WFMin
<1>3. \A t \in SUBSET s : t # s => t \in N
  BY <1>2 DEF StrictSubsetOrdering
<1>. QED  BY <1>2, <1>3

(* It is an element of the set. *)
LEMMA Picked == ASSUME NEW s, s # {} PROVE Pick(s) \in s
BY DEF Pick

(* All solutions agree where they are both about a set.                     *)
LEMMA SolutionsAgree ==
  ASSUME NEW S, IsFiniteSet(S), NEW T, NEW U, S \subseteq T, S \subseteq U,
         NEW f, NEW e, \A x \in S : e[x] = f[x],
         NEW g, NEW h, Solves(f, g, T), Solves(e, h, U)
  PROVE  g[S] = h[S]
<1>. DEFINE N == {s \in SUBSET S : g[s] = h[s]}
<1>1. ASSUME NEW s \in SUBSET S, \A t \in SUBSET s : t # s => t \in N
      PROVE  s \in N
  <2>1. g[s] = IF s = {} THEN 0 ELSE f[Pick(s)] + g[s \ {Pick(s)}]
    BY DEF Solves
  <2>2. h[s] = IF s = {} THEN 0 ELSE e[Pick(s)] + h[s \ {Pick(s)}]
    BY DEF Solves
  <2>3. s # {} => Pick(s) \in s /\ e[Pick(s)] = f[Pick(s)]
    BY Picked
  <2>4. s # {} => g[s \ {Pick(s)}] = h[s \ {Pick(s)}]
    BY <1>1, <2>3
  <2>. QED  BY <2>1, <2>2, <2>3, <2>4
<1>. HIDE DEF N
<1>2. S \in N
  BY <1>1, SubsetInduction
<1>. QED  BY <1>2 DEF N

(* There is a solution for every finite set.                                *)
LEMMA SolutionExists ==
  ASSUME NEW S, IsFiniteSet(S), NEW f
  PROVE  Solves(f, CHOOSE h : Solves(f, h, S), S)
<1>. DEFINE H(t) == CHOOSE h : Solves(f, h, t)
            N    == {s \in SUBSET S : Solves(f, H(s), s)}
<1>1. ASSUME NEW s \in SUBSET S, \A t \in SUBSET s : t # s => t \in N
      PROVE  s \in N
  <2>. DEFINE val(t) == IF t = {} THEN 0 ELSE f[Pick(t)] + H(t \ {Pick(t)})[t \ {Pick(t)}]
              h == [t \in SUBSET s |-> val(t)]
  <2>1. ASSUME NEW t \in SUBSET s, t # {}
        PROVE  h[t \ {Pick(t)}] = H(t \ {Pick(t)})[t \ {Pick(t)}]
    <3>. DEFINE u == t \ {Pick(t)}
                v == u \ {Pick(u)}
    <3>1. u \in SUBSET s /\ u # s
      BY <2>1, Picked
    <3>2. Solves(f, H(u), u)
      BY <3>1, <1>1
    <3>3. H(u)[u] = IF u = {} THEN 0 ELSE f[Pick(u)] + H(u)[v]
      BY <3>2 DEF Solves
    <3>4. ASSUME u # {}
          PROVE  H(u)[v] = H(v)[v]
      <4>1. v \in SUBSET s /\ v # s /\ v \subseteq u
        BY <3>1, <3>4, Picked
      <4>2. Solves(f, H(v), v)
        BY <4>1, <1>1
      <4>3. IsFiniteSet(v)
        BY <4>1, FS_Subset
      <4>. HIDE DEF H, u, v
      <4>. QED  BY <4>1, <4>2, <4>3, <3>2, SolutionsAgree
    <3>5. h[u] = IF u = {} THEN 0 ELSE f[Pick(u)] + H(v)[v]
      BY <3>1
    <3>. QED  BY <3>3, <3>4, <3>5
  <2>2. h = [t \in SUBSET s |-> IF t = {} THEN 0 ELSE f[Pick(t)] + h[t \ {Pick(t)}]]
    <3>1. h = [t \in SUBSET s |-> val(t)]
      OBVIOUS
    <3>. HIDE DEF h
    <3>2. \A t \in SUBSET s : val(t) = IF t = {} THEN 0 ELSE f[Pick(t)] + h[t \ {Pick(t)}]
      BY <2>1
    <3>. HIDE DEF val
    <3>. QED  BY <3>1, <3>2
  <2>3. Solves(f, h, s)
    BY <2>2 DEF Solves
  <2>. HIDE DEF h
  <2>4. Solves(f, H(s), s)
    BY <2>3
  <2>. QED  BY <2>4
<1>. HIDE DEF N
<1>2. S \in N
  BY <1>1, SubsetInduction
<1>. QED  BY <1>2 DEF N

(* The sum is that over what is left when Pick takes an element away.       *)
LEMMA TotalStep ==
  ASSUME NEW S, IsFiniteSet(S), NEW f
  PROVE  Total(f, S) = IF S = {} THEN 0 ELSE f[Pick(S)] + Total(f, S \ {Pick(S)})
<1>. DEFINE g == CHOOSE h : Solves(f, h, S)
            R == S \ {Pick(S)}
            e == CHOOSE h : Solves(f, h, R)
<1>1. Solves(f, g, S) /\ Total(f, S) = g[S]
  BY SolutionExists, TotalDef
<1>2. IsFiniteSet(R) /\ R \subseteq S
  BY FS_RemoveElement
<1>3. Solves(f, e, R) /\ Total(f, R) = e[R]
  BY <1>2, SolutionExists, TotalDef
<1>. HIDE DEF g, e
<1>4. g[R] = e[R]
  BY <1>1, <1>2, <1>3, SolutionsAgree
<1>5. g[S] = IF S = {} THEN 0 ELSE f[Pick(S)] + g[R]
  BY <1>1 DEF Solves
<1>. QED  BY <1>1, <1>3, <1>4, <1>5

(* Only the values on the set matter.                                       *)
LEMMA TotalSame ==
  ASSUME NEW S, IsFiniteSet(S), NEW f, NEW e, \A x \in S : f[x] = e[x]
  PROVE  Total(f, S) = Total(e, S)
<1>. DEFINE g == CHOOSE h : Solves(f, h, S)
            h == CHOOSE h : Solves(e, h, S)
<1>1. Solves(f, g, S) /\ Total(f, S) = g[S]
  BY SolutionExists, TotalDef
<1>2. Solves(e, h, S) /\ Total(e, S) = h[S]
  BY SolutionExists, TotalDef
<1>. HIDE DEF g, h
<1>. QED  BY <1>1, <1>2, SolutionsAgree

(* The sum of numbers is a number.                                          *)
LEMMA TotalType ==
  ASSUME NEW S, IsFiniteSet(S), NEW f, \A x \in S : f[x] \in Nat
  PROVE  Total(f, S) \in Nat
<1>. DEFINE N == {s \in SUBSET S : Total(f, s) \in Nat}
<1>1. ASSUME NEW s \in SUBSET S, \A t \in SUBSET s : t # s => t \in N
      PROVE  s \in N
  <2>1. Total(f, s) = IF s = {} THEN 0 ELSE f[Pick(s)] + Total(f, s \ {Pick(s)})
    BY TotalStep, FS_Subset
  <2>2. s # {} => Total(f, s \ {Pick(s)}) \in Nat /\ f[Pick(s)] \in Nat
    BY <1>1, Picked
  <2>. QED  BY <2>1, <2>2
<1>. HIDE DEF N
<1>2. S \in N
  BY <1>1, SubsetInduction
<1>. QED  BY <1>2 DEF N

(* Any element may be taken away first.                                     *)
LEMMA TotalWithout ==
  ASSUME NEW S, IsFiniteSet(S), NEW f, \A x \in S : f[x] \in Nat, NEW x \in S
  PROVE  Total(f, S) = f[x] + Total(f, S \ {x})
<1>. DEFINE N == {s \in SUBSET S : \A y \in s : Total(f, s) = f[y] + Total(f, s \ {y})}
<1>1. ASSUME NEW s \in SUBSET S, \A t \in SUBSET s : t # s => t \in N
      PROVE  s \in N
  <2>. SUFFICES ASSUME NEW y \in s
                PROVE  Total(f, s) = f[y] + Total(f, s \ {y})
    OBVIOUS
  <2>. DEFINE p == Pick(s)
              r == (s \ {p}) \ {y}
  <2>1. /\ p \in s /\ IsFiniteSet(s) /\ IsFiniteSet(s \ {p}) /\ IsFiniteSet(s \ {y})
        /\ IsFiniteSet(r)
    BY Picked, FS_Subset, FS_RemoveElement
  <2>2. Total(f, s) = f[p] + Total(f, s \ {p})
    BY <2>1, TotalStep
  <2>3. f[p] \in Nat /\ f[y] \in Nat /\ Total(f, r) \in Nat
    BY <2>1, TotalType
  <2>4. CASE p = y
    BY <2>2, <2>4
  <2>5. CASE p # y
    <3>1. Total(f, s \ {p}) = f[y] + Total(f, r)
      BY <1>1, <2>1, <2>5
    <3>2. r = (s \ {y}) \ {p}
      OBVIOUS
    <3>3. Total(f, s \ {y}) = f[p] + Total(f, r)
      BY <1>1, <2>1, <2>5, <3>2
    <3>. QED  BY <2>2, <2>3, <3>1, <3>3
  <2>. QED  BY <2>4, <2>5
<1>. HIDE DEF N
<1>2. S \in N
  BY <1>1, SubsetInduction
<1>. QED  BY <1>2 DEF N

-----------------------------------------------------------------------------
PlacedSet  == {j \in Interval : Placed(j)}
Earlier(i) == {j \in Interval : Live(j) /\ Before(j, i)}

(* The next free address is the sum of the sizes of all intervals that have *)
(* addresses already, and each of these is where the sum was at its turn.   *)
Sums ==
  pc \in {"scan", "assign", "laid"} =>
    /\ A = Total(size, PlacedSet)
    /\ \A i \in Interval : Placed(i) => addr[i] = Total(size, Earlier(i))

(* Sets of intervals are finite, and so are their sizes' sums.              *)
LEMMA FiniteIntervals == ASSUME NEW S \in SUBSET Interval PROVE IsFiniteSet(S)
<1>1. IsFiniteSet(1 .. NI)
  BY FS_Interval, SizesAssumption
<1>. QED  BY <1>1, FS_Subset DEF Interval

(* Sums stay when placed intervals do.                                      *)
LEMMA SumsKept ==
  ASSUME Sums, pc \in {"scan", "assign", "laid"}, A' = A,
         PlacedSet' = PlacedSet,
         \A i \in PlacedSet : addr'[i] = addr[i] /\ Earlier(i)' = Earlier(i),
         \A i \in PlacedSet : size'[i] = size[i],
         \A i \in PlacedSet : \A j \in Earlier(i) : size'[j] = size[j]
  PROVE  Sums'
<1>1. Total(size', PlacedSet) = Total(size, PlacedSet)
  <2>1. IsFiniteSet(PlacedSet)
    BY FiniteIntervals DEF PlacedSet
  <2>. QED  BY <2>1, TotalSame
<1>2. ASSUME NEW i \in PlacedSet
      PROVE  Total(size', Earlier(i)) = Total(size, Earlier(i))
  <2>1. IsFiniteSet(Earlier(i))
    BY FiniteIntervals DEF Earlier
  <2>. QED  BY <2>1, TotalSame
<1>3. A' = Total(size', PlacedSet')
  BY <1>1 DEF Sums
<1>4. ASSUME NEW i \in Interval, Placed(i)'
      PROVE  addr'[i] = Total(size', Earlier(i)')
  <2>1. i \in PlacedSet
    BY <1>4 DEF PlacedSet
  <2>2. Placed(i)
    BY <2>1 DEF PlacedSet
  <2>. QED  BY <1>2, <2>1, <2>2 DEF Sums
<1>. QED  BY <1>3, <1>4 DEF Sums

(* A merge is among intervals that have no addresses yet, and an interval   *)
(* gets its address when all those before it, and no others, have theirs.   *)
LEMMA SumsStep ==
  ASSUME TypeOK, CurInRange, Sums, [Next]_vars
  PROVE  Sums'
<1>. USE DEF Live, Gone
<1>1. CASE Merge
  <2>1. PICK j \in Interval :
          /\ it \in Interval /\ sec[it] = cur /\ sec[j] = cur /\ j # it
          /\ MergeInto(it, j) /\ pc = "scan"
          /\ UNCHANGED <<addr, pc, cur, A>>
    BY <1>1, MergeShape
  <2>2. \A i \in Interval :
          /\ i # j => sec'[i] = sec[i]
          /\ i # j /\ i # it => size'[i] = size[i]
          /\ sec[i] \in Int
    BY <2>1 DEF MergeInto, TypeOK, Sect
  <2>3. sec'[j] = Gone /\ cur \in Int
    BY <2>1 DEF MergeInto, TypeOK
  <2>4. \A i \in Interval : (Placed(i)' <=> Placed(i)) /\ (Placed(i) => sec[i] < cur)
    BY <2>1, <2>2, <2>3 DEF Placed
  <2>5. ASSUME NEW i \in Interval, Placed(i)
        PROVE  Earlier(i)' = Earlier(i) /\ \A k \in Earlier(i) : k # it /\ k # j
    <3>1. sec[i] < cur /\ i # j /\ i # it
      BY <2>1, <2>2, <2>3, <2>4, <2>5
    <3>2. \A k \in Interval : Before(k, i) => sec[k] < cur
      BY <2>2, <2>3, <3>1 DEF Before
    <3>3. \A k \in Interval : (Live(k) /\ Before(k, i))' <=> Live(k) /\ Before(k, i)
      BY <2>1, <2>2, <2>3, <3>1, <3>2 DEF Before
    <3>4. Earlier(i)' = Earlier(i)
      BY <3>3 DEF Earlier
    <3>5. \A k \in Earlier(i) : k # it /\ k # j
      BY <2>1, <2>2, <2>3, <3>2 DEF Earlier
    <3>. QED  BY <3>4, <3>5
  <2>6. PlacedSet' = PlacedSet /\ \A i \in PlacedSet : i # it /\ i # j
    BY <2>1, <2>2, <2>3, <2>4 DEF PlacedSet
  <2>7. \A i \in PlacedSet : i \in Interval /\ Placed(i)
    BY DEF PlacedSet
  <2>8. \A i \in PlacedSet : \A k \in Earlier(i) : size'[k] = size[k]
    BY <2>2, <2>5, <2>7 DEF Earlier
  <2>. QED  BY <2>1, <2>2, <2>5, <2>6, <2>7, <2>8, SumsKept
<1>2. CASE BeginLayout
  <2>1. \A i \in Interval : ~Placed(i)'
    BY <1>2 DEF BeginLayout, Placed, TypeOK, content, Sect
  <2>2. PlacedSet' = {} /\ A' = 0
    BY <1>2, <2>1 DEF PlacedSet, BeginLayout
  <2>3. Total(size', {}) = 0
    BY TotalStep, FS_EmptySet
  <2>. QED  BY <2>1, <2>2, <2>3 DEF Sums
<1>3. ASSUME pc \in {"scan", "assign"}, pc' \in {"scan", "assign", "laid"},
             UNCHANGED <<addr, content, A>>,
             \A i \in Interval : Placed(i)' <=> Placed(i)
      PROVE  Sums'
  <2>1. PlacedSet' = PlacedSet
    BY <1>3 DEF PlacedSet
  <2>2. \A i : Earlier(i)' = Earlier(i)
    BY <1>3 DEF Earlier, Before, content
  <2>. QED  BY <1>3, <2>1, <2>2, SumsKept DEF content
<1>4. CASE Pass
  <2>1. \A i \in Interval : Placed(i)' <=> Placed(i)
    BY <1>4 DEF Pass, Placed, content
  <2>. QED  BY <1>3, <1>4, <2>1 DEF Pass
<1>5. CASE Reject
  BY <1>5 DEF Reject, Sums
<1>6. CASE EndScan
  <2>1. \A i \in Interval : Placed(i)' <=> Placed(i)
    BY <1>6, SizesAssumption DEF EndScan, Placed, content, Interval
  <2>. QED  BY <1>3, <1>6, <2>1 DEF EndScan
<1>7. CASE Assign
  <2>1. /\ pc = "assign" /\ pc' = "assign" /\ it \in Interval /\ it' = it + 1
        /\ cur' = cur /\ sec' = sec /\ size' = size
    BY <1>7 DEF Assign, content
  <2>2. CASE sec[it] # cur
    <3>1. addr' = addr /\ A' = A
      BY <1>7, <2>2 DEF Assign
    <3>2. \A i \in Interval : Placed(i)' <=> Placed(i)
      BY <2>1, <2>2, SizesAssumption DEF Placed, Interval
    <3>3. UNCHANGED content
      BY <1>7 DEF Assign
    <3>. QED  BY <1>3, <2>1, <3>1, <3>2, <3>3
  <2>3. CASE sec[it] = cur
    <3>1. /\ A' = A + size[it] /\ addr'[it] = A
          /\ \A i \in Interval : i # it => addr'[i] = addr[i]
      BY <1>7, <2>1, <2>3 DEF Assign, TypeOK
    <3>2. ~Placed(it) /\ Live(it) /\ \A i \in Interval : Placed(i)' <=> Placed(i) \/ i = it
      BY <2>1, <2>3, SizesAssumption DEF Placed, Interval, TypeOK, Sect, CurInRange
    <3>3. \A i \in Interval : Earlier(i)' = Earlier(i)
      BY <2>1 DEF Earlier, Before
    <3>4. Earlier(it) = PlacedSet
      <4>1. \A i \in Interval : Live(i) /\ Before(i, it) <=> Placed(i)
        BY <2>1, <2>3 DEF Placed, Before
      <4>. QED  BY <4>1 DEF Earlier, PlacedSet
    <3>5. PlacedSet' = PlacedSet \cup {it} /\ it \notin PlacedSet
      BY <2>1, <3>2 DEF PlacedSet
    <3>6. Total(size, PlacedSet') = size[it] + Total(size, PlacedSet)
      <4>. DEFINE S == PlacedSet \cup {it}
      <4>1. IsFiniteSet(S) /\ \A x \in S : size[x] \in Nat
        BY <2>1, FiniteIntervals DEF PlacedSet, TypeOK
      <4>2. Total(size, S) = size[it] + Total(size, S \ {it})
        BY <4>1, TotalWithout
      <4>3. S \ {it} = PlacedSet
        BY <3>5
      <4>. QED  BY <3>5, <4>2, <4>3
    <3>7. A' = Total(size', PlacedSet')
      <4>1. A = Total(size, PlacedSet) /\ A \in Nat /\ size[it] \in Nat
        BY <2>1 DEF Sums, TypeOK
      <4>. QED  BY <2>1, <3>1, <3>6, <4>1
    <3>8. ASSUME NEW i \in Interval, Placed(i)'
          PROVE  addr'[i] = Total(size', Earlier(i)')
      <4>1. CASE i = it
        BY <2>1, <3>1, <3>3, <3>4, <4>1 DEF Sums
      <4>2. CASE i # it
        <5>1. Placed(i)
          BY <3>2, <3>8, <4>2
        <5>. QED  BY <2>1, <3>1, <3>3, <4>2, <5>1 DEF Sums
      <4>. QED  BY <4>1, <4>2
    <3>. QED  BY <3>7, <3>8 DEF Sums
  <2>. QED  BY <2>2, <2>3
<1>8. CASE EndAssign
  <2>1. \A i \in Interval : Placed(i)' <=> Placed(i)
    BY <1>8, SizesAssumption DEF EndAssign, Placed, Interval, TypeOK, content, Sect
  <2>. QED  BY <1>3, <1>8, <2>1 DEF EndAssign
<1>9. CASE Remove
  BY <1>9 DEF Remove, Sums
<1>10. CASE UNCHANGED vars
  <2>1. \A i \in Interval : Placed(i)' <=> Placed(i)
    BY <1>10 DEF vars, Placed, content
  <2>2. PlacedSet' = PlacedSet
    BY <2>1 DEF PlacedSet
  <2>3. \A i : Earlier(i)' = Earlier(i)
    BY <1>10 DEF vars, Earlier, Before, content
  <2>4. \A i \in PlacedSet : Placed(i) /\ i \in Interval
    BY DEF PlacedSet
  <2>. QED  BY <1>10, <2>2, <2>3, <2>1 DEF vars, Sums, content
<1>. QED  BY <1>1, <1>2, <1>4, <1>5, <1>6, <1>7, <1>8, <1>9, <1>10 DEF Next, LayoutStep

(* The addresses that layoutModule assigns are those of the reference       *)
(* layout, whatever the module's addresses were and however its intervals   *)
(* were merged: each is the sum of the sizes of all intervals before.       *)
THEOREM PackedAlways == Spec => []Packed
<1>. DEFINE Inv == TypeOK /\ CurInRange /\ Sums
<1>1. Init => Inv
  <2>1. Init => Sums
    BY DEF Init, Sums
  <2>. QED  BY <2>1, InitIInv DEF IInv
<1>2. Inv /\ [Next]_vars => Inv'
  BY TypeStep, SumsStep
<1>3. Inv => Packed
  <2>. SUFFICES ASSUME Inv, pc = "laid", NEW i \in Interval, Live(i)
                PROVE  addr[i] = Total(size, Earlier(i))
    BY DEF Packed, Total, Earlier
  <2>1. Placed(i)
    BY SizesAssumption DEF CurInRange, Placed, Live, TypeOK, Sect, Gone
  <2>. QED  BY <2>1 DEF Sums
<1>. QED  BY <1>1, <1>2, <1>3, PTL DEF Spec

-----------------------------------------------------------------------------
(* Modules in which no block falls through to two others. *)
OneFallthrough ==
  \A m \in Modules : \A e, f \in m.edges : e.fall /\ f.fall /\ e.src = f.src => e = f

(* Where code falls through from an interval with one block, the merge puts *)
(* source and target side by side: the block whose edges are followed is    *)
(* the block whose end is checked.                                          *)
THEOREM SoleBlockAdjoinsAlways == ASSUME OneFallthrough PROVE Spec => SoleBlockAdjoins
<1>. DEFINE Adjoins ==
              \A e \in mod.edges :
                /\ e.fall /\ e.dst \in Code /\ CodeIn(bi[e.src]) = {e.src}
                /\ bi[e.dst] # bi[e.src] /\ bi'[e.src] = bi[e.src] /\ bi'[e.dst] = bi[e.src]
                => off'[e.src] + mod.len[e.src] = off'[e.dst]
            Inv == TypeOK /\ CurInRange /\ mod \in Modules
<1>1. Init => Inv
  BY InitIInv DEF IInv, Init
<1>2. Inv /\ [Next]_vars => Inv'
  <2>1. [Next]_vars => mod' = mod
    BY DEF Next, LayoutStep, BeginLayout, Pass, Merge, Reject, EndScan, Assign, EndAssign,
           Remove, vars
  <2>. QED  BY <2>1, TypeStep
<1>3. ASSUME Inv, [Next]_vars PROVE Adjoins \/ UNCHANGED vars
  <2>1. ASSUME Merge, NEW e \in mod.edges, e.fall, e.dst \in Code,
               CodeIn(bi[e.src]) = {e.src}, bi[e.dst] # bi[e.src],
               bi'[e.src] = bi[e.src], bi'[e.dst] = bi[e.src]
        PROVE  off'[e.src] + mod.len[e.src] = off'[e.dst]
    <3>1. PICK c \in Fronts(it), back \in Backs(it) : \E d \in Pending(it, c) :
            Mergeable(it, back, d.dst) /\ MergeInto(it, bi[d.dst])
      BY <2>1 DEF Merge
    <3>2. PICK d \in Pending(it, c) : Mergeable(it, back, d.dst) /\ MergeInto(it, bi[d.dst])
      BY <3>1
    <3>3. e.src \in Item /\ e.dst \in Item /\ e.src \in Code
      BY <1>3, <2>1 DEF TypeOK, ModuleType, Item, Block
    <3>4. \A x \in Item : /\ bi'[x] = IF bi[x] = bi[d.dst] THEN it ELSE bi[x]
                          /\ off'[x] = IF bi[x] = bi[d.dst] THEN size[it] + off[x] ELSE off[x]
      BY <3>2 DEF MergeInto
    <3>5. bi[e.dst] = bi[d.dst] /\ bi[e.src] = it /\ bi[e.src] # bi[d.dst]
      BY <2>1, <3>3, <3>4
    <3>6. c = e.src /\ back = e.src
      BY <2>1, <3>1, <3>5 DEF Fronts, Backs
    <3>7. d = e
      <4>1. d \in mod.edges /\ d.fall /\ d.src = e.src
        BY <3>2, <3>6 DEF Pending
      <4>. QED  BY <1>3, <2>1, <4>1 DEF OneFallthrough
    <3>8. off[e.src] + mod.len[e.src] = size[it] /\ off[e.dst] = 0
      BY <3>2, <3>6, <3>7 DEF Mergeable
    <3>9. off'[e.src] = off[e.src] /\ off'[e.dst] = size[it] + 0 /\ size[it] \in Nat
      <4>1. bi[e.src] \in Interval
        BY <1>3, <3>3 DEF TypeOK
      <4>. QED  BY <1>3, <3>3, <3>4, <3>5, <3>8, <4>1 DEF TypeOK
    <3>. QED  BY <3>8, <3>9
  <2>2. Next /\ ~Merge => UNCHANGED bi
    BY DEF Next, LayoutStep, BeginLayout, Pass, Reject, EndScan, Assign, EndAssign, Remove,
           content
  <2>3. ASSUME UNCHANGED bi PROVE Adjoins
    BY <2>3
  <2>. QED  BY <1>3, <2>1, <2>2, <2>3
<1>4. Inv /\ [Next]_vars => [Adjoins]_vars
  BY <1>3
<1>. QED  BY <1>1, <1>2, <1>4, PTL DEF Spec, SoleBlockAdjoins
=============================================================================
