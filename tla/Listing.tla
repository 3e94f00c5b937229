------------------------------- MODULE Listing -------------------------------
(***************************************************************************)
(* What an assembly listing of a module promises about overlapping code    *)
(* and data, with no word of how the printer walks over them: elements are *)
(* dealt with in the order of their addresses; one that starts inside an   *)
(* element already printed is replaced by a warning, every other one is    *)
(* printed.  printBlockOrWarning and printDataBlockOrWarning are specified *)
(* in these terms; PrettyPrint implements it with a single address, last.  *)
(***************************************************************************)
EXTENDS Integers

CONSTANT Element  \* code and data blocks

VARIABLES
  addr,    \* the address of each element and ...
  size,    \* ... its size: fixed while a listing is made
  status   \* what has become of each element

Todo    == {e \in Element : status[e] = "todo"}
Printed == {e \in Element : status[e] = "printed"}

(* f covers the address at which e starts. *)
Covers(f, e) == addr[f] <= addr[e] /\ addr[e] < addr[f] + size[f]

First == {e \in Todo : \A f \in Todo : addr[e] <= addr[f]}

Init ==
  /\ addr \in [Element -> Nat] /\ size \in [Element -> Nat]
  /\ status = [e \in Element |-> "todo"]

Accept(e) ==
  /\ e \in First
  /\ \A f \in Printed : ~Covers(f, e)
  /\ status' = [status EXCEPT ![e] = "printed"]
  /\ UNCHANGED <<addr, size>>

Warn(e) ==
  /\ e \in First
  /\ \E f \in Printed : Covers(f, e)
  /\ status' = [status EXCEPT ![e] = "warned"]
  /\ UNCHANGED <<addr, size>>

Next == \E e \in Element : Accept(e) \/ Warn(e)

Spec == Init /\ [][Next]_<<addr, size, status>>
-------------------------------------------------------------------------------
(* No byte of the program is in the listing twice: no printed element       *)
(* covers the first byte of another one.                                    *)
NoOverlap ==
  \A e, f \in Printed : e # f /\ size[f] > 0 => ~Covers(e, f)
===============================================================================
