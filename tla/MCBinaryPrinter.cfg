SPECIFICATION Spec
CONSTANTS
  p1 = p1  p2 = p2
  n1 = n1  n2 = n2  n3 = n3
  Proc = {p1, p2}
  NMod <- MCNMod
  TempName = {n1, n2, n3}
  Compilers = {TRUE, FALSE}
SYMMETRY Symmetric
INVARIANTS TypeOK OwnListings CleansUp
PROPERTY OthersUntouched
\* processes end
CHECK_DEADLOCK FALSE
