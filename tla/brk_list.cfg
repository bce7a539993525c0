CONSTANTS
  Nodes = {n1, n2, n3}
  Trees = {t1, t2, t3, t4}
  Null = null
  MaxId = 3
SYMMETRY Addresses
SPECIFICATION Spec
INVARIANTS ListSound NonePassedOver
