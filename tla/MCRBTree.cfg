SPECIFICATION Spec
CONSTANTS
  n1 = n1
  n2 = n2
  n3 = n3
  n4 = n4
  n5 = n5
  n6 = n6
  n7 = n7
  n8 = n8
  n9 = n9
  n10 = n10
  nil = nil
  root = root
  None = None
  Nodes <- MCNodes
  Key <- MCKey
INVARIANT RedBlack
PROPERTY ImplementsOrderedBag
