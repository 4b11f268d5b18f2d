CONSTANTS
  h1 = h1
  h2 = h2
  a = a
  b = b
  c = c
  NULL = NULL
  Heads <- MCHeads
  Elems <- MCElems
SPECIFICATION Spec
INVARIANTS
  LinksAgree
PROPERTY
  ImplementsSequences
