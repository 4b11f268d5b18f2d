CONSTANTS
  Caches <- MCCaches
  ObjSize <- MCObjSize
  Num <- MCNum
  Pages <- MCPages
  OffSlab <- MCOffSlab
  HeaderCache <- MCHeaderCache
  Sizes <- MCSizes
  Frames <- MCFrames
  MaxUser <- MCMaxUser
  Nothing = Nothing
  NoValue = NoValue
SPECIFICATION Spec
INVARIANTS
  ChainExact
  HeadersOwned
  ListsExact
  BackPointers
  PagesReturned
  AllocatedExact
PROPERTY
  CallsReturn
