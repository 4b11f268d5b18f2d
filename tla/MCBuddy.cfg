CONSTANTS
  MaxOrder <- MCMaxOrder
  OrderSize <- MCOrderSize
  Regions <- MCRegions
  Requests <- MCRequests
  MaxLive <- MCMaxLive
SPECIFICATION Spec
INVARIANTS
  NoOverlap
  NoLeak
  OrderTags
PROPERTIES
  ImplementsPageAlloc
  CallsReturn
CHECK_DEADLOCK FALSE
