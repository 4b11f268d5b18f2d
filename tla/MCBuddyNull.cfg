CONSTANTS
  MaxOrder <- MCMaxOrder
  OrderSize <- MCOrderSize
  Regions <- MCRegions
  Requests <- MCRequests
  MaxLive <- MCMaxLive
SPECIFICATION Spec
INVARIANT
  NoFault
CHECK_DEADLOCK FALSE
