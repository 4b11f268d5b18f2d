SPECIFICATION Spec
CONSTANTS
  main = main
  pthr1 = pthr1
  pthr2 = pthr2
  pthr3 = pthr3
  Threads = {main, pthr1, pthr2, pthr3}
  Main = main
  Nobody = Nobody
  Lists <- MCLists
  Joinable = {pthr3}
  TickNum = 3
  Seeds <- MCSeeds
INVARIANTS
  IdleInterruptible
  Resumable
  ExitsItself
  ListSound
PROPERTIES
  LinkedRun
  ReschedServed
CHECK_DEADLOCK FALSE
