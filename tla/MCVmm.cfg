SPECIFICATION Spec
CONSTANTS
  PageSize = 2
  PageCount = 2
  MaxVmas = 3
  Flags <- MCFlags
  Frames = {f1, f2, f3}
  Wild = Wild
  None = None
INVARIANTS
  CacheTransparent
  AnsweredByAreas
PROPERTY
  FramesKept
CHECK_DEADLOCK FALSE
