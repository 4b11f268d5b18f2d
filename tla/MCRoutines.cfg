CONSTANTS
  PageSize = 4
  KMEMSIZE = 24
  PageDesc = 1
  SECTSIZE = 4
  AddrMask = 63
  ELFHDR = 0
  HdrSectors = 1
  RES_ADDR = 4
  ResSectors = 1
  ResSector = 40
  Unread = Unread
  PGSIZE = 4096
  SlabT = 24
  Bufctl = 4
  Align = 16
  MinSizeOrder = 5
  MaxSizeOrder = 17
  MaxPageOrder = 10
  Bits = 5
  LongBits = 7
  BadArg = BadArg
  EditMax = 3
  ReadMax = 3
  Word = 4
  Maps <- MCMaps
  Images <- MCImages
  Sizes <- MCSizes
  NPTEENTRY = 2
  Directories <- MCDirectories
  Formats <- MCFormats
  Args <- MCArgs
  BufferSizes <- MCBufferSizes
  StringFormats <- MCStringFormats
  Strings <- MCStrings
  Tables <- MCTables
  Texts <- MCTexts
  OldBuffers <- MCOldBuffers
  Moves <- MCMoves
  Copies <- MCCopies
SPECIFICATION Spec
INVARIANTS
  PagesHanded
  SegmentsLoaded
  CachesCut
  PrintedAsAsked
  AddressesFound
  LinesRead
  MemoryMoved
