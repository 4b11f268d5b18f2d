CONSTANTS
  a = a
  b = b
  nul = nul
  NoChar = nul
  Size <- MCSize
  Chars <- MCChars
  ConsBufSize <- MCConsBufSize
  KbSize <- MCKbSize
  Keys <- MCKeys
  MaxHeld <- MCMaxHeld
  MaxWire <- MCMaxWire
SPECIFICATION KeyboardSpec
INVARIANTS
  SlotKept
  KeysDecoded
PROPERTIES
  ImplementsFifo
  ImplementsKeyPath
