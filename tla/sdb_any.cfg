SPECIFICATION Spec
INVARIANT BreakpointsDistinct
INVARIANT SavedByteIsOriginal
INVARIANT TextIntact
INVARIANT SlotKnown
PROPERTY StopsAtBreakpointsAhead
CONSTANTS
  File = {"A"}
  NoFile = "none"
  Kind <- MCKind
  MaxAddr = 5
  WordLen = 2
  Byte <- MCByte
  INT3 = "cc"
  Image <- MCImage
  InsnLen <- ByteLen
  Succ <- ByteSucc
  Entry <- MCEntry
  TextAddr <- MCText
  TextSize <- MCSize
  BreakInput = {1, 2, 3, 4, 9}
  DeleteInput = {0, 1, 2}
  RipInput = {1, 2, 3}
  MaxBps = 2
