SPECIFICATION Spec
PROPERTY DeleteRemovesNamed
CONSTANTS
  File = {"L"}
  NoFile = "none"
  Kind <- MCKind
  MaxAddr = 5
  WordLen = 2
  Byte <- MCByte
  INT3 = "cc"
  Image <- MCImage
  InsnLen <- LoopLen
  Succ <- LoopSucc
  Entry <- MCEntry
  TextAddr <- MCText
  TextSize <- MCSize
  BreakInput = {1, 3, 5}
  DeleteInput = {0, 1, 2}
  RipInput = {1}
  MaxBps = 3
