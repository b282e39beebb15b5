SPECIFICATION FairSpec
INVARIANT TypeOK
INVARIANT NoStrayTrap
INVARIANT PidTracksChild
INVARIANT NoOrphan
PROPERTY TransparentSpec
PROPERTY OneChildAtATime
PROPERTY CommandReturns
CONSTANTS
  File = {"A", "L", "N", "M"}
  NoFile = "none"
  Kind <- MCKind
  MaxAddr = 5
  WordLen = 2
  Byte <- MCByte
  INT3 = "cc"
  Image <- MCImage
  InsnLen <- LoopLen
  Succ <- LoopSucc
  Entry <- MCEntry
  TextAddr <- MCText
  TextSize <- MCSize
  BreakInput = {1, 3, 5}
  DeleteInput = {0}
  RipInput = {1, 3}
  MaxBps = 3
