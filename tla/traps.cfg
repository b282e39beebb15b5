SPECIFICATION FairSpec
CONSTANTS
  File <- MCFile
  NoFile = NoFile
  Kind <- MCKind
  MaxAddr = 4
  WordLen = 2
  Byte <- MCByte
  INT3 = "cc"
  AllOnes = "ff"
  Image <- MCImage
  InsnLen <- MCLen
  Succ <- MCSucc
  Entry <- MCEntry
  TrapSeq <- MCTrapSeq
  Hints <- MCHints
INVARIANTS TypeOK Restored NoneLeft
PROPERTIES PathKept GoesOn
CHECK_DEADLOCK FALSE
