SPECIFICATION Spec
CONSTANTS
  A = A
  S = S
  I1 = I1
  I2 = I2
  E = E
  F = F
  Tty = Tty
  Fd = {2, 3, 4}
  Name = {A, S}
  Inode = {Tty, I1, I2}
  Stream = {E, F}
  Stderr = E
  LogName = {S}
  PRINT_SIZE = 1
  Tidy = TRUE
  Call <- MCCall
  CommandLine <- MCCommandLine
  Tree <- MCTree
INVARIANTS TypeOK LogApart LogTruthful ShownIsTransferred
PROPERTIES ErrnoKept Unnoticed
CHECK_DEADLOCK FALSE
