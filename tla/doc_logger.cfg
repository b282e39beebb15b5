SPECIFICATION Spec
CONSTANTS
  A = A
  S = S
  I1 = I1
  I2 = I2
  E = E
  F = F
  Tty = Tty
  Fd = {2, 3, 4}
  Name = {A, S}
  Inode = {Tty, I1, I2}
  Stream = {E, F}
  Stderr = E
  LogName = {S}
  PRINT_SIZE = 1
  Tidy = FALSE
  Call <- MCCall
  CommandLine <- ToFile
  Tree <- MCTree
INVARIANTS LogApart
CHECK_DEADLOCK FALSE
