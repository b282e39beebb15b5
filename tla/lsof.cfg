SPECIFICATION FairSpec
CONSTANTS
  Gone = Gone
  home = home
  prog = prog
  lib = lib
  pipe = pipe
  Pid = {1, 2}
  Desc = {0, 1}
  Inode = {home, prog, lib, pipe}
  TypeOf <- MCTypeOf
  Command = {"sh", "cat", "kd"}
  Process <- MCProcess
  Arguments <- MCArguments
  Word = {"-c", "-t", "-f", "sh", "FIFO", "LNK", "x"}
  Matches <- MCMatches
  MaxChange = 2
  MaxOpen = 1
INVARIANTS TypeOK RowsTrue QuietComplete AbortOnlyOnChange
PROPERTY Ends
CHECK_DEADLOCK FALSE
