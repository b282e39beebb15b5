------------------------------- MODULE MCLsof -------------------------------
(* A small instance: two processes, two descriptors each, four files.      *)
EXTENDS LsofProperties, TLC

CONSTANTS home, prog, lib, pipe

MCTypeOf == home :> "DIR" @@ prog :> "REG" @@ lib :> "REG" @@ pipe :> "FIFO"
L(n, d) == [node |-> n, deleted |-> d]
Shell ==
  [cmd |-> "sh", named |-> TRUE, ours |-> TRUE, cwd |-> home, root |-> home, exe |-> prog,
   maps |-> <<L(prog, FALSE), L(prog, FALSE), L(None, FALSE), L(lib, FALSE)>>,
   fd |-> 0 :> pipe @@ 1 :> pipe]
Other ==
  [cmd |-> "cat", named |-> TRUE, ours |-> TRUE, cwd |-> home, root |-> home, exe |-> lib,
   maps |-> <<L(lib, TRUE)>>, fd |-> 0 :> None @@ 1 :> prog]
Kernel ==
  [cmd |-> "kd", named |-> TRUE, ours |-> TRUE, cwd |-> home, root |-> home, exe |-> None,
   maps |-> <<>>, fd |-> 0 :> None @@ 1 :> None]
Foreign == [Shell EXCEPT !.ours = FALSE, !.cmd = "cat"]
Unnamed == [Other EXCEPT !.named = FALSE]
MCProcess == {Shell, Other, Kernel, Foreign, Unnamed}

MCArguments ==
  { <<>>, <<"-c", "sh", "-f", "x", "-t", "FIFO">>, <<"-t", "LNK">>, <<"x">>, <<"x", "x", "-c">> }
MCMatches == [w \in Word |-> IF w = "sh" THEN {"sh"} ELSE {}]
=============================================================================
