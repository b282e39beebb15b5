-------------------------- MODULE LoggerProperties --------------------------
(* What the logger of project2 owes its user and the program it monitors.  *)
EXTENDS Logger

\* The program on a system whose close spares descriptor 2.  A call is asked for until
\* the real one is made.
Asked == IF pc = "real" THEN call ELSE NoCall
Program == INSTANCE Plain WITH Spared <- {2}, running <- Launched, asked <- Asked

\* Every variable keeps its type.
Named == Seq(Inode \cup Name \cup {NoName, Deleted})
TypeOK ==
  /\ FilesTypeOK
  /\ args \in Seq(STRING \cup LogName) /\ out \in Fd \cup {NoFd}
  /\ given \subseteq Fd /\ logs \subseteq Inode /\ marked \subseteq Inode
  /\ pc \in {"launch", "idle", "real", "late", "print", "exit", "crash", "bare"}
  /\ call \in Call \cup {NoCall} /\ said \in Named
  /\ errno \in Reason \cup {"EINVAL"}
  /\ deed \in [sure : BOOLEAN, names : Named]

\* The lines go to the file of the last -o, or to the terminal when there is none,
\* and to no file the program opens later under the same descriptor (close(2) is faked
\* for this, share.cpp:64; getenv("LOGGER_OUT") is read again for every line).
LogApart == marked \subseteq logs

\* The names in the line of a successful call are those of the files the call worked
\* on, whatever happened to descriptors and names before it: the lookups are on the
\* right side of the real call (share.cpp:61, 147, 258, 339 before it, the others
\* after).  Not for a call another process meddled with, nor for rename and remove of
\* a symbolic link, whose target the line names.
LogTruthful == pc = "print" /\ deed.sure => said = deed.names

\* The bytes a line shows were moved by the call, and when they are counted one by
\* one, none of the first PRINT_SIZE is missing (share.cpp:170, 188, 292, 311).
Moves == call.fn \in {"read", "write", "fread", "fwrite"}
ShownIsTransferred ==
  pc = "print" /\ Moves =>
    LET moved == IF call.fn \in {"fread", "fwrite"} THEN res.n * call.size ELSE res.n
    IN /\ \A i \in Shown(call, res.n) : i < moved
       /\ call.size = 1 => \A i \in 0..(moved - 1) : i < PRINT_SIZE => i \in Shown(call, res.n)

\* A program that asks why close, fclose, remove or a transfer failed reads the errno
\* of that call, not one of the lookups and the printing around it: these look their
\* names up before the real call, or look up a descriptor that is open.
ErrnoKept ==
  [][PrintLine /\ Open(out) /\ ~res.ok
     /\ \/ call.fn \in {"close", "fclose", "remove"}
        \/ call.fn \in {"read", "write"} /\ Open(call.fd)
        \/ call.fn \in {"fread", "fwrite"} /\ Open(streams[call.stream])
     => errno' = res.why]_vars

\* The monitored program runs as on a system of its own in which close(2) answers 0 and
\* leaves 2 as it is (share.cpp:64), and some more descriptors are open from the start:
\* every call it makes is done once, with the effect and the value it has there, each
\* open takes the lowest descriptor that is free there, and nothing else happens to its
\* descriptors, streams and files (errno apart, see ErrnoKept).  It is close(2) alone
\* that differs for a program that looks: 2 can still be written to, and the next open
\* does not return 2.  One that never asks for it has an ordinary system.
Unnoticed == Program!PSpec
=============================================================================
