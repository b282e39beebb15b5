------------------------------- MODULE Logger -------------------------------
(***************************************************************************)
(* project2: logger.cpp prepares LOGGER_OUT and LD_PRELOAD and executes a  *)
(* command; share.cpp, loaded into it, answers its calls: each wrapper     *)
(* makes the real call, looks up the names of the files concerned and      *)
(* prints a line to the descriptor LOGGER_OUT.  Every one of these is a    *)
(* step, so that other processes, and an earlier call of the program, come *)
(* between.                                                                *)
(***************************************************************************)
EXTENDS Files, Sequences

CONSTANTS
  CommandLine,  \* the argument lists of ./logger, sequences of words
  LogName,      \* the words that name files, a path each
  Tree,         \* the directories there may be at first
  Stderr,       \* the stream of descriptor 2
  PRINT_SIZE,   \* the bytes of a buffer a line shows (32)
  Tidy          \* the program closes none of the descriptors it was given, unless by
                \* close(2): fclose of the stream on 2 counts as closing it

ASSUME LoggerAssumption ==
  /\ LogName \subseteq Name /\ Stderr \in Stream
  /\ Tree \subseteq [Name -> Inode \cup Name \cup {Nothing}]
  /\ PRINT_SIZE \in Nat /\ Tidy \in BOOLEAN
  /\ \A line \in CommandLine : line \in Seq(STRING \cup LogName)

VARIABLES
  args,     \* what the launcher has still to read
  out,      \* LOGGER_OUT
  pc,       \* "launch"; "idle", the program runs its own code; in a wrapper
            \* "real", "late", "print"; "exit", "crash", "bare" (no logger.so)
  call,     \* the call the wrapper answers
  errno,    \* the program's errno
  said,     \* the names it has looked up for its line
  given,    \* the descriptors the command was executed with
  logs,     \* the file LOGGER_OUT was made for (history)
  marked,   \* the files lines were printed to (history)
  deed      \* what the real call worked on, if that is sure (history)

launcherVars == <<args, out, given, logs>>
wrapperVars == <<pc, call, errno, said, marked, deed>>
vars == <<filesVars, launcherVars, wrapperVars>>

InWrapper == pc \in {"real", "late", "print"}
Launched == InWrapper \/ pc = "idle"
NoDeed == [sure |-> TRUE, names |-> <<>>]
NoSaid == <<>>
NoCall == [fn |-> "none"]

\* LOGGER_OUT without -o; variant: standard output.
DEFAULT_STDOUT == 1
DEFAULT_OUT == 2

Init ==
  /\ fds = [f \in Fd |-> IF f = 2 THEN Tty ELSE Closed]
  /\ streams = [s \in Stream |-> IF s = Stderr THEN 2 ELSE NoFd]
  /\ dir \in Tree
  /\ res = [ok |-> TRUE, n |-> 0, why |-> "none"]
  /\ args \in CommandLine /\ out = DEFAULT_OUT /\ given = {} /\ logs = {Tty}
  /\ pc = "launch" /\ call = NoCall /\ errno = "none" /\ said = NoSaid
  /\ marked = {} /\ deed = NoDeed

----------------------------------------------------------------------------
(* logger.cpp: the words of the command line from left to right.           *)

Finish(how) ==
  /\ pc' = how
  /\ UNCHANGED <<filesVars, launcherVars, call, errno, said, marked, deed>>

NoCommand == pc = "launch" /\ args = <<>> /\ Finish("exit")

\* An option whose word is missing: strlen of a null pointer.
NoWord == pc = "launch" /\ Len(args) = 1 /\ Head(args) \in {"-o", "-p", "--"} /\ Finish("crash")

\* -o: the file is made, and its descriptor, or -1, becomes LOGGER_OUT.
OutputFile ==
  /\ pc = "launch" /\ Len(args) > 1 /\ Head(args) = "-o"
  /\ args' = Tail(Tail(args))
  /\ \/ \E f \in Free :
          /\ OpenAt(args[2], "any", f)
          /\ out' = f /\ logs' = {fds'[f]}
     \/ out' = NoFd /\ logs' = {} /\ UNCHANGED <<fds, dir>>
  /\ LowestFirst
  /\ UNCHANGED <<streams, res, given, wrapperVars>>

\* -p: another logger.so.
SoPath ==
  /\ pc = "launch" /\ Len(args) > 1 /\ Head(args) = "-p"
  /\ args' = Tail(Tail(args))
  /\ UNCHANGED <<filesVars, out, given, logs, wrapperVars>>

InvalidOption == pc = "launch" /\ args # <<>> /\ Head(args) = "-x" /\ Finish("exit")

\* A command: execvp puts the program in place of the launcher, with logger.so or,
\* when the loader does not find that, without; if it fails main returns.
Command ==
  /\ pc = "launch" /\ args # <<>> /\ Head(args) \notin {"-o", "-p", "-x"}
  /\ Head(args) = "--" => Len(args) > 1
  /\ \/ pc' \in {"bare", "exit"} /\ UNCHANGED given
     \/ pc' = "idle" /\ given' = {f \in Fd : Open(f)}
  /\ args' = <<>>
  /\ UNCHANGED <<filesVars, out, logs, call, errno, said, marked, deed>>

Launch == NoCommand \/ NoWord \/ OutputFile \/ SoPath \/ InvalidOption \/ Command

----------------------------------------------------------------------------
(* share.cpp.  A wrapper looks names up before or after the real call: of  *)
(* its path or paths with realpath, of its descriptor or stream in /proc.  *)
(* Two variants look up too late.                                          *)

chmod   == [before |-> "none", after |-> "path"]
chown   == [before |-> "none", after |-> "path"]
closeNamesLate == [before |-> "none", after |-> "fd"]
close   == [before |-> "fd",   after |-> "none"]
creat   == [before |-> "none", after |-> "path"]
fopen   == [before |-> "none", after |-> "path"]
fclose  == [before |-> "FILE", after |-> "none"]
fread   == [before |-> "none", after |-> "FILE"]
fwrite  == [before |-> "none", after |-> "FILE"]
open    == [before |-> "none", after |-> "path"]
rename  == [before |-> "path", after |-> "path2"]
write   == [before |-> "none", after |-> "fd"]
read    == [before |-> "none", after |-> "fd"]
tmpfile == [before |-> "none", after |-> "none"]
removeNamesLate == [before |-> "none", after |-> "path"]
remove  == [before |-> "path", after |-> "none"]

Wrapper(fn) ==
  CASE fn = "chmod" -> chmod [] fn = "chown" -> chown [] fn = "close" -> close
    [] fn = "creat" -> creat [] fn = "fopen" -> fopen [] fn = "fclose" -> fclose
    [] fn = "fread" -> fread [] fn = "fwrite" -> fwrite [] fn = "open" -> open
    [] fn = "rename" -> rename [] fn = "write" -> write [] fn = "read" -> read
    [] fn = "tmpfile" -> tmpfile [] OTHER -> remove

fd2name(f) == FdName(f)
FILE2name(s) == IF streams[s] = NoFd THEN NoName ELSE fd2name(streams[s])

NameOf(what, c) ==
  CASE what = "path" -> RealPath(c.name) [] what = "path2" -> RealPath(c.name2)
    [] what = "fd" -> fd2name(c.fd) [] OTHER -> FILE2name(c.stream)

\* A lookup writes errno when it fails; realpath also does when it finds no link.
LookUp(what, c) ==
  \/ what = "none" /\ UNCHANGED <<said, errno>>
  \/ /\ what # "none"
     /\ said' = Append(said, NameOf(what, c))
     /\ \/ NameOf(what, c) = NoName /\ errno' = "ENOENT"
        \/ NameOf(what, c) # NoName /\ UNCHANGED errno
        \/ NameOf(what, c) # NoName /\ what \in {"path", "path2"} /\ errno' = "EINVAL"

\* A tidy program may ask for close(2), as often as it likes, and go on using 2.
MayCall(c) ==
  /\ Usable(c)
  /\ Tidy => /\ c.fn = "close" => c.fd \notin given \ {2}
             /\ c.fn = "fclose" => streams[c.stream] \notin given

Begin ==
  /\ pc = "idle" /\ pc' = "real"
  /\ \E c \in Call : MayCall(c) /\ call' = c /\ LookUp(Wrapper(c.fn).before, c)
  /\ UNCHANGED <<filesVars, launcherVars, marked, deed>>

\* Variants: descriptor 2 is closed; the branches are the wrong way round.
FakesNone(c) == FALSE
FakesOthers(c) == c.fn = "close" /\ c.fd # 2
Fakes(c) == c.fn = "close" /\ c.fd = 2
RealCall(c) ==
  IF Fakes(c)
  THEN Succeed(0) /\ UNCHANGED <<fds, streams, dir>>
  ELSE Do(c) /\ LowestFirst

\* The names the kernel resolved; rename and remove take a link for itself, which
\* realpath does not.
WorkedOn(c) ==
  CASE c.fn \in {"chmod", "chown", "creat", "open", "fopen"} -> <<Reached(c.name)>>
    [] c.fn \in {"close", "read", "write"} -> <<FdName(c.fd)>>
    [] c.fn \in {"fclose", "fread", "fwrite"} -> <<FILE2name(c.stream)>>
    [] c.fn = "rename" -> <<c.name, c.name2>>
    [] c.fn = "remove" -> <<c.name>>
    [] OTHER -> <<>>
OnLink(c) == c.fn \in {"rename", "remove"} /\ dir[c.name] \in Name

Real ==
  /\ pc = "real" /\ pc' = "late"
  /\ RealCall(call)
  /\ errno' = IF res'.ok THEN errno ELSE res'.why
  /\ deed' = [sure |-> deed.sure /\ res'.ok /\ ~OnLink(call), names |-> WorkedOn(call)]
  /\ UNCHANGED <<launcherVars, call, said, marked>>

Late ==
  /\ pc = "late" /\ pc' = "print" /\ call' = call
  /\ LookUp(Wrapper(call.fn).after, call)
  /\ UNCHANGED <<filesVars, launcherVars, marked, deed>>

\* The bytes of the buffer a line shows, by their index; fwrite goes by items.
\* Variant: as many as the caller asked for.
ShownOfBuffer(c, result) == 0..(c.size * c.count - 1)
Shown(c, result) ==
  LET step == IF c.fn = "fwrite" THEN c.size ELSE 1
      length == IF c.fn \in {"fread", "fwrite"} THEN c.size * c.count ELSE c.count
  IN {i \in 0..(length - 1) : i % step = 0 /\ i < PRINT_SIZE /\ i < result}

\* dprintf; the wrapper returns.
PrintLine ==
  /\ pc = "print" /\ pc' = "idle"
  /\ \/ Open(out) /\ marked' = marked \cup {fds[out]} /\ UNCHANGED errno
     \/ ~Open(out) /\ errno' = "EBADF" /\ UNCHANGED marked
  /\ call' = NoCall /\ said' = NoSaid /\ deed' = NoDeed
  /\ UNCHANGED <<filesVars, launcherVars>>

\* Other processes; what a wrapper finds out then need not fit its call.
Others ==
  /\ Launched /\ Outside
  /\ deed' = [deed EXCEPT !.sure = ~InWrapper]
  /\ UNCHANGED <<launcherVars, pc, call, errno, said, marked>>

Next == Launch \/ Begin \/ Real \/ Late \/ PrintLine \/ Others

Spec == Init /\ [][Next]_vars
=============================================================================
