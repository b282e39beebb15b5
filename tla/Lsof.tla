-------------------------------- MODULE Lsof --------------------------------
(***************************************************************************)
(* project1/hw1.cpp: the listing of the files that processes have open.    *)
(* Every look at /proc is a step of its own, and between two of them any   *)
(* process may open and close files, execute another program, end, or      *)
(* leave its number to a new one.                                          *)
(*                                                                         *)
(* The names of files are left out: readlink does not end its buffer, so   *)
(* dirname(buf) is made of whatever the stack held, and whether it passes  *)
(* -f is open.  A row is what the other columns show.                      *)
(***************************************************************************)
EXTENDS Integers, Sequences, FiniteSets

CONSTANTS
  Pid,         \* the numbers of processes
  Desc,        \* the numbers of descriptors
  Inode,       \* the files, and
  TypeOf,      \* what stat says of each
  Command,     \* what a comm file may say
  Process,     \* what a process may be like
  Gone,        \* there is no such process
  Arguments,   \* the command lines
  Word,        \* the words of a command line
  Matches,     \* Matches[w]: the commands that contain the string w
  MaxChange,   \* bound: how often the processes change during a listing
  MaxOpen      \* the descriptors the listing may have open beyond its own few

None == "none"   \* no such file: a kernel thread has no exe, a closed descriptor no link
Types == {"REG", "CHR", "DIR", "FIFO", "SOCK", "unknown"}

\* A line of a maps file, by its inode (None for 0) and whether its name holds "(deleted)".
Line == [node : Inode \cup {None}, deleted : BOOLEAN]
ProcessRecord ==
  [cmd : Command,
   named : BOOLEAN,  \* getpwuid knows the user
   ours : BOOLEAN,   \* we may follow its links
   cwd : Inode \cup {None}, root : Inode \cup {None}, exe : Inode \cup {None},
   maps : Seq(Line), fd : [Desc -> Inode \cup {None}]]

ASSUME LsofAssumption ==
  /\ Pid \subseteq Nat /\ IsFiniteSet(Pid) /\ Desc \subseteq Nat
  /\ MaxChange \in Nat /\ MaxOpen \in Nat \ {0}
  /\ None \notin Inode /\ TypeOf \in [Inode -> Types]
  /\ Process \subseteq ProcessRecord /\ Gone \notin Process
  /\ Arguments \subseteq Seq(Word) /\ Matches \in [Word -> SUBSET Command]

VARIABLES
  ps,       \* the processes
  seen,     \* seen[p]: all p has been so far (history)
  changes,
  args,     \* the words main has still to read
  filter,   \* -c: the commands, -t: the types that pass; -f: whether it was given
  at,       \* the next look at /proc; "done", "usage", "crash"; "noproc", "failed" (error)
  pids,     \* the numbers readdir has still to give
  pid,      \* the process being listed
  cmd,
  lines,    \* what FindMem has still to read of the maps file of
  owner,    \* the process as it was when the file was opened
  node, fd, \* FindMem's variables of these names
  descs,    \* the descriptors FindFd has still to look at
  type,     \* FindFd's type and
  inode,    \* node
  leaked,   \* the directories FindFd has left open
  rows      \* the output

world == <<ps, seen, changes>>
memVars == <<lines, owner, node, fd>>
fdVars == <<descs, type, inode>>
scanVars == <<args, filter, pids, pid, cmd, leaked>>
vars == <<world, memVars, fdVars, scanVars, at, rows>>

Init ==
  /\ ps \in [Pid -> Process \cup {Gone}] /\ seen = [p \in Pid |-> {ps[p]}] /\ changes = 0
  /\ args \in Arguments
  /\ filter = [cmd |-> Command, type |-> Types, file |-> FALSE]
  /\ at = "args" /\ pids = {} /\ pid \in Pid /\ cmd \in Command
  /\ lines = <<>> /\ owner = Gone /\ node = None /\ fd = "mem"
  /\ descs = {} /\ type = "unknown" /\ inode = None /\ leaked = 0 /\ rows = {}

----------------------------------------------------------------------------
(* main: the options, in pairs.                                             *)

Read(n) == args' = SubSeq(args, n + 1, Len(args))
Options == at = "args" /\ args # <<>>
Idle == UNCHANGED <<world, memVars, fdVars, pids, pid, cmd, leaked, rows>>

\* A value that is missing is a null pointer: for -c, -t and -f the string constructor
\* throws, for any other word the loop ends.
NoValue ==
  /\ Options /\ Len(args) = 1
  /\ IF args[1] \in {"-c", "-t", "-f"} THEN at' = "crash" ELSE at' = at
  /\ Read(1) /\ Idle /\ UNCHANGED filter

\* What -t takes; variant: anything.
AnyType(t) == TRUE
ValidType(t) == t \in Types

Option ==
  /\ Options /\ Len(args) > 1
  /\ \/ args[1] = "-c" /\ filter' = [filter EXCEPT !.cmd = Matches[args[2]]] /\ at' = at
     \/ args[1] = "-t" /\ ValidType(args[2]) /\ filter' = [filter EXCEPT !.type = {args[2]}] /\ at' = at
     \/ args[1] = "-t" /\ ~ValidType(args[2]) /\ at' = "usage" /\ UNCHANGED filter
     \/ args[1] = "-f" /\ filter' = [filter EXCEPT !.file = (args[2] # "")] /\ at' = at
     \/ args[1] \notin {"-c", "-t", "-f"} /\ UNCHANGED <<filter, at>>
  /\ Read(2) /\ Idle

\* opendir("/proc"), which may fail; the names of the processes come in one piece.
OpenProc ==
  /\ at = "args" /\ args = <<>>
  /\ \/ pids' = {p \in Pid : ps[p] # Gone} /\ at' = "proc"
     \/ at' = "noproc" /\ UNCHANGED pids
  /\ UNCHANGED <<world, memVars, fdVars, args, filter, pid, cmd, leaked, rows>>

----------------------------------------------------------------------------
(* The loop over the processes, in rising order, and the looks at one.     *)

Look(here) == at = here /\ UNCHANGED world
There == ps[pid] # Gone
Ours == There /\ ps[pid].ours

Go(next) == at' = next /\ UNCHANGED <<memVars, fdVars, scanVars>>
\* The FD column: a descriptor with its mode, or a word.
Slot(f) == <<-1, f>>
PrintRow(f, t, n) == rows' = rows \cup {[pid |-> pid, cmd |-> cmd, fd |-> f, type |-> t, node |-> n]}
Skip == UNCHANGED rows
error == Go("failed") /\ Skip

\* A row that the filters may hold back.
PrintIf(f, t, n) ==
  \/ t \in filter.type /\ PrintRow(f, t, n)
  \/ (t \notin filter.type \/ filter.file) /\ Skip

NextProcess ==
  /\ Look("proc")
  /\ \/ pids = {} /\ at' = "done" /\ UNCHANGED <<pids, pid>>
     \/ /\ pid' \in pids /\ (\A p \in pids : pid' <= p)
        /\ pids' = pids \ {pid'} /\ at' = "comm"
  /\ UNCHANGED <<memVars, fdVars, args, filter, cmd, leaked, rows>>

\* The listing is out of descriptors.
Full == leaked >= MaxOpen

\* The comm file of a process: fopen, and getline, which fails once the process has
\* ended.  Whether the one that now has its number is still the same cannot be told
\* here, so both outcomes are there when it has changed.
CheckCmd ==
  \/ /\ Look("comm") /\ Skip
     /\ \/ Full /\ Go("failed")
        \/ ~Full /\ ~There /\ Go("proc")
        \/ /\ ~Full /\ There /\ owner' = ps[pid] /\ at' = "commline"
           /\ UNCHANGED <<lines, node, fd, fdVars, scanVars>>
  \/ /\ Look("commline") /\ Skip
     /\ \/ ps[pid] # owner /\ Go("failed")
        \/ /\ There /\ cmd' = ps[pid].cmd
           /\ at' = IF cmd' \in filter.cmd THEN "user" ELSE "proc"
           /\ UNCHANGED <<memVars, fdVars, args, filter, pids, pid, leaked>>

FindUsr ==
  /\ Look("user") /\ Skip
  /\ Go(IF There /\ ps[pid].named THEN "cwd" ELSE "failed")

\* FindCwdRoot and FindExe: the readlink, and the stat of what the link f leads to.
FollowLink(f, stat, next) ==
  \/ There /\ ~ps[pid].ours /\ PrintRow(Slot(f), "unknown", None) /\ Go(next)
  \/ (There => ps[pid].ours /\ ps[pid][f] = None) /\ Skip /\ Go(next)
  \/ Ours /\ ps[pid][f] # None /\ Skip /\ Go(stat)
StatLink(f, types, next) ==
  IF Ours /\ ps[pid][f] # None
  THEN PrintIf(Slot(f), types[ps[pid][f]], ps[pid][f]) /\ Go(next)
  ELSE error

FindCwdRoot ==
  LET DIR == [n \in Inode |-> "DIR"] IN
  \/ Look("cwd") /\ FollowLink("cwd", "cwdstat", "root")
  \/ Look("cwdstat") /\ StatLink("cwd", DIR, "root")
  \/ Look("root") /\ FollowLink("root", "rootstat", "exe")
  \/ Look("rootstat") /\ StatLink("root", DIR, "exe")

FindExe ==
  \/ Look("exe") /\ FollowLink("exe", "exestat", "maps")
  \/ Look("exestat") /\ StatLink("exe", TypeOf, "maps")

----------------------------------------------------------------------------
(* FindMem.                                                                 *)

OpenMaps ==
  /\ Look("maps") /\ Skip
  /\ \/ Full /\ Go("failed")
     \/ ~Full /\ ~Ours /\ Go("fd")
     \/ /\ ~Full /\ Ours /\ at' = "mapsstat"
        /\ owner' = ps[pid] /\ lines' = ps[pid].maps /\ node' = None /\ fd' = "mem"
        /\ UNCHANGED <<fdVars, scanVars>>
StatMaps == Look("mapsstat") /\ Skip /\ Go(IF There THEN "mapsline" ELSE "failed")

\* A line that has no inode, or that of the line before, is passed over.  "(deleted)"
\* is looked for in the sixth word of the line, which is the name; from then on fd is
\* "del".  The type is that of the maps file.
MapsLine ==
  LET line == Head(lines) IN
  /\ Look("mapsline") /\ lines # <<>>
  /\ lines' = Tail(lines) /\ UNCHANGED <<at, owner, fdVars, scanVars>>
  /\ IF line.node \in {None, node}
     THEN Skip /\ UNCHANGED <<node, fd>>
     ELSE /\ node' = line.node
          /\ fd' = IF line.deleted THEN "del" ELSE fd
          /\ PrintIf(Slot(fd'), "REG", node')
\* The end of the file; it comes early when the process has ended.
MapsEnd ==
  /\ Look("mapsline") /\ (lines = <<>> \/ ps[pid] # owner)
  /\ Skip /\ Go("fd")

FindMem == OpenMaps \/ StatMaps \/ MapsLine \/ MapsEnd

----------------------------------------------------------------------------
(* FindFd.                                                                  *)

OpenDir ==
  /\ Look("fd")
  /\ \/ There /\ ps[pid].ours /\ ~Full /\ Skip /\ owner' = ps[pid] /\ at' = "fdlist"
        /\ UNCHANGED <<lines, node, fd, fdVars, scanVars>>
     \/ There /\ ~ps[pid].ours /\ PrintRow(Slot("NOFD"), "", None) /\ Go("proc")
     \/ (~There \/ Full) /\ error

\* The names of the descriptors come in one piece, and not at all when the process
\* has ended.
ReadDir ==
  /\ Look("fdlist") /\ Skip /\ at' = "fdlink"
  /\ \/ There /\ descs' = {d \in Desc : ps[pid].fd[d] # None}
     \/ ps[pid] # owner /\ descs' = {}
  /\ UNCHANGED <<memVars, type, inode, scanVars>>

Current == CHOOSE d \in descs : \A e \in descs : d <= e
Open == Ours /\ ps[pid].fd[Current] # None

\* readlink; a descriptor that is gone ends the function, without closedir.
ReadLink ==
  /\ Look("fdlink") /\ descs # {} /\ Skip
  /\ \/ Open /\ Go("fdstat")
     \/ (There => ps[pid].ours) /\ ~Open
        /\ leaked' = leaked + 1 /\ at' = "proc"
        /\ UNCHANGED <<memVars, fdVars, args, filter, pids, pid, cmd>>
     \/ There /\ ~ps[pid].ours /\ Go("failed")

\* The stat of a descriptor fails; variant: the row is made of what is at hand.
StatIgnored == Go("fdmode")
StatFails == Go("failed")
StatFd ==
  /\ Look("fdstat") /\ Skip
  /\ IF Open
     THEN /\ type' = TypeOf[ps[pid].fd[Current]] /\ inode' = ps[pid].fd[Current]
          /\ at' = "fdmode" /\ UNCHANGED <<memVars, descs, scanVars>>
     ELSE StatFails

\* The descriptors after this one; variants: no more, or this one again.
NoRest == {}
SameAgain == descs
Rest == descs \ {Current}

\* access with R_OK & W_OK, which is F_OK: the mode is "u" while the file is there,
\* and none when it is not.
Access ==
  /\ Look("fdmode")
  /\ PrintIf(<<Current, IF Open THEN "u" ELSE "">>, type, inode)
  /\ descs' = Rest /\ at' = "fdlink"
  /\ UNCHANGED <<memVars, type, inode, scanVars>>

\* closedir; variant: it is forgotten.
LeftOpen == leaked + 1
Closed == leaked
CloseDir ==
  /\ Look("fdlink") /\ descs = {} /\ Skip
  /\ leaked' = Closed /\ at' = "proc"
  /\ UNCHANGED <<memVars, fdVars, args, filter, pids, pid, cmd>>

FindFd == OpenDir \/ ReadDir \/ ReadLink \/ StatFd \/ Access \/ CloseDir

----------------------------------------------------------------------------
\* A process becomes another: it starts, ends, opens, closes, moves, executes.
Change ==
  /\ changes < MaxChange /\ changes' = changes + 1
  /\ \E p \in Pid, new \in Process \cup {Gone} :
       /\ ps' = [ps EXCEPT ![p] = new]
       /\ seen' = [seen EXCEPT ![p] = @ \cup {new}]
  /\ UNCHANGED <<memVars, fdVars, scanVars, at, rows>>

main ==
  \/ NoValue \/ Option \/ OpenProc \/ NextProcess
  \/ CheckCmd \/ FindUsr \/ FindCwdRoot \/ FindExe \/ FindMem \/ FindFd

Next == main \/ Change

Spec == Init /\ [][Next]_vars
FairSpec == Spec /\ WF_vars(main)
=============================================================================
