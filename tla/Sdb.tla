-------------------------------- MODULE Sdb --------------------------------
(***************************************************************************)
(* The debugger of project4/hw4.cpp and the process it traces.             *)
(*                                                                         *)
(* A command typed at the prompt is one action as far as its first ptrace  *)
(* or waitpid that can be answered in more than one way; the loops of      *)
(* chkbp and chkstat and the two waitpid calls are states of their own     *)
(* (pc), since the traced process moves or is killed in between.  A        *)
(* command the code refuses with a message changes nothing and is left     *)
(* out, as are the ones that only print (help, list, dump).                *)
(***************************************************************************)
EXTENDS Tracee, Sequences, SequencesExt

CONSTANTS
  BreakInput,  \* the addresses `break' is given; one outside Addr is unmapped
  DeleteInput, \* the ids `delete' is given
  RipInput,    \* the values `set rip' is given
  TextAddr,    \* sh_addr and sh_size of the .text section of a file
  TextSize,
  MaxBps       \* bound: `break' is not given a new address when the list is this long

ASSUME InputAssumption ==
  /\ BreakInput \subseteq Nat \ {0} /\ DeleteInput \subseteq Nat
  /\ RipInput \subseteq Addr
  /\ MaxBps \in Nat

VARIABLES
  state,       \* NONLOAD, LOADED or RUNNING, as the debugger believes
  pid,         \* 0, or ChildPid once fork returned
  file_path,   \* the path start executes and getcode reads
  elf,         \* the file whose headers load read last
  code,        \* the file disasm's buffer holds, NoFile for NULL
  bp_list,     \* the break points, in the order of the vector
  spare,       \* what erase left behind the end of the vector, nearest first
  pc,          \* where the debugger is
  cmd,         \* the command that resumes the process
  i,           \* loop index of chkbp and chkstat, from 1
  from         \* regs.rip as chkbp read it

sdbVars == <<state, pid, file_path, elf, code, bp_list, spare, pc, cmd, i, from>>
vars == <<traceeVars, sdbVars>>
session == <<state, pid, file_path, elf, code, bp_list, spare>>
control == <<pc, cmd, i, from>>

ChildPid == 1
Bp == [id : Nat, addr : Addr, orig_code : Word]

TypeOK ==
  /\ TraceeTypeOK
  /\ state \in {"NONLOAD", "LOADED", "RUNNING"}
  /\ pid \in {0, ChildPid}
  /\ {file_path, elf, code} \subseteq File \cup {NoFile}
  /\ bp_list \in Seq(Bp) /\ spare \in Seq(Bp)
  /\ pc \in {"prompt", "exec", "chkbp", "wait", "getregs", "hit", "exit"}
  /\ cmd \in {"none", "start", "run", "cont", "si"}
  /\ i \in Nat /\ from \in {0} \cup RipRange

Init ==
  /\ TraceeInit
  /\ state = "NONLOAD" /\ pid = 0
  /\ file_path = NoFile /\ elf = NoFile /\ code = NoFile
  /\ bp_list = <<>> /\ spare = <<>>
  /\ pc = "prompt" /\ cmd = "none" /\ i = 0 /\ from = 0

----------------------------------------------------------------------------
\* A ptrace request is answered only while the child is in a ptrace stop.
Answers == proc = "stopped"

Return == pc' = "prompt" /\ cmd' = "none" /\ i' = 0 /\ from' = 0
Goto(label) == pc' = label /\ i' = 1 /\ UNCHANGED cmd

\* exit(): the kernel kills a child traced with PTRACE_O_EXITKILL, and lets go
\* of any other.
LeaveTracee ==
  /\ IF proc \notin {"forked", "stopped", "running"} THEN UNCHANGED <<proc, event>>
     ELSE IF exitkill THEN End("killed")
     ELSE proc' = "untraced" /\ event' = "none"
  /\ UNCHANGED <<mem, rip, stepping, exec, exitkill>>

\* error(): every failed ptrace, waitpid or fopen ends the debugger.
Error ==
  /\ pc' = "exit" /\ cmd' = "none" /\ i' = 0 /\ from' = 0
  /\ LeaveTracee
  /\ UNCHANGED session

\* Variant: the search begins at the second entry.
ListedAfterFirst(a) == \E k \in DOMAIN bp_list \ {1} : bp_list[k].addr = a
Listed(a) == \E k \in DOMAIN bp_list : bp_list[k].addr = a

\* disasm(a, n), inside RUNNING: the first address it shows fills the buffer
\* from file_path.  intext counts the address behind the section in.
InText(a) == TextAddr[elf] <= a /\ a <= TextAddr[elf] + TextSize[elf]
Disasm(a) ==
  code' = IF a \in Addr /\ InText(a) /\ code = NoFile THEN file_path ELSE code

\* The buffer disasm reads is not the file whose section header gives the offset:
\* the bytes at the offset may lie outside it, and the read may end the debugger.
Astray(a) ==
  /\ a \in Addr /\ InText(a)
  /\ (IF code = NoFile THEN file_path ELSE code) # elf

\* The word bp reads, and the one it writes back with the trap in its first byte.
ArmedWord(a) == [PeekWord(mem, a) EXCEPT ![0] = INT3]

\* Variant: the word is saved after it was patched.
SavedWordLate(a) == ArmedWord(a)
SavedWord(a) == PeekWord(mem, a)

\* Variant: ids are counted from one.
NewIdFromOne == Len(bp_list) + 1
NewId == Len(bp_list)

\* What a hit and a delete write back; variant: one byte too far.
RestoreBehind(b) == PokeWord(mem, b.addr + 1, b.orig_code)
Restore(b) == PokeWord(mem, b.addr, b.orig_code)

\* chkbp: which entries it arms again; variant: one address too few.
AheadStrictly(a) == a > from + 1
Ahead(a) == a > from

\* chkstat: which entry was hit; variant: the trap itself is not counted.
HitAtOrBehind(b) == b.addr <= rip
HitAt(b) == b.addr = rip - 1

\* chkstat: where rip goes then; variant: it is not moved.
RipAfterHitStays == rip
RipAfterHit == rip - 1

----------------------------------------------------------------------------
(* Loading and starting.                                                   *)

\* main stores the path before load looks at the state.
Load(f) ==
  /\ pc = "prompt"
  /\ file_path' = f
  /\ \/ /\ state # "LOADED" /\ Kind[f] \in {"program", "noexec"}
        /\ elf' = f /\ state' = "LOADED"
        /\ UNCHANGED <<control, traceeVars>>
     \/ /\ state = "LOADED" \/ Kind[f] = "notelf"
        /\ UNCHANGED <<elf, state, control, traceeVars>>
     \/ /\ state # "LOADED" /\ Kind[f] = "missing"
        /\ pc' = "exit" /\ LeaveTracee
        /\ UNCHANGED <<elf, state, cmd, i, from>>
  /\ UNCHANGED <<pid, code, bp_list, spare>>

\* Variant: start does not look for a child.
MayStartAgain == state = "LOADED"
MayStart == state = "LOADED" /\ pid = 0

\* start, and run when the state is LOADED: fork, with the child to execve.
Start(c) ==
  /\ pc = "prompt" /\ MayStart
  /\ c \in {"start", "run"}
  /\ pid' = ChildPid /\ proc' = "forked" /\ event' = "none"
  /\ exec' = file_path /\ exitkill' = FALSE
  /\ pc' = "exec" /\ cmd' = c
  /\ UNCHANGED <<mem, rip, stepping, state, file_path, elf, code, bp_list, spare, i, from>>

\* PTRACE_SETOPTIONS of start; variant: the option is not set.
NoSetOptions == UNCHANGED exitkill
SetOptions == exitkill' = TRUE

\* The waitpid and the PTRACE_SETOPTIONS of start; run goes on with cont.
Started ==
  /\ pc = "exec" /\ event # "none"
  /\ \/ /\ Answers
        /\ event' = "none" /\ SetOptions /\ state' = "RUNNING"
        /\ IF cmd = "run" THEN Goto("chkbp") /\ from' = rip ELSE Return
        /\ UNCHANGED <<mem, rip, proc, stepping, exec, pid, file_path, elf, code, bp_list, spare>>
     \/ ~Answers /\ Error

----------------------------------------------------------------------------
(* Resuming: cont, si, and run when the state is RUNNING.                  *)

\* PTRACE_GETREGS of chkbp.
Resume(c) ==
  /\ pc = "prompt" /\ state = "RUNNING"
  /\ c \in {"run", "cont", "si"}
  /\ \/ /\ Answers
        /\ pc' = "chkbp" /\ cmd' = c /\ i' = 1 /\ from' = rip
        /\ UNCHANGED <<traceeVars, session>>
     \/ ~Answers /\ Error

\* One round of chkbp: bp() arms a listed break point ahead of rip again.
Chkbp ==
  /\ pc = "chkbp" /\ i <= Len(bp_list)
  /\ LET a == bp_list[i].addr IN
     \/ /\ Ahead(a) /\ Answers /\ mem[a] # INT3
        /\ mem' = PokeWord(mem, a, ArmedWord(a))
        /\ i' = i + 1
        /\ UNCHANGED <<rip, proc, event, stepping, exec, exitkill, session, pc, cmd, from>>
     \/ /\ ~Ahead(a) \/ (Answers /\ mem[a] = INT3)
        /\ i' = i + 1
        /\ UNCHANGED <<traceeVars, session, pc, cmd, from>>
     \/ Ahead(a) /\ ~Answers /\ Error

\* PTRACE_CONT or PTRACE_SINGLESTEP, with no signal to deliver.
Go ==
  /\ pc = "chkbp" /\ i > Len(bp_list)
  /\ \/ /\ Answers
        /\ proc' = "running" /\ event' = "none" /\ stepping' = (cmd = "si")
        /\ Goto("wait") /\ UNCHANGED from
        /\ UNCHANGED <<mem, rip, exec, exitkill, session>>
     \/ ~Answers /\ Error

\* chkstat: the waitpid, and the tests on its status.  WIFSIGNALED is tested
\* inside WIFEXITED, so that a child a signal has killed matches no test.
WaitExited ==
  /\ pc = "wait" /\ event = "exited"
  /\ pid' = 0 /\ state' = "LOADED"
  /\ proc' = "none" /\ event' = "none" /\ exitkill' = FALSE
  /\ Return
  /\ UNCHANGED <<mem, rip, stepping, exec, file_path, elf, code, bp_list, spare>>

WaitKilled ==
  /\ pc = "wait" /\ event = "killed"
  /\ proc' = "none" /\ event' = "none" /\ exitkill' = FALSE
  /\ Return
  /\ UNCHANGED <<mem, rip, stepping, exec, session>>

\* Variants: any signal is taken for the end of the child; or is not looked at,
\* and waited for again.
WaitSignalEnds ==
  /\ pc = "wait" /\ event = "signal"
  /\ event' = "none" /\ pid' = 0 /\ state' = "LOADED"
  /\ Return
  /\ UNCHANGED <<mem, rip, proc, stepping, exec, exitkill, file_path, elf, code, bp_list, spare>>
WaitSignalAgain ==
  /\ pc = "wait" /\ event = "signal"
  /\ event' = "none"
  /\ UNCHANGED <<mem, rip, proc, stepping, exec, exitkill, sdbVars>>
WaitSignal ==
  /\ pc = "wait" /\ event = "signal"
  /\ event' = "none"
  /\ Return
  /\ UNCHANGED <<mem, rip, proc, stepping, exec, exitkill, session>>

WaitTrap ==
  /\ pc = "wait" /\ event = "trap"
  /\ event' = "none"
  /\ Goto("getregs") /\ UNCHANGED from
  /\ UNCHANGED <<mem, rip, proc, stepping, exec, exitkill, session>>

\* The registers of the stopped child, which may have been killed since.
GetRegs ==
  /\ pc = "getregs"
  /\ \/ Answers /\ Goto("hit") /\ UNCHANGED <<from, traceeVars, session>>
     \/ ~Answers /\ Error

\* One round of the loop of chkstat: the entry in front of rip is reported, its
\* word is written back, and rip moves back onto it.
Hit ==
  /\ pc = "hit" /\ i <= Len(bp_list)
  /\ LET b == bp_list[i] IN
     \/ /\ HitAt(b) /\ Answers
        /\ Disasm(b.addr)
        /\ mem' = Restore(b)
        /\ rip' = RipAfterHit
        /\ i' = i + 1
        /\ UNCHANGED <<proc, event, stepping, exec, exitkill>>
        /\ UNCHANGED <<state, pid, file_path, elf, bp_list, spare, pc, cmd, from>>
     \/ /\ ~HitAt(b)
        /\ i' = i + 1
        /\ UNCHANGED <<traceeVars, session, pc, cmd, from>>
     \/ HitAt(b) /\ (~Answers \/ Astray(b.addr)) /\ Error

HitEnd ==
  /\ pc = "hit" /\ i > Len(bp_list)
  /\ Return
  /\ UNCHANGED <<traceeVars, session>>

----------------------------------------------------------------------------
(* The other commands.                                                     *)

\* break: arms the address even when it is listed, and lists it when it is not.
Break(a) ==
  /\ pc = "prompt" /\ state = "RUNNING"
  /\ \/ /\ a \in Addr /\ Answers /\ mem[a] # INT3
        /\ mem' = PokeWord(mem, a, ArmedWord(a))
        /\ IF Listed(a) THEN UNCHANGED <<bp_list, spare, code>>
           ELSE /\ Len(bp_list) < MaxBps
                /\ bp_list' = Append(bp_list, [id |-> NewId, addr |-> a,
                                               orig_code |-> SavedWord(a)])
                /\ spare' = IF spare = <<>> THEN <<>> ELSE Tail(spare)
                /\ Disasm(a)
        /\ UNCHANGED <<rip, proc, event, stepping, exec, exitkill>>
        /\ UNCHANGED <<state, pid, file_path, elf, control>>
     \/ (a \notin Addr \/ ~Answers \/ Astray(a)) /\ Error

\* What bp_list[n] reads, counting from 0: erased entries stay behind the end.
Slot(n) == (bp_list \o spare)[n + 1]

\* delete: looks the id up, then uses it as an index.  Behind the end of the
\* list, erase either crashes or takes the last entry off.
Delete(id) ==
  /\ pc = "prompt" /\ state = "RUNNING"
  /\ \E k \in DOMAIN bp_list : bp_list[k].id = id
  /\ \/ /\ Answers
        /\ id < Len(bp_list) + Len(spare)
        /\ Disasm(Slot(id).addr)
        /\ mem' = Restore(Slot(id))
        /\ bp_list' = IF id < Len(bp_list) THEN RemoveAt(bp_list, id + 1)
                                           ELSE Front(bp_list)
        /\ spare' = <<Last(bp_list)>> \o spare
        /\ UNCHANGED <<rip, proc, event, stepping, exec, exitkill>>
        /\ UNCHANGED <<state, pid, file_path, elf, control>>
     \/ (~Answers \/ id >= Len(bp_list) \/ Astray(Slot(id).addr)) /\ Error

\* set rip (any other register leaves nothing the model keeps).
SetRip(v) ==
  /\ pc = "prompt" /\ state = "RUNNING"
  /\ \/ /\ Answers
        /\ rip' = v
        /\ UNCHANGED <<mem, proc, event, stepping, exec, exitkill, sdbVars>>
     \/ ~Answers /\ Error

\* get, getregs and set with another register fail without a child.
Inspect ==
  /\ pc = "prompt" /\ state = "RUNNING"
  /\ ~Answers /\ Error

\* vmmap fails without the file of the child in /proc, and hands getline a pointer
\* that was never set, which can end the debugger when the file is there.
Vmmap ==
  /\ pc = "prompt" /\ state = "RUNNING"
  /\ Error

\* disasm {addr}.
Disassemble(a) ==
  /\ pc = "prompt" /\ state = "RUNNING"
  /\ \/ /\ Disasm(a)
        /\ UNCHANGED <<traceeVars, state, pid, file_path, elf, bp_list, spare, control>>
     \/ Astray(a) /\ Error

\* exit, and the end of a script.
Quit ==
  /\ pc = "prompt"
  /\ pid' = 0 /\ code' = NoFile
  /\ pc' = "exit"
  /\ LeaveTracee
  /\ UNCHANGED <<state, file_path, elf, bp_list, spare, cmd, i, from>>

\* The debugger has left: nothing more happens to the session.
Ended == pc = "exit" /\ UNCHANGED vars

----------------------------------------------------------------------------
Command ==
  \/ \E f \in File : Load(f)
  \/ \E c \in {"start", "run"} : Start(c)
  \/ \E c \in {"run", "cont", "si"} : Resume(c)
  \/ \E a \in BreakInput : Break(a)
  \/ \E id \in DeleteInput : Delete(id)
  \/ \E v \in RipInput : SetRip(v)
  \/ Inspect \/ Vmmap
  \/ \E a \in Addr : Disassemble(a)
  \/ Quit

Wait == WaitExited \/ WaitKilled \/ WaitSignal \/ WaitTrap
Step == Started \/ Chkbp \/ Go \/ Wait \/ GetRegs \/ Hit \/ HitEnd

TraceeStep == TraceeNext /\ UNCHANGED sdbVars

Next == Command \/ Step \/ TraceeStep \/ Ended

Spec == Init /\ [][Next]_vars

\* The scheduler runs both processes; nobody is obliged to type, to send a
\* signal, or to kill.
Progress == (Exec \/ Instruction) /\ UNCHANGED sdbVars
FairSpec == Spec /\ WF_vars(Step) /\ WF_vars(Progress)
=============================================================================
