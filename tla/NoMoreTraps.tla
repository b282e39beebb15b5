----------------------------- MODULE NoMoreTraps -----------------------------
(***************************************************************************)
(* CTF/ptrace/no_more_traps/test.cpp: the program was delivered with traps *)
(* in place of the first bytes of some instructions, and the bytes in a    *)
(* text file, two digits each.  The tracer runs it and puts back the next  *)
(* byte of the file whenever it stops behind a trap.                       *)
(***************************************************************************)
EXTENDS Tracee, Sequences

CONSTANTS
  TrapSeq,   \* TrapSeq[f]: where f has traps, in the order of the text file
  Hints,     \* Hints[f]: the bytes of the text file
  AllOnes    \* the byte 0xff

ASSUME TrapAssumption ==
  /\ TrapSeq \in [File -> Seq(Addr)]
  /\ Hints \in [File -> Seq(Byte)]
  /\ AllOnes \in Byte

VARIABLES
  pc,      \* "fork", "first" (waitpid); in the loop "wait", "regs", "peek", "hint",
           \* "poke", "setregs", "cont"; "done", "exit" (errquit or a crash)
  fptr,    \* the text file could be opened
  used,    \* the bytes read from it, which is INT_cont
  ip,      \* regs.rip
  code,    \* the word PEEKTEXT returned
  hex      \* what the digits gave, for each byte of the word

tracerVars == <<pc, fptr, used, ip, code, hex>>
vars == <<traceeVars, tracerVars>>

NoWord == [k \in Offset |-> AllOnes]

Init ==
  /\ TraceeInit
  /\ pc = "fork" /\ fptr = FALSE /\ used = 0 /\ ip = 0 /\ code = NoWord /\ hex = NoWord

----------------------------------------------------------------------------
\* The image execve loads: the file with its traps.
IsTrap(f, a) == \E k \in DOMAIN TrapSeq[f] : TrapSeq[f][k] = a
Delivered(f) == [a \in MemAddr |-> IF IsTrap(f, a) THEN INT3 ELSE Image[f][a]]

ExecDelivered ==
  /\ proc = "forked" /\ Kind[exec] = "program"
  /\ mem' = Delivered(exec) /\ rip' = Entry[exec]
  /\ Stop("trap")
  /\ UNCHANGED <<stepping, exec, exitkill>>

Program == (ExecDelivered \/ ExecFails \/ Instruction \/ Signal \/ Killed) /\ UNCHANGED tracerVars

----------------------------------------------------------------------------
(* The tracer.                                                              *)

Answers == proc = "stopped"

\* errquit, or a crash: the child goes too once PTRACE_O_EXITKILL is set.
Quit ==
  /\ pc' = "exit"
  /\ IF proc \in {"none", "zombie"} THEN UNCHANGED <<proc, event>>
     ELSE IF exitkill THEN End("killed")
     ELSE proc' = "untraced" /\ event' = "none"
  /\ UNCHANGED <<mem, rip, stepping, exec, exitkill, fptr, used, ip, code, hex>>

Fork ==
  /\ pc = "fork"
  /\ \/ /\ pc' = "first" /\ fptr' \in BOOLEAN
        /\ exec' \in File /\ proc' = "forked"
        /\ UNCHANGED <<mem, rip, event, stepping, exitkill, used, ip, code, hex>>
     \/ Quit

\* PTRACE_SETOPTIONS; variant: left out.
NoSetOptions == UNCHANGED exitkill
SetOptions == exitkill' = TRUE

\* The first waitpid, the options and PTRACE_CONT, whose answers nobody looks at.
FirstWait ==
  /\ pc = "first" /\ event # "none"
  /\ pc' = "wait" /\ event' = "none"
  /\ \/ Answers /\ proc' = "running" /\ SetOptions
     \/ ~Answers /\ proc' = "none" /\ UNCHANGED exitkill
  /\ UNCHANGED <<mem, rip, stepping, exec, fptr, used, ip, code, hex>>

\* The waitpid of the loop: the child has stopped, or is no more, and then the next
\* waitpid fails.
Wait ==
  /\ pc = "wait"
  /\ \/ Answers /\ event # "none" /\ event' = "none" /\ pc' = "regs" /\ proc' = proc
     \/ proc = "zombie" /\ event' = "none" /\ proc' = "none" /\ pc' = pc
     \/ proc = "none" /\ pc' = "done" /\ UNCHANGED <<proc, event>>
  /\ UNCHANGED <<mem, rip, stepping, exec, exitkill, fptr, used, ip, code, hex>>

\* Variant: one instruction pointer too far back.
RipFurtherBack == rip - 2
RipBack == rip - 1

GetRegs ==
  /\ pc = "regs"
  /\ \/ /\ Answers /\ ip' = RipBack /\ pc' = "peek"
        /\ UNCHANGED <<traceeVars, fptr, used, code, hex>>
     \/ ~Answers /\ Quit

\* Where the loop goes when there is no trap in front of rip; variant: the child is
\* not told to go on.
ElseWait == "wait"
Else == "cont"

\* Variant: the word of the trap before.
FetchedBefore == code
Fetched == PeekWord(mem, ip)

\* PTRACE_PEEKTEXT, whatever made the child stop; without a child it gives all ones.
PeekText ==
  /\ pc = "peek"
  /\ LET trap == Answers /\ AtTrap(ip) IN
     /\ code' = IF trap THEN Fetched ELSE code
     /\ pc' = IF trap THEN "hint" ELSE Else
  /\ UNCHANGED <<traceeVars, fptr, used, ip, hex>>

\* Two digits of the text file.  Behind its end fgetc and to_hex give -1, which has
\* every bit of the word set; without the file fgetc crashes.
ReadHint ==
  /\ pc = "hint"
  /\ \/ ~fptr /\ Quit
     \/ /\ fptr /\ used' = used + 1 /\ pc' = "poke"
        /\ hex' = IF used < Len(Hints[exec]) THEN [code EXCEPT ![0] = Hints[exec][used + 1]]
                                             ELSE NoWord
        /\ UNCHANGED <<traceeVars, fptr, ip, code>>

PokeText ==
  /\ pc = "poke"
  /\ \/ /\ Answers /\ mem' = PokeWord(mem, ip, hex) /\ pc' = "setregs"
        /\ UNCHANGED <<rip, proc, event, stepping, exec, exitkill, fptr, used, ip, code, hex>>
     \/ ~Answers /\ Quit

\* regs.rip, one less than where the child stopped; variant: the registers as they were.
NewRipSame == rip
NewRip == ip

SetRegs ==
  /\ pc = "setregs"
  /\ \/ /\ Answers /\ rip' = NewRip /\ pc' = "cont"
        /\ UNCHANGED <<mem, proc, event, stepping, exec, exitkill, fptr, used, ip, code, hex>>
     \/ ~Answers /\ Quit

\* PTRACE_CONT, with no signal.
Cont ==
  /\ pc = "cont" /\ pc' = "wait"
  /\ IF Answers THEN proc' = "running" ELSE proc' = proc
  /\ UNCHANGED <<mem, rip, event, stepping, exec, exitkill, fptr, used, ip, code, hex>>

Tracer ==
  \/ Fork \/ FirstWait \/ Wait \/ GetRegs \/ PeekText \/ ReadHint \/ PokeText \/ SetRegs \/ Cont

Next == Tracer \/ Program

\* The tracer is never kept from running.
Spec == Init /\ [][Next]_vars
FairSpec == Spec /\ WF_vars(Tracer)
=============================================================================
