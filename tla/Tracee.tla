------------------------------- MODULE Tracee -------------------------------
(***************************************************************************)
(* The traced process, as the kernel's ptrace interface shows it to the    *)
(* debugger of project4/hw4.cpp.  The process itself is not code of the    *)
(* repository: only what the debugger can observe or change is kept, the   *)
(* memory it patches, the instruction pointer, whether the process is      *)
(* stopped, and the event that the next waitpid reports.                   *)
(*                                                                         *)
(* An address is a position in the text of the program.  A byte is a model *)
(* value; the debugger tells apart only INT3 (0xcc) and the byte the image *)
(* has at that place.  What an instruction does is its set of successors.  *)
(***************************************************************************)
EXTENDS Integers

CONSTANTS
  File,        \* the files a session may name
  NoFile,      \* "no file": the empty path, the null pointer
  Kind,        \* Kind[f]: what fopen, the ELF test and execvp make of f
  MaxAddr,     \* the addresses of the text are 1..MaxAddr
  WordLen,     \* bytes in the word PEEKTEXT and POKETEXT move (8 in the code)
  Byte,        \* the bytes of memory
  INT3,        \* the trap instruction, one byte
  Image,       \* Image[f][a]: the byte execve puts at a
  InsnLen,     \* InsnLen[f][a]: length of the instruction at a, 0 if none starts there
  Succ,        \* Succ[f][a]: where control goes after it; Done is the end of the program
  Entry        \* Entry[f]: the entry point

Addr == 1..MaxAddr
MemAddr == 1..(MaxAddr + WordLen - 1)
RipRange == 1..(MaxAddr + 1)
Offset == 0..(WordLen - 1)
Word == [Offset -> Byte]
Done == 0

\* What the kernel and the loader make of a file: an ELF64 program, an ELF64
\* file execvp refuses, a file that is not ELF64, a path that cannot be opened.
FileKind == {"program", "noexec", "notelf", "missing"}

ASSUME SizeAssumption ==
  MaxAddr \in Nat \ {0} /\ WordLen \in Nat /\ WordLen > 1
ASSUME FileAssumption ==
  NoFile \notin File /\ Kind \in [File -> FileKind]
ASSUME ImageAssumption ==
  INT3 \in Byte /\ Image \in [File -> [MemAddr -> Byte]]
ASSUME CodeAssumption ==
  /\ InsnLen \in [File -> [Addr -> 0..WordLen]]
  /\ Succ \in [File -> [Addr -> SUBSET (Addr \cup {Done})]]
  /\ Entry \in [File -> Addr]

VARIABLES
  mem,         \* the memory of the process
  rip,         \* its instruction pointer
  proc,        \* "none", "forked" (not yet exec'd), "stopped", "running",
               \* "zombie" (ended, not waited for), "untraced" (its tracer left)
  event,       \* what waitpid would report, "none" when it would block
  stepping,    \* resumed by PTRACE_SINGLESTEP rather than PTRACE_CONT
  exec,        \* the file whose image it runs
  exitkill     \* PTRACE_O_EXITKILL is set

traceeVars == <<mem, rip, proc, event, stepping, exec, exitkill>>

TraceeTypeOK ==
  /\ mem \in [MemAddr -> Byte]
  /\ rip \in RipRange
  /\ proc \in {"none", "forked", "stopped", "running", "zombie", "untraced"}
  /\ event \in {"none", "trap", "signal", "exited", "killed"}
  /\ stepping \in BOOLEAN
  /\ exec \in File \cup {NoFile}
  /\ exitkill \in BOOLEAN

TraceeInit ==
  /\ mem = [a \in MemAddr |-> INT3]
  /\ rip = 1
  /\ proc = "none"
  /\ event = "none"
  /\ stepping = FALSE
  /\ exec = NoFile
  /\ exitkill = FALSE

----------------------------------------------------------------------------
(* PTRACE_PEEKTEXT and PTRACE_POKETEXT: one word, lowest address first.     *)
PeekWord(m, a) == [k \in Offset |-> m[a + k]]
PokeWord(m, a, w) ==
  [x \in MemAddr |-> IF x - a \in Offset THEN w[x - a] ELSE m[x]]

Present == proc \in {"stopped", "running"}

\* The instruction at a is the one the image has there: none of its bytes is patched.
Intact(a) ==
  /\ a \in Addr
  /\ InsnLen[exec][a] > 0
  /\ \A k \in 0..(InsnLen[exec][a] - 1) : mem[a + k] = Image[exec][a + k]

AtTrap(a) == a \in Addr /\ mem[a] = INT3

Stop(e) == proc' = "stopped" /\ event' = e
End(e) == proc' = "zombie" /\ event' = e

\* After an instruction the process goes on, unless it is single-stepped.
GoOn(next) ==
  /\ rip' = next
  /\ IF stepping THEN Stop("trap") ELSE UNCHANGED <<proc, event>>

----------------------------------------------------------------------------
\* The forked child reaches execvp: a traced process stops at the entry point.
ExecOk ==
  /\ proc = "forked" /\ Kind[exec] = "program"
  /\ mem' = Image[exec] /\ rip' = Entry[exec]
  /\ Stop("trap")
  /\ UNCHANGED <<stepping, exec, exitkill>>

\* execvp fails and the child leaves through error().
ExecFails ==
  /\ proc = "forked" /\ Kind[exec] # "program"
  /\ End("exited")
  /\ UNCHANGED <<mem, rip, stepping, exec, exitkill>>

\* The trap instruction: rip is behind it when the process stops.
Trap ==
  /\ proc = "running" /\ AtTrap(rip)
  /\ rip' = rip + 1
  /\ Stop("trap")
  /\ UNCHANGED <<mem, stepping, exec, exitkill>>

\* An instruction of the image.
Execute ==
  /\ proc = "running" /\ ~AtTrap(rip) /\ Intact(rip)
  /\ \E next \in Succ[exec][rip] :
       \/ next = Done /\ End("exited") /\ UNCHANGED rip
       \/ next # Done /\ GoOn(next)
  /\ UNCHANGED <<mem, stepping, exec, exitkill>>

\* Bytes that are no instruction of the image, a patched one or a jump into its
\* middle: whatever the processor decodes, it may fault or go anywhere.
Garbled ==
  /\ proc = "running" /\ ~AtTrap(rip) /\ ~Intact(rip)
  /\ \/ Stop("signal") /\ UNCHANGED rip
     \/ End("exited") /\ UNCHANGED rip
     \/ \E next \in Addr : GoOn(next)
  /\ UNCHANGED <<mem, stepping, exec, exitkill>>

\* A signal, sent from outside or raised by the instruction, stops the process.
Signal ==
  /\ proc = "running"
  /\ Stop("signal")
  /\ UNCHANGED <<mem, rip, stepping, exec, exitkill>>

\* SIGKILL ends the process whatever it is doing.
Killed ==
  /\ proc \in {"forked", "stopped", "running"}
  /\ End("killed")
  /\ UNCHANGED <<mem, rip, stepping, exec, exitkill>>

Instruction == Trap \/ Execute \/ Garbled
Exec == ExecOk \/ ExecFails
TraceeNext == Exec \/ Instruction \/ Signal \/ Killed
=============================================================================
