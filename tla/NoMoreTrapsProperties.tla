------------------------ MODULE NoMoreTrapsProperties ------------------------
(* What the tracer of CTF/ptrace/no_more_traps does for its program.       *)
EXTENDS NoMoreTraps

\* Every variable keeps its type.
TypeOK ==
  /\ TraceeTypeOK
  /\ pc \in {"fork", "first", "wait", "regs", "peek", "hint", "poke", "setregs", "cont",
             "done", "exit"}
  /\ fptr \in BOOLEAN /\ used \in Nat
  /\ ip \in {0} \cup RipRange
  /\ code \in Word /\ hex \in Word

\* The program is made of instructions that do not reach into one another where a trap
\* is, and has no trap of its own.
MadeOfInsns(f) ==
  /\ InsnLen[f][Entry[f]] > 0
  /\ \A a \in Addr : \A next \in Succ[f][a] \ {Done} : InsnLen[f][next] > 0
  /\ \A a \in Addr, k \in DOMAIN TrapSeq[f] :
       a < TrapSeq[f][k] => a + InsnLen[f][a] <= TrapSeq[f][k]
  /\ \A a \in MemAddr : Image[f][a] # INT3

\* The text file fits it: it has the byte of each trap, in the order of their addresses,
\* and the program neither begins behind one nor jumps forward over one.
Orderly(f) ==
  /\ MadeOfInsns(f)
  /\ Len(Hints[f]) = Len(TrapSeq[f])
  /\ \A k \in DOMAIN TrapSeq[f] :
       /\ Hints[f][k] = Image[f][TrapSeq[f][k]]
       /\ InsnLen[f][TrapSeq[f][k]] > 0 /\ Entry[f] <= TrapSeq[f][k]
       /\ \A j \in 1..(k - 1) : TrapSeq[f][j] < TrapSeq[f][k]
       /\ \A a \in 1..(TrapSeq[f][k] - 1) : \A next \in Succ[f][a] : next <= TrapSeq[f][k]

\* Each byte is put back where it came from: all of the program is as it was written
\* or still a trap, whichever stops and signals there were in between (test.cpp:67-77:
\* the tracer looks for 0xcc in front of rip after every stop, and counts the bytes).
Restored ==
  Present /\ Orderly(exec) =>
    \A a \in MemAddr : mem[a] = Image[exec][a] \/ (mem[a] = INT3 /\ IsTrap(exec, a))

\* The program counter without the traps: in front of one that is being dealt with.
Dealing ==
  /\ proc = "stopped"
  /\ \/ pc = "wait" /\ event = "trap"
     \/ pc \in {"regs", "peek", "hint", "poke"} /\ AtTrap(rip - 1)
     \/ pc = "setregs"
Here == IF Dealing THEN rip - 1 ELSE rip

\* The program takes the path of its own instructions, as if it had never had traps.
PathKept ==
  [][Present /\ Present' /\ Orderly(exec) => Here' = Here \/ Here' \in Succ[exec][Here]]_vars

\* Nothing is left running when the tracer is gone, and a child that it has waited for
\* is gone before it says so.
NoneLeft == pc \in {"done", "exit"} => proc \in {"none", "zombie"}

\* A stopped program goes on or ends.
GoesOn == proc = "stopped" ~> proc # "stopped"
=============================================================================
