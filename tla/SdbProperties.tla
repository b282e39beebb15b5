--------------------------- MODULE SdbProperties ---------------------------
(***************************************************************************)
(* What the debugger of Sdb promises, and what its documentation says of   *)
(* it.  Listed, Resumed and Trapped name the situations the properties     *)
(* speak about.                                                            *)
(***************************************************************************)
EXTENDS Sdb

\* The process is running, or was when the debugger last looked.
Running == proc = "running"

\* It has just executed the trap of a listed break point that the debugger has
\* not dealt with yet.
Trapped ==
  /\ proc = "stopped"
  /\ (pc = "wait" /\ event = "trap") \/ pc \in {"getregs", "hit"}
  /\ \E k \in DOMAIN bp_list :
       /\ bp_list[k].addr = rip - 1 /\ mem[rip - 1] = INT3
       /\ pc = "hit" => k >= i

----------------------------------------------------------------------------
(* What a session takes for the debugger not to show (see the theorems).   *)

\* A session with one program, under as many names as it likes.
OneProgram == \A f, g \in File : Image[f] = Image[g]

\* Break points do not share a word: bp and a restore move whole words.
WordApart == \A a, b \in BreakInput \cap Addr : a < b => a + WordLen <= b

\* No delete takes an id for a position behind the end of the list.
InRange ==
  \A id \in DeleteInput : Delete(id) /\ pc' = "prompt" => id < Len(bp_list)
DeletesInRange == [][InRange]_vars

\* Control only reaches the places R[f] of a program f, where instructions of its own
\* start, and the user sends it to no others.  No break point is inside one of them, and
\* none is just in front of one, since chkstat takes a process that stops there for one
\* that has hit it.  Where control does not come there may be anything, and break points.
Program == {f \in File : Kind[f] = "program"}
Insn(f) == {a \in Addr : InsnLen[f][a] > 0}
Steppable(R) ==
  \A f \in Program :
    /\ {Entry[f]} \cup RipInput \subseteq R[f] /\ R[f] \subseteq Insn(f)
    /\ \A b \in BreakInput \cap Addr : b + 1 \notin R[f]
    /\ \A a \in R[f] :
         /\ Image[f][a] # INT3
         /\ Succ[f][a] \subseteq R[f] \cup {Done}
         /\ \A k \in 1..(InsnLen[f][a] - 1) : a + k \notin BreakInput \cap Addr

----------------------------------------------------------------------------
(* Safety.                                                                 *)

\* bp lists an address once, however often it is set, hit, re-armed and deleted
\* (the search at hw4.cpp:247).
BreakpointsDistinct ==
  \A j, k \in DOMAIN bp_list : bp_list[j].addr = bp_list[k].addr => j = k

\* The byte bp saves for an address is the program's own: what a hit or a delete
\* writes back there is the instruction and never another trap (hw4.cpp:243).
SavedByteIsOriginal ==
  exec # NoFile => \A k \in DOMAIN bp_list :
    LET b == bp_list[k] IN
      b.orig_code[0] = Image[exec][b.addr] /\ b.orig_code[0] # INT3

\* Patching, un-patching and moving words about leaves every byte of the program
\* either as the image has it or a trap: no word is ever written back at the
\* wrong place or half.
TextIntact ==
  Present => \A a \in MemAddr : mem[a] \in {Image[exec][a], INT3}

\* A debugger without a child has no child: pid is cleared only once the process
\* has been waited for (hw4.cpp:58), so that it can always be found and killed.
PidTracksChild == pid = 0 /\ pc # "exit" => proc = "none"

\* When the debugger ends, by exit, by an error or by a crash, so does the
\* program it was debugging (PTRACE_O_EXITKILL, hw4.cpp:393).
NoOrphan == pc = "exit" => proc \in {"none", "zombie"}

\* delete reads bp_list[id] only where an entry is or has been: the slot is never
\* uninitialised memory, although ids outlive their positions (hw4.cpp:121).
SlotKnown == \A k \in DOMAIN bp_list : bp_list[k].id < Len(bp_list) + Len(spare)

\* Every trap in memory that is not the program's own is that of a listed break
\* point: a deleted one is really gone.  It takes break points a word apart and
\* no delete behind the end of the list (hw4.cpp:121, 241, 255).
NoStrayTrap ==
  Present => \A a \in MemAddr : mem[a] = INT3 /\ Image[exec][a] # INT3 => Listed(a)

\* Any address named in the break points ahead of where the process was resumed
\* is armed while it runs (chkbp, hw4.cpp:46).
ArmedAhead ==
  pc = "wait" /\ Running =>
    \A k \in DOMAIN bp_list :
      bp_list[k].addr > from => mem[bp_list[k].addr] = INT3

----------------------------------------------------------------------------
(* Action properties.                                                      *)

\* The program never runs past a listed break point ahead of the place it was
\* resumed from: reaching one stops it.
StopsAtBreakpointsAhead ==
  [][Running /\ Listed(rip) /\ rip > from /\ rip' # rip =>
       proc' = "stopped" /\ rip' = rip + 1]_vars

\* start never forks while an earlier child is there (hw4.cpp:380).
OneChildAtATime == [][Present => proc' # "forked"]_vars

----------------------------------------------------------------------------
(* What the debugger promises about the program, see Debuggee.             *)

\* The instruction the program is about to execute.
Ip == IF ~Present THEN Done ELSE IF Trapped THEN rip - 1 ELSE rip

\* What the user sees the debugger do.
Phase ==
  CASE pc \in {"prompt", "exec"} -> "prompt"
    [] pc = "exit" -> "over"
    [] OTHER -> "go"

\* The instructions the command in progress may still take.
Budget ==
  IF Present /\ (pc = "chkbp" \/ (pc = "wait" /\ Running))
  THEN IF cmd = "si" THEN "one" ELSE "many"
  ELSE "none"

Transparent == INSTANCE Debuggee WITH
  alive <- Present, prog <- exec, ip <- Ip, phase <- Phase, budget <- Budget

\* Break points, single steps and register writes never change the path of the
\* program, except where the user sets rip.
TransparentSpec == Transparent!DSpec

----------------------------------------------------------------------------
(* Liveness.                                                               *)

\* A command on a program without loops of its own comes back to the prompt.
Straight == \A a \in Addr : \A next \in Succ[exec][a] : next = Done \/ next > a
CommandReturns == pc # "prompt" ~> pc \in {"prompt", "exit"} \/ ~Straight

----------------------------------------------------------------------------
(* What the documentation says and the code does otherwise.                *)

\* README: delete {break-point-id} removes that break point, and no other.
DeleteRemovesNamed ==
  [][\A id \in DeleteInput : Delete(id) /\ pc' = "prompt" =>
       /\ \A k \in DOMAIN bp_list' : bp_list'[k].id # id
       /\ \A k \in DOMAIN bp_list :
            bp_list[k].id # id => bp_list[k] \in ToSet(bp_list')]_vars

\* README: a break point stops the program when it is reached, other than at the
\* instruction it is resumed from.
StopsAtEveryBreakpoint ==
  [][Running /\ Listed(rip) /\ rip # from /\ rip' # rip =>
       proc' = "stopped" /\ rip' = rip + 1]_vars
=============================================================================
