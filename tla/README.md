# Verification of the programs of nctu_unixprog

The repository holds four projects and some exercises of a course on UNIX
programming. This directory models the programs that keep state which other
processes and signals interfere with, checks the models with TLC and proves what
matters most with TLAPS: the debugger `sdb` (project4), the signal side of the mini
C library (project3), the call logger (project2), `lsof` (project1), and the tracer
`no_more_traps`. Line numbers refer to `src/`.

## 1. The system

| Part | State it keeps | Operations | Hard behaviour |
|---|---|---|---|
| **sdb**, `project4/hw4.cpp` | `state`, `pid`, `file_path`, `elf`, the buffer `code`, the vector `bp_list` | 16 commands at a prompt; `chkbp` before and `chkstat` after a resume; `error` and `quit` | a second process that runs, stops, ends or is killed between any two `ptrace` calls; its memory is patched and un-patched word by word; ids outlive positions; errors end the session half-way |
| **libmini signals**, `project3/libmini.c`, `libmini64.asm` | the kernel's mask, pending set, actions and timer; `errno`; the `jmp_buf`; the frames of handlers on the stack | `alarm`, `sigprocmask`, `sigpending`, `signal`, `sigaction`, `sigset_t`, `pause`, `sleep`, `setjmp`, `longjmp`, the restorer | handlers between any two steps, inside each other, around jumps; interrupted and restarted calls; lost wake-ups |
| libmini wrappers and `perror`, `project3` | `errno` | every system call of the table, `perror` | `errno` changed between the failure and its use |
| test programs, `project3/alarm*.c`, `jmp1.c`, `start.asm` | - | clients of the above | the order of timer, sleep, `pause` and `^C` |
| **logger**, `project2/logger.cpp`, `share.cpp` | `LOGGER_OUT`; the program's descriptors, streams, paths and `errno` | 18 wrapped C library calls, and the launcher | `close(2)` faked, the log's descriptor closed or reused by the program, names looked up before or after the call, `errno` overwritten, other processes that rename and remove |
| **lsof**, `project1/hw1.cpp` | the filters; variables that live across the turns of a loop | `CheckCmd`, `FindUsr`, `FindCwdRoot`, `FindExe`, `FindMem`, `FindFd` per process | processes and descriptors that come, go and change between two looks at `/proc`; directories left open |
| **no_more_traps**, `CTF/ptrace/no_more_traps/test.cpp` | a position in a text file | put back the byte of each executed trap | order of execution, stops with another cause, end of file, a child that is killed |
| `CTF/assembly` | registers | 23 short routines | loop bounds |
| `CTF/ptrace`, others | - | binaries without source, a script | - |

How they interact: sdb and its child interact through `ptrace` and `waitpid`
only; a client of libmini calls the library, which calls the kernel, which calls
the client's handlers through frames that return through the library's `__myrt`.
The projects do not call each other.

What makes each part correct:

* sdb: the traced program behaves as if it were not traced, except that it
  stops; break points are where the list says and nowhere else; no child is
  lost, doubled or left behind; every command comes back.
* libmini: what a handler interrupts comes back as it was, mask included; a
  handler is not entered again before it returned; a caught signal never ends
  the process; interrupted waits report what really remains.
* logger: the program behaves as it would without it, but for `close(2)`, which is
  answered and not done; the lines go to the log and nowhere else, and name the
  files and bytes the call worked on.
* lsof: no row is made up; what keeps still is listed in full, and never ends the
  listing. (A process that vanishes between two looks does end it, see section 3.)
* no_more_traps: every byte comes back to where it was taken from, and the program
  takes its own path; nothing is left behind.

## 2. Modules

| Module | Models | Uses |
|---|---|---|
| `Tracee` | the traced process behind `ptrace` (external): memory, `rip`, its state, what `waitpid` reports next | |
| `Sdb` | `hw4.cpp`: the session and all commands, composed with the process | extends `Tracee` |
| `Debuggee` | abstract: what a user is promised about the program | |
| `SdbProperties` | the properties; `TransparentSpec` maps `Sdb` to `Debuggee` | extends `Sdb`, instantiates `Debuggee` |
| `MCSdb`, `MCSdbSessions` | programs and files for TLC; the sessions whose conditions the theorems about the program ask for | extend `SdbProperties` in turn |
| `SdbProofs` | theorems about `Sdb` for all constants | extends `SdbProperties` |
| `SdbPathProofs` | theorems about the traced program; `Sdb` implements `Debuggee` | extends `SdbProofs` |
| `Signals` | the kernel's signals, timer and interrupted calls (external) | |
| `Libmini` | the library, and a client that makes the calls of `Program` | extends `Signals` |
| `LibminiProperties`, `MCLibmini` | its properties, clients | extend it in turn |
| `MCLibminiTests` | that the test programs are of the kinds the theorems ask for | extends `MCLibmini` |
| `LibminiProofs` | theorems about types, masks and handlers | extends `LibminiProperties` |
| `LibminiClientProofs` | theorems about programs that wait for a signal or the clock | extends `LibminiProofs` |
| `Files` | descriptors, streams, paths and links, and the calls on them (external) | |
| `Logger` | `logger.cpp` and `share.cpp` around the calls of a program | extends `Files` |
| `Plain` | abstract: the program without the logger | extends `Files` |
| `LoggerProperties`, `MCLogger`, `LoggerProofs` | properties, the mapping to `Plain`, an instance, theorems | extend `Logger` in turn |
| `Lsof` | `hw1.cpp`, with processes that change | |
| `LsofProperties`, `MCLsof`, `LsofProofs` | its properties, an instance, theorems | extend it in turn |
| `LsofQuietProofs` | the theorem that a listing is complete | extends `LsofProofs` |
| `NoMoreTraps` | the tracer of `no_more_traps` | extends `Tracee` |
| `NoMoreTrapsProperties`, `MCNoMoreTraps`, `NoMoreTrapsProofs` | its properties, programs, theorems | extend it in turn |

### Sdb and Tracee

A command is one action up to the first call that can be answered in more than
one way. `pc` tells where the debugger is: at the `prompt`; in `exec`, between
the fork and the `waitpid` of `start`; in `chkbp`, one action for each round of
that loop (`Chkbp`), then `Go` for `PTRACE_CONT` or `PTRACE_SINGLESTEP`; in
`wait`, one action for each way the status can be read (`WaitExited`,
`WaitKilled`, `WaitSignal`, `WaitTrap`); in `getregs`, the `PTRACE_GETREGS` of a trap
stop, which a kill makes fail (`GetRegs`); in `hit`, one action for each round of
the loop of `chkstat` (`Hit`, `HitEnd`). Between any two of them the process
takes steps: an instruction, a trap, a signal stop, SIGKILL from outside.

The data is cut down to what the properties tell apart:

* An address is a position in the text of the program, a byte one of a few
  values; `INT3` and the image's own bytes are all the debugger distinguishes.
  What an instruction does is the set of addresses it may go to. Bytes that are
  no instruction of the image may do anything (`Garbled`).
* `PEEKTEXT` and `POKETEXT` move a word of `WordLen` bytes, at least two, as the
  code's eight bytes overlap the ones of the next instructions.
* What lies behind the end of `bp_list` after an erase is kept (`spare`), since
  `del` may read it (`Slot`).
* `error()` is an alternative of every action that calls `ptrace`; a child that
  is not stopped does not answer. Leaving the debugger kills the child exactly
  when `PTRACE_O_EXITKILL` was set.
* Undefined behaviour is a choice of its outcomes: the uninitialised pointer of
  `vmmap`, an erase behind the end, and the read of `disasm` outside the buffer
  when the buffer holds another file than the header (`Astray`).
* A command the code refuses with a message changes nothing and is no action.

Each variant definition just before an operator (`AheadStrictly` before `Ahead`,
for instance) is a mistake the code could have had; the runs find it.

### Libmini and Signals

A library call is two steps, into the kernel (the effect, and the raw result in
`cpu.sys`) and back through the wrapper (`errno`, -1), because a signal can come
between them. `cpu` is what a signal frame saves: place, activity, raw result,
last value, ticks left to sleep. `frames` is the stack of frames. The client is
the constant `Program`: at each place, the set of calls it may make next; a
handler is a client like any other that starts at `Catch` and ends with the call
`return`. So one specification serves fixed programs (the test programs) and
clients that call anything in any order.

`setjmp` records the place and the depth of the stack; its `rt_sigprocmask` fails,
as in the code, where the register holding the address is overwritten first
(`libmini64.asm:81-83`), so the mask in the `jmp_buf` stays what it was. `longjmp`
is two steps, registers then mask. `asked`, `jb.held` and `slept` are history
variables: the mask the program asked for last, the mask at `setjmp`, the ticks
spent asleep.

### Logger, Files and Plain

`args` is what `main` of the launcher has still to read; when the command is
executed the program is `idle`, and each call it makes is four steps: `Begin`
(enter the wrapper; lookups that come first), `Real`, `Late` (lookups that come
after), `PrintLine`. Other processes rename and remove files between any two of
them (`Others`). A wrapper is the record of what it looks up before and after its
call, so that fourteen wrappers are fourteen lines (`chmod` to `remove`).
`logs`, `marked` and `deed` are history variables: the file the log was made for,
the files lines went to, and the names the kernel resolved, unless another process
has been there meanwhile. A path is a member of a small set, a link is followed
once, contents are left out but for the number of bytes.

`Plain` asks for a call, the call is done once, and nothing else but other processes
touches descriptors and files; an open takes the lowest free descriptor. Its constant
`Spared` are the descriptors whose `close` the system answers with 0 and does not do.
Under the mapping of `LoggerProperties` these are `{2}`: a step `Begin` asks, `Real`
answers, and printing is a stutter. So the fake of `share.cpp:64` is part of what the
program is promised, and nothing else is. A program that looks can tell it, by writing
to 2 after closing it or by the number the next open returns, and this is all it can
tell.

Two assumptions about the program are in `MayCall`: it does not use a stream it has
closed (`Usable`); and with `Tidy` it closes none of the descriptors it was given,
unless by `close(2)`. `fclose` of the stream on 2 does close it (`share.cpp:144-151`),
and counts as closing it. Without `-o` the log goes to 2, so that `fclose(stderr)` sends
the lines that follow to the next file; with `-o` the log has a descriptor of its own, and
`close` of that does the same, which is what `doc_logger` shows.

### Lsof

Every look at `/proc` (open, read of a line, `readlink`, `stat`, `access`) is a step;
`at` names the next one, and `Change` turns any process into any other before it. A
file of `/proc` that is open belongs to the process it was opened for, and reads
end early once that is gone (`owner`); directories are read in one piece, as they
were at the first `readdir`. A row is what the columns other than NAME show, since
`readlink` does not terminate the buffer NAME is made of. `Full` is the limit on
descriptors, which directories left open by `FindFd` run into.

### NoMoreTraps

The program is executed with its traps in place (`Delivered`); the tracer's loop is
one action for each `ptrace` call, between which the program may be killed.
`Answers` is whether the child is there to answer. A short text file gives -1, which
sets all bits of the word (`NoWord`), a missing one crashes the tracer.

## 3. Runs

| Run | Question | Bounds | States |
|---|---|---|---|
| `sdb_sessions` | Break points a word apart and deleted from the front, good, bad and missing files, kills at any time: is every trap that of a listed break point, does `Sdb` implement `Debuggee`, are there never two children, none lost and none left, does every command come back? | four files, 5 addresses, words of 2, three break points, a loop in one program, `set rip` | 1 495 361 |
| `sdb_any` | Overlapping words, an unmapped address, deletes in any order: are list, saved bytes and text consistent, and does a break point ahead stop the program? | one-byte instructions, two break points in the list, four addresses and an unmapped one, ids 0..2 | 657 678 |
| `lib_tests` | Do the test programs do what the transcripts show, a read with a time limit and a resumed sleep what they must? | a quarter of a second, three signals from outside | 3 704 |
| `lib_calls` | Clients and handlers that block, catch, wait, jump, fail and ask in any order: is a handler entered twice, is the mask kept, does a caught signal ever end the process? | two signals to catch, frames two deep, one signal from outside | 281 369 |
| `logger` | Is the program under the logger the one without it, `close(2)` apart, does the log stay apart, and are its lines true? | three descriptors, two paths that may be links, three files, two streams, 20 calls, seven command lines, lines that show one byte | 1 091 400 |
| `lsof` | Are the rows true, is the listing complete for what keeps still, does it give up on nothing but what changed, does it end? | two processes of five kinds, two descriptors, four files, two changes, one directory left open | 1 326 553 |
| `traps` | Does the tracer answer every stop and leave nothing behind, and when the file has a byte for each trap and they are met in its order, do all bytes come back and does the program take its path? | all programs of four instructions with two branches, all sets of traps, all bytes or one too few | 281 056 |

Each component has one type invariant, and the runs fire every action of the
specifications between them. A small instance is enough because the interesting
cases need few things: two break points for an overlap, an id that is no position
any more, and two entries that match one stop; three for a list whose middle
changes; a word of two for a word that covers its neighbour; two frames for a
handler in a handler, and a jump out of both; three descriptors for the log, the
one that is reused and one of the program's own; two changes for a process that
goes and another that takes its number during one listing; traps before, at and
behind a branch. TicksPerSec = 4 lets a signal come inside a second. `MaxBps`,
`MaxDepth`, `MaxSent` and `MaxChange` are the only bounds in guards: no new break
point is set in a full list, no signal is delivered on a full stack, no more signals
are sent, no process changes any more. `MaxOpen` is the limit on descriptors and
leads to the error the code has for it.

Deadlock is not checked where the program really stops: a process in `pause` with no
alarm and no signal to come, a logger whose program is through with its calls or
never ran, a listing or a tracer that has ended.

### Fairness

`FairSpec` of `Sdb` has weak fairness of the debugger's own steps and of the
program's instructions: the scheduler runs both processes. Nothing obliges the
user to type, or anyone to send a signal. `CommandReturns` needs it, and a
program without endless loops. `FairSpec` of `Libmini` has weak fairness of the
process, of the kernel's deliveries and of time, for `Alarm1Ends` and
`Alarm2Reports`; signals from outside and input are not fair. `FairSpec` of `Lsof`
and of `NoMoreTraps` has weak fairness of the program itself and of nothing else:
processes may change or keep still as they like, and the traced program need not
move for `GoesOn`.

### Where code and documents disagree

Each is a run that ends with a counterexample.

| Run | Property | What happens |
|---|---|---|
| `doc_delete` | `DeleteRemovesNamed` | `del` finds an id and erases the position (`hw4.cpp:117-122`): after one delete, the wrong break point goes |
| `doc_overlap` | `NoStrayTrap` | the saved word holds the traps of break points less than a word above (`hw4.cpp:241, 255`); writing it back resurrects them. `sdb_sessions` shows that a word of distance is enough |
| `doc_loop` | `StopsAtEveryBreakpoint` | `chkbp` arms only what is ahead of rip (`hw4.cpp:46`): a break point in a loop stops once. `StopsAtBreakpointsAhead` is what does hold, and is proved |
| `doc_mask` | `JumpRestoresMask` | `setjmp` does not save the mask (`libmini64.asm:81-83`), so `longjmp` installs another one. Handlers do keep it (`MaskKept` in `lib_calls`) |
| `doc_logger` | `LogApart` | `./logger -o file cmd`: only `close(2)` is faked (`share.cpp:64`); the program closes the descriptor of the file of `-o`, which it has inherited like any other; the next file it opens gets the number, and the lines of later calls are printed into that file |

Others were met while modelling, are in the model as the code has them, and have
no run:

* sdb: `load` is accepted in RUNNING and makes the state LOADED with the child alive:
  `start` refuses (pid is set), all other commands refuse (`hw4.cpp:399`); a child
  killed by a signal leaves the session RUNNING, as WIFSIGNALED is tested where it
  cannot hold (53-54); `main` assigns `file_path` before `load` may refuse (517), so
  that `start` executes a refused file; the buffer of `disasm` is filled once per
  session (328); a single step over a one-byte instruction at a disarmed break point
  is reported as a hit and stepped back (66); `disasm` and `dump` without an address
  do not continue as the README says but print a message (292, 319).
* libmini: `longjmp` returns 0 when asked to (`libmini64.asm:117`); `perror` with a
  prefix tests the `errno` of its own write and may index behind `errmsg`
  (`libmini.c:292`); `sigaction` writes through a null `act` (219); a `^C` that
  `alarm3` handles before its `pause` is lost (`alarm3.c:13`).
* logger: a failed `open`, `creat`, `fopen`, `chmod`, `chown` or `rename` loses its
  `errno` to `realpath` (`share.cpp:214`); `fwrite` shows every `size`-th byte and
  `fread` as many bytes as items were read (170, 188); `rename` and `remove` of a link
  name its target (258, 339); after `close(2)` the program
  can still write to 2, and the next file does not get the number (64); `fclose(stderr)`
  closes 2 all the same, and with it the log when there is no `-o` (151); `creat` and the others read `LOGGER_OUT` again for
  every line, and crash if the program has cleared its environment; the buffers the
  launcher copies its words to have no room for the final zero (`logger.cpp:20-49`).
* lsof: `R_OK&W_OK` is 0, so that the mode of every descriptor is `u`
  (`hw1.cpp:144`); `del` is looked for in the sixth word of a line of maps, where
  the mark never stands unless it is part of the name, and stays for the rest of
  the file once found (162, 199); a line is passed over only when its inode is that
  of the line before, so that a mapping may be listed twice (190); rows for links
  we may not read pass every filter (112, 224, 264); NAME is the directory of the
  file, made from a buffer without an end (141, 247, 275); a descriptor that vanishes
  hides the ones after it and leaks the directory (121); a process or descriptor that
  vanishes between an open or `readlink` and the next look at it ends the whole listing
  (68, 85, 116, 125, 170), where some of the looks before take it for an end; `cmd` keeps the value of the
  process before if a comm file has no newline (92).

## 4. Proofs

The theorems hold for every value of the constants that satisfies the named
assumptions of the modules they are about: any set of files, any program, text of
any size, words of any length, any number of break points; any client program, any
set of signals; any calls, descriptors, paths and command lines; any processes and
any number of changes during a listing; any traps and any text file.

`SdbProofs`. The inductive invariant `IInv` is `TypeOK` with `Control`, which says
how `pc`, `proc`, `event`, `exitkill`, `pid` and `state` belong together in each
phase, and `SlotKnown`. `NoOrphan` and `PidTracksChild` follow from two conjuncts of
`Control`; they are not inductive by themselves, as each is about a step of one
process that depends on where the other one is: `NoOrphan`, for example, holds since
an error between the fork and `PTRACE_SETOPTIONS` only happens with a child that
has already ended, which is what the conjuncts about `exec` and `forked` say. On top
of `IInv`, by lemmas with one step for each action:

* `TypeCorrect`, `NoOrphanSafe`, `PidTracksChildSafe`, `SlotKnownSafe`;
* `OneChild`, the action property that `start` never forks twice;
* `BreakpointsDistinctSafe`, from how a step changes the list (`ListSteps`): not at all,
  by an address that is not listed, or by an erase;
* `ArmedAheadSafe` and from it `StopsAhead`: the loop invariant `Armed` says that
  after `i` rounds of `chkbp` the first `i` entries ahead of `from` are armed, and
  later rounds leave them armed although they write whole words;
* `TextIntactSafe` and `SavedByteIsOriginalSafe`, for sessions with one image
  (`OneProgram`): whatever words are saved, written back and overlapped, each
  byte of memory and of each saved word is the image's or a trap, and the first
  byte of a saved word is the image's. Without `OneProgram` they are false, as
  the list survives the program it was made for.

`SdbPathProofs` is about sessions that do not run into the disagreements of section 3.
The conditions, in `SdbProperties`, are on the constants, except for one:

* `OneProgram`, as above;
* `WordApart`: break points do not share a word (`doc_overlap` shows why);
* `DeletesInRange`: no delete takes its id for a position behind the end of the list,
  where it would restore one entry and erase another. Deleting a wrong entry, as in
  `doc_delete`, does no harm here: what is restored is what is erased.
  `FrontIsInRange` derives it from deleting only the id 0, as the sessions of TLC do;
* `Steppable(R)`, for the refinement: control stays on the places `R[f]` of a program
  `f`, where instructions start that are no traps of the program's own. No break point
  is inside one of them, and none one byte in front of one, because `chkstat` takes any
  trap stop there for a hit (`hw4.cpp:66`) and sends the program back. Elsewhere there
  may be anything, data and break points too. With the one-byte programs of `sdb_any`
  TLC refutes `TransparentSpec` after fourteen steps.

`MCSdbSessions` has TLC evaluate all of them but `DeletesInRange` for the instance
of `sdb_sessions`. `NoTrapStays` needs `Exact`: every byte is the image's unless it is
the trap of a listed address, and every saved word is the image's, which holds as no
other trap lies in the word when `bp` reads it. `DebuggerIsTransparent` is the refinement, from
`IInv`, `Exact` and `OnPath`: a child that is there stands on its path, or just behind
it and the trap of a listed break point that has not been dealt with (`Trapped`); a
running one was resumed the way the command says. From these, no step of the child
is `Garbled` (`RunningAtInsn`), a trap leaves `Ip` where it is, the loop of `chkstat` moves `rip`
back exactly once (`BehindIsTrapped`, `ArriveUntrapped`), and each action maps to the step
of `Debuggee` or the stutter its lemma names. Neither invariant is enough alone: that
`rip` is moved back rightly depends on memory, and that memory is clean where the
program runs on what was restored.

`LibminiProofs`. `IInv` is `TypeOK` with `Restorers` (every handler is installed with a
restorer), and `JumpDepth` (a live `jmp_buf` names a frame that is on the stack) is
inductive with it; it is what makes the `SubSeq` of `Longjmp` a stack.
`LibminiTypeCorrect` and `HandledSurvivesAlways` follow. `MaskIsKept` is for every
client. `MaskKept` speaks only of a process outside handlers; `MaskInv` adds that the
frame at the bottom of the stack holds the mask that was asked for, which is what the
last return to `__myrt` puts back, unless that frame interrupted a jump, which is about
to install and record another.

The other theorems are about clients whose handlers run in some set `H` of places and
call no `setjmp` there (`Handlers(H)`). For these `Inside(H)` says that the code is in
`H` while a handler runs and wherever one handler interrupted another, and that a live
`jmp_buf` is one of the main program. With that, `NoHandlerReentered` is for clients
that are `Defers(H)`: handlers do not unblock signals, and nobody asks for `SA_NODEFER`;
TLC evaluates `Defers({"catch"})` for the clients of both runs. `EntryInv` says that the
signals of all frames on the stack are blocked while a handler runs, and in each frame
those of the frames below it (`Waiting`); a jump out of a handler may unblock them, and
is harmless as it leaves no frame. The hypothesis is not a convenience: a handler that
unblocks its own signal is entered again, as it should be.

`LibminiClientProofs`. Three theorems about programs that wait. What they promise is
false of clients in general (one that sets a second alarm, or sleeps in a handler,
gets something else), so each names the clients it is about, and `MCLibminiTests` has TLC
evaluate that the programs of `lib_tests` are such clients. All three follow the
main program underneath its handlers (`Below`): a step moves it itself, interrupts it,
jumps to it, or leaves it as it is (`BelowMoves`).

* `ReadsEndByAlarm`, for `TimedRead(H, A)`: clients that set one alarm, from which on they
  are in `A`. `AlarmInv` says that none is pending while the timer runs, and that the
  timer is not running before `A`; `ReadInv` that only SIGALRM lacks `SA_RESTART`, and
  that a read which has failed, whether it is on its way back or waits under handlers,
  has had its alarm. A jump must not lead behind the read, where the value
  returned would be that of `longjmp`.
* `NapsAreLongEnough`, for `Naps(H, A)`, with any number of ticks in a second. `Early(left)`
  relates the ticks slept, the ticks that will still be slept, and the signals spent:
  sent, and not pending. What is left is the timer of the sleep, or its whole seconds
  once it has been ended, or the value returned (`Napping`); the division loses less than a
  second (`WholeSeconds`), and it does so only together with a signal that is spent
  (`SpentStep`, `CountInv`). Handlers that jump out lead into `A`, behind the alarm, where
  nobody naps.
* `BlockedAlarmPends`, for `Watches(H, B)`: clients that are in `B` only with SIGALRM
  blocked. `ShutInv` says that it is blocked there, in every frame above too, so that
  no return to `__myrt` lets it through (`ShutKept`); `Pends` that it is pending
  once the time is over. Handlers may block more, and may set the alarm anew.

`LoggerProofs`. `Tidy => (Spec => []LogApart)` needs `LogSafe`: `out` is open on the file
in `logs`, as long as the program runs it is one of the `given` descriptors, and a call
that is about to be made closes none of these, unless it is `close(2)`, which is not done
(`Fakes`). `NamesHeld` relates `said` to `deed.names` at each stage of
a wrapper, with one lemma for each side of the call (`NamesAreTrue`); `MovedHeld`
bounds the result of a transfer until its line is printed (`BuffersAreTrue`);
`ErrnoHeld` that `errno` is the reason of the failed call from `Real` to `PrintLine`
(`ErrnoReaches`). `LoggerIsUnnoticed` is the refinement, for
every program, tidy or not: the initial states map to `PInit`, what the launcher does
to a `Prepare` that takes nothing away (`LaunchPrepares`), and every other step to a step
of `Plain` or a stutter, with the same descriptors, streams and files. It needs no
assumption on what the program does with 2, as `Plain` spares the same descriptor.

`LsofProofs`. `TrueHeld` says of the variables that wait for their row (`cmd`, `node`
with `lines` and `owner`, `type` with `inode` and `descs`) that a process of that number
has had what they name; `RowsAreTrue` follows since `seen` only grows. `SteadyHeld` has
three parts that are inductive together: while the process being looked at stays as it
was, each stage finds what the stage before has found, and only a full table or a user
without a name makes a look fail (`Steady`); a process still to come, if it stays, is there
(`Ahead`); and no more directories are open than there are processes behind that did
not stay (`Lost`), by cardinalities of finite sets. From it `AbortsOnlyOnChange`.

`LsofQuietProofs`. `QuietComplete` speaks of a finished listing only. `QuietHeld` says at
each stage what of a process that keeps still is already among the rows: all of it once
the listing is through with it (`Complete`), and for the one being looked at the
links behind it, the mappings whose lines have been read and the descriptors that have
been taken (`SoFar`); and that no row of it is one too many (`Sound`). Since
another process may change at any moment, what was read and waits for its row must
be that of a process that keeps still, if it is of one (`Carried`). `QuietIsComplete`
follows for any processes, options and changes.

`NoMoreTrapsProofs`. `Held` is `TypeOK` with where the child can be at each `pc`, and
gives `NoneIsLeft`. `TrapHeld` is the invariant behind `BytesComeBack` and
`PathIsKept`: the traps left in memory are exactly those behind the number of bytes
put back (`MemoryIs`), the program is not past any of them (`InFront`), and at each
stage of the loop `code` and `hex` hold the word at `ip` with the right byte (`Stage`).
Only together are they inductive: that the next byte of the file is the right one
(`NextTrap`) needs that the program has not run past an earlier trap, that it has
not needs that it meets its own bytes only (`Whole`), and a stop by a signal is told
from a trap by the byte in front of `rip`, which is no trap as none is left behind
the program (`NoneInFront`). Both theorems are for programs that are `Orderly`: their
instructions do not overlap, they have no trap of their own, the file has the byte
of each trap in rising order, and no jump forward passes a trap. Without that the
tracer puts bytes in the wrong places, as it counts them.

Only model-checked is liveness (`CommandReturns`, `Alarm1Ends`, `Alarm2Reports`, `Ends`,
`GoesOn`), which is out of the prover's reach. Every safety property of a passing run
is a theorem.

## 5. What is not modelled

* In sdb: text layout of all output; the commands that only print; the second
  range check and the wrap of addresses; a signal between fork and exec; an ELF
  file without a `.text` section, which keeps the previous header; the program's
  own signal handlers; reuse of process numbers.
* In libmini: `perror` and `setjmp` are one step each; the client keeps the rule
  of C that it jumps only into functions that have not returned; what the single
  system calls other than the ones named do. Every signal's default action ends
  the process.
* In logger: contents, modes and owners of files; directories that are longer than
  one link; the program's own threads, children and environment; `fopen`'s modes
  other than read and write; the heap.
* In lsof: names of files and the `-f` filter's effect on them (it may or may not pass);
  the user's name; directories that change while they are read.
* In no_more_traps: digits that are none; `execlp` in the tracer's own directory.
* The assembly exercises of `CTF/assembly`: fifty instructions on fixed registers each,
  with no state that outlives them and nothing to interleave with. The rest of
  `CTF/ptrace`: binaries without source, a program whose body is commented out, a
  script that prints what a library returns.

## 6. Plan

Every component whose behaviour can be modelled is, and every safety property that a
passing run checks is proved. What could be proved beyond that is `DebuggerIsTransparent`
with break points one byte in front of an instruction, where it is true as long as no
single step ends there.
