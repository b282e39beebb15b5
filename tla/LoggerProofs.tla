---------------------------- MODULE LoggerProofs ----------------------------
(***************************************************************************)
(* Proofs about the logger of project2, for every command line, program,   *)
(* directory and number of descriptors.                                    *)
(***************************************************************************)
EXTENDS LoggerProperties, SequenceTheorems, TLAPS

----------------------------------------------------------------------------
(* The calls of the library.                                               *)

\* Which call of the library is made depends on the function's name alone.
LEMMA DoByName ==
  ASSUME NEW c, Do(c)
  PROVE  \/ c.fn \in {"chmod", "chown"} /\ Change(c)
         \/ c.fn \in {"creat", "open"} /\ OpenFd(c)
         \/ c.fn = "fopen" /\ OpenStream(c)
         \/ c.fn = "tmpfile" /\ OpenTmp(c)
         \/ c.fn = "close" /\ CloseFd(c)
         \/ c.fn = "fclose" /\ CloseStream(c)
         \/ c.fn \in {"read", "write"} /\ Transfer(c, c.fd, -1)
         \/ c.fn \in {"fread", "fwrite"} /\ Transfer(c, streams[c.stream], 0)
         \/ c.fn = "rename" /\ Rename(c)
         \/ c.fn \notin {"chmod", "chown", "creat", "open", "fopen", "tmpfile", "close",
                         "fclose", "read", "write", "fread", "fwrite", "rename"}
            /\ Remove(c)
BY DEF Do

\* The calls keep the types of descriptors, streams, directory and result.
LEMMA DoTypes ==
  ASSUME FilesTypeOK, NEW c \in Call, Do(c)
  PROVE  FilesTypeOK'
<1> USE FilesAssumption, CallAssumption DEF FilesTypeOK, CallRecord, Reason, Function
<1>c. c \in CallRecord
  OBVIOUS
<1>f. ASSUME NEW n \in Int, NEW e \in Reason, FailWith(n, e)
      PROVE  res' \in [ok : BOOLEAN, n : Int, why : Reason]
  BY <1>f DEF FailWith
<1>s. ASSUME NEW n \in Int, Succeed(n)
      PROVE  res' \in [ok : BOOLEAN, n : Int, why : Reason]
  BY <1>s DEF Succeed
<1>F. ASSUME NEW e \in Reason, Fail(e)  PROVE  FilesTypeOK'
  BY <1>F, <1>f DEF Fail
<1>o. ASSUME NEW f \in Free, OpenAt(c.name, c.mode, f)
      PROVE  /\ fds' \in [Fd -> Inode \cup {Closed}]
             /\ dir' \in [Name -> Inode \cup Name \cup {Nothing}]
  BY <1>o, <1>c DEF OpenAt, Reached, Fresh, Free
<1>O. ASSUME OpenFails(c)  PROVE  FilesTypeOK'
  BY <1>O, <1>F DEF OpenFails
<1>1. ASSUME Change(c)  PROVE  FilesTypeOK'
  BY <1>1, <1>F, <1>s DEF Change
<1>2. ASSUME OpenFd(c)  PROVE  FilesTypeOK'
  <2>1. CASE \E f \in Free : OpenAt(c.name, c.mode, f) /\ Succeed(f) /\ UNCHANGED streams
    BY <2>1, <1>o, <1>s DEF Free
  <2> QED BY <1>2, <2>1, <1>O DEF OpenFd
<1>3. ASSUME OpenStream(c)  PROVE  FilesTypeOK'
  <2>1. ASSUME NEW f \in Free, NEW s \in Unused,
               OpenAt(c.name, c.mode, f), streams' = [streams EXCEPT ![s] = f], Succeed(0)
        PROVE  FilesTypeOK'
    BY <2>1, <1>o, <1>s DEF Free, Unused
  <2> QED BY <1>3, <2>1, <1>O DEF OpenStream
<1>4. ASSUME OpenTmp(c)  PROVE  FilesTypeOK'
  <2>1. ASSUME NEW f \in Free, NEW s \in Unused, NEW i \in Fresh,
               fds' = [fds EXCEPT ![f] = i], streams' = [streams EXCEPT ![s] = f],
               Succeed(0), UNCHANGED dir
        PROVE  FilesTypeOK'
    BY <2>1, <1>s DEF Free, Unused, Fresh
  <2> QED BY <1>4, <2>1, <1>F DEF OpenTmp
<1>5. ASSUME CloseFd(c)  PROVE  FilesTypeOK'
  <2>1. CASE fds' = [fds EXCEPT ![c.fd] = Closed] /\ Succeed(0) /\ UNCHANGED <<streams, dir>>
    BY <2>1, <1>s
  <2> QED BY <1>5, <2>1, <1>F DEF CloseFd
<1>6. ASSUME CloseStream(c)  PROVE  FilesTypeOK'
  <2>1. streams' \in [Stream -> Fd \cup {NoFd}]
    BY <1>6 DEF CloseStream
  <2>2. fds' \in [Fd -> Inode \cup {Closed}] /\ UNCHANGED dir
    BY <1>6 DEF CloseStream
  <2>3. res' \in [ok : BOOLEAN, n : Int, why : Reason]
    BY <1>6, <1>s, <1>f DEF CloseStream
  <2> QED BY <2>1, <2>2, <2>3
<1>7. ASSUME NEW f, NEW n \in Int, Transfer(c, f, n)  PROVE  FilesTypeOK'
  <2>1. res' \in [ok : BOOLEAN, n : Int, why : Reason]
    <3>1. \A k \in 0..c.count : k \in Int
      BY <1>c
    <3> QED BY <1>7, <1>s, <1>f, <3>1 DEF Transfer
  <2> QED BY <1>7, <2>1 DEF Transfer
<1>8. ASSUME Rename(c)  PROVE  FilesTypeOK'
  <2>1. CASE dir' = Moved(c.name, c.name2) /\ Succeed(0) /\ UNCHANGED <<fds, streams>>
    BY <2>1, <1>c, <1>s DEF Moved
  <2> QED BY <1>8, <2>1, <1>F DEF Rename
<1>9. ASSUME Remove(c)  PROVE  FilesTypeOK'
  <2>1. CASE dir' = [dir EXCEPT ![c.name] = Nothing] /\ Succeed(0) /\ UNCHANGED <<fds, streams>>
    BY <2>1, <1>c, <1>s
  <2> QED BY <1>9, <2>1, <1>F DEF Remove
<1> QED BY DoByName, <1>1, <1>2, <1>3, <1>4, <1>5, <1>6, <1>7, <1>8, <1>9

\* An open descriptor stays on its file in every call but a close of it.
LEMMA DoKeeps ==
  ASSUME FilesTypeOK, NEW c \in Call, Do(c), NEW f \in Fd, Open(f),
         c.fn = "close" => c.fd # f,
         c.fn = "fclose" => streams[c.stream] # f
  PROVE  fds'[f] = fds[f]
<1> USE FilesAssumption, CallAssumption DEF FilesTypeOK, CallRecord, Free, Open
<1>1. CASE OpenFd(c)
  BY <1>1 DEF OpenFd, OpenAt, OpenFails, Fail
<1>2. CASE OpenStream(c)
  BY <1>2 DEF OpenStream, OpenAt, OpenFails, Fail
<1>3. CASE OpenTmp(c)
  BY <1>3 DEF OpenTmp, Fail
<1>4. CASE CloseFd(c) /\ c.fn = "close"
  BY <1>4 DEF CloseFd, Fail
<1>5. CASE CloseStream(c) /\ c.fn = "fclose"
  BY <1>5 DEF CloseStream
<1>6. CASE UNCHANGED fds
  BY <1>6
<1>7. Change(c) \/ Rename(c) \/ Remove(c) => UNCHANGED fds
  BY DEF Change, Rename, Remove, Fail
<1>8. ASSUME NEW g, NEW n, Transfer(c, g, n)  PROVE  UNCHANGED fds
  BY <1>8 DEF Transfer
<1> QED BY DoByName, <1>1, <1>2, <1>3, <1>4, <1>5, <1>6, <1>7, <1>8

----------------------------------------------------------------------------
(* Types.                                                                  *)

\* The wrapper has a call to answer.
Calling == InWrapper => call \in Call
Typed == TypeOK /\ Calling

\* What a wrapper finds out is a name.
LEMMA NameTypes ==
  ASSUME FilesTypeOK, NEW c \in Call
  PROVE  /\ \A f \in Fd : FdName(f) \in Inode \cup Name \cup {NoName, Deleted}
         /\ FILE2name(c.stream) \in Inode \cup Name \cup {NoName, Deleted}
         /\ \A what : NameOf(what, c) \in Inode \cup Name \cup {NoName, Deleted}
         /\ WorkedOn(c) \in Named
<1> USE FilesAssumption, CallAssumption DEF FilesTypeOK, CallRecord
<1>1. \A n \in Name : Reached(n) \in Name /\ RealPath(n) \in Name \cup {NoName}
  BY DEF Reached, RealPath
<1>2. \A f \in Fd : FdName(f) \in Inode \cup Name \cup {NoName, Deleted}
  BY DEF FdName, Open
<1>3. FILE2name(c.stream) \in Inode \cup Name \cup {NoName, Deleted}
  BY <1>2 DEF FILE2name, fd2name, NoFd
<1>4. ASSUME NEW what  PROVE NameOf(what, c) \in Inode \cup Name \cup {NoName, Deleted}
  <2>1. c.name \in Name /\ c.name2 \in Name /\ c.fd \in Fd
    OBVIOUS
  <2>2. RealPath(c.name) \in Inode \cup Name \cup {NoName, Deleted}
    BY <1>1, <2>1
  <2>3. RealPath(c.name2) \in Inode \cup Name \cup {NoName, Deleted}
    BY <1>1, <2>1
  <2>4. fd2name(c.fd) \in Inode \cup Name \cup {NoName, Deleted}
    BY <1>2, <2>1 DEF fd2name
  <2> HIDE DEF FilesTypeOK, CallRecord
  <2> QED BY <2>2, <2>3, <2>4, <1>3 DEF NameOf
<1>5. WorkedOn(c) \in Named
  <2>1. c.name \in Name /\ c.name2 \in Name /\ c.fd \in Fd
    OBVIOUS
  <2>2. Reached(c.name) \in Name /\ FdName(c.fd) \in Inode \cup Name \cup {NoName, Deleted}
    BY <1>1, <1>2, <2>1
  <2> DEFINE N == Inode \cup Name \cup {NoName, Deleted}
  <2> HIDE DEF FilesTypeOK, CallRecord
  <2>3. \A n \in N : <<n>> \in Seq(N)
    OBVIOUS
  <2>4. \A n, m \in N : <<n, m>> \in Seq(N)
    OBVIOUS
  <2>5. <<>> \in Seq(N)
    OBVIOUS
  <2>6. {c.name, c.name2, Reached(c.name), FdName(c.fd), FILE2name(c.stream)} \subseteq N
    BY <2>1, <2>2, <1>3
  <2> HIDE DEF N
  <2> QED BY <2>3, <2>4, <2>5, <2>6 DEF WorkedOn, Named, N
<1> QED BY <1>2, <1>3, <1>4, <1>5

LEMMA LookUpTypes ==
  ASSUME TypeOK, NEW c \in Call, NEW what, LookUp(what, c)
  PROVE  said' \in Named /\ errno' \in Reason \cup {"EINVAL"}
<1>1. NameOf(what, c) \in Inode \cup Name \cup {NoName, Deleted}
  BY NameTypes DEF TypeOK
<1>2. said \in Named /\ errno \in Reason \cup {"EINVAL"}
  BY DEF TypeOK
<1>3. said' \in Named
  <2>1. Append(said, NameOf(what, c)) \in Named
    BY <1>1, <1>2 DEF Named
  <2> QED BY <1>2, <2>1 DEF LookUp
<1>4. errno' \in Reason \cup {"EINVAL"}
  BY <1>2 DEF LookUp, Reason
<1> QED BY <1>3, <1>4

\* Two words of the command line are dropped.
LEMMA DropTwo ==
  ASSUME NEW S, NEW s \in Seq(S), Len(s) > 1
  PROVE  Tail(Tail(s)) \in Seq(S)
<1>1. s # <<>>
  OBVIOUS
<1>2. Tail(s) \in Seq(S) /\ Len(Tail(s)) = Len(s) - 1
  BY <1>1, HeadTailProperties
<1>3. Tail(s) # <<>>
  <2>1. Len(Tail(s)) # 0
    BY <1>2
  <2>2. Len(<<>>) = 0
    OBVIOUS
  <2> QED BY <2>1, <2>2, Zenon
<1> QED BY <1>2, <1>3, HeadTailProperties

LEMMA TypedInit == Init => Typed
<1> SUFFICES ASSUME Init  PROVE Typed
  OBVIOUS
<1> USE LoggerAssumption, FilesAssumption DEF Init
<1>1. FilesTypeOK
  BY DEF FilesTypeOK, Reason, NoFd
<1>2. said \in Named /\ deed \in [sure : BOOLEAN, names : Named]
  BY DEF NoSaid, NoDeed, Named
<1>3. args \in Seq(STRING \cup LogName)
  OBVIOUS
<1> QED BY <1>1, <1>2, <1>3 DEF Typed, TypeOK, Calling, InWrapper, Reason, DEFAULT_OUT, NoFd

LEMMA TypedNext == Typed /\ [Next]_vars => Typed'
<1> SUFFICES ASSUME Typed, [Next]_vars  PROVE Typed'
  OBVIOUS
<1> USE FilesAssumption, LoggerAssumption DEF Typed, Calling, InWrapper
<1>t. TypeOK /\ FilesTypeOK
  BY DEF TypeOK
<1>a. Len(args) > 1 => Tail(Tail(args)) \in Seq(STRING \cup LogName)
  <2> HIDE LoggerAssumption
  <2>1. args \in Seq(STRING \cup LogName)
    BY DEF TypeOK
  <2> QED BY <2>1, DropTwo
<1>1. ASSUME NEW how \in {"exit", "crash"}, Finish(how)  PROVE Typed'
  BY <1>1 DEF Finish, filesVars, launcherVars, TypeOK, FilesTypeOK
<1>2. CASE OutputFile
  <2>1. args' \in Seq(STRING \cup LogName)
    BY <1>2, <1>a DEF OutputFile
  <2>2. FilesTypeOK' /\ out' \in Fd \cup {NoFd} /\ logs' \subseteq Inode
    <3>1. ASSUME NEW f \in Free, OpenAt(args[2], "any", f),
                 out' = f, logs' = {fds'[f]}
          PROVE  FilesTypeOK' /\ out' \in Fd \cup {NoFd} /\ logs' \subseteq Inode
      <4>1. PICK i \in Inode : fds' = [fds EXCEPT ![f] = i]
        BY <3>1, <1>t DEF OpenAt, Fresh, FilesTypeOK
      <4>2. dir' \in [Name -> Inode \cup Name \cup {Nothing}]
        BY <3>1, <1>t DEF OpenAt, Fresh, FilesTypeOK
      <4> QED BY <3>1, <4>1, <4>2, <1>2, <1>t DEF OutputFile, FilesTypeOK, Free
    <3> QED BY <1>2, <3>1, <1>t DEF OutputFile, FilesTypeOK
  <2> QED BY <1>2, <2>1, <2>2 DEF OutputFile, wrapperVars, TypeOK
<1>3. CASE SoPath
  BY <1>3, <1>a DEF SoPath, filesVars, wrapperVars, TypeOK, FilesTypeOK
<1>4. CASE Command
  <2>1. UNCHANGED <<fds, streams, dir, res, out, logs, call, errno, said, marked, deed>>
    BY <1>4 DEF Command, filesVars
  <2>2. FilesTypeOK' /\ given' \subseteq Fd /\ pc' \in {"bare", "exit", "idle"} /\ args' = <<>>
    BY <1>4, <2>1, <1>t DEF Command, FilesTypeOK, TypeOK
  <2> QED BY <2>1, <2>2 DEF TypeOK
<1>5. CASE Begin
  <2> PICK c \in Call : MayCall(c) /\ call' = c /\ LookUp(Wrapper(c.fn).before, c)
    BY <1>5 DEF Begin
  <2>1. said' \in Named /\ errno' \in Reason \cup {"EINVAL"}
    BY LookUpTypes
  <2>2. UNCHANGED <<fds, streams, dir, res, args, out, given, logs, marked, deed>>
    BY <1>5 DEF Begin, filesVars, launcherVars
  <2>3. FilesTypeOK' /\ pc' = "real" /\ call' \in Call
    BY <1>5, <2>2, <1>t DEF Begin, FilesTypeOK
  <2> QED BY <2>1, <2>2, <2>3 DEF TypeOK
<1>6. CASE Real
  <2>c. call \in Call
    BY <1>6 DEF Real
  <2>1. FilesTypeOK'
    <3>1. CASE Fakes(call)
      <4>1. UNCHANGED <<fds, streams, dir>> /\ Succeed(0)
        BY <1>6, <3>1 DEF Real, RealCall
      <4>2. FilesTypeOK'
        BY <4>1, <1>t DEF Succeed, FilesTypeOK, Reason
      <4> QED BY <4>1, <4>2
    <3>2. CASE ~Fakes(call)
      BY <1>6, <3>2, <2>c, <1>t, DoTypes DEF Real, RealCall, TypeOK
    <3> QED BY <3>1, <3>2
  <2>2. errno' \in Reason \cup {"EINVAL"}
    BY <1>6, <2>1 DEF Real, FilesTypeOK, TypeOK
  <2>3. deed' \in [sure : BOOLEAN, names : Named]
    BY <1>6, <2>1, <2>c, <1>t, NameTypes DEF Real, FilesTypeOK, TypeOK
  <2> QED BY <1>6, <2>1, <2>2, <2>3 DEF Real, launcherVars, TypeOK
<1>7. CASE Late
  <2>1. said' \in Named /\ errno' \in Reason \cup {"EINVAL"}
    BY <1>7, LookUpTypes DEF Late
  <2> QED BY <1>7, <2>1 DEF Late, filesVars, launcherVars, TypeOK, FilesTypeOK
<1>8. CASE PrintLine
  BY <1>8 DEF PrintLine, filesVars, launcherVars, TypeOK, FilesTypeOK, Named, NoSaid, NoDeed,
       Reason, Open
<1>9. CASE Others
  <2>1. FilesTypeOK'
    BY <1>9, <1>t DEF Others, Outside, Moved, FilesTypeOK
  <2> QED BY <1>9, <2>1 DEF Others, launcherVars, TypeOK
<1>10. CASE UNCHANGED vars
  BY <1>10 DEF vars, filesVars, launcherVars, wrapperVars, TypeOK, FilesTypeOK
<1> QED
  BY <1>1, <1>2, <1>3, <1>4, <1>5, <1>6, <1>7, <1>8, <1>9, <1>10
  DEF Next, Launch, NoCommand, NoWord, InvalidOption

\* Every variable of the launcher and of the wrappers keeps its type, for every command
\* line, program and directory.
THEOREM LoggerTypeCorrect == Spec => []TypeOK
<1>1. Spec => []Typed
  BY TypedInit, TypedNext, PTL DEF Spec
<1>2. Typed => TypeOK
  BY DEF Typed
<1> QED BY <1>1, <1>2, PTL

----------------------------------------------------------------------------
(* The lines go to the log.  LOGGER_OUT, unless it is -1, stays open on    *)
(* the file it was made for, because a tidy program closes only what it    *)
(* opened, unless by close(2), which is not done.                          *)

LogHeld == out # NoFd => Open(out) /\ logs = {fds[out]}
OutGiven == Launched /\ out # NoFd => out \in given
SparesGiven ==
  pc = "real" =>
    /\ call.fn = "close" => call.fd \notin given \ {2}
    /\ call.fn = "fclose" => streams[call.stream] \notin given
LogSafe ==
  /\ LogHeld
  /\ OutGiven
  /\ SparesGiven
  /\ pc = "launch" => marked = {}
  /\ LogApart

LEMMA LogSafeInit == Init => LogSafe
BY FilesAssumption
   DEF Init, LogSafe, LogHeld, OutGiven, SparesGiven, LogApart, DEFAULT_OUT, NoFd, Open,
       Launched, InWrapper

\* The descriptor of the log survives the real call.
LEMMA RealKeepsLog ==
  ASSUME Typed, LogSafe, Real, out # NoFd
  PROVE  Open(out)' /\ fds'[out] = fds[out]
<1> USE DEF Typed, TypeOK
<1>1. pc = "real" /\ call \in Call /\ out \in Fd /\ Open(out) /\ out \in given /\ out' = out
  BY DEF Real, LogSafe, LogHeld, OutGiven, Launched, InWrapper, Calling, launcherVars
<1>2. CASE Fakes(call)
  BY <1>1, <1>2 DEF Real, RealCall, Open
<1>3. CASE ~Fakes(call)
  <2>1. Do(call)
    BY <1>3 DEF Real, RealCall
  <2>2. call.fn = "close" => call.fd # out
    BY <1>1, <1>3 DEF Fakes, LogSafe, SparesGiven
  <2>3. call.fn = "fclose" => streams[call.stream] # out
    BY <1>1 DEF LogSafe, SparesGiven
  <2>4. fds'[out] = fds[out]
    BY <1>1, <2>1, <2>2, <2>3, DoKeeps
  <2> QED BY <1>1, <2>4 DEF Open
<1> QED BY <1>2, <1>3

LEMMA LogSafeNext == Tidy /\ Typed /\ LogSafe /\ [Next]_vars => LogSafe'
<1> SUFFICES ASSUME Tidy, Typed, LogSafe, [Next]_vars  PROVE LogSafe'
  OBVIOUS
<1> DEFINE Same == UNCHANGED <<fds, streams, out, given, logs, marked>>
<1>t. TypeOK /\ FilesTypeOK /\ Calling
  BY DEF Typed, TypeOK
<1>d. /\ LogHeld /\ OutGiven /\ SparesGiven /\ LogApart
      /\ pc = "launch" => marked = {}
  BY DEF LogSafe
<1>h. UNCHANGED <<fds, out, logs>> => LogHeld'
  BY <1>d DEF LogHeld, Open
<1>1. ASSUME NEW how \in {"exit", "crash"}, Finish(how)  PROVE LogSafe'
  <2>1. UNCHANGED <<fds, out, logs, marked>> /\ pc' = how
    BY <1>1 DEF Finish, filesVars, launcherVars
  <2> QED BY <1>d, <1>h, <2>1
          DEF LogSafe, OutGiven, SparesGiven, LogApart, Launched, InWrapper
<1>2. CASE OutputFile
  <2>1. pc = "launch" /\ pc' = pc /\ marked' = marked
    BY <1>2 DEF OutputFile, wrapperVars
  <2>2. LogHeld'
    <3>1. ASSUME NEW f \in Free, OpenAt(args[2], "any", f), out' = f, logs' = {fds'[f]}
          PROVE  LogHeld'
      <4>1. PICK i \in Inode : fds' = [fds EXCEPT ![f] = i]
        BY <3>1, <1>t DEF OpenAt, Fresh, FilesTypeOK
      <4> QED BY <3>1, <4>1, <1>t, FilesAssumption DEF LogHeld, Open, Free, FilesTypeOK
    <3> QED BY <1>2, <3>1 DEF OutputFile, LogHeld
  <2> QED BY <1>d, <2>1, <2>2
          DEF LogSafe, OutGiven, SparesGiven, LogApart, Launched, InWrapper
<1>3. CASE SoPath
  <2>1. UNCHANGED <<fds, out, logs, marked, pc>> /\ pc = "launch"
    BY <1>3 DEF SoPath, filesVars, wrapperVars
  <2> QED BY <1>d, <1>h, <2>1
          DEF LogSafe, OutGiven, SparesGiven, LogApart, Launched, InWrapper
<1>4. CASE Command
  <2>1. UNCHANGED <<fds, out, logs, marked>> /\ pc = "launch"
    BY <1>4 DEF Command, filesVars
  <2>2. pc' \in {"bare", "exit"} \/ (pc' = "idle" /\ given' = {f \in Fd : Open(f)})
    BY <1>4 DEF Command
  <2>3. OutGiven'
    BY <1>d, <2>1, <2>2 DEF OutGiven, LogHeld, Open, Launched, InWrapper
  <2> QED BY <1>d, <1>h, <2>1, <2>2, <2>3 DEF LogSafe, SparesGiven, LogApart
<1>5. CASE Begin
  <2>1. Same /\ pc = "idle" /\ pc' = "real"
    BY <1>5 DEF Begin, filesVars, launcherVars
  <2>2. SparesGiven'
    BY <1>5, <2>1 DEF Begin, MayCall, SparesGiven
  <2> QED BY <1>d, <1>h, <2>1, <2>2 DEF LogSafe, OutGiven, LogApart, Launched, InWrapper
<1>6. CASE Real
  <2>1. UNCHANGED <<out, given, logs, marked>> /\ pc = "real" /\ pc' = "late"
    BY <1>6 DEF Real, launcherVars
  <2>2. LogHeld'
    BY <1>6, <1>d, <2>1, RealKeepsLog DEF LogHeld
  <2> QED BY <1>d, <2>1, <2>2
          DEF LogSafe, OutGiven, SparesGiven, LogApart, Launched, InWrapper
<1>7. CASE Late
  <2>1. Same /\ pc = "late" /\ pc' = "print"
    BY <1>7 DEF Late, filesVars, launcherVars
  <2> QED BY <1>d, <1>h, <2>1
          DEF LogSafe, OutGiven, SparesGiven, LogApart, Launched, InWrapper
<1>8. CASE PrintLine
  <2>1. UNCHANGED <<fds, out, given, logs>> /\ pc = "print" /\ pc' = "idle"
    BY <1>8 DEF PrintLine, filesVars, launcherVars
  <2>2. out = NoFd => ~Open(out)
    BY FilesAssumption DEF NoFd, Open
  <2>3. LogApart'
    BY <1>8, <1>d, <2>1, <2>2 DEF PrintLine, LogApart, LogHeld
  <2> QED BY <1>d, <1>h, <2>1, <2>3
          DEF LogSafe, OutGiven, SparesGiven, Launched, InWrapper
<1>9. CASE Others
  <2>1. Same /\ pc' = pc /\ call' = call /\ Launched
    BY <1>9 DEF Others, Outside, launcherVars
  <2> QED BY <1>d, <1>h, <2>1
          DEF LogSafe, OutGiven, SparesGiven, LogApart, Launched, InWrapper
<1>10. CASE UNCHANGED vars
  BY <1>10, <1>d, <1>h DEF vars, filesVars, launcherVars, wrapperVars, LogSafe, OutGiven,
     SparesGiven, LogApart, Launched, InWrapper
<1> QED
  BY <1>1, <1>2, <1>3, <1>4, <1>5, <1>6, <1>7, <1>8, <1>9, <1>10
  DEF Next, Launch, NoCommand, NoWord, InvalidOption

\* Whatever the command line, if the program closes none of the descriptors it was given
\* unless by close(2), which is faked for this (share.cpp:64), no line reaches another
\* file than the log.  A program that closes the log's descriptor, or 2 by fclose of
\* stderr while the log goes there, is not tidy.
THEOREM LogStaysApart == Tidy => (Spec => []LogApart)
<1>1. Tidy => (Spec => [](Typed /\ LogSafe))
  <2> SUFFICES ASSUME Tidy  PROVE Spec => [](Typed /\ LogSafe)
    OBVIOUS
  <2>1. Typed /\ LogSafe /\ [Next]_vars => (Typed /\ LogSafe)'
    BY TypedNext, LogSafeNext
  <2> QED BY TypedInit, LogSafeInit, <2>1, PTL DEF Spec
<1>2. LogSafe => LogApart
  BY DEF LogSafe
<1> QED BY <1>1, <1>2, PTL

----------------------------------------------------------------------------
(* errno.  A failed call's errno is overwritten only by a lookup after the *)
(* call that fails too, and the one of an open descriptor does not.        *)

\* The calls ErrnoKept is about.
Spared ==
  \/ call.fn \in {"close", "fclose", "remove"}
  \/ call.fn \in {"read", "write"} /\ Open(call.fd)
  \/ call.fn \in {"fread", "fwrite"} /\ Open(streams[call.stream])
ErrnoHeld ==
  /\ pc = "late" /\ ~res.ok => errno = res.why
  /\ pc = "print" /\ ~res.ok /\ Spared => errno = res.why

LEMMA ErrnoHeldInit == Init => ErrnoHeld
BY DEF Init, ErrnoHeld

\* The link of an open descriptor can be read.
LEMMA OpenHasName ==
  ASSUME FilesTypeOK, NEW f, Open(f)
  PROVE  FdName(f) # NoName
<1>1. FdName(f) \in Inode \cup Name \cup {Deleted}
  BY FilesAssumption DEF FilesTypeOK, Open, FdName
<1> QED BY <1>1, FilesAssumption DEF NoName, Deleted

LEMMA LateSpares ==
  ASSUME Typed, Late, Spared
  PROVE  errno' = errno
<1>1. LookUp(Wrapper(call.fn).after, call)
  BY DEF Late
<1>2. CASE call.fn \in {"close", "fclose", "remove"}
  <2>1. Wrapper(call.fn).after = "none"
    BY <1>2 DEF Wrapper, close, fclose, remove
  <2> QED BY <1>1, <2>1 DEF LookUp
<1>3. CASE call.fn \in {"read", "write"} /\ Open(call.fd)
  <2>1. Wrapper(call.fn).after = "fd"
    BY <1>3 DEF Wrapper, read, write
  <2>2. NameOf("fd", call) # NoName
    BY <1>3, OpenHasName DEF NameOf, fd2name, Typed, TypeOK
  <2> QED BY <1>1, <2>1, <2>2 DEF LookUp
<1>4. CASE call.fn \in {"fread", "fwrite"} /\ Open(streams[call.stream])
  <2>1. Wrapper(call.fn).after = "FILE"
    BY <1>4 DEF Wrapper, fread, fwrite
  <2>2. streams[call.stream] # NoFd
    BY <1>4, FilesAssumption DEF Open, NoFd
  <2>3. NameOf("FILE", call) # NoName
    BY <1>4, <2>2, OpenHasName DEF NameOf, FILE2name, fd2name, Typed, TypeOK
  <2> QED BY <1>1, <2>1, <2>3 DEF LookUp
<1> QED BY <1>2, <1>3, <1>4 DEF Spared

LEMMA ErrnoHeldNext == Typed /\ ErrnoHeld /\ [Next]_vars => ErrnoHeld'
<1> SUFFICES ASSUME Typed, ErrnoHeld, [Next]_vars  PROVE ErrnoHeld'
  OBVIOUS
<1>1. ASSUME pc' \notin {"late", "print"}  PROVE ErrnoHeld'
  BY <1>1 DEF ErrnoHeld
<1>2. CASE Launch
  <2>1. pc' \in {"exit", "crash", "launch", "bare", "idle"}
    BY <1>2 DEF Launch, NoCommand, NoWord, OutputFile, SoPath, InvalidOption, Command, Finish,
       wrapperVars
  <2> QED BY <1>1, <2>1
<1>3. CASE Begin \/ PrintLine
  BY <1>1, <1>3 DEF Begin, PrintLine
<1>4. CASE Real
  BY <1>4 DEF Real, ErrnoHeld
<1>5. CASE Late
  <2>1. pc = "late" /\ pc' = "print" /\ UNCHANGED <<fds, streams, res, call>>
    BY <1>5 DEF Late, filesVars
  <2>2. Spared' => Spared
    BY <2>1 DEF Spared, Open
  <2> QED BY <1>5, <2>1, <2>2, LateSpares DEF ErrnoHeld
<1>6. CASE Others
  <2>1. UNCHANGED <<fds, streams, res, call, pc, errno>>
    BY <1>6 DEF Others, Outside
  <2> QED BY <2>1 DEF ErrnoHeld, Spared, Open
<1>7. CASE UNCHANGED vars
  BY <1>7 DEF vars, filesVars, wrapperVars, ErrnoHeld, Spared, Open
<1> QED BY <1>2, <1>3, <1>4, <1>5, <1>6, <1>7 DEF Next

\* The errno of close, fclose, remove and of a transfer on an open descriptor reaches
\* the program, in every program and whatever other processes do.
THEOREM ErrnoReaches == Spec => ErrnoKept
<1>1. ErrnoHeld /\ [Next]_vars =>
        [PrintLine /\ Open(out) /\ ~res.ok /\ Spared => errno' = res.why]_vars
  <2> SUFFICES ASSUME ErrnoHeld, PrintLine, Open(out), ~res.ok, Spared
               PROVE  errno' = res.why
    OBVIOUS
  <2> QED BY DEF ErrnoHeld, PrintLine
<1>2. ErrnoHeld /\ [Next]_vars =>
        [PrintLine /\ Open(out) /\ ~res.ok
         /\ \/ call.fn \in {"close", "fclose", "remove"}
            \/ call.fn \in {"read", "write"} /\ Open(call.fd)
            \/ call.fn \in {"fread", "fwrite"} /\ Open(streams[call.stream])
         => errno' = res.why]_vars
  BY <1>1 DEF Spared
<1> QED BY <1>2, TypedInit, TypedNext, ErrnoHeldInit, ErrnoHeldNext, PTL DEF Spec, ErrnoKept

----------------------------------------------------------------------------
(* Names.  What is looked up before the real call is what the call works   *)
(* on; what is looked up after it, what it has worked on.                  *)

\* What is found before the real call of c, and the line when it has returned.
Before(c) ==
  IF Wrapper(c.fn).before = "none" THEN <<>> ELSE <<NameOf(Wrapper(c.fn).before, c)>>
Line(c, found) ==
  IF Wrapper(c.fn).after = "none" THEN found
  ELSE Append(found, NameOf(Wrapper(c.fn).after, c))
NamesHeld ==
  /\ pc \in {"launch", "idle"} => said = <<>>
  /\ pc = "real" /\ deed.sure => said = Before(call)
  /\ pc = "late" /\ deed.sure => Line(call, said) = deed.names
  /\ LogTruthful

LEMMA NamesHeldInit == Init => NamesHeld
BY DEF Init, NamesHeld, NoSaid, LogTruthful

\* A path that has been opened leads where it led.
LEMMA OpenedPath ==
  ASSUME FilesTypeOK, NEW n \in Name, NEW mode, NEW f \in Free, OpenAt(n, mode, f)
  PROVE  RealPath(n)' = Reached(n)
<1> USE FilesAssumption DEF FilesTypeOK
<1>1. Reached(n) \in Name
  BY DEF Reached
<1>2. CASE dir[Reached(n)] \in Inode /\ dir' = dir
  BY <1>2 DEF RealPath, Reached
<1>3. ASSUME NEW i \in Inode, dir[Reached(n)] = Nothing,
             dir' = [dir EXCEPT ![Reached(n)] = i]
      PROVE  RealPath(n)' = Reached(n)
  <2>1. i \notin Name /\ dir'[Reached(n)] = i
    BY <1>1, <1>3
  <2>2. Reached(n)' = Reached(n)
    BY <1>1, <1>3, <2>1 DEF Reached
  <2> QED BY <2>1, <2>2 DEF RealPath
<1> QED BY <1>2, <1>3 DEF OpenAt, Fresh

LEMMA RealPathDone ==
  ASSUME FilesTypeOK, NEW c \in Call, Do(c), res'.ok,
         c.fn \in {"chmod", "chown", "creat", "open", "fopen"}
  PROVE  RealPath(c.name)' = Reached(c.name)
<1> USE CallAssumption DEF CallRecord
<1>f. ASSUME NEW e, Fail(e)  PROVE FALSE
  BY <1>f DEF Fail, FailWith
<1>1. CASE Change(c)
  <2>1. RealPath(c.name) # NoName /\ dir' = dir
    BY <1>1, <1>f DEF Change
  <2> QED BY <2>1 DEF RealPath, Reached
<1>2. CASE OpenFd(c) \/ OpenStream(c)
  BY <1>2, <1>f, OpenedPath DEF OpenFd, OpenStream, OpenFails
<1> QED BY <1>1, <1>2, DoByName

\* Names given to rename and remove.
LEMMA OwnName ==
  ASSUME FilesTypeOK, NEW n \in Name, dir[n] # Nothing, dir[n] \notin Name
  PROVE  RealPath(n) = n
BY DEF FilesTypeOK, RealPath, Reached

LEMMA RenamedPath ==
  ASSUME FilesTypeOK, NEW n \in Name, NEW m \in Name, dir[n] # Nothing, dir[n] \notin Name,
         dir' = Moved(n, m)
  PROVE  RealPath(m)' = m
<1>1. dir[n] \in Inode
  BY DEF FilesTypeOK
<1>2. dir'[m] = dir[n]
  BY DEF FilesTypeOK, Moved
<1> QED BY <1>1, <1>2, FilesAssumption DEF RealPath, Reached

LEMMA LineOfReal ==
  ASSUME FilesTypeOK, NEW c \in Call, RealCall(c), res'.ok, ~OnLink(c),
         NEW found, found = Before(c)
  PROVE  Line(c, found)' = WorkedOn(c)
<1>t. c.fn \in Function /\ c.name \in Name /\ c.name2 \in Name
  BY CallAssumption DEF CallRecord
<1>f. ASSUME NEW e, Fail(e)  PROVE FALSE
  BY <1>f DEF Fail, FailWith
<1>d. c.fn # "close" => Do(c)
  BY DEF RealCall, Fakes
<1>a. \A x, y : Append(<<>>, x) = <<x>> /\ Append(<<x>>, y) = <<x, y>>
  <2>1. \A x : Append(<<>>, x) = <<x>>
    OBVIOUS
  <2>2. ASSUME NEW x, NEW y  PROVE Append(<<x>>, y) = <<x, y>>
    <3>1. <<x>> \in Seq({x, y}) /\ y \in {x, y}
      OBVIOUS
    <3> DEFINE t == Append(<<x>>, y)
    <3>2. t \in Seq({x, y}) /\ Len(t) = 2 /\ t[1] = x /\ t[2] = y
      BY <3>1, AppendProperties
    <3>3. <<x, y>> \in Seq({x, y}) /\ Len(<<x, y>>) = 2
      OBVIOUS
    <3> HIDE DEF t
    <3>4. \A i \in 1..Len(t) : t[i] = <<x, y>>[i]
      BY <3>2
    <3>5. t = <<x, y>>
      BY <3>2, <3>3, <3>4, SeqEqual
    <3> QED BY <3>5 DEF t
  <2> QED BY <2>1, <2>2
<1>1. CASE c.fn \in {"chmod", "chown", "creat", "open", "fopen"}
  <2>1. Wrapper(c.fn) = [before |-> "none", after |-> "path"]
    BY <1>1 DEF Wrapper, chmod, chown, creat, open, fopen
  <2>2. Line(c, found)' = Append(<<>>, RealPath(c.name)')
    BY <2>1 DEF Line, Before, NameOf
  <2>3. RealPath(c.name)' = Reached(c.name)
    BY <1>1, <1>d, RealPathDone
  <2> QED BY <1>1, <1>a, <2>2, <2>3 DEF WorkedOn
<1>2. CASE c.fn \in {"read", "write"}
  <2>1. Wrapper(c.fn) = [before |-> "none", after |-> "fd"]
    BY <1>2 DEF Wrapper, read, write
  <2>2. UNCHANGED <<fds, streams, dir>>
    BY <1>2, <1>d DEF Do, Transfer
  <2>3. Line(c, found)' = Append(<<>>, FdName(c.fd)')
    BY <2>1 DEF Line, Before, NameOf, fd2name
  <2>4. FdName(c.fd)' = FdName(c.fd)
    BY <2>2 DEF FdName, Open
  <2> QED BY <1>2, <1>a, <2>3, <2>4 DEF WorkedOn
<1>3. CASE c.fn \in {"fread", "fwrite"}
  <2>1. Wrapper(c.fn) = [before |-> "none", after |-> "FILE"]
    BY <1>3 DEF Wrapper, fread, fwrite
  <2>2. UNCHANGED <<fds, streams, dir>>
    BY <1>3, <1>d DEF Do, Transfer
  <2>3. Line(c, found)' = Append(<<>>, FILE2name(c.stream)')
    BY <2>1 DEF Line, Before, NameOf
  <2>4. FILE2name(c.stream)' = FILE2name(c.stream)
    BY <2>2 DEF FILE2name, fd2name, FdName, Open
  <2> QED BY <1>3, <1>a, <2>3, <2>4 DEF WorkedOn
<1>4. CASE c.fn = "close"
  <2>1. Wrapper(c.fn) = [before |-> "fd", after |-> "none"]
    BY <1>4 DEF Wrapper, close
  <2>2. Line(c, found)' = <<FdName(c.fd)>>
    BY <2>1 DEF Line, Before, NameOf, fd2name
  <2> QED BY <1>4, <2>2 DEF WorkedOn
<1>5. CASE c.fn = "fclose"
  <2>1. Wrapper(c.fn) = [before |-> "FILE", after |-> "none"]
    BY <1>5 DEF Wrapper, fclose
  <2>2. Line(c, found)' = <<FILE2name(c.stream)>>
    BY <2>1 DEF Line, Before, NameOf
  <2> QED BY <1>5, <2>2 DEF WorkedOn
<1>6. CASE c.fn = "remove"
  <2>1. Wrapper(c.fn) = [before |-> "path", after |-> "none"]
    BY <1>6 DEF Wrapper, remove
  <2>2. Line(c, found)' = <<RealPath(c.name)>>
    BY <2>1 DEF Line, Before, NameOf
  <2>3. dir[c.name] # Nothing
    BY <1>6, <1>d, <1>f DEF Do, Remove
  <2>4. RealPath(c.name) = c.name
    BY <1>6, <1>t, <2>3, OwnName DEF OnLink
  <2> QED BY <1>6, <2>2, <2>4 DEF WorkedOn
<1>7. CASE c.fn = "rename"
  <2>1. Wrapper(c.fn) = [before |-> "path", after |-> "path2"]
    BY <1>7 DEF Wrapper, rename
  <2>2. Line(c, found)' = Append(<<RealPath(c.name)>>, RealPath(c.name2)')
    BY <2>1 DEF Line, Before, NameOf
  <2>3. dir[c.name] # Nothing /\ dir' = Moved(c.name, c.name2)
    BY <1>7, <1>d, <1>f DEF Do, Rename
  <2>4. RealPath(c.name) = c.name /\ RealPath(c.name2)' = c.name2
    BY <1>7, <1>t, <2>3, OwnName, RenamedPath DEF OnLink
  <2> QED BY <1>7, <1>a, <2>2, <2>4 DEF WorkedOn
<1>8. CASE c.fn = "tmpfile"
  <2>1. Wrapper(c.fn) = [before |-> "none", after |-> "none"]
    BY <1>8 DEF Wrapper, tmpfile
  <2> QED BY <1>8, <2>1 DEF Line, Before, WorkedOn
<1> QED BY <1>t, <1>1, <1>2, <1>3, <1>4, <1>5, <1>6, <1>7, <1>8 DEF Function

LEMMA NamesHeldNext == Typed /\ NamesHeld /\ [Next]_vars => NamesHeld'
<1> SUFFICES ASSUME Typed, NamesHeld, [Next]_vars  PROVE NamesHeld'
  OBVIOUS
<1>t. FilesTypeOK
  BY DEF Typed, TypeOK
<1>1. CASE Launch
  <2>1. said' = said /\ pc = "launch" /\ pc' \in {"exit", "crash", "launch", "bare", "idle"}
    BY <1>1 DEF Launch, NoCommand, NoWord, OutputFile, SoPath, InvalidOption, Command, Finish,
       wrapperVars
  <2> QED BY <2>1 DEF NamesHeld, LogTruthful
<1>2. CASE Begin
  <2>1. pc = "idle" /\ pc' = "real" /\ UNCHANGED <<fds, streams, dir>> /\ said = <<>>
    BY <1>2 DEF Begin, filesVars, NamesHeld
  <2>2. PICK c \in Call : call' = c /\ LookUp(Wrapper(c.fn).before, c)
    BY <1>2 DEF Begin
  <2>3. said' = Before(c)
    <3>1. \A x : Append(<<>>, x) = <<x>>
      OBVIOUS
    <3> QED BY <2>1, <2>2, <3>1 DEF LookUp, Before
  <2>4. Before(c)' = Before(c)
    BY <2>1 DEF Before, NameOf, RealPath, Reached, fd2name, FILE2name, FdName, Open
  <2>5. Before(call)' = Before(c)'
    BY <2>2 DEF Before
  <2> QED BY <2>1, <2>3, <2>4, <2>5 DEF NamesHeld, LogTruthful
<1>3. CASE Real
  <2>1. pc = "real" /\ pc' = "late" /\ said' = said /\ call' = call
    BY <1>3 DEF Real
  <2>2. CASE deed'.sure
    <3> DEFINE c == call
               found == said
    <3>1. deed.sure /\ res'.ok /\ ~OnLink(call) /\ deed'.names = WorkedOn(call)
      BY <1>3, <2>2 DEF Real
    <3>2. found = Before(c) /\ RealCall(c) /\ c \in Call
      BY <1>3, <2>1, <3>1 DEF Real, NamesHeld, Typed, Calling, InWrapper
    <3>3. \A g : \A d \in Call : RealCall(d) /\ ~OnLink(d) /\ g = Before(d) => Line(d, g)' = WorkedOn(d)
      BY <1>t, <3>1, LineOfReal
    <3>4. \A d, g : call' = d /\ said' = g => Line(call, said)' = Line(d, g)'
      BY DEF Line, NameOf
    <3>5. Line(call, said)' = WorkedOn(call)
      BY <2>1, <3>1, <3>2, <3>3, <3>4
    <3> QED BY <2>1, <3>1, <3>5 DEF NamesHeld, LogTruthful
  <2>3. CASE ~deed'.sure
    BY <2>1, <2>3 DEF NamesHeld, LogTruthful
  <2> QED BY <2>2, <2>3
<1>4. CASE Late
  <2>1. pc = "late" /\ pc' = "print" /\ UNCHANGED deed
    BY <1>4 DEF Late
  <2>2. said' = Line(call, said)
    BY <1>4 DEF Late, LookUp, Line
  <2> QED BY <2>1, <2>2 DEF NamesHeld, LogTruthful
<1>5. CASE PrintLine
  BY <1>5 DEF PrintLine, NamesHeld, LogTruthful, NoSaid
<1>6. CASE Others
  <2>1. UNCHANGED <<said, pc>> /\ (InWrapper => ~deed'.sure) /\ Launched
    BY <1>6 DEF Others, Typed, TypeOK
  <2> QED BY <2>1 DEF NamesHeld, LogTruthful, InWrapper, Launched
<1>7. CASE UNCHANGED vars
  <2>1. UNCHANGED <<fds, streams, dir, said, pc, call, deed>>
    BY <1>7 DEF vars, filesVars, wrapperVars
  <2>2. Before(call)' = Before(call) /\ Line(call, said)' = Line(call, said)
    BY <2>1 DEF Before, Line, NameOf, RealPath, Reached, fd2name, FILE2name, FdName, Open
  <2> QED BY <2>1, <2>2 DEF NamesHeld, LogTruthful
<1> QED BY <1>1, <1>2, <1>3, <1>4, <1>5, <1>6, <1>7 DEF Next

\* The names of a line are those of the files the call worked on, in every program, if
\* the call succeeded and no other process came between.
THEOREM NamesAreTrue == Spec => []LogTruthful
<1>1. NamesHeld => LogTruthful
  BY DEF NamesHeld
<1> QED BY <1>1, TypedInit, TypedNext, NamesHeldInit, NamesHeldNext, PTL DEF Spec

----------------------------------------------------------------------------
(* Buffers.  A transfer moves no more than it was asked for.               *)

MovedHeld ==
  pc \in {"late", "print"} /\ Moves =>
    /\ res.n <= call.count
    /\ call.fn \in {"fread", "fwrite"} => res.n >= 0

LEMMA MovedHeldInit == Init => MovedHeld
BY DEF Init, MovedHeld

LEMMA MovedHeldNext == Typed /\ MovedHeld /\ [Next]_vars => MovedHeld'
<1> SUFFICES ASSUME Typed, MovedHeld, [Next]_vars  PROVE MovedHeld'
  OBVIOUS
<1>1. ASSUME pc' \notin {"late", "print"}  PROVE MovedHeld'
  BY <1>1 DEF MovedHeld
<1>2. CASE Launch
  <2>1. pc' \in {"exit", "crash", "launch", "bare", "idle"}
    BY <1>2 DEF Launch, NoCommand, NoWord, OutputFile, SoPath, InvalidOption, Command, Finish,
       wrapperVars
  <2> QED BY <1>1, <2>1
<1>3. CASE Begin \/ PrintLine
  BY <1>1, <1>3 DEF Begin, PrintLine
<1>4. CASE Real
  <2>1. call \in Call /\ RealCall(call) /\ call' = call
    BY <1>4 DEF Real, Typed, Calling, InWrapper
  <2>2. call.count \in Nat
    BY <2>1, CallAssumption DEF CallRecord
  <2>3. CASE call.fn \in {"read", "write"}
    <3>1. Transfer(call, call.fd, -1)
      BY <2>1, <2>3 DEF RealCall, Fakes, Do
    <3> QED BY <2>1, <2>2, <2>3, <3>1 DEF Transfer, Succeed, FailWith, MovedHeld
  <2>4. CASE call.fn \in {"fread", "fwrite"}
    <3>1. Transfer(call, streams[call.stream], 0)
      BY <2>1, <2>4 DEF RealCall, Fakes, Do
    <3> QED BY <2>1, <2>2, <2>4, <3>1 DEF Transfer, Succeed, FailWith, MovedHeld
  <2> QED BY <2>1, <2>3, <2>4 DEF MovedHeld, Moves
<1>5. CASE Late \/ Others
  <2>1. UNCHANGED <<res, call>> /\ pc' \in {"late", "print"} => pc \in {"late", "print"}
    BY <1>5 DEF Late, Others, Outside, filesVars
  <2>2. UNCHANGED <<res, call>>
    BY <1>5 DEF Late, Others, Outside, filesVars
  <2> QED BY <2>1, <2>2 DEF MovedHeld, Moves
<1>6. CASE UNCHANGED vars
  BY <1>6 DEF vars, filesVars, wrapperVars, MovedHeld, Moves
<1> QED BY <1>2, <1>3, <1>4, <1>5, <1>6 DEF Next

LEMMA TimesGrows ==
  ASSUME NEW n \in Nat, NEW k \in Nat \ {0}  PROVE n <= n * k
OBVIOUS

LEMMA MovedIsShown == Typed /\ MovedHeld => ShownIsTransferred
<1> SUFFICES ASSUME Typed, MovedHeld, pc = "print", Moves
             PROVE  LET moved == IF call.fn \in {"fread", "fwrite"} THEN res.n * call.size ELSE res.n
                    IN /\ \A i \in Shown(call, res.n) : i < moved
                       /\ call.size = 1 =>
                            \A i \in 0..(moved - 1) : i < PRINT_SIZE => i \in Shown(call, res.n)
  BY DEF ShownIsTransferred
<1> DEFINE moved == IF call.fn \in {"fread", "fwrite"} THEN res.n * call.size ELSE res.n
<1>1. /\ call \in CallRecord /\ res.n \in Int /\ PRINT_SIZE \in Nat
      /\ res.n <= call.count
      /\ call.fn \in {"fread", "fwrite"} => res.n \in Nat
  BY CallAssumption, LoggerAssumption
     DEF MovedHeld, Typed, TypeOK, FilesTypeOK, Calling, InWrapper
<1>2. call.size \in Nat \ {0} /\ call.count \in Nat
  BY <1>1 DEF CallRecord
<1>3. res.n <= moved /\ moved \in Int
  BY <1>1, <1>2, TimesGrows
<1>4. \A i \in Shown(call, res.n) : i \in Int /\ i < res.n
  BY <1>1, <1>2 DEF Shown
<1>5. \A i \in Shown(call, res.n) : i < moved
  BY <1>1, <1>3, <1>4
<1>6. ASSUME call.size = 1, NEW i \in 0..(moved - 1), i < PRINT_SIZE
      PROVE  i \in Shown(call, res.n)
  <2>1. moved = res.n /\ call.size * call.count = call.count
    BY <1>1, <1>2, <1>6
  <2> QED BY <1>1, <1>2, <1>6, <2>1 DEF Shown
<1> QED BY <1>5, <1>6

\* No line shows a byte the call has not moved, for any buffer and item size, and none
\* of the first PRINT_SIZE is missing when the items are bytes.
THEOREM BuffersAreTrue == Spec => []ShownIsTransferred
BY TypedInit, TypedNext, MovedHeldInit, MovedHeldNext, MovedIsShown, PTL DEF Spec

----------------------------------------------------------------------------
(* The logged program is a plain one, on a system that spares 2.           *)

LEMMA SameConstants ==
  /\ Program!Closed = Closed /\ Program!NoFd = NoFd
  /\ Program!Nothing = Nothing /\ Program!NoName = NoName
BY DEF Program!Closed, Closed, Program!NoFd, NoFd, Program!Nothing, Nothing,
       Program!NoName, NoName

\* What is open, free, new and reached is the same for the plain program.
LEMMA SameState ==
  /\ Program!Free = Free /\ Program!Fresh = Fresh /\ Program!Unused = Unused
  /\ \A f : Program!Open(f) <=> Open(f)
  /\ \A n : Program!Reached(n) = Reached(n) /\ Program!RealPath(n) = RealPath(n)
  /\ \A n : Program!Succeed(n) <=> Succeed(n)
  /\ \A n, e : Program!FailWith(n, e) <=> FailWith(n, e)
  /\ \A e : Program!Fail(e) <=> Fail(e)
  /\ \A n, m : Program!Moved(n, m) = Moved(n, m)
<1> USE SameConstants
<1>1. Program!Free = Free /\ Program!Fresh = Fresh /\ Program!Unused = Unused
  BY DEF Free, Program!Free, Fresh, Program!Fresh, Unused, Program!Unused
<1>2. \A f : Program!Open(f) <=> Open(f)
  BY DEF Open, Program!Open
<1>3. \A n : Program!Reached(n) = Reached(n)
  BY DEF Reached, Program!Reached
<1>4. \A n : Program!RealPath(n) = RealPath(n)
  BY <1>3 DEF RealPath, Program!RealPath
<1>5. \A n : Program!Succeed(n) <=> Succeed(n)
  BY DEF Succeed, Program!Succeed
<1>6. \A n, e : Program!FailWith(n, e) <=> FailWith(n, e)
  BY DEF FailWith, Program!FailWith
<1>7. \A e : Program!Fail(e) <=> Fail(e)
  BY <1>6 DEF Fail, Program!Fail
<1>8. \A n, m : Program!Moved(n, m) = Moved(n, m)
  BY DEF Moved, Program!Moved
<1> QED BY <1>1, <1>2, <1>3, <1>4, <1>5, <1>6, <1>7, <1>8

\* A call of the logged program is one of the plain program.
LEMMA DoMaps == ASSUME NEW c, Do(c)  PROVE Program!Do(c)
<1> USE SameConstants, SameState
<1>o. ASSUME NEW n, NEW mode, NEW f, OpenAt(n, mode, f)  PROVE Program!OpenAt(n, mode, f)
  BY <1>o DEF OpenAt, Program!OpenAt
<1>O. OpenFails(c) => Program!OpenFails(c)
  BY DEF OpenFails, Program!OpenFails
<1>1. Change(c) => Program!Change(c)
  BY DEF Change, Program!Change
<1>2. OpenFd(c) => Program!OpenFd(c)
  BY <1>o, <1>O DEF OpenFd, Program!OpenFd
<1>3. OpenStream(c) => Program!OpenStream(c)
  BY <1>o, <1>O DEF OpenStream, Program!OpenStream
<1>4. OpenTmp(c) => Program!OpenTmp(c)
  BY DEF OpenTmp, Program!OpenTmp
<1>5. CloseFd(c) => Program!CloseFd(c)
  BY DEF CloseFd, Program!CloseFd
<1>6. CloseStream(c) => Program!CloseStream(c)
  BY DEF CloseStream, Program!CloseStream
<1>7. ASSUME NEW f, NEW n, Transfer(c, f, n)  PROVE Program!Transfer(c, f, n)
  BY <1>7 DEF Transfer, Program!Transfer
<1>8. Rename(c) => Program!Rename(c)
  BY DEF Rename, Program!Rename
<1>9. Remove(c) => Program!Remove(c)
  BY DEF Remove, Program!Remove
<1> QED
  BY DoByName, <1>1, <1>2, <1>3, <1>4, <1>5, <1>6, <1>7, <1>8, <1>9 DEF Program!Do

LEMMA PlainInit == Init => Program!PInit
BY DEF Init, Program!PInit, Launched, InWrapper, Asked, NoCall, Program!NotAsked

\* What the launcher opens takes nothing away.
LEMMA LaunchPrepares ==
  ASSUME FilesTypeOK, Launch
  PROVE  /\ \A f \in Fd : Open(f) => fds'[f] = fds[f]
         /\ \A n \in Name : dir[n] # Nothing => dir'[n] = dir[n]
<1>1. CASE UNCHANGED <<fds, dir>>
  BY <1>1
<1>2. ASSUME NEW f \in Free, NEW n, OpenAt(n, "any", f)
      PROVE  /\ \A g \in Fd : Open(g) => fds'[g] = fds[g]
             /\ \A m \in Name : dir[m] # Nothing => dir'[m] = dir[m]
  BY <1>2 DEF OpenAt, Free, Open, FilesTypeOK
<1> QED
  BY <1>1, <1>2 DEF Launch, NoCommand, NoWord, OutputFile, SoPath, InvalidOption, Command,
     Finish, filesVars

LEMMA PlainNext == Typed /\ [Next]_vars => [Program!PNext]_(Program!plainVars)
<1> SUFFICES ASSUME Typed, [Next]_vars  PROVE Program!PNext \/ UNCHANGED Program!plainVars
  OBVIOUS
<1>n. NoCall = Program!NotAsked /\ NoCall \notin Call
  <2>1. \A c \in Call : c.fn \in Function
    BY CallAssumption DEF CallRecord
  <2>2. NoCall.fn \notin Function
    BY DEF NoCall, Function
  <2> QED BY <2>1, <2>2 DEF NoCall, Program!NotAsked
<1>1. CASE Launch
  <2>1. pc = "launch" /\ pc' # "real" /\ UNCHANGED <<streams, res>>
    BY <1>1 DEF Launch, NoCommand, NoWord, OutputFile, SoPath, InvalidOption, Command, Finish,
       wrapperVars, filesVars
  <2>2. ~Launched /\ UNCHANGED Asked /\ Launched' \in BOOLEAN
    BY <2>1 DEF Launched, InWrapper, Asked
  <2>3. /\ \A f \in Fd : Program!Open(f) => fds'[f] = fds[f]
        /\ \A n \in Name : dir[n] # Program!Nothing => dir'[n] = dir[n]
    BY <1>1, LaunchPrepares, SameConstants, SameState DEF Typed, TypeOK
  <2> QED BY <2>1, <2>2, <2>3 DEF Program!PNext, Program!Prepare
<1>2. CASE Begin
  <2>1. UNCHANGED <<fds, streams, dir, res>> /\ pc = "idle" /\ pc' = "real" /\ call' \in Call
    BY <1>2 DEF Begin, filesVars
  <2>2. UNCHANGED Launched /\ Launched /\ Asked = Program!NotAsked /\ Asked' \in Call
    BY <2>1, <1>n DEF Launched, InWrapper, Asked
  <2> QED BY <2>1, <2>2 DEF Program!PNext, Program!Ask, Program!filesVars
<1>3. CASE Real
  <2>1. pc = "real" /\ pc' = "late" /\ RealCall(call) /\ call \in Call
    BY <1>3 DEF Real, Typed, Calling, InWrapper
  <2>2. UNCHANGED Launched /\ Launched /\ Asked = call /\ Asked' = Program!NotAsked
    BY <2>1, <1>n DEF Launched, InWrapper, Asked
  <2>3. Program!IsSpared(call) <=> Fakes(call)
    BY DEF Program!IsSpared, Fakes
  <2>4. CASE Fakes(call)
    <3>1. Program!Succeed(0) /\ UNCHANGED <<fds, streams, dir>>
      BY <2>1, <2>4, SameState DEF RealCall
    <3> QED BY <2>1, <2>2, <2>3, <2>4, <3>1 DEF Program!PNext, Program!Answer
  <2>5. CASE ~Fakes(call)
    <3>1. Program!Do(call) /\ Program!LowestFirst
      BY <2>1, <2>5, DoMaps, SameConstants, SameState
         DEF RealCall, LowestFirst, Program!LowestFirst
    <3> QED BY <2>1, <2>2, <2>3, <2>5, <3>1 DEF Program!PNext, Program!Answer
  <2> QED BY <2>4, <2>5
<1>4. CASE Late \/ PrintLine
  <2>1. UNCHANGED <<fds, streams, dir, res>> /\ Launched /\ Launched'
        /\ pc # "real" /\ pc' # "real"
    BY <1>4 DEF Late, PrintLine, filesVars, Launched, InWrapper
  <2>2. UNCHANGED <<Asked, Launched>>
    BY <2>1 DEF Asked
  <2> QED BY <2>1, <2>2 DEF Program!plainVars
<1>5. CASE Others
  <2>1. UNCHANGED <<fds, streams, res, pc, call>> /\ Launched /\ Outside
    BY <1>5 DEF Others, Outside
  <2>2. UNCHANGED <<Asked, Launched>>
    BY <2>1 DEF Asked, Launched, InWrapper
  <2>3. Program!Outside
    BY <2>1, SameConstants, SameState DEF Outside, Program!Outside
  <2> QED BY <2>1, <2>2, <2>3 DEF Program!PNext, Program!Meanwhile
<1>6. CASE UNCHANGED vars
  <2>1. UNCHANGED <<fds, streams, dir, res, pc, call>>
    BY <1>6 DEF vars, filesVars, wrapperVars
  <2> QED BY <2>1 DEF Program!plainVars, Asked, Launched, InWrapper
<1> QED BY <1>1, <1>2, <1>3, <1>4, <1>5, <1>6 DEF Next

\* Every program runs under the logger as on a system of its own whose close spares
\* descriptor 2: what it sees of its descriptors, streams, files and results, the
\* numbers of its descriptors included, is a behaviour of Plain with Spared = {2}.
THEOREM LoggerIsUnnoticed == Spec => Unnoticed
<1>1. Typed /\ [Next]_vars => Typed' /\ [Program!PNext]_(Program!plainVars)
  BY TypedNext, PlainNext
<1> QED BY <1>1, TypedInit, PlainInit, PTL DEF Spec, Unnoticed, Program!PSpec
=============================================================================
