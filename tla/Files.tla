------------------------------- MODULE Files -------------------------------
(***************************************************************************)
(* Descriptors, streams and paths as the programs under project2's logger  *)
(* use them: what the calls of the C library that share.cpp wraps do.  The *)
(* kernel and the library are not code of the repository.                  *)
(*                                                                         *)
(* A descriptor is open on an inode; a name of the directory leads to an   *)
(* inode, or is a symbolic link to another name, which is followed once.   *)
(* An inode has at most one name.  Contents are left out.                  *)
(***************************************************************************)
EXTENDS Integers

CONSTANTS
  Fd,       \* the descriptors a process may have
  Name,     \* the paths
  Inode,    \* the files
  Tty,      \* the terminal, an inode without a name in the directory
  Stream,   \* the FILE objects
  Call      \* the calls the program may make

Closed == "closed"
NoFd == -1
Nothing == "nothing"   \* what a name leads to that does not exist
NoName == "untouched"  \* what realpath and readlink give when they fail
Deleted == "deleted"   \* what a descriptor's link says of a file without a name

Reason == {"none", "ENOENT", "EEXIST", "EMFILE", "EBADF", "EPERM", "EINTR"}

ASSUME FilesAssumption ==
  /\ 2 \in Fd /\ Fd \subseteq Nat
  /\ Tty \in Inode /\ Inode \cap Name = {}
  /\ {Closed, Nothing} \cap (Inode \cup Name) = {}
  /\ {NoName, Deleted} \cap (Inode \cup Name) = {}

VARIABLES
  fds,       \* fds[f]: the inode f is open on
  streams,   \* streams[s]: the descriptor of s
  dir,       \* dir[n]: an inode, the name a link points to, or Nothing
  res        \* what the last call returned, n a descriptor or a count, and if it
             \* failed why

filesVars == <<fds, streams, dir, res>>

FilesTypeOK ==
  /\ fds \in [Fd -> Inode \cup {Closed}]
  /\ streams \in [Stream -> Fd \cup {NoFd}]
  /\ dir \in [Name -> Inode \cup Name \cup {Nothing}]
  /\ res \in [ok : BOOLEAN, n : Int, why : Reason]

Function == {"chmod", "chown", "close", "creat", "fopen", "fclose", "fread", "fwrite",
             "open", "rename", "write", "read", "tmpfile", "remove"}

\* A call: the fields a function does not use are idle.
CallRecord ==
  [fn : Function, name : Name, name2 : Name, fd : Fd, stream : Stream,
   mode : {"old", "any", "new"}, size : Nat \ {0}, count : Nat]
ASSUME CallAssumption == Call \subseteq CallRecord

Open(f) == f \in Fd /\ fds[f] # Closed
Free == {f \in Fd : fds[f] = Closed}
Unused == {s \in Stream : streams[s] = NoFd}
Fresh == {i \in Inode \ {Tty} : (\A n \in Name : dir[n] # i) /\ (\A f \in Fd : fds[f] # i)}

\* Where open, chmod and realpath arrive.
Reached(n) == IF dir[n] \in Name THEN dir[n] ELSE n
RealPath(n) == IF dir[Reached(n)] \in Inode THEN Reached(n) ELSE NoName

\* readlink("/proc/self/fd/f").
FdName(f) ==
  IF ~Open(f) THEN NoName
  ELSE IF fds[f] = Tty THEN Tty
  ELSE IF \E n \in Name : dir[n] = fds[f] THEN CHOOSE n \in Name : dir[n] = fds[f]
  ELSE Deleted

----------------------------------------------------------------------------
Succeed(n) == res' = [ok |-> TRUE, n |-> n, why |-> "none"]
FailWith(n, e) == res' = [ok |-> FALSE, n |-> n, why |-> e]
Fail(e) == FailWith(-1, e) /\ UNCHANGED <<fds, streams, dir>>

\* chmod and chown; the caller may not own the file.
Change(c) ==
  \/ /\ RealPath(c.name) # NoName /\ Succeed(0)
     /\ UNCHANGED <<fds, streams, dir>>
  \/ RealPath(c.name) = NoName /\ Fail("ENOENT")
  \/ Fail("EPERM")

\* What open does to name n: mode "old" wants a file, "any" creates one where there
\* is none, "new" wants none.  The process or the system may be out of descriptors.
OpenAt(name, mode, f) ==
  LET n == Reached(name) IN
  \/ /\ dir[n] \in Inode /\ mode # "new"
     /\ fds' = [fds EXCEPT ![f] = dir[n]] /\ UNCHANGED dir
  \/ /\ dir[n] = Nothing /\ (mode = "any" \/ (mode = "new" /\ n = name))
     /\ \E i \in Fresh : fds' = [fds EXCEPT ![f] = i] /\ dir' = [dir EXCEPT ![n] = i]
OpenFails(c) ==
  \/ c.mode = "old" /\ RealPath(c.name) = NoName /\ Fail("ENOENT")
  \/ c.mode = "new" /\ dir[c.name] # Nothing /\ Fail("EEXIST")
  \/ Fail("EMFILE")

OpenFd(c) ==
  \/ \E f \in Free : OpenAt(c.name, c.mode, f) /\ Succeed(f) /\ UNCHANGED streams
  \/ OpenFails(c)

OpenStream(c) ==
  \/ \E f \in Free, s \in Unused :
       OpenAt(c.name, c.mode, f) /\ streams' = [streams EXCEPT ![s] = f] /\ Succeed(0)
  \/ OpenFails(c)

\* tmpfile: a file that has lost its name already.
OpenTmp(c) ==
  \/ \E f \in Free, s \in Unused, i \in Fresh :
       /\ fds' = [fds EXCEPT ![f] = i] /\ streams' = [streams EXCEPT ![s] = f]
       /\ Succeed(0) /\ UNCHANGED dir
  \/ Fail("EMFILE")

CloseFd(c) ==
  \/ /\ Open(c.fd)
     /\ fds' = [fds EXCEPT ![c.fd] = Closed] /\ Succeed(0)
     /\ UNCHANGED <<streams, dir>>
  \/ ~Open(c.fd) /\ Fail("EBADF")

\* fclose closes the descriptor too, unless the program has done so before.
CloseStream(c) ==
  LET f == streams[c.stream] IN
  /\ streams' = [streams EXCEPT ![c.stream] = NoFd]
  /\ \/ Open(f) /\ fds' = [fds EXCEPT ![f] = Closed] /\ Succeed(0)
     \/ ~Open(f) /\ FailWith(-1, "EBADF") /\ UNCHANGED fds
  /\ UNCHANGED dir

\* Up to c.count bytes, or items, are moved; failed is what a failure returns.
Transfer(c, f, failed) ==
  /\ \/ Open(f) /\ \E k \in 0..c.count : Succeed(k)
     \/ ~Open(f) /\ FailWith(failed, "EBADF")
     \/ Open(f) /\ FailWith(failed, "EINTR")
  /\ UNCHANGED <<fds, streams, dir>>

\* rename and remove work on the name itself, also when it is a link.
Moved(old, new) ==
  IF old = new THEN dir ELSE [dir EXCEPT ![new] = dir[old], ![old] = Nothing]
Rename(c) ==
  \/ /\ dir[c.name] # Nothing
     /\ dir' = Moved(c.name, c.name2) /\ Succeed(0)
     /\ UNCHANGED <<fds, streams>>
  \/ dir[c.name] = Nothing /\ Fail("ENOENT")
  \/ Fail("EPERM")
Remove(c) ==
  \/ /\ dir[c.name] # Nothing
     /\ dir' = [dir EXCEPT ![c.name] = Nothing] /\ Succeed(0)
     /\ UNCHANGED <<fds, streams>>
  \/ dir[c.name] = Nothing /\ Fail("ENOENT")
  \/ Fail("EPERM")

\* The call c of the C library.
Do(c) ==
  CASE c.fn \in {"chmod", "chown"} -> Change(c)
    [] c.fn \in {"creat", "open"} -> OpenFd(c)
    [] c.fn = "fopen" -> OpenStream(c)
    [] c.fn = "tmpfile" -> OpenTmp(c)
    [] c.fn = "close" -> CloseFd(c)
    [] c.fn = "fclose" -> CloseStream(c)
    [] c.fn \in {"read", "write"} -> Transfer(c, c.fd, -1)
    [] c.fn \in {"fread", "fwrite"} -> Transfer(c, streams[c.stream], 0)
    [] c.fn = "rename" -> Rename(c)
    [] OTHER -> Remove(c)

\* The kernel gives out the lowest free descriptor.
LowestFirst ==
  \A f, g \in Free : fds'[f] # Closed => f <= g

\* A C program does not use a stream it has closed.
Usable(c) == c.fn \in {"fclose", "fread", "fwrite"} => streams[c.stream] # NoFd

\* Another process renames or removes a file.
Outside ==
  /\ \E n \in Name :
       /\ dir[n] # Nothing
       /\ \/ \E m \in Name \ {n} : dir' = Moved(n, m)
          \/ dir' = [dir EXCEPT ![n] = Nothing]
  /\ UNCHANGED <<fds, streams, res>>
=============================================================================
