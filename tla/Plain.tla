------------------------------- MODULE Plain -------------------------------
(***************************************************************************)
(* The program as it runs without the logger of project2: it asks for a    *)
(* call of the library, the call is done, once, and nothing else but other *)
(* processes changes its descriptors and files.  An open takes the lowest  *)
(* free descriptor.  Spared are the descriptors that close answers for     *)
(* without closing them; on an ordinary system there are none.             *)
(***************************************************************************)
EXTENDS Files

CONSTANT Spared

VARIABLES running, asked

plainVars == <<fds, streams, dir, res, running, asked>>

NotAsked == [fn |-> "none"]

PInit == ~running /\ asked = NotAsked

\* Before the program runs, more files may be made and opened; what it will find of its
\* own stays as it is.
Prepare ==
  /\ ~running /\ running' \in BOOLEAN
  /\ \A f \in Fd : Open(f) => fds'[f] = fds[f]
  /\ \A n \in Name : dir[n] # Nothing => dir'[n] = dir[n]
  /\ UNCHANGED <<streams, res, asked>>

Ask ==
  /\ running /\ asked = NotAsked /\ asked' \in Call
  /\ UNCHANGED <<filesVars, running>>

IsSpared(c) == c.fn = "close" /\ c.fd \in Spared
Answer ==
  /\ running /\ asked \in Call /\ asked' = NotAsked
  /\ IF IsSpared(asked)
     THEN Succeed(0) /\ UNCHANGED <<fds, streams, dir>>
     ELSE Do(asked) /\ LowestFirst
  /\ UNCHANGED running

Meanwhile == running /\ Outside /\ UNCHANGED <<running, asked>>

PNext == Prepare \/ Ask \/ Answer \/ Meanwhile

PSpec == PInit /\ [][PNext]_plainVars
=============================================================================
