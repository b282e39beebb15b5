------------------------------ MODULE MCLogger ------------------------------
(* A small instance: two paths, the second at first free or a link to the  *)
(* first, and the one the log goes to; two streams.                         *)
EXTENDS LoggerProperties, TLC

CONSTANTS A, S, I1, I2, E, F

Plainly == [fn |-> "tmpfile", name |-> A, name2 |-> A, fd |-> 2, stream |-> F,
            mode |-> "old", size |-> 1, count |-> 0]
MCCall ==
  {Plainly}
  \cup {[Plainly EXCEPT !.fn = f, !.name = S] : f \in {"chmod", "remove"}}
  \cup {[Plainly EXCEPT !.fn = "rename", !.name = n, !.name2 = m] :
          <<n, m>> \in {<<A, S>>, <<S, A>>}}
  \cup {[Plainly EXCEPT !.fn = "open", !.name = n, !.mode = "new"] : n \in {A, S}}
  \cup {[Plainly EXCEPT !.fn = f, !.name = S] : f \in {"open", "fopen"}}
  \cup {[Plainly EXCEPT !.fn = "creat", !.mode = "any"]}
  \cup {[Plainly EXCEPT !.fn = "close", !.fd = f] : f \in Fd}
  \cup {[Plainly EXCEPT !.fn = f, !.fd = 4, !.count = 2] : f \in {"read", "write"}}
  \cup {[Plainly EXCEPT !.fn = f, !.count = 2, !.size = s] : f \in {"fread", "fwrite"}, s \in {1, 2}}
  \cup {[Plainly EXCEPT !.fn = "fclose", !.stream = s] : s \in Stream}

MCCommandLine ==
  { <<>>, <<"-x">>, <<"cmd">>, <<"--", "cmd", "-o">>, <<"-p">>,
    <<"-o", S, "cmd">>, <<"-o", S, "-p", "so", "--", "cmd">> }
\* The log is in a file.
ToFile == {line \in MCCommandLine : line # <<>> /\ line[1] = "-o"}
MCTree == {[n \in Name |-> IF n = A THEN I1 ELSE x] : x \in {A, Nothing}}
=============================================================================
