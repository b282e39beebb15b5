----------------------------- MODULE MCLibmini -----------------------------
(***************************************************************************)
(* Client programs for the model checker: the test programs of project3,   *)
(* small programs for one question each, and clients that make any call.   *)
(***************************************************************************)
EXTENDS LibminiProperties

Base(op, next) ==
  [op |-> op, next |-> next, on |-> "any", sig |-> "KILL", handler |-> "dfl",
   how |-> "other", set |-> {}, flags |-> {}, n |-> 0]
Num(op, n, next) == [Base(op, next) EXCEPT !.n = n]
Mask(how, set, next) == [Base("sigprocmask", next) EXCEPT !.how = how, !.set = set]
Handle(s, h, next) == [Base("signal", next) EXCEPT !.sig = s, !.handler = h]
On(value, call) == [call EXCEPT !.on = value]

Alrm == sigaddset(sigemptyset, "ALRM")
Intr == sigdelset(sigdelset(sigfillset, "ALRM"), "KILL")

\* The handler that only returns, and the test programs.
Tests ==
  [catch |-> {Base("return", "catch")},

   alarm1 |-> {Num("alarm", 3, "alarm1pause")},
   alarm1pause |-> {Base("pause", "alarm1end")},
   alarm1end |-> {Base("exit", "returned")},

   alarm2 |-> {Mask("SIG_BLOCK", Alrm, "alarm2alarm")},
   alarm2alarm |-> {Num("alarm", 3, "alarm2sleep")},
   alarm2sleep |-> {Num("sleep", 5, "alarm2look")},
   alarm2look |-> {Base("sigpending", "alarm2test")},
   alarm2test |-> {On("more", Num("perror", 1, "alarm2end")), On("zero", Base("exit", "alarm2end"))},
   alarm2end |-> {Base("exit", "returned")},

   alarm3 |-> {Mask("SIG_BLOCK", Alrm, "alarm3ignore")},
   alarm3ignore |-> {Handle("ALRM", "ign", "alarm3catch")},
   alarm3catch |-> {Handle("INT", "fn", "alarm3alarm")},
   alarm3alarm |-> {Num("alarm", 1, "alarm3pause")},
   alarm3pause |-> {Base("pause", "alarm3look")},
   alarm3look |-> {Base("sigpending", "alarm3end")},
   alarm3end |-> {Base("exit", "returned")},
   returned |-> {}]

\* read with a time limit, and a nap that goes on after every signal.
Waiting ==
  [catch |-> {Base("return", "catch")},

   read |-> {Handle("INT", "fn", "readcatch")},
   readcatch |-> {Handle("ALRM", "fn", "readalarm")},
   readalarm |-> {Num("alarm", 2, "readwait")},
   readwait |-> {Base("read", "readback")},
   readback |-> {Base("exit", "readback")},

   nap |-> {Handle("INT", "fn", "napsleep")},
   napsleep |-> {Num("sleep", 3, "napagain")},
   napagain |-> {On("more", Num("sleep", LastValue, "napagain")), On("zero", Base("exit", "napped"))},
   napped |-> {Base("exit", "napped")}]

MCTests == Tests @@ Waiting

\* A jump back past a mask that was set before setjmp.
MCKeep ==
  [catch |-> {Base("return", "catch")},
   keep |-> {Mask("SIG_BLOCK", Alrm, "keepalarm")},
   keepalarm |-> {Num("alarm", 1, "keepset")},
   keepset |-> {Base("setjmp", "keepjump")},
   keepjump |-> {On("zero", Num("longjmp", 1, "keepjump")), On("more", Base("exit", "kept"))},
   kept |-> {}]

\* Clients that make their calls in any order: with masks, with jumps, and with the
\* calls that only give an answer.  Their handlers block, wait and jump out.
Sets == {Intr, Alrm}
Block(p) == {Mask("SIG_BLOCK", set, p) : set \in Sets}
Unblock(p) == {Mask(how, set, p) : how \in {"SIG_UNBLOCK", "SIG_SETMASK"}, set \in Sets}
Catching(p) == {Handle(s, "fn", p) : s \in {"INT", "ALRM"}}
Waits(p) == {Num("alarm", 1, p), Base("pause", p)}

MCCalls ==
  [catch |-> Block("catch") \cup Waits("catch")
               \cup {Num("longjmp", 1, "catch"), Base("return", "catch")},
   mask |-> Block("mask") \cup Unblock("mask") \cup Waits("mask") \cup Catching("mask")
              \cup {Handle("ALRM", "ign", "mask")},
   jump |-> Catching("jump")
              \cup {Base("setjmp", "jump"), Num("longjmp", 1, "jump"), Num("longjmp", 0, "jump"),
                    Num("alarm", 1, "jump"), Num("sleep", 1, "jump"), Base("read", "jump"),
                    Base("exit", "jump"), Handle("ALRM", "dfl", "jump"),
                    [Base("sigaction", "jump") EXCEPT !.sig = "INT", !.handler = "fn", !.set = Alrm]},
   answers |-> Block("answers")
             \cup {Num("perror", prefix, "answers") : prefix \in {0, 1}}
             \cup {Mask("other", Alrm, "answers"), Base("other", "answers"),
                   Base("sigpending", "answers"), Handle("KILL", "ign", "answers"),
                   [Base("sigaction", "answers") EXCEPT !.sig = "INT", !.handler = "query"]}]

\* All the clients here are of the kind NoReentry is about.
ASSUME ClientAssumption == Defers({"catch"})
=============================================================================
