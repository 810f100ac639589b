---------------------------- MODULE MCObjectWait ----------------------------
(***************************************************************************)
(* Two programs. Three threads share two mutants and a semaphore: a plain   *)
(* wait, a wait for any with a time-out, a wait for all. Two threads: an    *)
(* auto-reset event, the object of one of them, a mutant that is taken      *)
(* twice, alertable delays, APCs. Threads are symmetric in both.            *)
(***************************************************************************)
EXTENDS ObjectWait, TLC

ThreadSymmetry == Permutations(Threads)

MCObjects == {"m", "n", "s", "e", "end", "r"}
MCKind == [o \in MCObjects |->
            CASE o \in {"m", "n", "r"} -> "mutant" [] o = "s" -> "sem"
              [] o = "e" -> "sync" [] o = "end" -> "thread"]
MCRecursion == [o \in MCObjects |-> IF o = "r" THEN 2 ELSE 1]

Req(objs, all, t, a) == [objs |-> objs, all |-> all, timed |-> t, alertable |-> a]

Shared == [threads |-> Threads, objects |-> {"m", "n", "s"}, subject |-> None, maxApc |-> 0,
           requests |-> {Req(<<"m">>, FALSE, FALSE, FALSE), Req(<<"n", "s">>, FALSE, TRUE, FALSE),
                         Req(<<"m", "n">>, TRUE, FALSE, FALSE)}]

Dying(t, u) == [threads |-> {t, u}, objects |-> {"e", "end", "r"}, subject |-> t, maxApc |-> 1,
                requests |-> {Req(<<"e", "end">>, FALSE, TRUE, TRUE), Req(<<"e", "r">>, TRUE, FALSE, FALSE),
                              Req(<<>>, FALSE, FALSE, TRUE)}]

MCSettings == {Shared} \cup {Dying(p[1], p[2]) : p \in {q \in Threads \X Threads : q[1] # q[2]}}
=============================================================================
