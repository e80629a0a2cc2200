----------------------------- MODULE MultiplexMC -----------------------------
(* Multiplex on one thread with two EventSets, or on two with one each.    *)
EXTENDS Multiplex, TLC

CONSTANTS t1, t2, s1, s2, itimer1

\* Both EventSets belong to one thread.
OneMaster == s1 :> t1 @@ s2 :> t1

TwoMasters == s1 :> t1 @@ s2 :> t2

\* POSIX: the process has one ITIMER_PROF.
TimerPerProcess == [t \in Threads |-> itimer1]
=============================================================================
