---------------------------- MODULE RunControlMC ----------------------------
(* RunControl on two threads, one of them with two EventSets.              *)
EXTENDS RunControl, TLC

CONSTANTS t1, t2, itimer1, itimer2

\* Linux before 2.6.12: setitimer acts on the calling thread's own timer.
TimerPerThread == t1 :> itimer1 @@ t2 :> itimer2

\* POSIX: the process has one ITIMER_PROF.
TimerPerProcess == t1 :> itimer1 @@ t2 :> itimer1
=============================================================================
