--------------------------- MODULE ThreadRegistry ---------------------------
(***************************************************************************)
(* What the list of ThreadInfo_t (threads.c) promises: a set of threads    *)
(* that join and leave one at a time, that starts with the thread that     *)
(* initialises the library, and that a shutdown empties.                   *)
(***************************************************************************)
CONSTANT Threads
VARIABLE members

Init == members = {}

Join(t) == /\ t \notin members
           /\ members' = members \cup {t}
Leave(t) == /\ t \in members
            /\ members' = members \ {t}
Start(t) == members' = {t}
Close == members' = {}

Next == \/ \E t \in Threads : Join(t) \/ Leave(t) \/ Start(t)
        \/ Close

Spec == Init /\ [][Next]_members
=============================================================================
