------------------------------ MODULE HandleMap ------------------------------
(***************************************************************************)
(* What the global EventSet map promises: a handle is given to one thread  *)
(* at a time and denotes one EventSet, the same at every look-up, until    *)
(* that thread destroys it; no EventSet has two handles.  A creation that  *)
(* fails changes nothing.                                                  *)
(***************************************************************************)
CONSTANTS
  Threads,  \* threads of the program
  Handles,  \* values of a handle
  Sets,     \* EventSets
  NULL      \* no EventSet

VARIABLES
  table,    \* the EventSet and the thread of every handle given out
  answer    \* what the call of each thread has looked up

Init ==
  /\ table = {}
  /\ answer = [t \in Threads |-> NULL]

Entry(h, s, t) == [handle |-> h, set |-> s, master |-> t]

Create(t) ==
  \E h \in Handles, s \in Sets :
    /\ \A e \in table : e.handle # h /\ e.set # s
    /\ table' = table \cup {Entry(h, s, t)}
    /\ UNCHANGED answer

Lookup(t) ==
  \E e \in table :
    /\ e.master = t
    /\ answer' = [answer EXCEPT ![t] = e.set]
    /\ UNCHANGED table

Destroy(t) ==
  \E e \in table :
    /\ e.master = t
    /\ table' = table \ {e}
    /\ UNCHANGED answer

Return(t) == answer' = [answer EXCEPT ![t] = NULL] /\ UNCHANGED table

Next == \E t \in Threads : Create(t) \/ Lookup(t) \/ Destroy(t) \/ Return(t)

Spec == Init /\ [][Next]_<<table, answer>>
=============================================================================
