------------------------------ MODULE OnceInit ------------------------------
(***************************************************************************)
(* What the lazy initialisation of a group of hooks promises: one thread   *)
(* wins and looks up every function, once; a thread calls a real function  *)
(* only when it has been looked up; the group is ready only when nothing   *)
(* is missing, and stays so.                                               *)
(***************************************************************************)
CONSTANTS Threads, Nobody, Functions, None

VARIABLES winner,   \* the thread that initialises, or Nobody
          missing,  \* functions not yet looked up
          ready,    \* the initialisation has been published
          calling   \* the real function each thread is calling, or None

vars == <<winner, missing, ready, calling>>

Init ==
    /\ winner = Nobody
    /\ missing \in (SUBSET Functions) \ {{}}
    /\ ready = FALSE
    /\ calling = [t \in Threads |-> None]

Win(t) ==
    /\ winner = Nobody
    /\ winner' = t
    /\ UNCHANGED <<missing, ready, calling>>

LookUp(f) ==
    /\ winner # Nobody /\ ~ready
    /\ f \in missing
    /\ missing' = missing \ {f}
    /\ UNCHANGED <<winner, ready, calling>>

Publish ==
    /\ winner # Nobody /\ ~ready
    /\ missing = {}
    /\ ready' = TRUE
    /\ UNCHANGED <<winner, missing, calling>>

Enter(t, f) ==
    /\ calling[t] = None
    /\ f \notin missing
    /\ calling' = [calling EXCEPT ![t] = f]
    /\ UNCHANGED <<winner, missing, ready>>

Leave(t) ==
    /\ calling[t] # None
    /\ calling' = [calling EXCEPT ![t] = None]
    /\ UNCHANGED <<winner, missing, ready>>

Next ==
    \/ Publish
    \/ \E f \in Functions : LookUp(f)
    \/ \E t \in Threads : \/ Win(t) \/ Leave(t)
                          \/ \E f \in Functions : Enter(t, f)

Spec == Init /\ [][Next]_vars
=============================================================================
