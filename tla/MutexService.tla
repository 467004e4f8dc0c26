----------------------------- MODULE MutexService -----------------------------
(* What AcquireMutex and ReleaseMutex promise their callers, whatever the      *)
(* scheduler does: exclusive ownership, and a hand-off that passes it to one   *)
(* of the threads that wait; the mutex becomes free only when nobody waits.    *)
CONSTANTS Threads, None

VARIABLES owner, waiting

Init == owner = None /\ waiting = {}

Acquire(t) == /\ owner = None
              /\ owner' = t /\ UNCHANGED waiting

Wait(t) == /\ owner # None /\ t \notin waiting \cup {owner}
           /\ waiting' = waiting \cup {t} /\ UNCHANGED owner

HandOff(t) == /\ owner # None /\ t \in waiting
              /\ owner' = t /\ waiting' = waiting \ {t}

Free == /\ owner # None /\ waiting = {}
        /\ owner' = None /\ UNCHANGED waiting

Next == Free \/ \E t \in Threads : Acquire(t) \/ Wait(t) \/ HandOff(t)

vars == <<owner, waiting>>

Spec == Init /\ [][Next]_vars
================================================================================
