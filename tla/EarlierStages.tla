---------------------------- MODULE EarlierStages ----------------------------
(* The two earlier stages of the kernel, KernelLvl1 and KernelLvl2.  A boot is *)
(* one stage's, with routines of that stage.                                   *)
EXTENDS ScanServices

CONSTANT StageRoutines  \* the routines of each stage

\* Only the first stage has a thread that ends without asking for a reschedule.
ASSUME StageAssumption ==
    /\ StageRoutines \in [{1, 2} -> SUBSET Routines]
    /\ \A r \in StageRoutines[2] : "exit" \notin ToSet(r)

VARIABLES stage,     \* 1 or 2
          exist      \* the flag of stage 2's process

Lvl1 == INSTANCE KernelLvl1
Lvl2 == INSTANCE KernelLvl2

Runs(threads, routines) == \A t \in DOMAIN threads : threads[t].routine \in routines \cup {<<>>}
OfStage == Runs(kernel.threads, StageRoutines[stage])

vars == <<phase, kernel, stage, exist>>

Init == /\ stage \in {1, 2}
        /\ IF stage = 1 THEN Lvl1!Init /\ exist = FALSE ELSE Lvl2!Init
        /\ OfStage
Step == /\ IF stage = 1 THEN Lvl1!Next /\ UNCHANGED exist ELSE Lvl2!Next
        /\ UNCHANGED stage
        /\ OfStage'

\* main makes its next call.
Spec == Init /\ [][Step]_vars /\ WF_vars(Step)

------------------------------------------------------------------------------
\* Threads, wait queues and ownership agree at every call main makes: BLOCKED
\* threads are those queued; nobody waits for a lower owner or for a completion
\* that is remembered; only an owner comes to release the mutex.  In the second
\* stage one thread runs and main always finds it ("to keep one thread running
\* invariant intact"), a dying thread's owned_mutex names what it owns, and the
\* mutex can neither be freed under a waiter nor outlive its last user.
KernelExact ==
    /\ WaitQueuesExact /\ PriorityInherited /\ EventNotMissed
    /\ stage = 1 => Lvl1!ReleasedByOwner
    /\ stage = 2 => Lvl2!OneThreadRuns /\ Lvl2!OwnerKnown /\ Lvl2!ReferencesExact
================================================================================
