----------------------------- MODULE ScanServices -----------------------------
(***************************************************************************)
(* The kernel services that BlueKernel_Lvl1.c and BlueKernel_lvl2.c share, *)
(* the two kernels that schedule by scanning the thread table.  Each       *)
(* operator takes the state k of the kernel and returns it as the call     *)
(* leaves it.  k is a record of                                            *)
(*   threads     thread_table, of records [routine, pc, priority, base,    *)
(*               quantum, state]                                           *)
(*   current     current_thread, 0 for NULL                                *)
(*   reschedule  reschedule_requested                                      *)
(*   owner, waiters         of the mutex, locked iff owner # 0             *)
(*   signaled, ioWaiters    of io_event                                    *)
(*   owned, refs            of stage 2 only: the threads whose owned_mutex *)
(*                          names the mutex, and its reference count       *)
(* The actions and the properties of both kernels speak of the variable    *)
(* kernel, which holds such a record.                                      *)
(***************************************************************************)
EXTENDS Integers, Sequences, SequencesExt

CONSTANTS
    QUANTUM,             \* the quantum of a new thread
    MAX_THREADS,         \* CreateThread has no test: a bound, here and for main
    Routines,            \* what the threads may run: sequences of calls, each
                         \* named for the services it uses
    BootRoutines,        \* those of them that may run before main's InitEvent
    UserPriorities

EventCalls == {"startIo", "wait", "startIoAndWait"}
Releases == {"release", "releaseAndTerminate"}
Ends == {"exit", "terminate", "releaseAndTerminate"}
Calls == {"work", "acquire"} \cup EventCalls \cup Releases \cup Ends

\* Before its n-th call routine r has asked for the mutex and not released it.
Holds(r, n) == \E i \in 1 .. n - 1 :
    r[i] = "acquire" /\ \A j \in i + 1 .. n - 1 : r[j] \notin Releases

\* A routine takes the mutex when it does not hold it, releases it when it does,
\* and ends with its last call.
RoutineFormed(r) ==
    /\ r \in Seq(Calls) /\ r # <<>>
    /\ \A i \in DOMAIN r : /\ r[i] \in Ends <=> i = Len(r)
                           /\ r[i] = "acquire" => ~Holds(r, i)
                           /\ r[i] \in Releases => Holds(r, i)

ASSUME ScanAssumption ==
    /\ QUANTUM \in Nat \ {0} /\ MAX_THREADS \in Nat \ {0, 1} /\ UserPriorities \subseteq Nat
    /\ \A r \in Routines : RoutineFormed(r)
    /\ BootRoutines \subseteq Routines /\ \A r \in BootRoutines : r[1] \notin EventCalls

VARIABLES phase, kernel  \* where main stands, and the state k

Threads == 1 .. MAX_THREADS
Current == kernel.threads[kernel.current]

AtBoot(threads, refs) ==
    [threads |-> threads, current |-> 0, reschedule |-> FALSE, owner |-> 0, waiters |-> <<>>,
     signaled |-> FALSE, ioWaiters |-> <<>>, owned |-> {}, refs |-> refs]

NewThread(r, p) == [routine |-> r, pc |-> 1, priority |-> p, base |-> p,
                    quantum |-> QUANTUM, state |-> "READY"]

Priority(k, t) == k.threads[t].priority
InState(k, s) == {t \in DOMAIN k.threads : k.threads[t].state = s}

\* The first index of the sequence q of threads that has the highest priority.
Best(k, q) == CHOOSE i \in DOMAIN q : \A j \in DOMAIN q :
                 /\ Priority(k, q[j]) <= Priority(k, q[i])
                 /\ j < i => Priority(k, q[j]) < Priority(k, q[i])

CheckPreemption(k, t) ==
    [k EXCEPT !.reschedule =
        @ \/ (k.current # 0 /\ Priority(k, t) > Priority(k, k.current))]

Awaken(k, t) == CheckPreemption([k EXCEPT !.threads[t].state = "READY"], t)

\* The switch of Schedule once it has chosen the next thread.
SwitchTo(k, next) ==
    IF next = k.current THEN k
    ELSE [k EXCEPT !.current = next,
                   !.threads = [t \in DOMAIN @ |->
                       IF t = next THEN [@[t] EXCEPT !.state = "RUNNING"]
                       ELSE IF t = k.current /\ @[t].state = "RUNNING"
                       THEN [@[t] EXCEPT !.state = "READY"] ELSE @[t]]]

\* TimerDPC for a current thread it charges.
Charged(k) ==
    IF k.threads[k.current].quantum > 1
    THEN [k EXCEPT !.threads[k.current].quantum = @ - 1]
    ELSE [k EXCEPT !.threads[k.current].quantum = QUANTUM, !.reschedule = TRUE]

------------------------------------------------------------------------------
BlockCurrentThread(k) ==
    [k EXCEPT !.threads[k.current].state = "BLOCKED", !.reschedule = TRUE]

\* The owner is boosted to the priority of the thread that comes to wait; a
\* boost goes no further than the owner.
AcquireMutex(k) ==
    LET mine == Priority(k, k.current)
    IN  IF k.owner = 0 THEN [k EXCEPT !.owner = k.current]
        ELSE BlockCurrentThread(
               [k EXCEPT !.threads[k.owner].priority = IF @ < mine THEN mine ELSE @,
                         !.waiters = Append(@, k.current)])

\* Mutant: the mutex is freed over its waiters.
ReleaseMutexRegardless(k) ==
    [k EXCEPT !.threads[k.current].priority = k.threads[k.current].base, !.owner = 0]

\* Hand-off to the waiter of highest priority.
ReleaseMutex(k) ==
    LET restored == [k EXCEPT !.threads[k.current].priority = k.threads[k.current].base]
        q == k.waiters
        i == Best(k, q)
    IN  IF q = <<>> THEN [restored EXCEPT !.owner = 0]
        ELSE Awaken([restored EXCEPT !.owner = q[i], !.waiters = RemoveAt(q, i)], q[i])

\* StartIoOperation: the DPC it queues runs SignalEvent when the IRQL drops,
\* before the call returns.
SignalEvent(k) ==
    LET q == k.ioWaiters
        i == Best(k, q)
    IN  IF q = <<>> THEN [k EXCEPT !.signaled = TRUE]
        ELSE Awaken([k EXCEPT !.signaled = FALSE, !.ioWaiters = RemoveAt(q, i)], q[i])

WaitEvent(k) ==
    IF k.signaled THEN [k EXCEPT !.signaled = FALSE]
    ELSE BlockCurrentThread([k EXCEPT !.ioWaiters = Append(@, k.current)])

InitEvent(k) == [k EXCEPT !.signaled = FALSE, !.ioWaiters = <<>>]

\* A thread ends and asks for a reschedule.
Terminate(k) == [k EXCEPT !.threads[k.current].state = "TERMINATED", !.reschedule = TRUE]

------------------------------------------------------------------------------
(* Properties of both kernels.                                              *)

Waiting == ToSet(kernel.waiters)

\* A thread is BLOCKED exactly while it stands in one of the two wait queues,
\* and in that one once (BlockCurrentThread, WakeOne, the hand-off).
WaitQueuesExact ==
    LET queued == kernel.waiters \o kernel.ioWaiters
    IN  IsInjective(queued) /\ ToSet(queued) = InState(kernel, "BLOCKED")

\* Nobody waits for an owner of lower priority, though the boost is not
\* transitive and ends at any release: with one mutex it need not be
\* (BlueKernel_Lvl1.c:16, "We successfully prevent Priority inversion").
PriorityInherited ==
    \A t \in Waiting : Priority(kernel, t) <= Priority(kernel, kernel.owner)

\* No completion is remembered while a thread waits for one (SignalEvent).
EventNotMissed == kernel.signaled => kernel.ioWaiters = <<>>

\* AcquireMutex and ReleaseMutex, whatever the scheduler does between them, are
\* the exclusive mutex with hand-off of MutexService.
Mutex == INSTANCE MutexService WITH
    None <- 0, owner <- kernel.owner, waiting <- Waiting
ImplementsMutex == Mutex!Spec
================================================================================
