------------------------------ MODULE KernelLvl2 ------------------------------
(***************************************************************************)
(* The second stage of the kernel, BLUE_KERNEL/BlueKernel_lvl2.c: Schedule *)
(* scans the thread table, a process owns the threads and a handle to the  *)
(* one mutex, and main drives them tick by tick.                           *)
(*                                                                         *)
(* Thread 1 is the idle thread.  kernel.refs is the reference count in     *)
(* the header of the mutex, kernel.owned what the fields owned_mutex say.  *)
(***************************************************************************)
EXTENDS ScanServices

VARIABLE exist           \* the flag of the process
vars == <<phase, kernel, exist>>

Idle == 1
Users == 2 .. Len(kernel.threads)

Init == /\ phase = "boot" /\ exist = TRUE
        /\ kernel = AtBoot(<<NewThread(<<>>, 1)>>, 2)

------------------------------------------------------------------------------
(* Scheduling.                                                              *)

\* Only READY threads are looked at: never the idle thread, and never the
\* current thread while it runs.
Candidates == {t \in Users : kernel.threads[t].state = "READY"}
PickNextThread == CHOOSE t \in Candidates : \A u \in Candidates :
                     /\ Priority(kernel, u) <= Priority(kernel, t)
                     /\ u < t => Priority(kernel, u) < Priority(kernel, t)

Schedule == SwitchTo(kernel, IF Candidates = {} THEN Idle ELSE PickNextThread)

CreateThread(r, p) ==
    /\ phase = "boot" /\ Len(kernel.threads) < MAX_THREADS
    /\ IF Users = {} THEN r \in BootRoutines ELSE kernel.current # 0
    /\ kernel' = LET k == [kernel EXCEPT !.threads = Append(@, NewThread(r, p))]
                 IN  CheckPreemption(k, Len(k.threads))
    /\ UNCHANGED <<phase, exist>>

\* main schedules and runs the first user thread before it creates the others.
BootSchedule == /\ phase = "boot" /\ Users # {} /\ kernel.current = 0
                /\ kernel' = Schedule /\ phase' = "bootRun"
                /\ UNCHANGED exist

StartLoop == /\ phase = "boot" /\ kernel.current # 0
             /\ phase' = "timer" /\ kernel' = InitEvent(kernel)
             /\ UNCHANGED exist

TimerDPC == /\ phase = "timer" /\ phase' = "dispatch"
            /\ kernel' = IF Current.state = "RUNNING" THEN Charged(kernel) ELSE kernel
            /\ UNCHANGED exist

Dispatch == /\ phase = "dispatch" /\ phase' = "run"
            /\ kernel' = IF kernel.reschedule \/ Current.state # "RUNNING"
                         THEN [Schedule EXCEPT !.reschedule = FALSE] ELSE kernel
            /\ UNCHANGED exist

------------------------------------------------------------------------------
(* One call of the current thread's routine.                                *)

Acquire(k) ==
    LET after == AcquireMutex(k)
    IN  IF k.owner = 0 THEN [after EXCEPT !.owned = @ \cup {k.current}]
        ELSE [after EXCEPT !.refs = @ + 1]

Release(k) ==
    LET after == [ReleaseMutex(k) EXCEPT !.owned = @ \ {k.current}]
    IN  IF k.waiters = <<>> THEN after
        ELSE [after EXCEPT !.owned = @ \cup {after.owner}, !.refs = @ - 1]

\* Mutant: a dying thread keeps its mutex.
TerminateOwning(k) == Terminate(k)

\* A thread that dies owning the mutex releases it.
TerminateThread(k) == Terminate(IF k.current \in k.owned THEN Release(k) ELSE k)

Called(k, call) ==
    CASE call = "work" -> k
      [] call = "acquire" -> Acquire(k)
      [] call = "release" -> Release(k)
      [] call = "startIo" -> SignalEvent(k)
      [] call = "wait" -> WaitEvent(k)
      [] call = "startIoAndWait" -> WaitEvent(SignalEvent(k))
      [] call = "terminate" -> TerminateThread(k)
      [] call = "releaseAndTerminate" -> TerminateThread(Release(k))

Running == phase \in {"bootRun", "run"} /\ Current.state = "RUNNING"
CallOf(t) == t.routine[t.pc]

RunThread ==
    /\ Running /\ kernel.current # Idle
    /\ kernel' = Called([kernel EXCEPT !.threads[kernel.current].pc = @ + 1], CallOf(Current))
    /\ phase' = IF phase = "bootRun" THEN "boot" ELSE "reap"
    /\ UNCHANGED exist

IdleThread == /\ Running /\ kernel.current = Idle
              /\ phase' = "reap" /\ UNCHANGED <<kernel, exist>>

AllDead == \A t \in Users : kernel.threads[t].state = "TERMINATED"

\* The process of the user threads closes its handle when all have terminated.
Reap == /\ phase = "reap" /\ phase' = "timer"
        /\ IF exist /\ AllDead
           THEN exist' = FALSE /\ kernel' = [kernel EXCEPT !.refs = @ - 1]
           ELSE UNCHANGED <<kernel, exist>>

Next == \/ \E r \in Routines, p \in UserPriorities : CreateThread(r, p)
        \/ BootSchedule \/ StartLoop
        \/ TimerDPC \/ Dispatch \/ RunThread \/ IdleThread \/ Reap

Spec == Init /\ [][Next]_vars

------------------------------------------------------------------------------
(* Properties.                                                              *)

\* One thread runs at a time and main always finds it (the comment of
\* IdleThread: "to keep one thread running invariant intact"): whenever main
\* comes to call a routine, current_thread and nobody else is RUNNING.
OneThreadRuns ==
    /\ \A t \in InState(kernel, "RUNNING") : t = kernel.current
    /\ phase = "run" => Current.state = "RUNNING"

\* owned_mutex names the owner of the mutex and no one else, so that a thread
\* that dies never leaves it locked; and only its owner releases it, or
\* ReleaseMutex bugchecks.
OwnerKnown ==
    /\ \A t \in DOMAIN kernel.threads : t \in kernel.owned <=> kernel.owner = t
    /\ kernel.owner # 0 => kernel.threads[kernel.owner].state # "TERMINATED"
    /\ Running /\ kernel.current # Idle /\ CallOf(Current) \in Releases =>
         kernel.owner = kernel.current

\* The reference count of the mutex is main's, the handle's and one for every
\* waiter: it can neither be freed under a waiter nor outlive its last user.
ReferencesExact ==
    kernel.refs = 1 + (IF exist THEN 1 ELSE 0) + Len(kernel.waiters)
================================================================================
