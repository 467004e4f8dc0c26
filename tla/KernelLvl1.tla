------------------------------ MODULE KernelLvl1 ------------------------------
(***************************************************************************)
(* The first stage of the kernel, BLUE_KERNEL/BlueKernel_Lvl1.c.  There is *)
(* no process and one global mutex; the idle thread is thread 2, scheduled *)
(* like the others at priority 0; a thread ends by setting its state; and  *)
(* main runs the current thread first and schedules after it.              *)
(***************************************************************************)
EXTENDS ScanServices

vars == <<phase, kernel>>

Idle == 2
Users == DOMAIN kernel.threads \ {Idle}

\* main creates the first user thread and the idle thread before any runs.
Init == /\ phase = "boot"
        /\ \E r \in BootRoutines, p \in UserPriorities :
             kernel = AtBoot(<<NewThread(r, p), NewThread(<<>>, 0)>>, 0)

------------------------------------------------------------------------------
Candidates == InState(kernel, "READY")
PickNextThread == CHOOSE t \in Candidates : \A u \in Candidates :
                     /\ Priority(kernel, u) <= Priority(kernel, t)
                     /\ u < t => Priority(kernel, u) < Priority(kernel, t)

Schedule == IF Candidates = {} THEN kernel ELSE SwitchTo(kernel, PickNextThread)

BootSchedule == /\ phase = "boot" /\ kernel.current = 0
                /\ kernel' = Schedule /\ phase' = "bootRun"

CreateThread(r, p) ==
    /\ phase = "boot" /\ kernel.current # 0 /\ Len(kernel.threads) < MAX_THREADS
    /\ kernel' = LET k == [kernel EXCEPT !.threads = Append(@, NewThread(r, p))]
                 IN  CheckPreemption(k, Len(k.threads))
    /\ UNCHANGED phase

StartLoop == /\ phase = "boot" /\ kernel.current # 0
             /\ phase' = "timer" /\ kernel' = InitEvent(kernel)

\* Mutant: only a thread that runs is charged.
TimerDPCRunningOnly == /\ phase = "timer" /\ phase' = "run"
                       /\ kernel' = IF Current.state = "RUNNING" THEN Charged(kernel) ELSE kernel

\* The current thread is charged in whatever state it is.
TimerDPC == /\ phase = "timer" /\ phase' = "run"
            /\ kernel' = Charged(kernel)

\* Thread_M ends by setting its state, and asks for nothing.
Exit(k) == [k EXCEPT !.threads[k.current].state = "TERMINATED"]

Called(k, call) ==
    CASE call = "work" -> k
      [] call = "acquire" -> AcquireMutex(k)
      [] call = "release" -> ReleaseMutex(k)
      [] call = "startIo" -> SignalEvent(k)
      [] call = "wait" -> WaitEvent(k)
      [] call = "startIoAndWait" -> WaitEvent(SignalEvent(k))
      [] call = "exit" -> Exit(k)
      [] call = "terminate" -> Terminate(k)
      [] call = "releaseAndTerminate" -> Terminate(ReleaseMutex(k))

CallOf(t) == t.routine[t.pc]
AfterRun == phase' = IF phase = "bootRun" THEN "boot" ELSE "dispatch"

RunThread ==
    /\ phase \in {"bootRun", "run"} /\ Current.state = "RUNNING" /\ kernel.current # Idle
    /\ kernel' = Called([kernel EXCEPT !.threads[kernel.current].pc = @ + 1], CallOf(Current))
    /\ AfterRun

\* The idle thread does nothing, and nothing runs if the current thread is over.
IdleThread == /\ phase = "run" /\ (kernel.current = Idle \/ Current.state # "RUNNING")
              /\ AfterRun /\ UNCHANGED kernel

Dispatch == /\ phase = "dispatch" /\ phase' = "timer"
            /\ kernel' = IF kernel.reschedule THEN [Schedule EXCEPT !.reschedule = FALSE]
                         ELSE kernel

Next == \/ BootSchedule \/ StartLoop
        \/ \E r \in Routines, p \in UserPriorities : CreateThread(r, p)
        \/ TimerDPC \/ RunThread \/ IdleThread \/ Dispatch

Spec == Init /\ [][Next]_vars

------------------------------------------------------------------------------
(* Properties.                                                              *)

\* ReleaseMutex bugchecks for anyone but the owner: with the hand-off the
\* waiter owns the mutex by the time it comes to release it.
ReleasedByOwner ==
    /\ phase \in {"bootRun", "run"} /\ kernel.current # Idle /\ Current.state = "RUNNING"
    /\ CallOf(Current) \in Releases
    => kernel.owner = kernel.current

Ended == \A t \in Users : kernel.threads[t].state = "TERMINATED"
================================================================================
