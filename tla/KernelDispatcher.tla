-------------------------- MODULE KernelDispatcher --------------------------
(***************************************************************************)
(* The dispatcher of BLUE_KERNEL/BlueKernel_lvl3.c: thread table, ready    *)
(* queues with their bitmap, Schedule and preemption, the quantum timer,   *)
(* mutexes with priority inheritance, the I/O event, and the main loop     *)
(* that drives them.                                                       *)
(*                                                                         *)
(* The kernel is one C thread of control, so an action is one stretch of   *)
(* main: a CreateThread, the timer interrupt with its DPC, a dispatch, one *)
(* call of the current thread's routine, the reaping of the process.  What *)
(* varies is which threads exist, with which priority, and which kernel    *)
(* services their routines call at each step.                              *)
(*                                                                         *)
(* Abstractions.  A ring buffer of pointers is a sequence.  A mutex is     *)
(* locked iff its owner is not NULL: AcquireMutex and ReleaseMutex assign  *)
(* locked and owner together.  IRQL is not a variable here: main runs at   *)
(* PASSIVE_LEVEL and the two DPCs at DISPATCH_LEVEL (module KernelIrql).   *)
(* A bugcheck is not an action: a routine that reaches one has no next     *)
(* step.                                                                   *)
(***************************************************************************)
EXTENDS ReadyQueueOps

CONSTANTS
  QUANTUM,           \* ticks a thread may run, the literal 3 of the code
  Mutexes,           \* the mutex objects main creates
  Routines,          \* the routines a thread may be created with
  UserPriorities,    \* the priorities main creates user threads with
  MaxBootRuns,       \* bound: Schedule-and-run calls main makes per CreateThread
  NULL

Idle == 1                       \* main creates the idle thread first
IdlePriority == 1

Ops == {"work", "hold", "acquire", "release", "releaseAndExit", "exit",
        "startIo", "wait", "startIoAndWait"}
Step(op, m) == [op |-> op, mutex |-> m]
Steps == [op : Ops, mutex : Mutexes \cup {NULL}]

(***************************************************************************)
(* FindHighestSetBit is right below the top bit only (module PriorityBits),*)
(* so the top priority is excluded.  A routine returns for good only       *)
(* through TerminateThread, and names a mutex where its step needs one.    *)
(***************************************************************************)
ASSUME SizeAssumption ==
  /\ MAX_THREADS \in Nat /\ MAX_THREADS >= 2
  /\ MAX_PRIORITY \in Nat
  /\ QUANTUM \in Nat \ {0}
  /\ MaxBootRuns \in Nat

ASSUME PriorityAssumption ==
  UserPriorities \cup {IdlePriority} \subseteq 0..(MAX_PRIORITY - 2)

ASSUME NullAssumption == NULL \notin Threads /\ NULL \notin Mutexes

ASSUME RoutineAssumption ==
  /\ Routines \subseteq Seq(Steps)
  /\ \A r \in Routines :
       /\ r # <<>>
       /\ r[Len(r)].op \in {"exit", "releaseAndExit"}
       /\ \A i \in DOMAIN r :
            r[i].op \in {"hold", "acquire", "release", "releaseAndExit"}
              => r[i].mutex \in Mutexes

(* The routines of the source, one step per value of t->pc. *)
Thread_A == <<Step("work", NULL), Step("work", NULL), Step("exit", NULL)>>
Thread_B == <<Step("work", NULL), Step("startIoAndWait", NULL), Step("exit", NULL)>>
Thread_L(m1) == <<Step("acquire", m1), Step("hold", m1), Step("releaseAndExit", m1)>>
Thread_M(m1, m2) ==
  <<Step("acquire", m2), Step("acquire", m1), Step("releaseAndExit", m2)>>
Thread_H(m2) == <<Step("acquire", m2), Step("releaseAndExit", m2)>>

VARIABLES
  phase,          \* where main is
  bootRuns,       \* Schedule-and-run calls since the last CreateThread
  threadCount,    \* g_thread_count
  routine, pc, state, priority, basePriority, quantum,  \* THREAD, per thread
  ownedMutex, waitingMutex,                             \* THREAD, per thread
  current,        \* current_thread
  reschedule,     \* reschedule_requested
  ready,          \* g_ready_queues and g_ready_bitmap (the set of its 1 bits)
  owner, waiters, refCount,                             \* MUTEX, per mutex
  signaled, ioWaiters,                                  \* io_event
  exist           \* user->exist: the process and its handles to the mutexes

tableVars == <<threadCount, routine, basePriority>>
threadVars == <<pc, state, priority, quantum, ownedMutex, waitingMutex>>
mutexVars == <<owner, waiters, refCount>>
eventVars == <<signaled, ioWaiters>>
vars == <<phase, bootRuns, tableVars, threadVars, current, reschedule, ready,
          mutexVars, eventVars, exist>>

Created == 1..threadCount
UserThreads == Created \ {Idle}

----------------------------------------------------------------------------
(* Ready queues *)

(* PickNextThread pops queue after queue, highest bit first, until it pops *)
(* a thread that is not TERMINATED: Picks(p, i) says that it stops at the  *)
(* i-th thread of queue p, AfterPick(p, i) is what it leaves behind.       *)
Live(p) == {i \in DOMAIN ready.queues[p] : state[ready.queues[p][i]] # "TERMINATED"}
LivePriorities == {p \in ready.bitmap : Live(p) # {}}
Picks(p, i) ==
  /\ p \in LivePriorities /\ \A q \in LivePriorities : q <= p
  /\ i \in Live(p) /\ \A j \in Live(p) : i <= j
AfterPick(p, i) ==
  LET rest == SubSeq(ready.queues[p], i + 1, Len(ready.queues[p]))
  IN  [queues |-> [q \in Priorities |-> IF q > p THEN <<>>
                                        ELSE IF q = p THEN rest
                                        ELSE ready.queues[q]],
       bitmap |-> {q \in ready.bitmap : q < p \/ (q = p /\ rest # <<>>)}]

(* The scheduler's switch to next, the ready queues being rq without it.   *)
SwitchTo(next, rq) ==
  LET preempted == current # NULL /\ state[current] = "RUNNING"
  IN  IF next = current
      THEN ready' = rq /\ UNCHANGED <<state, current>>
      ELSE /\ current' = next
           /\ state' = [t \in Threads |->
                          IF t = next THEN "RUNNING"
                          ELSE IF preempted /\ t = current THEN "READY"
                          ELSE state[t]]
           /\ ready' = IF preempted
                       THEN ReadyThread(rq, current, priority[current])
                       ELSE rq

Schedule ==
  \/ \E p \in Priorities : \E i \in DOMAIN ready.queues[p] :
       Picks(p, i) /\ SwitchTo(ready.queues[p][i], AfterPick(p, i))
  \/ LivePriorities = {} /\ SwitchTo(Idle, EmptyReady)

(* Mutants: a pending request is overwritten; none is ever made. *)
PreemptsForgetful(p, cp) == p > cp
PreemptsNever(p, cp) == reschedule

(* CheckPreemption(newThread), newThread having priority p: what it leaves *)
(* in reschedule_requested when the current thread has priority cp.        *)
Preempts(p, cp) == reschedule \/ p > cp

----------------------------------------------------------------------------
(* Priority inheritance *)

(* Mutants: the boost stops at the first owner; the owner is "boosted" to a *)
(* lower priority.                                                          *)
NoNextOwner(t) == NULL
ChainClosedUntested(S, t, new) == t \in S

(* The owner BoostPriorityChain recurs to from t, or NULL. *)
NextOwner(t) == IF waitingMutex[t] = NULL THEN NULL ELSE owner[waitingMutex[t]]

(* The threads BoostPriorityChain(t, new) reaches with a priority below new, *)
(* which it raises: the least set with t in it that follows NextOwner.       *)
ChainClosed(S, t, new) ==
  /\ priority[t] < new => t \in S
  /\ \A u \in S : NextOwner(u) # NULL /\ priority[NextOwner(u)] < new
                    => NextOwner(u) \in S
Boosted(t, new) ==
  {u \in Threads : \A S \in SUBSET Threads : ChainClosed(S, t, new) => u \in S}

(* A boosted thread waits for a mutex unless it ends the chain, so at most *)
(* one is READY: ReinsertReadyThread moves it to the queue of new.         *)
BoostPriorityChain(t, new) ==
  LET B == Boosted(t, new)
      movers == {u \in B : state[u] = "READY"}
  IN  /\ priority' = [u \in Threads |-> IF u \in B THEN new ELSE priority[u]]
      /\ IF movers = {}
         THEN ready' = ready
         ELSE \E u \in movers : \E i \in DOMAIN ready.queues[priority[u]] :
                /\ ready.queues[priority[u]][i] = u
                /\ ready' = ReadyThread(
                              RemoveFromReadyQueue(ready, priority[u], i), u, new)

(* Mutant: waiters are served first come, first served. *)
IsFirst(q, i) == i = 1

(* DequeueHighestPriority takes the first of the waiters of top priority. *)
IsBest(q, i) ==
  /\ i \in DOMAIN q
  /\ \A j \in DOMAIN q : /\ priority[q[j]] <= priority[q[i]]
                         /\ j < i => priority[q[j]] < priority[q[i]]

(* DetectPriorityInversion(m) only prints.  It reports the first blocked   *)
(* thread b, in table order, that has more priority than the owner of m    *)
(* while a third thread that can run has, too.                             *)
InversionSeen(m, b) ==
  /\ owner[m] # NULL
  /\ state[b] = "BLOCKED" /\ priority[b] > priority[owner[m]]
  /\ \E other \in Created \ {b} : /\ state[other] \in {"READY", "RUNNING"}
                                  /\ priority[other] > priority[owner[m]]
DetectPriorityInversion(m) ==
  {b \in Created : InversionSeen(m, b) /\ \A c \in 1..(b - 1) : ~InversionSeen(m, c)}

----------------------------------------------------------------------------
(* Start-up: main creates the idle thread, then user threads one by one;   *)
(* after a CreateThread it may call Schedule and run the chosen thread.    *)

Init ==
  /\ phase = "boot"
  /\ bootRuns = 0
  /\ threadCount = 1
  /\ routine = [t \in Threads |-> <<>>]
  /\ pc = [t \in Threads |-> 1]
  /\ state = [t \in Threads |-> "READY"]
  /\ priority = [t \in Threads |-> IdlePriority]
  /\ basePriority = [t \in Threads |-> IdlePriority]
  /\ quantum = [t \in Threads |-> QUANTUM]
  /\ ownedMutex = [t \in Threads |-> NULL]
  /\ waitingMutex = [t \in Threads |-> NULL]
  /\ current = NULL
  /\ reschedule = FALSE
  /\ ready = EmptyReady
  /\ owner = [m \in Mutexes |-> NULL]
  /\ waiters = [m \in Mutexes |-> <<>>]
  /\ refCount = [m \in Mutexes |-> 2]    \* main's pointer and the handle
  /\ signaled = FALSE
  /\ ioWaiters = <<>>
  /\ exist = TRUE

CreateThread(r, p) ==
  LET t == threadCount + 1
  IN  /\ phase = "boot" /\ t \in Threads
      /\ threadCount' = t
      /\ routine' = [routine EXCEPT ![t] = r]
      /\ priority' = [priority EXCEPT ![t] = p]
      /\ basePriority' = [basePriority EXCEPT ![t] = p]
      /\ ready' = ReadyThread(ready, t, p)
      /\ reschedule' = IF current = NULL THEN reschedule
                        ELSE Preempts(p, priority[current])
      /\ bootRuns' = 0
      /\ UNCHANGED <<phase, pc, state, quantum, ownedMutex, waitingMutex,
                     current, mutexVars, eventVars, exist>>

(* main's own Schedule() does not clear reschedule_requested. *)
BootSchedule ==
  /\ phase = "boot" /\ UserThreads # {} /\ bootRuns < MaxBootRuns
  /\ Schedule
  /\ phase' = "bootRun"
  /\ bootRuns' = bootRuns + 1
  /\ UNCHANGED <<tableVars, pc, priority, quantum, ownedMutex, waitingMutex,
                 reschedule, mutexVars, eventVars, exist>>

StartLoop ==
  /\ phase = "boot" /\ current # NULL
  /\ phase' = "timer"
  /\ UNCHANGED <<bootRuns, tableVars, threadVars, current, reschedule, ready,
                 mutexVars, eventVars, exist>>

----------------------------------------------------------------------------
(* The main loop: timer interrupt, dispatch, one routine call, reaping. *)

TimerUnchanged == UNCHANGED <<bootRuns, tableVars, pc, priority, ownedMutex,
                              waitingMutex, mutexVars, eventVars, exist>>

(* TimerDPC charges a tick to the current thread, but not to the idle one, *)
(* nor to one that blocked or terminated in the previous tick.             *)
Charged == current \notin {NULL, Idle} /\ state[current] = "RUNNING"

TimerIgnored ==
  /\ phase = "timer" /\ ~Charged
  /\ phase' = "dispatch"
  /\ TimerUnchanged /\ UNCHANGED <<state, quantum, current, reschedule, ready>>

(* Mutant: the quantum is never tested. *)
TimerChargedUntested ==
  /\ phase = "timer" /\ Charged
  /\ quantum' = [quantum EXCEPT ![current] = @ - 1]
  /\ phase' = "dispatch"
  /\ TimerUnchanged /\ UNCHANGED <<state, current, reschedule, ready>>

TimerCharged ==
  /\ phase = "timer" /\ Charged
  /\ quantum[current] > 1
  /\ quantum' = [quantum EXCEPT ![current] = @ - 1]
  /\ phase' = "dispatch"
  /\ TimerUnchanged /\ UNCHANGED <<state, current, reschedule, ready>>

(* Mutant: current_thread keeps naming the thread that was queued again. *)
QuantumExpiredKeepsCurrent ==
  /\ phase = "timer" /\ Charged
  /\ quantum[current] <= 1
  /\ quantum' = [quantum EXCEPT ![current] = QUANTUM]
  /\ state' = [state EXCEPT ![current] = "READY"]
  /\ ready' = ReadyThread(ready, current, priority[current])
  /\ reschedule' = TRUE
  /\ phase' = "dispatch"
  /\ TimerUnchanged /\ UNCHANGED current

QuantumExpired ==
  /\ phase = "timer" /\ Charged
  /\ quantum[current] <= 1
  /\ quantum' = [quantum EXCEPT ![current] = QUANTUM]
  /\ state' = [state EXCEPT ![current] = "READY"]
  /\ ready' = ReadyThread(ready, current, priority[current])
  /\ current' = NULL
  /\ reschedule' = TRUE
  /\ phase' = "dispatch"
  /\ TimerUnchanged

DispatchUnchanged == UNCHANGED <<bootRuns, tableVars, pc, priority, quantum,
                        ownedMutex, waitingMutex, mutexVars, eventVars, exist>>

DispatchNothing ==
  /\ phase = "dispatch" /\ ~reschedule
  /\ phase' = "run"
  /\ DispatchUnchanged /\ UNCHANGED <<state, current, reschedule, ready>>

Dispatch ==
  /\ phase = "dispatch" /\ reschedule
  /\ Schedule
  /\ reschedule' = FALSE
  /\ phase' = "run"
  /\ DispatchUnchanged

(* Mutant: the idle thread counts as a thread of the process. *)
ReapWithIdle ==
  /\ phase = "reap"
  /\ IF exist /\ \A t \in Created : state[t] = "TERMINATED"
     THEN exist' = FALSE ELSE UNCHANGED exist
  /\ phase' = "timer"
  /\ UNCHANGED <<bootRuns, tableVars, threadVars, current, reschedule, ready,
                 mutexVars, eventVars>>

(* DestroyProcess closes the handle the process has on each mutex. *)
Reap ==
  /\ phase = "reap"
  /\ IF exist /\ \A t \in UserThreads : state[t] = "TERMINATED"
     THEN /\ exist' = FALSE
          /\ refCount' = [m \in Mutexes |-> refCount[m] - 1]
     ELSE UNCHANGED <<exist, refCount>>
  /\ phase' = "timer"
  /\ UNCHANGED <<bootRuns, tableVars, threadVars, current, reschedule, ready,
                 owner, waiters, eventVars>>

----------------------------------------------------------------------------
(* One call of the running thread's routine.  main calls it only when the  *)
(* thread is RUNNING; were it not, no action below would be enabled.       *)

Running ==
  /\ phase \in {"bootRun", "run"}
  /\ current # NULL /\ state[current] = "RUNNING"
AfterRun == phase' = IF phase = "bootRun" THEN "boot" ELSE "reap"

(* The current step calls service op on mutex m. *)
Calls(op, m) ==
  /\ Running /\ current # Idle
  /\ pc[current] \in DOMAIN routine[current]
  /\ routine[current][pc[current]] = Step(op, m)
Advance == pc' = [pc EXCEPT ![current] = @ + 1]
RunUnchanged == UNCHANGED <<bootRuns, tableVars, quantum, exist>>

IdleThread ==
  /\ Running /\ current = Idle
  /\ AfterRun
  /\ RunUnchanged
  /\ UNCHANGED <<pc, state, priority, ownedMutex, waitingMutex, current,
                 reschedule, ready, mutexVars, eventVars>>

Work ==
  /\ Calls("work", NULL)
  /\ Advance /\ AfterRun
  /\ RunUnchanged
  /\ UNCHANGED <<state, priority, ownedMutex, waitingMutex, current,
                 reschedule, ready, mutexVars, eventVars>>

(* Thread_L's work while it holds m: it keeps the reference that every     *)
(* call of the routine takes on the mutex.                                 *)
Hold(m) ==
  /\ Calls("hold", m)
  /\ refCount' = [refCount EXCEPT ![m] = @ + 1]
  /\ Advance /\ AfterRun
  /\ RunUnchanged
  /\ UNCHANGED <<state, priority, ownedMutex, waitingMutex, current,
                 reschedule, ready, owner, waiters, eventVars>>

AcquireFree(m) ==
  /\ Calls("acquire", m) /\ owner[m] = NULL
  /\ owner' = [owner EXCEPT ![m] = current]
  /\ ownedMutex' = [ownedMutex EXCEPT ![current] = m]
  /\ Advance /\ AfterRun
  /\ RunUnchanged
  /\ UNCHANGED <<state, priority, waitingMutex, current, reschedule, ready,
                 waiters, refCount, eventVars>>

(* Mutant: the waiter takes no reference on the mutex. *)
AcquireBlockedUncounted(m) ==
  /\ Calls("acquire", m) /\ owner[m] # NULL
  /\ waitingMutex' = [waitingMutex EXCEPT ![current] = m]
  /\ BoostPriorityChain(owner[m], priority[current])
  /\ state' = [state EXCEPT ![current] = "BLOCKED"]
  /\ waiters' = [waiters EXCEPT ![m] = Append(@, current)]
  /\ reschedule' = TRUE
  /\ Advance /\ AfterRun
  /\ RunUnchanged
  /\ UNCHANGED <<ownedMutex, current, owner, refCount, eventVars>>

AcquireBlocked(m) ==
  /\ Calls("acquire", m) /\ owner[m] # NULL
  /\ waitingMutex' = [waitingMutex EXCEPT ![current] = m]
  /\ BoostPriorityChain(owner[m], priority[current])
  /\ refCount' = [refCount EXCEPT ![m] = @ + 1]
  /\ state' = [state EXCEPT ![current] = "BLOCKED"]
  /\ waiters' = [waiters EXCEPT ![m] = Append(@, current)]
  /\ reschedule' = TRUE
  /\ Advance /\ AfterRun
  /\ RunUnchanged
  /\ UNCHANGED <<ownedMutex, current, owner, eventVars>>

(* ReleaseMutex(m) by the current thread, which goes on in state s.        *)
RestorePriority == priority' = [priority EXCEPT ![current] = basePriority[current]]

(* Mutant: the mutex is freed although threads wait for it. *)
FreeRegardless(m, s) ==
  /\ owner' = [owner EXCEPT ![m] = NULL]
  /\ ownedMutex' = [ownedMutex EXCEPT ![current] = NULL]
  /\ state' = [state EXCEPT ![current] = s]
  /\ reschedule' = (reschedule \/ s = "TERMINATED")
  /\ UNCHANGED <<waiters, waitingMutex, refCount, ready>>

Free(m, s) ==
  /\ waiters[m] = <<>>
  /\ owner' = [owner EXCEPT ![m] = NULL]
  /\ ownedMutex' = [ownedMutex EXCEPT ![current] = NULL]
  /\ state' = [state EXCEPT ![current] = s]
  /\ reschedule' = (reschedule \/ s = "TERMINATED")
  /\ UNCHANGED <<waiters, waitingMutex, refCount, ready>>

(* The i-th waiter becomes the owner, and READY. *)
HandOff(m, i, s) ==
  LET next == waiters[m][i]
  IN  /\ IsBest(waiters[m], i)
      /\ waiters' = [waiters EXCEPT ![m] = RemoveAt(@, i)]
      /\ waitingMutex' = [waitingMutex EXCEPT ![next] = NULL]
      /\ refCount' = [refCount EXCEPT ![m] = @ - 1]
      /\ owner' = [owner EXCEPT ![m] = next]
      /\ ownedMutex' = [ownedMutex EXCEPT ![current] = NULL, ![next] = m]
      /\ state' = [state EXCEPT ![current] = s, ![next] = "READY"]
      /\ ready' = ReadyThread(ready, next, priority[next])
      /\ reschedule' = (Preempts(priority[next], basePriority[current])
                          \/ s = "TERMINATED")

ReleaseMutex(m, s) ==
  /\ owner[m] = current
  /\ RestorePriority
  /\ Free(m, s) \/ \E i \in DOMAIN waiters[m] : HandOff(m, i, s)

Release(m) ==
  /\ Calls("release", m)
  /\ ReleaseMutex(m, "RUNNING")
  /\ Advance /\ AfterRun
  /\ RunUnchanged /\ UNCHANGED <<current, eventVars>>

(* The last step of Thread_L, Thread_M and Thread_H: ReleaseMutex clears   *)
(* owned_mutex, so TerminateThread has nothing more to release.            *)
ReleaseAndExit(m) ==
  /\ Calls("releaseAndExit", m)
  /\ ReleaseMutex(m, "TERMINATED")
  /\ AfterRun
  /\ RunUnchanged /\ UNCHANGED <<pc, current, eventVars>>

(* Mutant: a dying thread keeps its mutex. *)
ExitKeepingMutex ==
  /\ Calls("exit", NULL)
  /\ state' = [state EXCEPT ![current] = "TERMINATED"]
  /\ reschedule' = TRUE
  /\ UNCHANGED <<priority, ownedMutex, waitingMutex, ready, mutexVars>>
  /\ AfterRun
  /\ RunUnchanged /\ UNCHANGED <<pc, current, eventVars>>

(* TerminateThread by the thread itself, with or without an owned mutex. *)
Exit ==
  /\ Calls("exit", NULL)
  /\ IF ownedMutex[current] # NULL
     THEN ReleaseMutex(ownedMutex[current], "TERMINATED")
     ELSE /\ state' = [state EXCEPT ![current] = "TERMINATED"]
          /\ reschedule' = TRUE
          /\ UNCHANGED <<priority, ownedMutex, waitingMutex, ready, mutexVars>>
  /\ AfterRun
  /\ RunUnchanged /\ UNCHANGED <<pc, current, eventVars>>

EventUnchanged ==
  UNCHANGED <<priority, ownedMutex, waitingMutex, current, mutexVars>>

(* StartIoOperation completes at once: the DPC it queues is drained when   *)
(* it leaves DIRQL, and signals io_event or wakes one waiter.              *)
StartIo ==
  /\ Calls("startIo", NULL)
  /\ \/ /\ ioWaiters = <<>>
        /\ signaled' = TRUE
        /\ UNCHANGED <<state, reschedule, ready, ioWaiters>>
     \/ \E i \in DOMAIN ioWaiters :
          LET t == ioWaiters[i]
          IN  /\ IsBest(ioWaiters, i)
              /\ ioWaiters' = RemoveAt(ioWaiters, i)
              /\ state' = [state EXCEPT ![t] = "READY"]
              /\ ready' = ReadyThread(ready, t, priority[t])
              /\ reschedule' = Preempts(priority[t], priority[current])
              /\ signaled' = FALSE
  /\ Advance /\ AfterRun
  /\ RunUnchanged /\ EventUnchanged

(* Mutants: the waiter is not queued; it blocks though it need not. *)
WaitEventUnqueued ==
  /\ Calls("wait", NULL)
  /\ state' = [state EXCEPT ![current] = "BLOCKED"]
  /\ reschedule' = TRUE
  /\ Advance /\ AfterRun
  /\ RunUnchanged /\ EventUnchanged /\ UNCHANGED <<ready, eventVars>>
WaitEventBlind ==
  /\ Calls("wait", NULL)
  /\ state' = [state EXCEPT ![current] = "BLOCKED"]
  /\ ioWaiters' = Append(ioWaiters, current)
  /\ reschedule' = TRUE
  /\ Advance /\ AfterRun
  /\ RunUnchanged /\ EventUnchanged /\ UNCHANGED <<ready, signaled>>

WaitEvent ==
  /\ Calls("wait", NULL)
  /\ signaled' = FALSE
  /\ IF signaled
     THEN UNCHANGED <<state, reschedule, ioWaiters>>
     ELSE /\ state' = [state EXCEPT ![current] = "BLOCKED"]
          /\ ioWaiters' = Append(ioWaiters, current)
          /\ reschedule' = TRUE
  /\ Advance /\ AfterRun
  /\ RunUnchanged /\ EventUnchanged /\ UNCHANGED ready

(* Thread_B's step: it consumes its own completion, unless a thread that   *)
(* waited already was given it; then it blocks.                            *)
StartIoAndWait ==
  /\ Calls("startIoAndWait", NULL)
  /\ signaled' = FALSE
  /\ \/ /\ ioWaiters = <<>>
        /\ UNCHANGED <<state, reschedule, ready, ioWaiters>>
     \/ \E i \in DOMAIN ioWaiters :
          LET t == ioWaiters[i]
          IN  /\ IsBest(ioWaiters, i)
              /\ ioWaiters' = Append(RemoveAt(ioWaiters, i), current)
              /\ state' = [state EXCEPT ![t] = "READY", ![current] = "BLOCKED"]
              /\ ready' = ReadyThread(ready, t, priority[t])
              /\ reschedule' = TRUE
  /\ Advance /\ AfterRun
  /\ RunUnchanged /\ EventUnchanged

----------------------------------------------------------------------------
Boot == BootSchedule \/ StartLoop
          \/ \E r \in Routines, p \in UserPriorities : CreateThread(r, p)
Timer == TimerIgnored \/ TimerCharged \/ QuantumExpired
RunThread ==
  \/ IdleThread \/ Work \/ Exit \/ StartIo \/ WaitEvent \/ StartIoAndWait
  \/ \E m \in Mutexes : \/ Hold(m) \/ AcquireFree(m) \/ AcquireBlocked(m)
                        \/ Release(m) \/ ReleaseAndExit(m)

Next == Boot \/ Timer \/ DispatchNothing \/ Dispatch \/ RunThread \/ Reap

Spec == Init /\ [][Next]_vars

(* main never stops making calls until it has gone round its loop. *)
FairSpec == Spec /\ WF_vars(Next)

=============================================================================
