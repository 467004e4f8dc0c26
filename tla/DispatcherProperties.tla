------------------------ MODULE DispatcherProperties ------------------------
(***************************************************************************)
(* What the dispatcher of BlueKernel_lvl3.c is supposed to guarantee.      *)
(***************************************************************************)
EXTENDS KernelDispatcher

ReadyQueueType == [queues : [Priorities -> Seq(Threads)], bitmap : SUBSET Priorities]
ThreadStates == {"READY", "RUNNING", "BLOCKED", "TERMINATED"}
Phases == {"boot", "bootRun", "timer", "dispatch", "run", "reap"}

(* Every variable has the type the code declares for it, a priority stays  *)
(* within the ready queues below the top one, and a time slice is never    *)
(* used up.                                                                *)
TypeOK ==
  /\ phase \in Phases
  /\ bootRuns \in Nat
  /\ threadCount \in Threads
  /\ routine \in [Threads -> Routines \cup {<<>>}]
  /\ pc \in [Threads -> Nat \ {0}]
  /\ state \in [Threads -> ThreadStates]
  /\ priority \in [Threads -> 0..(MAX_PRIORITY - 2)]
  /\ basePriority \in [Threads -> 0..(MAX_PRIORITY - 2)]
  /\ quantum \in [Threads -> 1..QUANTUM]
  /\ ownedMutex \in [Threads -> Mutexes \cup {NULL}]
  /\ waitingMutex \in [Threads -> Mutexes \cup {NULL}]
  /\ current \in Threads \cup {NULL}
  /\ reschedule \in BOOLEAN
  /\ ready \in ReadyQueueType
  /\ owner \in [Mutexes -> Threads \cup {NULL}]
  /\ waiters \in [Mutexes -> Seq(Threads)]
  /\ refCount \in [Mutexes -> Int]
  /\ signaled \in BOOLEAN
  /\ ioWaiters \in Seq(Threads)
  /\ exist \in BOOLEAN

----------------------------------------------------------------------------
(* Ready queues *)

(* A bit of the bitmap is set exactly when its queue is non-empty; a queue *)
(* holds threads of its own priority; no thread is queued twice.           *)
WellFormed(rq, prio) ==
  \A p \in Priorities : /\ p \in rq.bitmap <=> rq.queues[p] # <<>>
                        /\ \A t \in ToSet(rq.queues[p]) : prio[t] = p
                        /\ IsInjective(rq.queues[p])

(* No READY user thread is ever off the ready queues, and no thread in     *)
(* another state is on them, through boosts, hand-offs, wake-ups, quantum  *)
(* expiry and termination: what keeps PickNextThread from losing a thread  *)
(* or resuming one that waits.                                             *)
ReadyQueuesExact ==
  /\ WellFormed(ready, priority)
  /\ \A t \in UserThreads : t \in InQueue(ready) <=> state[t] = "READY"
  /\ InQueue(ready) \subseteq Created
  /\ Idle \in InQueue(ready) => state[Idle] = "READY"

(* At most one thread is RUNNING and it is current_thread; the current     *)
(* thread is never queued, so the early return of Schedule (next is        *)
(* already current) never drops a thread it has just dequeued.             *)
CurrentThreadExact ==
  /\ \A t \in Threads : state[t] = "RUNNING" => t = current
  /\ current # NULL => current \notin InQueue(ready)

(* Whenever the current thread cannot run, a reschedule is pending: no     *)
(* block, termination or quantum expiry leaves the processor parked on a   *)
(* dead thread.                                                            *)
NoLostReschedule ==
  phase # "boot" /\ (current = NULL \/ state[current] # "RUNNING")
    => reschedule

----------------------------------------------------------------------------
(* Mutexes *)

(* Wait queues, THREAD.waiting_mutex and thread states agree: a thread is  *)
(* BLOCKED exactly while it is in a wait queue, in one queue only and once,*)
(* and only a locked mutex has waiters.                                    *)
WaitQueuesExact ==
  /\ \A m \in Mutexes : /\ ToSet(waiters[m]) = {t \in Threads : waitingMutex[t] = m}
                        /\ IsInjective(waiters[m])
                        /\ owner[m] = NULL => waiters[m] = <<>>
  /\ IsInjective(ioWaiters)
  /\ \A t \in Threads :
       /\ state[t] = "BLOCKED" <=> waitingMutex[t] # NULL \/ t \in ToSet(ioWaiters)
       /\ ~(waitingMutex[t] # NULL /\ t \in ToSet(ioWaiters))

(* Priority inheritance: nobody waits, directly or down a chain of owners, *)
(* for a live thread of lower priority.                                    *)
PriorityInherited ==
  \A m \in Mutexes : \A t \in ToSet(waiters[m]) :
    state[owner[m]] # "TERMINATED" => priority[t] <= priority[owner[m]]

(* No set of threads wait for each other in a circle, through the mutex    *)
(* each waits for and its owner.                                           *)
NoWaitCycle ==
  \A S \in SUBSET Threads : S # {} =>
    \E t \in S : NextOwner(t) \notin S

(* A thread whose owner field names no mutex and that waits for nobody     *)
(* runs at its base priority: no boost outlives its reason.                *)
NoStaleBoost ==
  \A t \in UserThreads :
    (\A m \in Mutexes : owner[m] # t) => priority[t] = basePriority[t]

(* A live thread is above its base priority only for a thread of at least  *)
(* that priority that waits for a mutex it owns.                           *)
BoostGrounded ==
  \A t \in UserThreads : priority[t] # basePriority[t] /\ state[t] # "TERMINATED" =>
    \E m \in Mutexes : owner[m] = t /\ \E w \in ToSet(waiters[m]) : priority[t] <= priority[w]

(* Once main runs the current thread, no READY thread has more priority.   *)
NoneAbove ==
  phase = "run" => \A t \in InQueue(ready) : priority[t] <= priority[current]

(* Threads of Thread_L's routine past the step that forgets a reference.   *)
Leaks(m) == {t \in UserThreads : \E i \in DOMAIN routine[t] :
                                   i < pc[t] /\ routine[t][i] = Step("hold", m)}

(* Reference counting: a mutex has one reference from main, one from the   *)
(* handle table while the process exists, one per waiter, and those that   *)
(* Thread_L leaked; so it is not freed while anyone can reach it.          *)
ReferencesAccounted ==
  \A m \in Mutexes :
    refCount[m] = 1 + (IF exist THEN 1 ELSE 0)
                    + Len(waiters[m]) + Cardinality(Leaks(m))

(* The idle thread never blocks or terminates, is never queued, and runs   *)
(* only if nothing else can (the idle thread's properties as               *)
(* BlueKernel_lvl2.c lists them).                                          *)
IdleDiscipline ==
  /\ state[Idle] \in {"READY", "RUNNING"}
  /\ Idle \notin InQueue(ready)
  /\ phase = "run" /\ current = Idle => InQueue(ready) = {}

(* A boot of main with any user threads in ascending priority: after each  *)
(* but the last, main calls Schedule and runs the chosen thread once.      *)
AscendingBoot ==
  /\ threadCount' # threadCount =>
       /\ \A t \in UserThreads : basePriority[t] <= basePriority'[threadCount']
       /\ UserThreads # {} => bootRuns = 1
  /\ bootRuns' > bootRuns => bootRuns = 0 /\ threadCount < MAX_THREADS
  /\ phase = "boot" /\ phase' = "timer" => threadCount = MAX_THREADS
AscendingSpec == Init /\ [][Next /\ AscendingBoot]_vars

(* The mutexes t's routine takes; one that takes two may die owning one.   *)
Takes(t) == {m \in Mutexes : \E i \in DOMAIN routine[t] : routine[t][i] = Step("acquire", m)}
NoDeadOwner ==
  \A m \in Mutexes : owner[m] # NULL /\ state[owner[m]] = "TERMINATED" =>
    Cardinality(Takes(owner[m])) > 1

(* Every chain of waiting ends at a live thread that can go on and serve   *)
(* it: AcquireMutex tests for no circle, which depends on the order in     *)
(* which routines take mutexes and on the fields a hand-off resets, and    *)
(* TerminateThread releases the mutex the dying thread owns.  It knows of  *)
(* one only, so a thread that takes two may die owning the other.          *)
WaitChainsEnd == NoWaitCycle /\ NoDeadOwner

(* A waiter of io_event is never left behind by a completion that has been *)
(* remembered: SignalEvent gives it to the waiters first, and WaitEvent    *)
(* takes it before it blocks.                                              *)
EventNotMissed == signaled => ioWaiters = <<>>

(* ReleaseMutex and TerminateThread "assume a single owned mutex": a       *)
(* thread's owned_mutex names every mutex it owns.                         *)
SingleOwnedMutex == \A m \in Mutexes : owner[m] # NULL => ownedMutex[owner[m]] = m

(* With inheritance no priority inversion is left for main to detect: a    *)
(* thread that DetectPriorityInversion(m) reports as "waiting on" the      *)
(* owner of m waits for something else, or for a dead owner.               *)
InversionAlarmsFalse ==
  phase = "run" =>
    \A m \in Mutexes : \A b \in DetectPriorityInversion(m) :
      waitingMutex[b] = m => state[owner[m]] = "TERMINATED"

(* A priority is above its base exactly as far and as long as waiters      *)
(* need it: BoostPriorityChain reaches the end of every chain of owners,   *)
(* raises nobody further, no boost outlives its reason, and nothing true   *)
(* is left for the detector of inversions to report.                       *)
InheritanceExact ==
  PriorityInherited /\ BoostGrounded /\ NoStaleBoost /\ InversionAlarmsFalse

----------------------------------------------------------------------------
(* The inductive invariant of the proofs *)

(* What the named properties leave open: a thread not created yet is READY *)
(* but nowhere queued, the idle thread only alternates between READY and   *)
(* RUNNING, main finds the current thread RUNNING whenever it calls its    *)
(* routine, and outside these moments a thread that cannot go on has       *)
(* requested a reschedule.                                                 *)
ControlExact ==
  /\ current # NULL => current \in Created
  /\ \A t \in Threads \ Created : state[t] = "READY"
  /\ state[Idle] \in {"READY", "RUNNING"}
  /\ current = Idle => state[Idle] = "RUNNING"
  /\ phase \in {"bootRun", "run"} => current # NULL /\ state[current] = "RUNNING"
  /\ current # NULL /\ state[current] # "RUNNING" => reschedule
  /\ current = NULL /\ phase # "boot" => reschedule

IInv == TypeOK /\ ReadyQueuesExact /\ CurrentThreadExact /\ WaitQueuesExact
          /\ ControlExact

----------------------------------------------------------------------------
(* How the routines use the mutexes.  The kernel does not enforce any of   *)
(* this, and what it guarantees about mutexes rests on it.                 *)

(* A thread at step k of routine r has called AcquireMutex(m) and has not  *)
(* called ReleaseMutex(m) since.                                           *)
HeldAt(r, k, m) ==
  \E i \in DOMAIN r : /\ i < k /\ r[i] = Step("acquire", m)
                      /\ \A j \in DOMAIN r : i < j /\ j < k => r[j] # Step("release", m)

(* A routine that holds a mutex takes only mutexes of lower rank.          *)
LocksNest(rank) ==
  \A r \in Routines : \A k \in DOMAIN r : \A m, n \in Mutexes :
    r[k] = Step("acquire", n) /\ HeldAt(r, k, m) => rank[n] < rank[m]

(* A routine that goes on after a ReleaseMutex holds nothing any more.     *)
ReleasesLast ==
  \A r \in Routines : \A k \in DOMAIN r : \A m, n \in Mutexes :
    r[k] = Step("release", m) /\ HeldAt(r, k, n) => n = m

(* A routine has one step at most that keeps a reference on a mutex.       *)
HoldsOnce ==
  \A r \in Routines : \A i, j \in DOMAIN r : r[i] = r[j] /\ r[i].op = "hold" => i = j

(* Where the owner and the waiters of a mutex are in their routines, and   *)
(* what a thread that takes one mutex only has in THREAD.owned_mutex.      *)
OwnersExact ==
  /\ \A t \in Threads \ Created : pc[t] = 1
  /\ \A t \in Threads, m \in Mutexes : owner[m] = t => HeldAt(routine[t], pc[t], m)
  /\ \A t \in Threads : waitingMutex[t] # NULL =>
       \E k \in DOMAIN routine[t] :
         pc[t] = k + 1 /\ routine[t][k] = Step("acquire", waitingMutex[t])
  /\ \A t \in Threads, m \in Mutexes : owner[m] = t /\ Takes(t) \subseteq {m} =>
       ownedMutex[t] = m /\ state[t] # "TERMINATED"

(* A thread waits for a mutex of lower rank than any it owns.              *)
WaitsNest(rank) ==
  \A t \in Threads, m \in Mutexes : owner[m] = t /\ waitingMutex[t] # NULL =>
    rank[waitingMutex[t]] < rank[m]

----------------------------------------------------------------------------
(* Action properties *)

(* Ownership passes from one thread to another only by hand-off to a       *)
(* BLOCKED waiter of highest priority, and the mutex is freed only when    *)
(* nobody waits: no running thread can slip in between.                    *)
HandOffToWaiter ==
  [][\A m \in Mutexes : owner[m] # NULL /\ owner'[m] # owner[m] =>
       IF owner'[m] = NULL THEN waiters[m] = <<>>
       ELSE /\ owner'[m] \in ToSet(waiters[m])
            /\ \A t \in ToSet(waiters[m]) : priority[t] <= priority[owner'[m]]
    ]_vars

(* A thread never loses priority except in its own call that gives up a    *)
(* mutex, and never falls under its base.                                  *)
PriorityFallsOnRelease ==
  [][\A t \in Created : priority'[t] < priority[t] =>
       /\ t = current /\ priority'[t] = basePriority[t]
       /\ \E m \in Mutexes : owner[m] = t /\ owner'[m] # t]_vars

(* Every mutex implements MutexService, exclusive ownership and hand-off,  *)
(* whatever the scheduler, the boosts and the other mutexes do             *)
(* (AcquireMutex, ReleaseMutex, TerminateThread): Mutex(m)!Spec for every  *)
(* m, as one formula.                                                      *)
Mutex(m) == INSTANCE MutexService WITH
  None <- NULL, owner <- owner[m], waiting <- ToSet(waiters[m])
ImplementsMutex ==
  /\ \A m \in Mutexes : Mutex(m)!Init
  /\ [][\A m \in Mutexes : [Mutex(m)!Next]_(Mutex(m)!vars)]_vars

----------------------------------------------------------------------------
(* Liveness *)

(* The waiters of io_event when some routine does not start its I/O and    *)
(* wait in one call, as Thread_B does: the event remembers one completion  *)
(* and is anybody's, so of two completions before a wait one is lost.      *)
LeftWaiting ==
  IF \E t \in UserThreads : \E i \in DOMAIN routine[t] : routine[t][i].op = "wait"
  THEN ToSet(ioWaiters) ELSE {}

(* The loop, once entered, ends every user thread, so that every waiter    *)
(* for a mutex and every READY thread has been served, and the process     *)
(* exits; nothing can keep it but threads left waiting for a completion.   *)
ProcessExits ==
  phase = "timer" ~>
    \/ ~exist
    \/ LeftWaiting # {} /\ \A t \in UserThreads \ LeftWaiting : state[t] = "TERMINATED"

=============================================================================
