---------------------------- MODULE MCDispatcher ----------------------------
(* Small instances of the dispatcher for TLC. *)
EXTENDS DispatcherProperties

CONSTANTS M1, M2

MCMutexes == {M1, M2}

(* The routines of the source, with the mutexes main gives them. *)
SourceRoutines == {Thread_A, Thread_B, Thread_L(M1), Thread_M(M1, M2), Thread_H(M2)}

(* Those that own one mutex at a time, contending for the same one, and    *)
(* clients that go on after a release, and between an I/O and its wait.    *)
SingleMutexRoutines ==
  {Thread_A, Thread_B, Thread_L(M1), Thread_H(M1),
   <<Step("acquire", M1), Step("release", M1), Step("exit", NULL)>>,
   <<Step("startIo", NULL), Step("wait", NULL), Step("exit", NULL)>>}

(* Routines of kernel clients that use the services one at a time: release *)
(* a mutex and go on, die while owning one, wait for an event that another *)
(* thread signals.                                                         *)
ClientRoutines ==
  {<<Step("acquire", M1), Step("work", NULL), Step("release", M1), Step("exit", NULL)>>,
   <<Step("acquire", M1), Step("exit", NULL)>>,
   <<Step("wait", NULL), Step("exit", NULL)>>,
   <<Step("startIo", NULL), Step("exit", NULL)>>,
   Thread_B}

(* A chain of two owners with a late third thread: the high thread comes   *)
(* for M2 when its owner already waits for M1, woken by an I/O that the    *)
(* owner of M1 starts.                                                     *)
ChainRoutines ==
  {<<Step("acquire", M1), Step("startIo", NULL), Step("releaseAndExit", M1)>>,
   Thread_M(M1, M2),
   <<Step("wait", NULL), Step("acquire", M2), Step("releaseAndExit", M2)>>,
   Thread_A}

(* All of them keep the discipline that the theorems assume.               *)
MCRank == [m \in MCMutexes |-> IF m = M1 THEN 1 ELSE 2]
ASSUME DisciplineAssumption == LocksNest(MCRank) /\ ReleasesLast /\ HoldsOnce

(* main's own threads: T2 runs Thread_L with priority 1, T3 Thread_M with  *)
(* 3 and T4 Thread_H with 5; main schedules and runs after the first two.  *)
MainThread(t, r, p) == threadCount' = t => routine'[t] = r /\ basePriority'[t] = p
MainOrder ==
  /\ MainThread(2, Thread_L(M1), 1)
  /\ MainThread(3, Thread_M(M1, M2), 3)
  /\ MainThread(4, Thread_H(M2), 5)
  /\ threadCount' # threadCount /\ threadCount >= 2 => bootRuns = 1
  /\ threadCount = 4 => bootRuns' = 0
  /\ phase = "boot" /\ phase' = "timer" => threadCount = 4
MainSpec == Init /\ [][Next /\ MainOrder]_vars /\ WF_vars(Next /\ MainOrder)
=============================================================================
