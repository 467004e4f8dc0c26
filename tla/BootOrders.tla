----------------------------- MODULE BootOrders -----------------------------
(* The dispatcher with what main decides before its loop: to create its    *)
(* threads in ascending priority, as BlueKernel_lvl3.c does, or in any     *)
(* order.  What Schedule and CheckPreemption promise depends on it.        *)
EXTENDS DispatcherProperties

VARIABLE order
bootVars == <<vars, order>>

BootOrder == {"ascending", "any"}
Ordered == order' = order /\ (order = "ascending" => AscendingBoot)
BootsSpec == Init /\ order \in BootOrder /\ [][Next /\ Ordered]_bootVars

(* No thread stops in its first call: it would do so during the boot.      *)
FirstCallsGoOn == \A t \in UserThreads : routine[t][1].op \notin {"wait", "exit"}

----------------------------------------------------------------------------
(* Once main runs the current thread, no READY thread has more priority,   *)
(* when main creates its threads in ascending priority; and the idle       *)
(* thread runs only if nothing else can, in that order or if no thread     *)
(* stops in its first call (it could leave the idle thread current during  *)
(* the boot, where a new thread of its priority does not preempt it).      *)
HighestPriorityRuns ==
  /\ order = "ascending" => NoneAbove
  /\ order = "ascending" \/ FirstCallsGoOn => IdleDiscipline
=============================================================================
