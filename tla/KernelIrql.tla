----------------------------- MODULE KernelIrql -----------------------------
(***************************************************************************)
(* Interrupt request levels and deferred procedure calls (DPCs) of         *)
(* BLUE_KERNEL/BlueKernel_lvl3.c: the IRQL stack, TriggerInterrupt with    *)
(* nested interrupts, the DPC queue and its draining by PopIrql.           *)
(*                                                                         *)
(* Interrupts nest as C calls do.  calls is the stack of the activities    *)
(* main is inside of: an ISR between PushIrql and PopIrql, DrainDpcQueue,  *)
(* or a DPC routine, each with the number of calls it may still make.  A   *)
(* DPC is known by its place in the queue only, so the queue is its count. *)
(***************************************************************************)
EXTENDS Naturals, Sequences, SequencesExt

CONSTANTS
  MAX_QUEUE, MAX_NESTING,
  InterruptLevels,   \* the IRQLs of the INTERRUPT objects
  IsrCalls,          \* bound: interrupts and DPCs one ISR causes
  DpcCalls           \* the same for a DPC routine: none in the source

PASSIVE_LEVEL == 0
APC_LEVEL == 1
DISPATCH_LEVEL == 2
DIRQL == 3
KEYBOARD == 4
MACHINE_CHECK == 5

ASSUME IrqlAssumption ==
  /\ MAX_QUEUE \in Nat /\ MAX_NESTING \in Nat
  /\ DIRQL \in InterruptLevels /\ InterruptLevels \subseteq DIRQL..MACHINE_CHECK
  /\ IsrCalls \in Nat /\ DpcCalls \in Nat

VARIABLES
  currentIrql,    \* cpu.current_irql
  irqlStack,      \* irql_stack up to irql_top
  dpcCount,       \* dpc_count
  calls

vars == <<currentIrql, irqlStack, dpcCount, calls>>

Isr(n) == [kind |-> "isr", left |-> n]
Dpc(n) == [kind |-> "dpc", left |-> n]
Drain(level) == [kind |-> "drain", back |-> level]    \* new_level of PopIrql

InMain == calls = <<>>
In(kind) == calls # <<>> /\ Last(calls).kind = kind
Returned == Front(calls)

(* The running ISR or DPC makes one of the calls it has left. *)
Calling == (In("isr") \/ In("dpc")) /\ Last(calls).left > 0
Called == [calls EXCEPT ![Len(calls)].left = @ - 1]

Init ==
  /\ currentIrql = PASSIVE_LEVEL
  /\ irqlStack = <<>>
  /\ dpcCount = 0
  /\ calls = <<>>

(* The tests by which PushIrql refuses a level.  It does not return then,  *)
(* nor does QueueDpc when the queue is full: NoBugcheck says that neither  *)
(* happens.                                                                *)
PushRefused(level) ==
  \/ Len(irqlStack) >= MAX_NESTING
  \/ irqlStack # <<>> /\ level <= Last(irqlStack)

PushIrql(level) ==
  /\ ~PushRefused(level)
  /\ irqlStack' = Append(irqlStack, level)
  /\ currentIrql' = level

(* An interrupt at or below the current IRQL is masked: it is lost. *)
TriggerMasked(level) ==
  /\ Calling /\ level <= currentIrql
  /\ calls' = Called
  /\ UNCHANGED <<currentIrql, irqlStack, dpcCount>>

TriggerInterrupt(level) ==
  /\ level > currentIrql
  /\ PushIrql(level)
  /\ \/ InMain /\ calls' = <<Isr(IsrCalls)>>
     \/ Calling /\ calls' = Append(Called, Isr(IsrCalls))
  /\ UNCHANGED dpcCount

QueueDpc ==
  /\ Calling /\ dpcCount < MAX_QUEUE
  /\ dpcCount' = dpcCount + 1
  /\ calls' = Called
  /\ UNCHANGED <<currentIrql, irqlStack>>

(* A thread starts an I/O: it raises the IRQL itself, not by an interrupt, *)
(* and queues the completion.                                              *)
StartIoOperation ==
  /\ InMain /\ dpcCount < MAX_QUEUE
  /\ PushIrql(DIRQL)
  /\ dpcCount' = dpcCount + 1
  /\ calls' = <<Isr(0)>>

(* Mutants: PASSIVE_LEVEL is restored whatever was interrupted; an ISR     *)
(* drains below another ISR.                                               *)
NewLevelPassive(s) == PASSIVE_LEVEL
DrainsAlways(old, new) == old > DISPATCH_LEVEL

NewLevel(s) == IF s = <<>> THEN PASSIVE_LEVEL ELSE Last(s)
Drains(old, new) == old > DISPATCH_LEVEL /\ new < DISPATCH_LEVEL

(* PopIrql, after the ISR has returned: below DISPATCH_LEVEL it first      *)
(* drains the DPC queue at DISPATCH_LEVEL.                                 *)
PopIrql ==
  LET level == NewLevel(Front(irqlStack))
  IN  /\ In("isr") /\ irqlStack # <<>>
      /\ irqlStack' = Front(irqlStack)
      /\ IF Drains(currentIrql, level)
         THEN currentIrql' = DISPATCH_LEVEL /\ calls' = Append(Returned, Drain(level))
         ELSE currentIrql' = level /\ calls' = Returned
      /\ UNCHANGED dpcCount

(* The loop of DrainDpcQueue calls the oldest DPC... *)
DrainOne ==
  /\ In("drain") /\ dpcCount > 0
  /\ dpcCount' = dpcCount - 1
  /\ calls' = Append(calls, Dpc(DpcCalls))
  /\ UNCHANGED <<currentIrql, irqlStack>>

DpcReturns ==
  /\ In("dpc")
  /\ calls' = Returned
  /\ UNCHANGED <<currentIrql, irqlStack, dpcCount>>

(* ...until none is left; PopIrql then sets the new level. *)
DrainEnds ==
  /\ In("drain") /\ dpcCount = 0
  /\ currentIrql' = Last(calls).back
  /\ calls' = Returned
  /\ UNCHANGED <<irqlStack, dpcCount>>

Next ==
  \/ \E level \in InterruptLevels : TriggerMasked(level) \/ TriggerInterrupt(level)
  \/ QueueDpc \/ StartIoOperation
  \/ PopIrql \/ DrainOne \/ DpcReturns \/ DrainEnds

Spec == Init /\ [][Next]_vars

----------------------------------------------------------------------------
Frames == [kind : {"isr", "dpc"}, left : Nat] \cup [kind : {"drain"}, back : Nat]
TypeOK ==
  /\ currentIrql \in PASSIVE_LEVEL..MACHINE_CHECK
  /\ irqlStack \in Seq(InterruptLevels)
  /\ dpcCount \in Nat
  /\ calls \in Seq(Frames)

(* No call that main, an ISR or a DPC makes ends in a bugcheck: the IRQL   *)
(* stack has room, the level is a raise, and the DPC queue has room.       *)
NoBugcheck ==
  /\ TypeOK
  /\ InMain \/ Calling =>
       /\ dpcCount < MAX_QUEUE
       /\ \A level \in InterruptLevels : level > currentIrql => ~PushRefused(level)

(* cpu.current_irql is what the activity running on it needs: an ISR runs  *)
(* at the level on top of the IRQL stack, DPCs at DISPATCH_LEVEL, main at  *)
(* PASSIVE_LEVEL; each ISR still running has its level on the stack; no    *)
(* drain starts below an ISR or another drain; and when the thread that    *)
(* was interrupted goes on no DPC is left behind, so whatever woke a       *)
(* thread has also asked for its dispatch.                                 *)
LevelOfActivity ==
  /\ InMain => currentIrql = PASSIVE_LEVEL /\ dpcCount = 0 /\ irqlStack = <<>>
  /\ In("isr") => irqlStack # <<>> /\ currentIrql = Last(irqlStack)
  /\ In("dpc") \/ In("drain") => currentIrql = DISPATCH_LEVEL
  /\ Len(irqlStack) = Cardinality({i \in DOMAIN calls : calls[i].kind = "isr"})
  /\ \A i \in DOMAIN calls : calls[i].kind = "drain" => i = 1

=============================================================================
