------------------------------ MODULE IrqSystem ------------------------------
(***************************************************************************)
(* The interrupt path of BLUE_KERNEL/IRQ_KernelDeal.c: a device puts an    *)
(* event into its ring and raises an interrupt, by MSI or through the one  *)
(* legacy line of the I/O APIC; the LAPIC of the target CPU keeps a        *)
(* pending bit per vector; CpuStep delivers the pending vectors, lowest    *)
(* first, to the chain of ISRs of the vector, and then runs the DPCs the   *)
(* ISRs queued, which drain the rings.                                     *)
(*                                                                         *)
(* The program is one thread: main lets the devices act, then steps the    *)
(* CPUs in order, tick after tick.  What the devices do in a tick is open, *)
(* and so is the device pool, one of Pools.                                *)
(***************************************************************************)
EXTENDS Integers, Sequences, FiniteSets, SequencesExt

CONSTANTS
    Devices, Timer, \* the timer has no ring: its ISR counts ticks
    NumCpus,        \* MAX_CPU
    Pools,          \* sequences of [device, msi, cpu, vector], in the order of DevicePool
    Interval,       \* ticks of the loop between two interrupts of the timer
    BUF_SIZE,
    VectorBits,     \* width of pending_vectors
    MaxTicks,       \* bound: passes of the loop
    MaxEvents,      \* bound: events of one device in one tick
    MaxFailures     \* bound: failing allocations

Cpus == 0 .. NumCpus - 1

ASSUME IrqAssumption ==
    /\ Timer \in Devices
    /\ {NumCpus, Interval, BUF_SIZE, VectorBits} \subseteq Nat \ {0}
    /\ {MaxTicks, MaxEvents, MaxFailures} \subseteq Nat
    /\ \A p \in Pools :
         /\ p \in Seq([device: Devices, msi: BOOLEAN, cpu: Cpus, vector: Nat])
         /\ \E i \in DOMAIN p : p[i].device = Timer
         /\ \A i, j \in DOMAIN p : p[i].device = p[j].device => i = j

VARIABLES
    pool,        \* the configured devices
    ring,        \* RING_BUFFER of each device
    pending,     \* LAPIC: pending_vectors
    inService,   \* LAPIC: in_service_vector, -1 for none
    chain,       \* the ISR node of the vector in service to call next
    irql, dpcs,  \* CPU_CONTEXT: level and DPC queue (the device each DPC drains)
    counter,     \* TIMER_EXT
    ticks,       \* g_system_ticks
    phase,       \* what the loop does: "timer", "devices", "cpus", "end"
    stepping,    \* the CPU whose CpuStep runs or is next
    loops,       \* passes of the loop begun
    failures,    \* failed allocations of a DPC
    events,      \* history: events of each device in this tick
    unread,      \* history: events accepted and not yet processed
    lost,        \* history: devices that lost an event in this tick
    dropped,     \* history: devices whose last DPC was not allocated
    expired      \* history: expirations of the timer

history == <<events, unread, lost, dropped, expired>>
cpuVars == <<pending, inService, chain, irql, dpcs>>
vars == <<pool, ring, cpuVars, counter, ticks, phase, stepping, loops, failures, history>>

PASSIVE == 0
DISPATCH == 1
DEVICE == 2

------------------------------------------------------------------------------
(* Configuration.                                                           *)

Pooled == {pool[i].device : i \in DOMAIN pool}
Config(d) == pool[CHOOSE i \in DOMAIN pool : pool[i].device = d]

\* The last of the places S of the pool.
NoNode == 0
LastOf(S) == IF S = {} THEN NoNode ELSE CHOOSE i \in S : \A j \in S : j <= i

\* ConfigureDevice gives every device without MSI the line 1 and overwrites
\* the route of the line: the device configured last owns it.
Route == pool[LastOf({i \in DOMAIN pool : ~pool[i].msi})]

\* An ISR node has the place of its device in the pool.  RegisterIsr puts a
\* node before the nodes the vector has.
IsrTable(v) == LastOf({i \in DOMAIN pool : pool[i].vector = v})

\* The CPU and the pending bits an interrupt of d arrives at.  The MSI path
\* rejects a vector the bitmap has no bit for; the path through the I/O APIC
\* shifts by any vector, and the hardware shifts modulo the width.
Arrives(d) ==
    LET conf == IF Config(d).msi THEN Config(d) ELSE Route
    IN  [cpu |-> conf.cpu,
         bits |-> IF Config(d).msi /\ conf.vector >= VectorBits
                  THEN {} ELSE {conf.vector % VectorBits}]

------------------------------------------------------------------------------
(* The ring of a device.                                                    *)

Next_(i) == (i + 1) % BUF_SIZE
IsEmpty(rb) == rb.head = rb.tail
\* Mutant: full one event early.
IsFullEarly(rb) == Next_(Next_(rb.tail)) = rb.head
IsFull(rb) == Next_(rb.tail) = rb.head
Pushed(rb, value) == [data |-> [rb.data EXCEPT ![rb.tail] = value],
                      head |-> rb.head, tail |-> Next_(rb.tail)]
\* What RB_Pop returns until it finds the ring empty.
Contents(rb) == [i \in 1 .. (rb.tail - rb.head) % BUF_SIZE |->
                    rb.data[(rb.head + i - 1) % BUF_SIZE]]
Drained(rb) == [rb EXCEPT !.head = rb.tail]

------------------------------------------------------------------------------
Init ==
    /\ pool \in Pools
    /\ ring = [d \in Devices |->
                 [data |-> [i \in 0 .. BUF_SIZE - 1 |-> 0], head |-> 0, tail |-> 0]]
    /\ pending = [c \in Cpus |-> {}]
    /\ inService = [c \in Cpus |-> -1]
    /\ chain = NoNode
    /\ irql = [c \in Cpus |-> PASSIVE]
    /\ dpcs = [c \in Cpus |-> <<>>]
    /\ counter = 0 /\ ticks = 0 /\ phase = "timer" /\ stepping = 0 /\ loops = 0 /\ failures = 0
    /\ events = [d \in Devices |-> 0]
    /\ unread = [d \in Devices |-> <<>>]
    /\ lost = {} /\ dropped = {} /\ expired = 0

Raise(d) == LET a == Arrives(d)
            IN  pending' = [pending EXCEPT ![a.cpu] = @ \cup a.bits]

\* TimerStep, at the start of a pass of the loop.
TimerStep ==
    /\ phase = "timer" /\ loops < MaxTicks
    /\ phase' = "devices" /\ loops' = loops + 1
    /\ events' = [d \in Devices |-> 0] /\ lost' = {}
    /\ IF counter + 1 >= Interval
       THEN counter' = 0 /\ expired' = expired + 1 /\ Raise(Timer)
       ELSE counter' = counter + 1 /\ UNCHANGED <<expired, pending>>
    /\ UNCHANGED <<pool, ring, inService, chain, irql, dpcs, ticks, stepping, failures, unread,
                   dropped>>

\* The interrupt is raised whether or not the ring had room.
DeviceGenerateEvent(d) ==
    /\ phase = "devices" /\ events[d] < MaxEvents
    /\ events' = [events EXCEPT ![d] = @ + 1]
    /\ Raise(d)
    /\ IF IsFull(ring[d])
       THEN lost' = lost \cup {d} /\ UNCHANGED <<ring, unread>>
       ELSE /\ ring' = [ring EXCEPT ![d] = Pushed(@, events'[d])]
            /\ unread' = [unread EXCEPT ![d] = Append(@, events'[d])]
            /\ UNCHANGED lost
    /\ UNCHANGED <<pool, inService, chain, irql, dpcs, counter, ticks, phase, stepping, loops,
                   failures, dropped, expired>>

StepCpus ==
    /\ phase = "devices" /\ phase' = "cpus" /\ stepping' = 0
    /\ UNCHANGED <<pool, ring, cpuVars, counter, ticks, loops, failures, history>>

------------------------------------------------------------------------------
(* CpuStep(c).                                                              *)

Stepping(c) == phase = "cpus" /\ stepping = c

NextCpu == IF stepping + 1 \in Cpus
           THEN stepping' = stepping + 1 /\ UNCHANGED phase
           ELSE /\ phase' = IF loops = MaxTicks THEN "end" ELSE "timer"
                /\ UNCHANGED stepping

Lowest(bits) == CHOOSE v \in bits : \A w \in bits : v <= w

\* Mutant: the LAPIC clears every pending bit with the one it delivers.
DispatchClearingAll(c) ==
    /\ Stepping(c) /\ irql[c] = PASSIVE /\ pending[c] # {}
    /\ inService' = [inService EXCEPT ![c] = Lowest(pending[c])]
    /\ chain' = IsrTable(Lowest(pending[c]))
    /\ pending' = [pending EXCEPT ![c] = {}]
    /\ irql' = [irql EXCEPT ![c] = DEVICE]
    /\ UNCHANGED <<pool, ring, dpcs, counter, ticks, phase, stepping, loops, failures, history>>

\* LapicGetNextVector, and DispatchInterrupt up to its handler; a vector
\* without an IDT entry has no ISRs.
DispatchInterrupt(c) ==
    /\ Stepping(c) /\ irql[c] = PASSIVE /\ pending[c] # {}
    /\ LET v == Lowest(pending[c])
       IN  /\ pending' = [pending EXCEPT ![c] = @ \ {v}]
           /\ inService' = [inService EXCEPT ![c] = v]
           /\ chain' = IsrTable(v)
    /\ irql' = [irql EXCEPT ![c] = DEVICE]
    /\ UNCHANGED <<pool, ring, dpcs, counter, ticks, phase, stepping, loops, failures, history>>

\* The loop of CommonInterruptEntry: the device whose ISR it calls, and the
\* node after it, as every ISR of the source reports the interrupt as handled.
Called(d) == chain # NoNode /\ pool[chain].device = d
ChainAfter(node) == NoNode

TimerIsr(c) ==
    /\ Stepping(c) /\ Called(Timer)
    /\ ticks' = ticks + 1
    /\ chain' = ChainAfter(chain)
    /\ UNCHANGED <<pool, ring, pending, inService, irql, dpcs, counter, phase, stepping, loops,
                   failures, history>>

\* KeyboardIsr, MouseIsr, MicrophoneIsr.
DeviceIsr(c, d) ==
    /\ Stepping(c) /\ Called(d)
    /\ chain' = ChainAfter(chain)
    /\ \/ /\ dpcs' = [dpcs EXCEPT ![c] = Append(@, d)]
          /\ UNCHANGED <<failures, dropped>>
       \/ /\ failures < MaxFailures   \* malloc returns NULL
          /\ failures' = failures + 1
          /\ dropped' = dropped \cup {d}
          /\ UNCHANGED dpcs
    /\ UNCHANGED <<pool, ring, pending, inService, irql, counter, ticks, phase, stepping, loops,
                   events, unread, lost, expired>>

LapicSendEoi(c) ==
    /\ Stepping(c) /\ irql[c] = DEVICE /\ chain = NoNode
    /\ inService' = [inService EXCEPT ![c] = -1]
    /\ irql' = [irql EXCEPT ![c] = PASSIVE]
    /\ UNCHANGED <<pool, ring, pending, chain, dpcs, counter, ticks, phase, stepping, loops,
                   failures, history>>

BeginDpcs(c) ==
    /\ Stepping(c) /\ irql[c] = PASSIVE /\ pending[c] = {} /\ dpcs[c] # <<>>
    /\ irql' = [irql EXCEPT ![c] = DISPATCH]
    /\ UNCHANGED <<pool, ring, pending, inService, chain, dpcs, counter, ticks, phase,
                   stepping, loops, failures, history>>

\* Mutant: the DPC reads one event of the ring, not all.
RunDpcOnce(c) ==
    /\ Stepping(c) /\ irql[c] = DISPATCH /\ dpcs[c] # <<>>
    /\ LET d == Head(dpcs[c])
       IN  /\ ~IsEmpty(ring[d])
           /\ ring' = [ring EXCEPT ![d].head = Next_(@)]
           /\ unread' = [unread EXCEPT ![d] = Tail(@)]
           /\ dropped' = dropped \ {d}
    /\ dpcs' = [dpcs EXCEPT ![c] = Tail(@)]
    /\ UNCHANGED <<pool, pending, inService, chain, irql, counter, ticks, phase, stepping,
                   loops, failures, events, lost, expired>>

\* KeyboardDpc, MouseDpc, MicrophoneDpc.
RunDpc(c) ==
    /\ Stepping(c) /\ irql[c] = DISPATCH /\ dpcs[c] # <<>>
    /\ LET d == Head(dpcs[c])
       IN  /\ ring' = [ring EXCEPT ![d] = Drained(@)]
           /\ unread' = [unread EXCEPT ![d] = <<>>]
           /\ dropped' = dropped \ {d}
    /\ dpcs' = [dpcs EXCEPT ![c] = Tail(@)]
    /\ UNCHANGED <<pool, pending, inService, chain, irql, counter, ticks, phase, stepping, loops,
                   failures, events, lost, expired>>

\* CpuStep returns, with the DPC queue empty or never filled.
CpuStepEnds(c) ==
    /\ Stepping(c) /\ dpcs[c] = <<>>
    /\ irql[c] = DISPATCH \/ (irql[c] = PASSIVE /\ pending[c] = {})
    /\ irql' = [irql EXCEPT ![c] = PASSIVE]
    /\ NextCpu
    /\ UNCHANGED <<pool, ring, pending, inService, chain, dpcs, counter, ticks, loops,
                   failures, history>>

CpuStep(c) == \/ DispatchInterrupt(c) \/ TimerIsr(c) \/ LapicSendEoi(c)
              \/ \E d \in Devices \ {Timer} : DeviceIsr(c, d)
              \/ BeginDpcs(c) \/ RunDpc(c) \/ CpuStepEnds(c)

Next == \/ TimerStep
        \/ \E d \in Pooled \ {Timer} : DeviceGenerateEvent(d)
        \/ StepCpus
        \/ \E c \in Cpus : CpuStep(c)

Spec == Init /\ [][Next]_vars

\* One thread runs the loop to its end; the devices' calls are bounded.
FairSpec == Spec /\ WF_vars(Next)

------------------------------------------------------------------------------
(* Properties.                                                              *)

Arrays == [data: [0 .. BUF_SIZE - 1 -> 0 .. MaxEvents], head: 0 .. BUF_SIZE - 1,
           tail: 0 .. BUF_SIZE - 1]

\* Every field has its type: vectors fit the bitmap, levels are those of IRQL
\* (RING_BUFFER, LAPIC, CPU_CONTEXT).
TypeOK ==
    /\ pool \in Pools
    /\ ring \in [Devices -> Arrays]
    /\ pending \in [Cpus -> SUBSET (0 .. VectorBits - 1)]
    /\ inService \in [Cpus -> -1 .. VectorBits - 1]
    /\ chain \in 0 .. Len(pool)
    /\ irql \in [Cpus -> {PASSIVE, DISPATCH, DEVICE}]
    /\ dpcs \in [Cpus -> Seq(Devices \ {Timer})]
    /\ counter \in 0 .. Interval - 1 /\ ticks \in Nat /\ expired \in Nat
    /\ phase \in {"timer", "devices", "cpus", "end"} /\ stepping \in Cpus
    /\ loops \in 0 .. MaxTicks /\ failures \in 0 .. MaxFailures
    /\ events \in [Devices -> 0 .. MaxEvents]
    /\ unread \in [Devices -> Seq(0 .. MaxEvents)]
    /\ lost \in SUBSET Devices /\ dropped \in SUBSET Devices

\* The ring holds exactly the events accepted and not yet processed, in their
\* order, across the wrap-around of head and tail (RB_Push, RB_Pop).
RingExact == \A d \in Devices : Contents(ring[d]) = unread[d]

\* An interrupt of d reaches a chain that begins with the ISR of d.  It does
\* not when a later device took over line 1 or d's vector, or when the vector
\* lies outside the bitmap.
Served(d) == \E v \in Arrives(d).bits :
               IsrTable(v) # NoNode /\ pool[IsrTable(v)].device = d

Delivering(d) == LET a == Arrives(d)
                 IN  \/ a.bits \subseteq pending[a.cpu]
                     \/ Stepping(a.cpu) /\ Called(d)

\* An unread event always has a pending bit, a running ISR or a queued DPC
\* that will read it, although interrupts of one vector merge into one bit;
\* only a failed allocation in QueueDpc leaves it waiting for the next one.
NoStrandedEvents ==
    \A d \in Pooled \ {Timer} : Served(d) /\ unread[d] # <<>> =>
        \/ Delivering(d)
        \/ d \in Range(dpcs[Arrives(d).cpu])
        \/ d \in dropped

\* No other device has the timer's pending bit, on any CPU: the CPUs share the
\* table of ISRs.
TimerAlone ==
    \A d \in Pooled \ {Timer} : Arrives(d).bits \cap Arrives(Timer).bits = {}

\* g_system_ticks counts each expiration of the timer once: none merges with
\* an earlier one that was not delivered yet (TimerStep, TimerIsr).
TicksExact == Served(Timer) /\ TimerAlone =>
    ticks + (IF Delivering(Timer) THEN 1 ELSE 0) = expired

\* Between two passes of the loop nothing is pending, in service or queued and
\* every CPU is back at PASSIVE_LVL (CpuStep).
QuietBetweenTicks == phase \in {"timer", "end"} =>
    \A c \in Cpus : /\ pending[c] = {} /\ inService[c] = -1
                    /\ irql[c] = PASSIVE /\ dpcs[c] = <<>>

\* Nothing an interrupt stands for gets lost on its way through the rings, the
\* pending bits, the chains and the DPC queues.
InterruptsAccounted ==
    TypeOK /\ RingExact /\ NoStrandedEvents /\ TicksExact /\ QuietBetweenTicks

\* RB_Push drops an event of a served device only in a tick with BUF_SIZE
\* events or more, or while events of an earlier tick wait for a DPC that
\* could not be allocated.
LossOnlyOnOverrun ==
    [][\A d \in lost' \ lost : Served(d) => events'[d] >= BUF_SIZE \/ d \in dropped]_vars

\* An event of a served device is processed, unless its DPC is not allocated.
EventsServed == \A d \in Devices :
    (d \in Pooled /\ Served(d) /\ unread[d] # <<>>) ~> (unread[d] = <<>> \/ d \in dropped)
==============================================================================
