# A TLA+ model of Kernel_Simulator

The repository simulates an operating system kernel and its hardware in C: a
dispatcher with interrupts, threads and mutexes (`BLUE_KERNEL`), a PCI bus with
its operating system side (`B_Kernel`), and cores with store buffers and caches
(`firmwareLearning`). This directory specifies them in TLA+, checks them with
TLC and proves theorems about them with TLAPS. `lvl3` below is
`src/BLUE_KERNEL/BlueKernel_lvl3.c`, `lvl2` and `Lvl1` are its earlier stages.

Run TLC with `tlc -config X.cfg M.tla` and the proofs of a module `M` with
`tlapm M_proofs.tla`. `PROJECT.json` lists the runs, the lines
each definition models, the hazards of the code, the findings and the theorems.

## Inventory

| Component | State | Operations | Interacts with | Hard part | Correct if |
|---|---|---|---|---|---|
| Ready queues (lvl3 301-430) | a ring per priority, `g_ready_bitmap` | `ReadyThread`, `RemoveReadyThread`, `RemoveFromReadyQueue`, `ReinsertReadyThread` | everything that makes a thread READY | removal in the middle across the wrap-around; three places that clear a bit | rings are queues, bit set iff queue non-empty |
| Bit scan (lvl3 12-21, 433-452) | `g_priorityTable` | `BuildDeBurijnTable`, `FindHighestSetBit` | `PickNextThread` | 32-bit wrap-around | returns the highest bit |
| Dispatcher (lvl3 211-299, 461-546, 809-819, 1058-1124) | thread table, `current_thread`, `reschedule_requested` | `CreateThread`, `Schedule`, `CheckPreemption`, `TimerDPC`, `TerminateThread`, main's loop | queues, mutexes, events, IRQL | decisions made now and carried out at the next dispatch | READY threads are queued, one RUNNING, dispatch never forgotten |
| Mutexes (lvl3 597-797, 874-900) | owner, wait queue, `owned_mutex`, `waiting_mutex`, priorities | `AcquireMutex`, `BoostPriorityChain`, `ReleaseMutex`, `DetectPriorityInversion` | ready queues (boost moves threads), objects | chains of owners, hand-off, boosts that outlive their reason | exclusive, inherited priority, highest waiter first |
| Events and I/O (lvl3 821-872, 902-915) | `io_event` | `WaitEvent`, `SignalEvent`, `WakeOne`, `StartIoOperation` | DPC queue, ready queues | wake-ups before and after the wait | no completion lost or used twice |
| IRQL and DPCs (lvl3 23-190) | `cpu.current_irql`, IRQL stack, DPC queue | `PushIrql`, `PopIrql`, `TriggerInterrupt`, `QueueDpc`, `DrainDpcQueue` | timer and I/O | nesting | DPCs at DISPATCH_LEVEL, after all ISRs, none left |
| Objects, handles, processes (lvl3 192-272, 549-595, 799-807) | reference counts, handle table | `Ob*`, `CreateProcess`, `DestroyProcess` | mutexes | leaks, use after free | count = references |
| lvl2 kernel (lvl2 200-867) | thread table, one mutex, event, process | as lvl3, with a scan of the thread table | - | the running thread is no candidate; references of waiters | one RUNNING, boosts to the owner, process exits |
| Lvl1 kernel (Lvl1 239-715) | thread table, one mutex, event | as lvl2, threads end themselves | - | an end without a reschedule | wait queues exact, every thread ends |
| Interrupt controllers (`IRQ_KernelDeal.c`) | I/O APIC routes, LAPIC pending bits, ISR chains, DPC list, event ring | `DeviceGenerateEvent`, `IoApicHandleIRQ`, `DispatchInterrupt`, `ProcessDpcQueue` | devices and CPUs | coalesced interrupts, full ring, shared lines | every event that raised an interrupt is consumed |
| Cores and caches (`cpu_isa.c`) | store buffers, MESI lines, bus, bus lock | `Step`, `CacheLoad`, `CacheWriteDirect`, `CacheSnoop`, `DrainStoreBuffer` | cores through the bus | interleaving of cores | single writer, no store lost, locked increments atomic |
| PCI enumeration and configuration (`bus/`, `hw/`) | configuration space, discovery masks | `PciConfigRead32/Write32`, `GetPciBarInfo`, `PciScanBus` | OS device (callback) | sizing a BAR is a protocol of writes and reads | BAR sizes found, values restored |
| OS device (`device/`) | device contexts, address allocator | `DeviceCreateFromPci`, `AssignBarAddress`, `BarChangeHandler` | PCI, drivers | assignment while BARs are still being found | addresses disjoint, cache of addresses fresh |
| MMIO router (`mmio/`) | none of its own | `MmioRouteRead/Write` | bridges, BAR memory | two decoders of the same window | both agree |
| Drivers, `main.c` (B_Kernel) | a driver record per context | `TestBarDriverProbe`, `TestBarDriverInit` | PCI, BAR memory | which BARs are tested | every decent memory BAR's device is driven |
| Earlier PCI exercises (`firmwareLearning`) | - | straight-line demonstrations | - | - | - |

The kernel is a single C thread of control. What its callers see as concurrency
is made of a few hand-overs: `main` delivers a timer interrupt, whose ISR queues
a DPC that runs when the IRQL drops; it dispatches if `reschedule_requested` is
set; it calls the current thread's routine once, which runs one step (`t->pc`)
and may block, boost, release, signal or die; then it reaps the process. The
hard questions are about what is left behind between these steps.

## Modules

| Module | Models | Run |
|---|---|---|
| `ReadyQueueOps` | ready queues as values: sequences and a bitmap | through `KernelDispatcher` |
| `ReadyQueues` | what the ready queues promise (abstract specification) | implemented by `ReadyRings` |
| `ReadyRings` | the ring buffers as stored | `ready_rings` |
| `ReadyRings_proofs`, `KernelIrqlObjects_proofs`, `IrqSystem_proofs`, `MesiCache_proofs`, `CpuIsa_proofs` | theorems about the modules of these names | tlapm |
| `PriorityBits` | table construction and bit scan on 32-bit words | `ready_rings` |
| `KernelIrql` | IRQL stack, nested interrupts, DPC queue | `kernel_irql` |
| `KernelDispatcher` | dispatcher, mutexes, event, main loop | the three dispatcher runs |
| `DispatcherProperties` | its properties, main's boot in ascending priority (`AscendingBoot`) and the inductive invariant `IInv` | |
| `BootOrders` | the orders in which main may create its threads, `HighestPriorityRuns` | `dispatcher_services` |
| `MCDispatcher`, `MCServices` | instances: threads, mutexes, routines and their groups | `dispatcher_services`, `single_mutex_liveness`, `assumed_single_mutex` |
| `KernelDispatcher_proofs` | theorems about the dispatcher: threads and queues, mutexes, boosts, events, the highest thread and the idle thread | tlapm |
| `MutexService` | what acquire and release promise (abstract specification) | implemented by all three kernels |
| `KernelObjects` | handle tables, reference counts, processes, for any callers | `kernel_objects` |
| `ScanRoutines` | the routines of both earlier stages | through `MCScan` |
| `ScanServices` | kernel services lvl2 and Lvl1 share, as operators on a kernel record, and their properties | through the two below |
| `KernelLvl2`, `KernelLvl1` | lvl2: scheduler by scan, mutex with references, process, main loop; Lvl1: the same services, its own scheduler and loop | through `MCScan` |
| `EarlierStages` | a boot of either stage, and what both keep (`KernelExact`) | through `MCScan` |
| `MCScan` | its instance: the routines of the source and others | `earlier_kernels` |
| `EarlierStages_proofs` | theorems about both stages | tlapm |
| `IrqSystem`, `MCIrq` | devices, rings, I/O APIC, LAPICs, ISR chains, DPCs, timer | `irq_system` |
| `CoherentMemory` | what the caches promise (abstract) | implemented by `MesiCache` |
| `MesiOps` | cache and bus operations of `cpu_isa.c` as operators | through the two below |
| `MesiCache` | cores that load and write through the caches | `mesi_cache` |
| `StoreBufferedMemory` | what programs observe: FIFO store buffers before one memory (abstract) | implemented by `CpuIsa` |
| `CpuIsa`, `MCCpu` | micro-operations, store buffers, bus lock, main's loop; litmus programs | `cpu_programs` |
| `PciConfig` | configuration space of a function, sizing, validation, as operators | through the ones below |
| `BarDecoder` | what BARs promise (abstract) | implemented by `PciBars` |
| `PciBars`, `MCPciBars` | one function whose BARs are moved and sized | `pci_bars` |
| `PciSystem` | enumeration, device contexts, address assignment, driver | through `MmioRouter` |
| `MmioRouter`, `MCPci` | `PciSystem` with bridge windows and routed accesses | `pci_system` |
| `Pci_proofs` | theorems about one function, the enumeration, the assignment of addresses and the router | tlapm |

`KernelDispatcher` builds its ready queues on `ReadyQueueOps`; `ReadyRings`
refines `ReadyQueues`, which is built on the same operators: this is how the
ring buffers of the code stand behind the sequences of the dispatcher model.
`CpuIsa` composes the cores with the caches of `MesiOps`, and `MmioRouter`
composes the router with the system that `PciSystem` enumerates, which is made
of functions of `PciConfig`.

### KernelDispatcher and the code

An action is one stretch of `main`: `CreateThread`, `BootSchedule` (main's own
`Schedule`), `StartLoop`, then per turn of the loop one of
`TimerIgnored`/`TimerCharged`/`QuantumExpired` (the timer interrupt with its
DPC), `Dispatch` or `DispatchNothing`, one call of the current routine
(`IdleThread`, `Work`, `Hold`, `AcquireFree`, `AcquireBlocked`, `Release`,
`ReleaseAndExit`, `Exit`, `StartIo`, `WaitEvent`, `StartIoAndWait`), and `Reap`.
`phase` says which comes next.

- A thread is its id; thread 1 is the idle thread. `routine[t]` is the sequence
  of kernel services its C function calls, one entry per value of `t->pc`. The
  routines of the source are `Thread_A` to `Thread_H` in the module.
  `ClientRoutines` and `ChainRoutines` (in `MCDispatcher`) are further callers of the same kernel
  services, such as a thread that dies owning a mutex, for which
  `TerminateThread` has its first branch.
- A mutex is locked iff its owner is not `NULL` (the code sets both together).
- `BoostPriorityChain` recurs in C. The model states the set of threads it
  raises as the least set closed under "owner of the mutex a raised thread waits
  for", so it needs no recursion and can be proved about. At most one raised
  thread is READY (lemma `BoostedOneReady`), so one queue changes.
- `PickNextThread`'s loop is the predicate `Picks` (where it stops) and
  `AfterPick` (what it leaves).
- `StartIoOperation` is one step with its completion: it drops from DIRQL to
  PASSIVE_LEVEL before it returns and so drains the DPC (`LevelOfActivity` of
  `KernelIrql`).
- The references a routine takes and drops within one call cancel out; only
  `Thread_L`'s second step keeps its reference (`Hold`).
- `io_event` is ready from the start: main calls `InitEvent` before its loop and
  its own boot never uses the event. `main` loops 11 times; the model's loop has
  no bound. Bounds: `MaxBootRuns` limits main's own `Schedule` calls to one per
  `CreateThread`, as in `main`; nothing else is cut off.
- IRQL checks (`AcquireMutex must occur at PASSIVE_LEVEL` and so on) are not
  guards: which level each activity runs at is `LevelOfActivity` of `KernelIrql`.

### ReadyRings, PriorityBits, KernelIrql

`ReadyRings` has the slots, head, tail and count of each ring. A removed slot in
the middle keeps its stale pointer, as in the code. `RemoveFromReadyQueue` is
part of `ReinsertReadyThread`, its only caller. `PriorityBits` represents a
`uint32_t` by the set of its 1 bits; `Successor` wraps around. `KernelIrql` keeps
the C call stack (`calls`): ISRs, the drain, DPCs. An ISR may trigger an
interrupt, be refused one that is masked, or queue a DPC, in any order.
`PushIrql` and `QueueDpc` in a state where the code would bugcheck are not
steps; `NoBugcheck` says that no caller gets there. In `KernelDispatcher`, too, a
call that would bugcheck is no step: the routine has no next one, and TLC, which
looks for deadlocks there, would stop at it.

### KernelObjects

Handle tables, counts and lifetimes for callers that are only held to the
interface: they use pointers they have a reference for (`held`) and processes
that exist. `Dereferenced` is `ObDereferenceObject` for one reference or, in
`DestroyProcess`, for every handle of an object at once. Freed memory may be
given out again. A full table is a bugcheck and not a step.

### ScanServices, KernelLvl2, KernelLvl1, EarlierStages

The two earlier stages share their services word for word; `ScanServices` states
each as an operator from the kernel's state to the state after the call, so that
a call of a routine, which may use several services (`ReleaseMutex`, then
`TerminateThread`), is the composition of them (`RunThread`). `phase` orders the
loop as in `KernelDispatcher`; the loops differ: lvl2 goes timer, dispatch, run,
reap, and Lvl1 timer, run, dispatch. In lvl2 the idle thread is no candidate of
`PickNextThread`; in Lvl1 it is one of priority 0. `InitEvent` belongs to
`StartLoop`, after the first thread has run once; `BootRoutines` are those whose
first call leaves the event alone, as `Thread_L` in both mains. The test
`state == THREAD_RUNNING` in front of lvl2's call never fails (`OneThreadRuns`),
and Lvl1's does (divergence 12), which is the second case of its `IdleThread`.
References taken and dropped within one call cancel out.

### IrqSystem

A tick of `main` is a series of steps: `TimerStep`, any events of the devices
(`DeviceGenerateEvent` with `RB_Push` and the interrupt), then per CPU the parts
of `CpuStep`: `DispatchInterrupt` for the lowest pending vector, one ISR of the
chain at a time (`DeviceIsr`, `TimerIsr`, until one handles it), EOI, and the
DPCs. `Arrives` is what `IoApicHandleIRQ` and the MSI path do to the pending bits:
vectors outside the bitmap are refused by MSI and shifted out of range by the
I/O APIC; the wrap-around of an x86 shift is in two of the pools
(`WideVectors`, `WideTimer`). The ISR chains are one table that the CPUs share:
`chain` is the node whose ISR is called next, `IsrTable(v)` the first node of a
vector. A failed `malloc` in `QueueDpc` may happen at any DPC
(`MaxFailures`). Ghost variables: `unread`, `lost`, `dropped`, `expired`.

### MesiOps, MesiCache, CpuIsa

Addresses count words, and lines are `CACHE_LINE_DATA_WORDS` words: the code masks byte
addresses with `CACHE_LINES - 1` where it means the line size, and both are 8, so the
model divides by the words of a line. A bus transaction is one step, as the
program is one thread; what interleaves are the micro-operations of the cores,
which `main` steps in turn (`turn`), so programs are shifted against each other
by `Delay`. A micro-operation is a pair (opcode, stage). Instructions are
records in a program per core, and instruction memory is apart from the data:
`Encode` and `Decode` keep their fields. `WORD` scales the 32-bit registers; no
program gets near it. The store buffer drains at a fence and when `main` ends
(`FlushStoreBuffer`), as in the code, where the drain in `Step` is commented out.
A store that finds the buffer full changes no buffer; in the refinement of
`StoreBufferedMemory` it is a stutter. Loads do not look into
the own store buffer, and the abstract specification says so.

### PciConfig, PciSystem, MmioRouter

Configuration registers, the discovery state (all ones written, size answered
once) and the notifications of BAR changes are operators on a function's record;
`told` lists the notifications. A dword is scaled to 256 (`PciBars`) or 1024 values
and a window register to two halves, in units of 16 or 32 addresses; the low
four bits of a BAR keep their meaning. 16 addresses stand for 0x1000. The shift of a window base
into the sign bit is what gcc makes of it. `PciSystem` walks positions as
`PciScanBus` does, one turn of its loop per step, with the
callbacks inside the step; `stack` holds a frame per bus. The contexts are built
BAR by BAR (`CreateBar`), each followed by `AssignBarAddress` for all BARs so
far. `mem` keeps the first word of each BAR. After the enumeration `main`
returns; the steps from there on (`SetCommand`, `MoveBar`, `ProgramWindow`,
`MmioRouteWrite`) are clients of the public functions of `pci_logic.h` and
`mmio_router.h`: without them nothing is enabled and nothing can be routed.

## Runs

All numbers are distinct states.

| Run | Instance; distinct states | Shows |
|---|---|---|
| `dispatcher_services` (`Services.cfg`) | idle + 3 threads, priorities 1..3, quantum 2, two mutexes, three groups of routines, each created in any order and in ascending priority; 1 592 796 | queues, current thread, wait queues, boosts, chains of owners, hand-off, event and references are exact; both mutexes implement `MutexService` |
| `single_mutex_liveness` (`SingleMutexLiveness.cfg`) | one contended mutex, priorities 1..2, source routines and two clients, fairness; 330 889 | every thread ends and the process exits |
| `ready_rings` (`ReadyRings.cfg`) | 4 threads, 2 priorities; 466 064 | ring arithmetic and bitmap, the scan finds the highest bit, the rings implement `ReadyQueues` |
| `kernel_irql` (`KernelIrql.cfg`) | 3 interrupt levels, 2 calls per ISR; 180 | no overflow, the level of each activity, one drain at the outermost interrupt, no DPC left |
| `kernel_objects` (`KernelObjects.cfg`) | 2 processes of 3 handles, 2 objects, 2 pointers each; 7 312 | exact counts and lifetimes, exit closes every handle |
| `earlier_kernels` (`EarlierKernels.cfg`) | both stages: idle + 3 threads, their own routines and clients, quantum 2, fairness; 600 237 | ownership, wait queues, references and the running thread agree, the mutex implements `MutexService`, threads end |
| `irq_system` (`IrqSystem.cfg`) | 3 devices in 7 pools, 2 CPUs, rings of 2 events, 3 ticks, 3 events a tick, 1 failed allocation, fairness; 149 124 | no stranded event, exact rings and ticks, quiet CPUs between ticks; losses on overrun only; events are served |
| `mesi_cache` (`MesiCache.cfg`) | 3 cores, caches of one slot, two lines; 112 425 | one writer per line, copies agree, what is lost is lost with a shared copy; while nothing is evicted the caches implement one memory |
| `cpu_programs` (`CpuPrograms.cfg`) | 2 cores, caches of two lines of two words; litmus programs at all offsets, all programs of 3 and 2 instructions from a menu, five stores in a row; fairness; 376 258 | bus lock exact, messages in order, fences work, cores implement `StoreBufferedMemory`, programs halt |
| `pci_bars` (`PciBars.cfg`) | 4 layouts with every kind of BAR, 7 addresses; 168 | sizing is exact and invisible, BARs implement `BarDecoder` |
| `pci_system` (`PciSystem.cfg`) | 3 pools: main's, multifunction with two bridges, unbridged; then, for main's, enables, moves, windows and routed writes; 37 680 | everything visible registered once and tested, BARs apart and in the region, cached addresses fresh, router, decoders and bridge agree |
| `assumed_single_mutex` (`AssumedSingleMutex.cfg`) | main's threads and boot | *violated*: the finding below |

Properties are named for what they are about, and each is one claim with its
parts as conjuncts. For instance `InheritanceExact` says that nobody waits for a
lower owner, however long the chain, that nobody is boosted without a waiter of
his own, that no boost outlives its reason, and that the inversion detector's reports are then never about the mutex it names;
`WaitChainsEnd` that neither a circle nor a dead owner ends a chain of waiters;
`InterruptsAccounted` that each unread event of a served device has an interrupt
or DPC on its way.

**Why the bounds are enough.** Three user threads are the least number for a
chain of two owners and for an inversion (low owner, high waiter, medium
runner), and fill a wait queue with two threads of different priority; two
mutexes are all the code has. Three priorities distinguish lower, equal and
higher from every thread. The quantum of 2 lets a thread be charged without
expiring and expire while it owns a mutex. The ring run has as many threads as
slots, so a ring becomes full and wraps; with two priorities a thread moves
between rings. The scan of `PriorityBits` smears only the highest bit's
consequences, so the words of a few bits and the runs of bits that the run
takes exercise all carries. The full sizes of the code (16 threads, 32
priorities) are what the proofs are for.

For the other programs: three user threads again for lvl2 and Lvl1, whose one
mutex needs an owner and two waiters of different priority; a ring that can
overrun within a tick, two CPUs for interrupts that cross, and pools for
each way an interrupt can be routed, shared or out of range; two cores are
all `main` of `cpu_isa.c` runs together, three show snoops with two answers;
one line more than a cache holds is enough to evict; store buffers have the
size of the code; a function has every kind of BAR, sizes up to more than a
dword, and bridges with one and two functions behind them.

With the source's own routines a boost never has to travel on: the highest
thread always comes for its mutex before the middle one waits. The `chain` group
lets it come late, woken by an I/O. The `client` group calls the services in
further ways, such as a thread that dies owning its mutex.

**Fairness.** `FairSpec` is weak fairness of the whole next-state relation: `main`
is one thread of control that makes its next call, and nothing is said about
which routine steps come next, as they follow from the program counters. The model
has no bound on the loops, where `main` stops after 10 or 11 turns: `ProcessExits`
says that the loop, if it goes on, empties the process. `RoutinesEnd` (the two
earlier kernels) and `EventsServed` (interrupts) rest on the same assumption. In
`CpuIsa` it is weak fairness of the turns of `main`'s loop (`MainGoesOn`), which
steps one core after the other; no drain of a store buffer or turn of a core is assumed beyond the order
in which the code's loops do them. The other modules assume none.

**Deliberate limits of the properties.**

- In `dispatcher_services` the threads of a boot are of one group: main's own
  routines, the chain, or the clients. Within a group every combination,
  priority and order of creation is tried; `order` says which boots are in
  main's own, ascending priority.
- Liveness is checked for threads that own one mutex at a time. With `Thread_M`
  it fails, because of the finding: M dies owning M1, and a later `Thread_L` would
  wait for ever. `ProcessExits` allows threads to be left waiting for `io_event`
  when a routine waits in another call than it starts its I/O in, which none of
  the source does: the event remembers one completion, whoever started it, so
  two completions before a wait count once. `NoDeadOwner` exempts, for the same reason, owners whose routine
  takes both mutexes, and `PriorityInherited` speaks about live owners.
- The first part of `HighestPriorityRuns` holds for threads created in ascending
  priority, as main does. A boot `Schedule` does not clear `reschedule_requested`, and
  `CheckPreemption` only compares with the current thread, so other orders may
  run a lower thread until the next dispatch. The second part, the idle
  thread's discipline, holds in every order for routines whose first call neither
  waits nor exits (`FirstCallsGoOn`), as main's: one that stops during the boot
  leaves the idle thread current, and a new thread of its priority does not
  preempt it.
- `IdleDiscipline` needs at most one boot `Schedule` per created thread: a second
  one while the idle thread runs would queue it (lvl3 488-491 do not test for it).
- `KernelIrql` is checked with `DpcCalls = 0`, as no DPC of the source triggers
  an interrupt. With `DpcCalls = 1` the drain nests (`LevelOfActivity` fails):
  `PopIrql` never pushes DISPATCH_LEVEL on the stack, so an interrupt taken
  during a drain pops to PASSIVE_LEVEL and drains again inside it.
- `irq_system` promises service to `Served` devices: those whose vector and line
  no later device takes over and whose vector the pending bits have. On a line
  of two devices the chain of ISRs stops at the first that has events; the
  events of the other wait for its next interrupt.
- The values of `mesi_cache` are compared with one memory for programs that
  stay within the lines a cache holds (`used` in the module), those of
  `cpu_programs` for caches that hold every line of the programs (divergence
  3). The coherence of the copies is checked with evictions.
- The PCI modules keep BARs in even slots (`LayoutFormed`), BAR 0 implemented and
  its size a multiple of the others (`FirstBarAssumption`), upper dwords even
  (`BarsAssumption`), moves of BARs in the first dword (`PoolsAssumption`) and
  prefetch bases below 0x8000 (`PrefetchWindowsLow`): divergences 6 to 10 are what
  happens otherwise. One bridge at most is visible on the root bus, as every
  bridge is given secondary bus 1, and software programs the windows of this one:
  through the windows of a bridge on bus 1 the router would call itself for ever
  (divergence 13). The variable `use` of `MCPci` only says which of the clients
  that follow the enumeration are tried, to keep the combinations few.

Every property of a passing run has a mutant in `PROJECT.json`: a change of one
definition, of the kind a slip in that code would be, with which TLC finds the
property violated. The mutants' definitions stand just before the definition
they change.

## Finding

The comment at lvl3 751-752 assumes a single owned mutex per thread, but
`main` runs `Thread_M`, which owns two; `owned_mutex` is overwritten, and M
terminates while it still owns M1. `SingleOwnedMutex` states the comment, and
`assumed_single_mutex` shows the run of `main` that refutes it.

## Divergences the models contain

Where the code does something else than one would expect, the models do as the
code does, and the properties are stated for the cases where they hold. These
are the places, met while modelling. They have no run of their own.

1. `FindHighestSetBit` returns 0 for a bitmap with bit 31: `x + 1` wraps to 0 at
   lvl3 443. Priority 31 is legal (`MAX_PRIORITY 32`), and `PickNextThread` would
   then loop for ever. `main` uses priorities up to 5. `KernelDispatcher` assumes
   priorities below the top one (`PriorityAssumption`).
2. `DetectPriorityInversion` reports "High T%d waiting on Low T%d" for any blocked
   thread (lvl3 877), also one that waits for the other mutex.
3. A MODIFIED line that another core reads becomes SHARED without a write-back
   (`cpu_isa.c` 432), and eviction writes MODIFIED lines only: the write is lost
   once both copies are gone (`LossOnlyWhenShared`).
4. A store into a full buffer is dropped after "Store buffer full, forced drain"
   (`cpu_isa.c` 321-325).
5. `LOCK_INC` unlocks the bus with its result still in the store buffer
   (`cpu_isa.c` 786): the other core reads the old value, and one increment is
   lost.
6. A 64-bit BAR notifies its change with the first half written (`pci_logic.c`
   206-222): above the first dword the cached address is stale.
7. `AssignBarAddress` uses the size of BAR 0 for every BAR (`OS_device.c` 34,
   36); without a BAR 0 the address is 0.
8. In discovery mode a 32-bit BAR in an odd slot is answered as a high dword
   (`pci_logic.c` 52); it gets no size, and its device no driver.
9. The bridge shifts a prefetch base as `int` (`pci_logic.c` 522): from 0x8000 on
   it refuses what the router forwards.
10. The high dword of a 64-bit BAR is tested for the I/O bit itself when it is
    sized (`pci_logic.c` 164): an odd one gives a wrong size.
11. In lvl2 the idle thread runs although a user thread is READY, when the quantum
    of the only runnable thread ends (lvl2 241, 322). lvl3 has not this defect:
    `IdleDiscipline`.
12. In Lvl1 nobody runs after `Thread_M` has ended, until the timer has used up
    its quantum (Lvl1 550, 655).
13. Every bridge has secondary bus 1 (`pci_sim.c` 245), also one on bus 1: if
    software opens its windows, `ScanBusForDevice` calls itself on the same bus
    without end (`mmio_router.c` 268-269).

## Proofs

Eight modules hold theorems. They hold for every value of the constants that
satisfies the named assumptions: the full sizes of the code are among them. The
module's own definitions are used as they are, and nothing is assumed but what
this section says. All steps are checked by `tlapm`.

| Theorem | Says |
|---|---|
| **`KernelDispatcher_proofs`** | |
| `Invariant` | `Spec => []IInv` |
| `TypeCorrect` | types; priorities stay below the top one, quantum in 1..QUANTUM |
| `ReadyQueuesCorrect` | ready queues hold exactly the READY user threads, once, under their priority |
| `CurrentThreadCorrect` | one RUNNING thread, never queued |
| `WaitQueuesCorrect` | BLOCKED iff in one wait queue, once; only locked mutexes have waiters |
| `RescheduleCorrect` | whenever the current thread cannot run, a reschedule is pending |
| `HandOffCorrect` | ownership only passes to a waiter of highest priority |
| `PriorityFallCorrect` | priority only falls at the thread's own release, to its base |
| `EventCorrect` | a remembered completion has no waiter |
| `NoStaleBoostCorrect` | a thread that owns nothing runs at its base priority |
| `OwnersCorrect` | where owners and waiters are in their routines; `owned_mutex` of threads that take one mutex |
| `StepsLeftCorrect` | main never calls a routine that is over |
| `BoostsGrounded` | a live thread is above its base priority only for a waiter of its own |
| `InheritanceCorrect` | `InheritanceExact`, if `ReleasesLast` |
| `WaitChainsCorrect` | `WaitChainsEnd`, if the routines nest their locks |
| `MutexImplemented`, `MutexesImplemented` | every mutex implements `MutexService`, if the routines nest their locks |
| `ReferencesCorrect` | `ReferencesAccounted`, if `HoldsOnce` |
| `HighestRunsCorrect` | main runs a thread of highest priority, the idle thread only if nobody is READY: for boots in ascending priority, if `ReleasesLast` |
| `IdleDisciplineCorrect` | the idle thread runs only if nobody is READY and is never queued: in every order of creation, if `FirstCallsGoOn` and main runs one thread per thread it creates |
| `HighestPriorityCorrect` | `HighestPriorityRuns` as the run checks it, from these two |
| **`ReadyRings_proofs`** | |
| `RingsCorrect` | `RingsExact`: head, tail and count agree through every wrap-around and removal, no ring overflows, bits as queues |
| `RingsImplementQueues` | the rings implement `ReadyQueues`, operation by operation |
| `ScanCorrect` | the scan finds the highest bit of every bitmap without the top bit |
| **`EarlierStages_proofs`** | |
| `Invariant` | the inductive invariant of lvl2 and Lvl1 |
| `KernelExactHolds` | `KernelExact`: wait queues, inheritance, event and releases of both stages; in lvl2 also one RUNNING thread, `owned_mutex` and the reference count |
| `MutexImplemented` | the mutex of either stage implements `MutexService` |
| **`KernelIrqlObjects_proofs`** | |
| `Invariant`, `LevelCorrect` | `LevelOfActivity`, if no DPC triggers interrupts (`DpcCalls = 0`) |
| `NoBugcheckCorrect` | `NoBugcheck`, if `QueueSuffices` |
| `LifetimeCorrect` | an object lives exactly while it has references, its count is theirs, processes that ended hold nothing |
| **`IrqSystem_proofs`** | |
| `Invariant`, `InterruptsCorrect` | `InterruptsAccounted`: no stranded event, exact rings and ticks, quiet between ticks |
| `LossCorrect` | an event is lost only to an overrun within a tick or after a failed allocation |
| **`MesiCache_proofs`** | |
| `Invariant`, `CoherentCorrect` | one writer per line, equal copies, clean copies as in memory |
| `LossCorrect` | a value written is only lost with the last SHARED copy |
| `CachesImplementMemory` | without evictions the caches implement one memory |
| **`CpuIsa_proofs`** | |
| `Invariant`, `BusLockCorrect` | the bus is locked exactly while one core is inside a locked operation |
| `LockedAloneCorrect` | meanwhile no other core, nor a flush, changes anything |
| **`Pci_proofs`** | |
| `BarsInvariant` | registers hold the bits their BARs let them, no sizing is left unfinished |
| `BarsSizingExact` | `SizingExact`: every BAR's size, kind and base is found, wherever it was moved, and the registers are restored |
| `BarsImplementDecoder` | the registers implement `BarDecoder`: one independent base per BAR |
| `AssignmentInvariant`, `EnumerationInvariant` | the inductive invariants of the enumeration and of all that software does after it |
| `EnumerationExactHolds` | every function the walk can see is registered once, with its BARs, after the bridge it is behind, and driven if it has a decent memory BAR |
| `AssignedDisjointHolds` | the ranges handed out do not overlap while the walk is under way |
| `CacheFollowsRegisterHolds` | the operating system's address of a BAR is the one its registers decode |
| `AccessesRoutedHolds` | `AccessesRouted`: the router finds what the hardware decodes and nothing else, and writes follow it |
| `ForwardedByBridgeHolds` | what the router finds behind the bridge the bridge forwards, if `PrefetchWindowsLow` |

### The dispatcher

**Assumptions.** `SizeAssumption`: at least two threads, a positive quantum.
`PriorityAssumption`: priorities below the top ready queue (divergence 1).
`NullAssumption`: `NULL` is no thread and no mutex. `RoutineAssumption`:
a routine ends with a step that terminates the thread, and steps that use a
mutex name one. No bound on boot runs is assumed beyond being a number, and no
discipline in the use of mutexes: releasing a mutex one does not own is a
bugcheck and hence not a step.

The theorems about mutexes whose row has an "if" do need a discipline, which the kernel does not
enforce, and state it as a hypothesis about `Routines` (`DispatcherProperties`):
`LocksNest(rank)`, a routine that holds a mutex takes only mutexes of lower rank
(for some `rank`); `ReleasesLast`, a routine that goes on after a
`ReleaseMutex` holds nothing any more; `HoldsOnce`, a routine forgets at most one
reference on a mutex. All routines of the source keep them, and so do those of
the runs: `MCDispatcher` has them as an assumption, which TLC evaluates. Without
the first, two threads can wait for each other; without the second,
`ReleaseMutex` drops a boost that another owned mutex still needs (it restores
the base priority, lvl3 780). `HighestRunsCorrect` is about `AscendingSpec`: main
creates its user threads in ascending priority, runs once after each but the
last, and starts the timer when all exist (`AscendingBoot`, lvl3 1082-1099); how many
threads, with which routines and priorities, is left open.

**The inductive invariant.** None of the named properties is inductive alone. A
boost finds a READY thread in its old queue because of `ReadyQueuesExact`; that a
thread made READY is not queued yet needs the wait queues to hold only BLOCKED
threads (`WaitQueuesExact`); that the quantum's expiry queues a thread that is
not queued, and `Schedule` demotes one that is not, needs `CurrentThreadExact`.
`ControlExact` supplies what main's control adds: the current thread exists and
is RUNNING whenever its routine is called, threads not created yet are READY and
nowhere queued, the idle thread only alternates between READY and RUNNING, and
otherwise a reschedule is pending. `IInv` is their conjunction with `TypeOK`.

**The argument.** Lemmas about sequences without duplicates (append, remove)
give lemmas about the ready queues (`ReadyThreadKeeps`,
`RemoveFromReadyQueueKeeps`, `PickTakesOne`). `SwitchKeeps` and `ScheduleKeeps`
treat the dispatch; `BoostedOneReady` and `BoostKeeps` the boost; one lemma per
kernel service the rest. `NextInvariant` has one case per action. The action
properties follow from `IInv` and the shape of the services (`OwnerChanges`,
`BoostRaises`).

The second half sorts the actions by what they do to mutexes
(`StepKinds`) and adds `OwnersExact`, which ties owners and waiters to the
program counters: with it the discipline of the routines becomes a fact about
states. `WaitsNest(rank)` follows, that a thread waits for a mutex of lower rank
than any it owns, which no circle survives (the thread of a circle whose mutex
has the least rank would wait for a lower one). Inheritance is an induction along the
chain in one step: the set of boosted threads is closed under "owner of the
mutex it waits for", so no waiter is left above its owner. For `MutexService` each
kind of step is a step of the abstract mutex or a stutter.

That the highest thread runs needs an invariant about the moments between a change and
the dispatch that answers it (`HighestInv`). `HighestOrAsked`: without a request no
READY thread is above the RUNNING one, and with a request there is one to
dispatch, so that `Schedule` never demotes a thread for a lower one.
`LastIsHighest`: main's boot dispatches the thread it has just created, which
makes up for `reschedule_requested` not being cleared there. `IdleExact`: the idle
thread is not queued. A `ReleaseMutex` could break the first, when its caller falls
below a thread that was READY all the while; `BoostsGrounded` excludes it: the caller
was boosted for a waiter, the highest one gets the mutex, and so the request is made
for a thread at least as high (`ReleasedPriority`).

For the idle thread in any order of creation (`IdleInv`), the boot has to keep
somebody able to run. Main runs one thread after each it creates, and a routine's
first call goes on, so a thread that has run once is still READY or RUNNING:
while the newest has not run there are two (`BootGoesOn`), and main's `Schedule`
never takes the idle thread. Later a thread that is still RUNNING is only asked
to yield to one that is READY (`AskedForReady`), so the dispatch finds one.

### The earlier stages

**Assumptions.** `ScanAssumption`: a positive quantum, room for two threads, priorities
that are natural numbers, and routines that use the mutex as its interface wants it
(`RoutineFormed`): one takes the mutex when it does not hold it, releases it when it
does, and ends with its last call. The code bugchecks at a release by another
thread, and a second `AcquireMutex` by the owner would queue him behind himself; all
routines of the source keep to it. `BootRoutines` are those that leave the event
alone before `InitEvent`. `StageAssumption`: only Lvl1 has a thread that ends
without asking for a reschedule. Any number of threads, with any such routines and
priorities, is covered.

**The invariant.** A service is an operator on a kernel record, so its lemmas are about
any record of `n` threads and serve both stages; `Shared1` and `Shared2` say that the
stages mean the same operators. `Sound` is what the services keep whatever the
routines are: types, `QueuesFit` (BLOCKED threads are those queued, each in one queue
and once), `MutexFits` (nobody waits for a free mutex, for himself or for a lower
owner), nobody RUNNING but the current thread, no completion remembered
while somebody waits. `HoldersFit` ties it to the program counters: a thread owns the
mutex or waits for it exactly when its calls so far say that it holds it. A thread
that runs is in no queue, so one that comes to release the mutex owns it
(`RunningOwns`), which is what `ReleaseMutex` tests. `Effect` sums up a call as the
main loop sees it, one lemma per service, and `HoldersAdvance` moves the program
counter over it. Stage 2 adds `Tally`, that `owned_mutex` names the owner and a
thread that ends has given the mutex up, and the count of references, which a
waiter raises and the hand-off lowers.

**Main.** `KernelFits` adds what main relies on: nobody waits for a completion before
its loop, whose first action empties that queue, and the current thread is never READY. A
thread `PickNextThread` finds is READY, hence another one, and so `Schedule` of lvl2
always leaves a RUNNING thread: if nobody is READY and the idle thread is not the
current one, it is itself READY. `StepFits` has one lemma per action of either stage,
which says besides which step of `MutexService` it is (`MutexStep`).

### The other components

- `ReadyRings`, for at least one slot (`RingAssumption`): `IInv` is `RingsExact` in
  named parts. Lemmas about `x % n` for `x` below `2 n` carry the wrap-around;
  one lemma per operation says which sequence it leaves, and `Contents` maps
  the operations one to one. That a full ring is never hit follows from "each
  thread once" by counting (as many slots as threads).
- `PriorityBits`: each smear doubles the run of 1 bits below the highest one
  (`SmearDoubles`), the carry isolates the next bit and the shift returns to the
  highest (`HighestIsolated`), and the 32 windows of five bits of 0x077CB531
  differ (`CodesDiffer`), so the table inverts the index. `ScanMissesTop` proves
  divergence 1 for every bitmap with bit 31. `ScanCorrect` needs
  `MAX_PRIORITY < 32` therefore.
- `KernelIrql` (`IrqlAssumption`: the interrupt levels lie between DIRQL and
  MACHINE_CHECK): `IInv` says which frames the call stack has for each activity, and
  that the stack of interrupted levels increases strictly. Three levels exist,
  so three frames suffice (`AtMostThreeNest`). `NoBugcheckCorrect` counts the
  calls that ISRs still have (`Budget`): `QueueSuffices` asks for three places
  of nesting and `IsrCalls^3` places in the DPC queue. The code has 8
  and 16, and no ISR of it makes more than two calls.
- `KernelObjects` (`ObjectAssumption`): `LifetimeExact` is inductive with the
  handle tables as a parameter of the count. The lemmas are about how an
  assignment to a slot changes the number of slots that name an object.
- `IrqSystem` (`IrqAssumption`: sizes are positive, and a pool lists each of its
  devices once and has the timer): to the named properties `IInv` adds `Control`
  (only the CPU that steps is above PASSIVE_LVL, has an interrupt in service or
  DPCs; CPUs that have stepped are quiet), `TimerBit` (the timer's bit is pending
  only on its CPU) and `UnreadIsRecent` (what waits came in this tick), from which the
  losses follow. An event that finds the ring full then comes after as many of
  this tick.
- `MesiCache` (`CacheAssumption`: positive sizes, whole lines; `MemoryAssumption`:
  finitely many addresses): `Good` says of caches and memory at once that a line
  has one writer at most, that hits agree, and that an EXCLUSIVE copy equals the
  memory. Lemmas in terms of `MesiOps` treat the snoops, a fill and an eviction; the
  refinement needs `LinesUsed`, that no line outside the program's is in a cache.
- `CpuIsa` (`CpuAssumption`: a program per core): `CoresFormed` says which
  instructions each stage belongs to; then the owner of the bus is the core
  between the address and the store, or the failed comparison, of a locked operation. `LockedAlone`
  is an action property of the proof module: nothing in the run could break it that
  does not break `BusLockExact`.

### PCI

**Assumptions.** `WidthAssumption`: the dword is a power of two and the square of the
unit of a window. `BarsAssumption`, `PoolsAssumption`, `FirstBarAssumption` and
`RouterAssumption`: what is named above among the deliberate limits, and that
pools, windows, addresses and words are of their types. The theorems about the
whole system are under the hypothesis `[]AllocatorsFit`: what the address
allocators hand out stays inside the dword. The code does not test for it (its
MMIO region begins at 0x10000000), and which pools it holds for is a matter of
their sizes; for the pools of the run it is a conjunct of `TypeOK`.

**One function.** All arithmetic of registers is in lemmas about division by a
general positive number, or about one that divides another, because the solver
knows no powers of two: what is used of a size is that it is a multiple of 16 and
that it divides the dword or the dword divides it (`BarFacts`). `BarsIInv` says that each register holds its type bits and
an address aligned to the size, and that discovery is over. Writing all ones,
reading back and restoring is then the identity on registers (`SizingRestores`,
`SizingTellsTheTruth`), and the base is the address asked for, aligned.

**Enumeration.** `Formed` says that the installed functions are those of the pool,
each with registers as above. `PoolInv` adds the walk: the frames of `stack` are
those of the root bus and of bus 1 behind the one visible bridge, what lies
before them is registered, what lies after is not, and the context being
built has found the BARs before `building.bar`. `EnumerationExact` is what
this says when the stack is empty.

**Assignment.** `AssignBarAddress` aligns to and advances by the size of BAR 0 for
every BAR, and it assigns the BARs found so far again for each new one. `AssignInv`
therefore speaks of claims: the address a BAR has been given, with as many
addresses as BAR 0 has, ends below what the allocator hands out next, and claims
of one space do not meet. A new claim begins at or above all others; a BAR is
inside its claim because its size divides BAR 0's. That moves may break
the order later is why `AssignedDisjoint` is about the time of the walk.
That the remembered address is the register's (`CacheFollowsRegister`) is kept by
every write a listener is told of; writes to windows change no BAR, and tell only of slots
that have none.

**Router.** A context claims an address when it is in the block of the cached base;
as the cache is the register, aligned to a size below the dword, this is
when the registers decode it. That the first claimant in order exists uses the
least-number principle (`LeastNatural`, from the library's theorem that `<` on the
naturals is well-founded), and disjointness is not needed: both sides ask for some
BAR that decodes. One visible bridge at most makes the bridge whose window
was looked at `RootBridge`; that its decoder agrees is shown window by window,
where the prefetch window needs `PrefetchWindowsLow` as the decoder extends the sign
(divergence 9).

### Only model-checked

- `TypeOK` of `CpuIsa` with `LitmusOutcomes`, and the refinement of
  `StoreBufferedMemory`: what the litmus programs observe is about these
  programs, and a flush of a store buffer is a fold over it, whose result for
  every length would need an induction over data.
- All liveness (`ProcessExits`, `RoutinesEnd`, `EventsServed`, `ProgramsHalt`),
  which the prover cannot treat.

## Not modelled

Messages printed, memory allocation (but for a failing DPC), the functions that
only test the IRQL (`AccessMemory`, `KernelWait`); the ring of the DPC queue of
lvl3 (a count here) and its copies in lvl2 and Lvl1, which are the same text;
`ObCloseHandle` is modelled but has no caller in the code. Capability lists of
PCI functions (read and printed only), bar memory beyond one word per BAR, and
PIO routing, for which the code has windows but no accesses. `PCI_foundation.c`
and `PCI_ReFresh.c` are first versions of the PCI simulation. The encoding of
instructions in memory, and programs that modify themselves. `PROJECT.json`
gives the status per component.

## Plan

1. Done: all components above but the earlier exercises, and the proofs of the
   section above.
2. Models: windows of bridges on bus 1 in the router (divergence 13).
