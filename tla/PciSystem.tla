------------------------------ MODULE PciSystem -----------------------------
(* The start of B_Kernel (main.c): PciEnumerate walks the buses, every     *)
(* function found becomes a device context whose BARs are sized and given  *)
(* addresses, and the driver manager offers it to the registered driver.   *)
(* Afterwards software uses the public routines of pci_logic.h on the      *)
(* registered functions: it enables them and moves their BARs.             *)
(* The program is single-threaded: a step is one turn of a loop with all   *)
(* it calls, and NotifyBarChange reaches the contexts within the step.     *)
EXTENDS PciConfig, Sequences, SequencesExt

CONSTANTS
    Pools,            \* the sets of installed functions to start from
    MaxDevice, MaxFunction,
    MmioStart, IoStart,
    DecentSize,       \* the memory BAR size the test driver looks for
    CommandValues,    \* the values software writes to command registers
    Moves             \* the addresses software moves BARs to

VARIABLES
    dev,              \* g_pci_bus: the installed functions
    stack,            \* one frame [bus, at] per PciScanBus under way
    building,         \* the context DeviceCreateFromPci is filling in
    ctxs,             \* g_pciDevCtx
    nextMmio, nextIo, \* gNextMimoAddr, gNextIoAddr
    mem               \* bar_mem: the first word of each BAR of each function

pciVars == <<dev, stack, building, ctxs, nextMmio, nextIo, mem>>

Buses == 0 .. 1
SecondaryBus == 1          \* SetupType1Header gives every bridge this one
Positions == 0 .. MaxDevice * MaxFunction
At(frame) == <<frame.bus, frame.at \div MaxFunction, frame.at % MaxFunction>>
Functions == DOMAIN dev
NoContext == [fn |-> <<>>]
NoDriver == 6              \* no BAR under test: no driver is attached

(* What can be installed: functions of the two buses, formed BARs, and one *)
(* bridge at most where the scan of the root bus sees it, because every    *)
(* bridge is given the same secondary bus.                                 *)
VisibleIn(fns) == {f \in fns : <<f[1], f[2], 0>> \in fns}

ASSUME PoolsAssumption ==
    /\ MaxDevice \in Nat \ {0} /\ MaxFunction \in Nat \ {0} /\ DecentSize \in Nat \ {0}
    /\ MmioStart \in Nat /\ IoStart \in Nat /\ Moves \subseteq 0 .. Dword - 1
    /\ \A pool \in Pools :
        /\ DOMAIN pool \subseteq Buses \X (0 .. MaxDevice - 1) \X (0 .. MaxFunction - 1)
        /\ \A f \in DOMAIN pool :
            pool[f].header \in {0, 1} /\ LayoutFormed(pool[f].bars, pool[f].header)
        /\ \A f, g \in VisibleIn(DOMAIN pool) :
            f[1] = 0 /\ pool[f].header = 1 /\ g[1] = 0 /\ pool[g].header = 1 => f = g

(* The address allocators round to, and advance by, the size of the first  *)
(* BAR: it is a multiple of the sizes of the others, and what any function *)
(* takes of the I/O space keeps every I/O BAR's alignment.                 *)
ASSUME FirstBarAssumption ==
    \A pool \in Pools : \A f \in DOMAIN pool, b \in Slots :
        Implemented(pool[f].bars, pool[f].header, b) =>
            /\ Implemented(pool[f].bars, pool[f].header, 0)
            /\ pool[f].bars[0].size % pool[f].bars[b].size = 0
            /\ pool[f].bars[b].io =>
                /\ IoStart % pool[f].bars[b].size = 0
                /\ \A g \in DOMAIN pool, c \in Slots :
                    Implemented(pool[g].bars, pool[g].header, c) /\ pool[g].bars[c].io =>
                        pool[g].bars[0].size % pool[f].bars[b].size = 0

Init ==
    /\ \E pool \in Pools :
        /\ dev = [f \in DOMAIN pool |-> CreateFakeDevice(pool[f].header, pool[f].bars)]
        /\ mem = [f \in DOMAIN pool |-> [b \in Slots |-> 0]]
    /\ stack = <<[bus |-> 0, at |-> 0]>>
    /\ building = NoContext
    /\ ctxs = <<>>
    /\ nextMmio = MmioStart /\ nextIo = IoStart

(* ------------------------ allocation of addresses ---------------------- *)
(* Mutant: addresses are not rounded up. *)
AllocateMmioAddressUnrounded(next, size) == next

(* The size of the first BAR stands for every BAR of the device; without a *)
(* first BAR the mask of the rounding is zero.                             *)
AllocateMmioAddress(next, size) == IF size = 0 THEN 0 ELSE Align(next + size - 1, size)

NextAddress(bar, size) == IF bar.io THEN nextIo ELSE AllocateMmioAddress(nextMmio, size)

(* Mutant: no handler is registered for the notifications. *)
BarChangeHandlerDeaf(cs, f, told) == cs

(* The first context of the function learns the addresses it was told of.  *)
BarChangeHandler(cs, f, told) ==
    LET mine == {i \in DOMAIN cs : cs[i].fn = f}
        first == CHOOSE i \in mine : \A j \in mine : i <= j
    IN  IF mine = {} THEN cs
        ELSE [cs EXCEPT ![first].info =
                [b \in Slots |-> IF b \in DOMAIN told THEN [@[b] EXCEPT !.base = told[b]] ELSE @[b]]]

(* A routine has turned function f's registers into d, telling of changes. *)
Reconfigured(f, d) ==
    /\ dev' = [dev EXCEPT ![f] = [d EXCEPT !.told = <<>>]]
    /\ ctxs' = BarChangeHandler(ctxs, f, d.told)

(* ------------------------------ enumeration ---------------------------- *)
Top == Last(stack)
Scanning == stack # <<>> /\ building = NoContext

NextAt(frame) == IF At(frame)[3] = 0 THEN frame.at + MaxFunction ELSE frame.at + 1

(* No function here: a missing function 0 ends the whole device.           *)
ScanNothing ==
    /\ Scanning /\ Top.at < MaxDevice * MaxFunction /\ At(Top) \notin Functions
    /\ stack' = [stack EXCEPT ![Len(stack)].at = NextAt(Top)]
    /\ UNCHANGED <<dev, building, ctxs, nextMmio, nextIo, mem>>

ScanFunction ==
    /\ Scanning /\ Top.at < MaxDevice * MaxFunction /\ At(Top) \in Functions
    /\ building' = [fn |-> At(Top), header |-> dev[At(Top)].header,
                    info |-> [b \in Slots |-> NoInfo], bar |-> 0, assign |-> 6]
    /\ UNCHANGED <<dev, stack, ctxs, nextMmio, nextIo, mem>>

BarLimit == IF building.header = 1 THEN 2 ELSE 6

(* One turn of the loop of DeviceCreateFromPci sizes a BAR and, when there *)
(* is one, has AssignBarAddress go over all the BARs known so far.         *)
CreateBar ==
    /\ building # NoContext /\ building.assign = 6 /\ building.bar < BarLimit
    /\ LET f == building.fn
           b == building.bar
           sized == GetPciBarInfo(dev[f], b)
       IN  /\ building' = [building EXCEPT !.info[b] = sized.info,
                                !.assign = IF sized.info.size = 0 THEN 6 ELSE 0,
                                !.bar = IF sized.info.size # 0 /\ sized.info.wide THEN b + 2 ELSE b + 1]
           /\ Reconfigured(f, AfterRead(sized.dev, b))
    /\ UNCHANGED <<stack, nextMmio, nextIo, mem>>

AssignSkip ==
    /\ building # NoContext /\ building.assign < 6
    /\ building.info[building.assign].size = 0
    /\ building' = [building EXCEPT !.assign = @ + 1]
    /\ UNCHANGED <<dev, stack, ctxs, nextMmio, nextIo, mem>>

AssignBarAddress ==
    /\ building # NoContext /\ building.assign < 6
    /\ LET f == building.fn
           i == building.assign
           bar == building.info[i]
           size == building.info[0].size
           addr == NextAddress(bar, size)
       IN  /\ bar.size # 0
           /\ building' = [building EXCEPT !.info[i].base = addr, !.assign = i + 1]
           /\ Reconfigured(f, PciSetBarAddress(dev[f], i, addr))
           /\ nextIo' = IF bar.io THEN nextIo + size ELSE nextIo
           /\ nextMmio' = IF bar.io THEN nextMmio ELSE addr + size
    /\ UNCHANGED <<stack, mem>>

MemoryBars(info) == {b \in Slots : info[b].size > 0 /\ ~info[b].io}
TestBarDriverProbe(info) == \E b \in MemoryBars(info) : info[b].size >= DecentSize
TestedBar(info) == CHOOSE b \in MemoryBars(info) : \A c \in MemoryBars(info) : b <= c

(* The driver leaves its pattern in the first memory BAR of the device.    *)
TestBarDriverInit(info, words) ==
    [words EXCEPT ![TestedBar(info)] = IF dev[building.fn].size[TestedBar(info)] > 0 THEN 1 ELSE @]

(* Mutant: a bridge's own bus is scanned again. *)
DescendsAnywhere == building.header = 1

Descends == building.header = 1 /\ SecondaryBus # Top.bus

(* OS_HandleNewPciDevice registers the context and the driver manager sees *)
(* it; then PciScanBus goes down into a bridge's secondary bus.            *)
HandleNewPciDevice ==
    /\ building # NoContext /\ building.assign = 6 /\ building.bar >= BarLimit
    /\ LET drive == TestBarDriverProbe(building.info)
           later == [stack EXCEPT ![Len(stack)].at = @ + 1]
       IN  /\ ctxs' = Append(ctxs, [fn |-> building.fn, header |-> building.header,
                                    info |-> building.info,
                                    tested |-> IF drive THEN TestedBar(building.info) ELSE NoDriver])
           /\ mem' = IF drive THEN [mem EXCEPT ![building.fn] = TestBarDriverInit(building.info, @)] ELSE mem
           /\ stack' = IF Descends THEN Append(later, [bus |-> SecondaryBus, at |-> 0]) ELSE later
    /\ building' = NoContext
    /\ UNCHANGED <<dev, nextMmio, nextIo>>

ScanBusEnds ==
    /\ Scanning /\ Top.at >= MaxDevice * MaxFunction
    /\ stack' = Front(stack)
    /\ UNCHANGED <<dev, building, ctxs, nextMmio, nextIo, mem>>

PciEnumerate ==
    \/ ScanNothing \/ ScanFunction \/ ScanBusEnds
    \/ CreateBar \/ AssignSkip \/ AssignBarAddress \/ HandleNewPciDevice

(* ----------------------- software afterwards --------------------------- *)
Enumerated == stack = <<>>

SetCommand(f, bits) ==
    /\ Enumerated /\ Reconfigured(f, WriteCommand(dev[f], bits))
    /\ UNCHANGED <<stack, building, nextMmio, nextIo, mem>>

MoveBar(f, b, address) ==
    /\ Enumerated /\ dev[f].size[b] > 0
    /\ Reconfigured(f, PciSetBarAddress(dev[f], b, address))
    /\ UNCHANGED <<stack, building, nextMmio, nextIo, mem>>

Configure ==
    \E f \in Functions :
        \/ \E bits \in CommandValues : SetCommand(f, bits)
        \/ \E b \in Slots, address \in Moves : MoveBar(f, b, address)

Next == PciEnumerate \/ Configure

Spec == Init /\ [][Next]_pciVars

-----------------------------------------------------------------------------
Registered == {ctxs[i].fn : i \in DOMAIN ctxs}
KnownBars == {k \in (DOMAIN ctxs) \X Slots : ctxs[k[1]].info[k[2]].size > 0}
InfoOf(k) == ctxs[k[1]].info[k[2]]
DeviceOf(k) == dev[ctxs[k[1]].fn]
Region(k) == LET base == BarAddress(DeviceOf(k), k[2]) IN base .. base + DeviceOf(k).size[k[2]] - 1

(* The addresses handed out are in the dword: the pool is not too large.   *)
AllocatorsFit == nextMmio \in 0 .. Dword /\ nextIo \in 0 .. Dword

TypeOK ==
    /\ \A f \in Functions : dev[f].reg \in [Slots -> 0 .. Dword - 1]
    /\ \A f \in Functions : dev[f].told = <<>> /\ dev[f].cmd \subseteq PciSimGetDeviceCommandMask(dev[f])
    /\ \A i \in DOMAIN stack : stack[i].bus \in Buses /\ stack[i].at \in Positions
    /\ building = NoContext \/ (building.fn \in Functions /\ building.bar \in 0 .. 7)
    /\ \A i \in DOMAIN ctxs : ctxs[i].fn \in Functions /\ ctxs[i].tested \in 0 .. NoDriver
    /\ AllocatorsFit
    /\ mem \in [Functions -> [Slots -> 0 .. 1]]

(* The functions a scan can see: their device has a function 0, and their  *)
(* bus is the root's or behind a bridge of the root bus.                   *)
Visible == VisibleIn(Functions)
Reachable ==
    {f \in Visible : f[1] = 0 \/ \E g \in Visible : g[1] = 0 /\ dev[g].header = 1}

(* When the scan is over every function it can see has one device context, *)
(* no other has, and a bridge came before the functions behind it.         *)
RegisteredOnce ==
    /\ Enumerated => Registered = Reachable
    /\ \A i, j \in DOMAIN ctxs : ctxs[i].fn = ctxs[j].fn => i = j
    /\ \A j \in DOMAIN ctxs : ctxs[j].fn[1] = 1 =>
        \E i \in 1 .. j - 1 : ctxs[i].fn[1] = 0 /\ ctxs[i].header = 1

(* Every BAR the hardware of a registered function has is known with its   *)
(* size and kind, and nothing else is taken for a BAR.                     *)
BarsKnown ==
    \A i \in DOMAIN ctxs, b \in Slots :
        LET d == dev[ctxs[i].fn]
            info == ctxs[i].info[b]
        IN  /\ info.size = d.size[b]
            /\ d.size[b] > 0 => info.io = IsIo(d.reg[b]) /\ info.wide = (~info.io /\ Is64(d.reg[b]))

(* The address the operating system remembers for a BAR, which routes its  *)
(* accesses, is the one the registers decode, however often it is moved.   *)
CacheFollowsRegister ==
    \A k \in KnownBars : InfoOf(k).base = BarAddress(DeviceOf(k), k[2])

(* The addresses enumeration assigns collide nowhere: two BARs of one      *)
(* space, of any two registered functions, claim disjoint ranges, those of *)
(* memory BARs in the MMIO region.                                         *)
AssignedDisjoint ==
    ~Enumerated => \A k, l \in KnownBars :
        /\ ~InfoOf(k).io => BarAddress(DeviceOf(k), k[2]) >= MmioStart
        /\ k # l /\ InfoOf(k).io = InfoOf(l).io => Region(k) \intersect Region(l) = {}

(* A registered function that has a decent sized memory BAR is driven, and *)
(* the driver's pattern is in the memory of that function until software   *)
(* writes there.                                                           *)
DriverProbed ==
    ~Enumerated => \A i \in DOMAIN ctxs :
        LET d == dev[ctxs[i].fn] IN
        (\E b \in Slots : d.size[b] >= DecentSize /\ ~IsIo(d.reg[b])) =>
            /\ ctxs[i].tested # NoDriver
            /\ mem[ctxs[i].fn][ctxs[i].tested] = 1

(* What main relies on when the walk is over: every function it can see is *)
(* registered once, with its BARs, and those of decent size are driven.    *)
EnumerationExact == TypeOK /\ RegisteredOnce /\ BarsKnown /\ DriverProbed
=============================================================================
