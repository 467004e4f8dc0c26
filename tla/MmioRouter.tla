----------------------------- MODULE MmioRouter -----------------------------
(* The MMIO router (mmio_router.c) over the enumerated functions: it looks *)
(* for the function that claims a physical address by the cached addresses *)
(* of the contexts and the windows of the bridges, and passes the access   *)
(* to that function's BAR memory.  Software also programs the windows.     *)
EXTENDS PciSystem

CONSTANTS
    Windows,         \* what software writes to a window register
    Uppers,          \* what it writes to the upper halves of the prefetch window
    PhysAddresses,   \* the addresses software accesses
    Words            \* the words it writes

ASSUME RouterAssumption ==
    /\ \A slot \in 3 .. 5 : Windows[slot] \subseteq 0 .. Dword - 1
    /\ Uppers \subseteq Nat /\ PhysAddresses \subseteq Nat /\ Words \subseteq {0, 1}

AccessSize == 8

(* ------------------------------- claiming ------------------------------ *)
NoMatch == [fn |-> <<>>]

EndpointClaims(i, address, io) ==
    {b \in Slots :
        LET info == ctxs[i].info[b]
        IN  /\ info.size # 0 /\ info.base # 0 /\ info.io = io
            /\ Align(address, info.size) = Align(info.base, info.size)}

EndpointMatch(i, address, io) ==
    LET claims == EndpointClaims(i, address, io)
        b == CHOOSE b \in claims : \A c \in claims : b <= c
    IN  IF claims = {} THEN NoMatch
        ELSE [fn |-> ctxs[i].fn, bar |-> b, size |-> ctxs[i].info[b].size, io |-> io,
              offset |-> address % ctxs[i].info[b].size]

(* Mutant: the enables are not looked at. *)
IsDeviceEnabledAlways(i, io) == TRUE

IsDeviceEnabled(i, io) == (IF io THEN "io" ELSE "mem") \in dev[ctxs[i].fn].cmd

Programmed(window) == Base(window) # 0 /\ Limit(window) # 0

(* Mutant: a memory window has no end. *)
AddressInMemoryWindowOpen(d, address) ==
    Base(d.reg[4]) # 0 /\ Base(d.reg[4]) * WindowUnit <= address

AddressInMemoryWindow(d, address) ==
    Programmed(d.reg[4]) /\ Within(address, Base(d.reg[4]), Limit(d.reg[4]))

AddressInPrefetchWindow(d, address) ==
    LET wide == d.baseUpper # 0
        base == Base(d.reg[5]) * WindowUnit + (IF wide THEN d.baseUpper * Dword ELSE 0)
        limit == Limit(d.reg[5]) * WindowUnit + (IF wide THEN d.limitUpper * Dword ELSE 0)
    IN  Programmed(d.reg[5]) /\ base <= address /\ address < limit + WindowUnit

AddressInIoWindow(d, address) ==
    Programmed(d.reg[3]) /\ Within(address % Dword, Base(d.reg[3]), Limit(d.reg[3]))

InWindow(i, address, io) ==
    LET d == dev[ctxs[i].fn]
    IN  IF io THEN AddressInIoWindow(d, address)
        ELSE AddressInMemoryWindow(d, address) \/ AddressInPrefetchWindow(d, address)

(* The enabled functions of a bus, by their contexts.                      *)
EnabledOn(bus, io) == {i \in DOMAIN ctxs : ctxs[i].fn[1] = bus /\ IsDeviceEnabled(i, io)}

(* The first registered function that claims the address wins.             *)
FirstMatch(matches) ==
    LET claimants == {i \in DOMAIN matches : matches[i] # NoMatch}
    IN  IF claimants = {} THEN NoMatch
        ELSE matches[CHOOSE i \in claimants : \A j \in claimants : i <= j]

(* Behind a bridge: a bridge there has no window and claims for itself.    *)
ScanSecondaryBus(address, io) ==
    FirstMatch([i \in EnabledOn(SecondaryBus, io) |-> EndpointMatch(i, address, io)])

(* A bridge forwards to its secondary bus what is in one of its windows,   *)
(* and answers for its own BARs.                                           *)
BridgeForwardsAddress(i, address, io) ==
    LET behind == IF InWindow(i, address, io) THEN ScanSecondaryBus(address, io) ELSE NoMatch
    IN  IF behind # NoMatch THEN behind ELSE EndpointMatch(i, address, io)

MatchOf(i, address, io) ==
    IF ctxs[i].header = 1 THEN BridgeForwardsAddress(i, address, io) ELSE EndpointMatch(i, address, io)

MmioFindDevice(address, io) ==
    FirstMatch([i \in EnabledOn(0, io) |-> MatchOf(i, address, io)])

(* ------------------------------- accesses ------------------------------ *)
ValidateAccess(match, address) ==
    /\ match # NoMatch
    /\ match.offset + AccessSize <= match.size
    /\ match.io \/ address % AccessSize = 0

(* Reads of nothing return all ones; the model keeps a BAR's first word.   *)
Nothing == 2
MmioRouteRead(address) ==
    LET match == MmioFindDevice(address, FALSE)
    IN  IF ~ValidateAccess(match, address) THEN Nothing ELSE mem[match.fn][match.bar]

FirstWords == {a \in PhysAddresses : LET m == MmioFindDevice(a, FALSE) IN m = NoMatch \/ m.offset < AccessSize}

MmioRouteWrite(address, word) ==
    LET match == MmioFindDevice(address, FALSE)
    IN  /\ Enumerated
        /\ address \in FirstWords
        /\ mem' = IF ValidateAccess(match, address) THEN [mem EXCEPT ![match.fn][match.bar] = word] ELSE mem
        /\ UNCHANGED <<dev, stack, building, ctxs, nextMmio, nextIo>>

(* ------------------------------- windows ------------------------------- *)
(* Software programs the windows of the bridge it has found on the root    *)
(* bus: through a bridge behind it, whose secondary bus is its own bus,    *)
(* the router would call itself without end.                               *)
Bridges == {f \in Registered : f[1] = 0 /\ dev[f].header = 1}

ProgramWindow(f, slot, v) ==
    /\ Enumerated /\ f \in Bridges
    /\ Reconfigured(f, PciConfigWrite32(dev[f], slot, v))
    /\ UNCHANGED <<stack, building, nextMmio, nextIo, mem>>

ProgramUppers(f, base, limit) ==
    /\ Enumerated /\ f \in Bridges
    /\ Reconfigured(f, [dev[f] EXCEPT !.baseUpper = base, !.limitUpper = limit])
    /\ UNCHANGED <<stack, building, nextMmio, nextIo, mem>>

MmioWrites == \E a \in PhysAddresses, word \in Words : MmioRouteWrite(a, word)

ProgramWindows ==
    \E f \in Bridges :
        \/ \E slot \in 3 .. 5 : \E v \in Windows[slot] : ProgramWindow(f, slot, v)
        \/ \E base, limit \in Uppers : ProgramUppers(f, base, limit)

RouterNext == Next \/ MmioWrites \/ ProgramWindows
RouterSpec == Init /\ [][RouterNext]_pciVars

-----------------------------------------------------------------------------
Spaces == BOOLEAN
RootBridge == CHOOSE g \in Bridges : TRUE

(* Whatever function the router picks for an address, the function's own   *)
(* registers decode that address: the cached addresses and the enables the *)
(* router looks at never send an access where the hardware has no BAR.     *)
RoutedIsDecoded ==
    Enumerated => \A a \in PhysAddresses, io \in Spaces :
        LET match == MmioFindDevice(a, io)
        IN  match # NoMatch => PciValidateAccess(dev[match.fn], a, io)

(* A memory BAR of the root bus that decodes an address is found: the      *)
(* router leaves no aligned read of an enabled function unanswered.  (A    *)
(* BAR at address 0 counts as one without an address.)                     *)
DecodedIsRouted ==
    Enumerated => \A k \in KnownBars, a \in PhysAddresses :
        ctxs[k[1]].fn[1] = 0 /\ ~IsIo(DeviceOf(k).reg[k[2]]) /\ a \in Region(k)
            /\ a % AccessSize = 0 /\ BarAddress(DeviceOf(k), k[2]) # 0
            /\ PciValidateAccess(DeviceOf(k), a, FALSE) => MmioRouteRead(a) # Nothing

(* Bound: no half of the prefetch window has the sign bit, which the       *)
(* bridge's own decoder would extend.                                      *)
PrefetchWindowsLow ==
    \A v \in Windows[5] : Base(v) < Half \div 2 /\ Limit(v) < Half \div 2

(* The two implementations of the bridge windows: what the router finds    *)
(* behind a bridge, a bridge that masters the bus forwards.                *)
ForwardedByBridge ==
    Enumerated => \A a \in PhysAddresses, io \in Spaces :
        LET match == MmioFindDevice(a, io)
            bridge == dev[RootBridge]
        IN  match # NoMatch /\ match.fn[1] = 1 /\ "master" \in bridge.cmd =>
                PciBridgeValidateForward(bridge, a, io)

(* A write that goes through changes the word of one BAR of one function:  *)
(* one that is enabled and whose registers decode the address written.     *)
WritesDecoded ==
    [][Enumerated /\ mem' # mem =>
        \E f \in Registered, b \in Slots, a \in PhysAddresses, word \in Words :
            /\ mem' = [mem EXCEPT ![f][b] = word]
            /\ ~IsIo(dev[f].reg[b])
            /\ BarAddress(dev[f], b) = a
            /\ PciValidateAccess(dev[f], a, FALSE)]_pciVars

(* An access arrives at the BAR that decodes its address, or nowhere: the  *)
(* router and the decoders agree at all times, and writes follow them.     *)
AccessesRouted == [](RoutedIsDecoded /\ DecodedIsRouted) /\ WritesDecoded
=============================================================================
