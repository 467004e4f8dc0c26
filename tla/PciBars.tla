------------------------------- MODULE PciBars ------------------------------
(* One PCI function whose BARs software sizes and moves, in any order and  *)
(* any number of times, through GetPciBarInfo and PciSetBarAddress.        *)
EXTENDS PciConfig

CONSTANTS
    Header,      \* header type of the function
    Layouts,     \* the BAR layouts it may have
    Addresses    \* the addresses software asks for

(* The upper dword of an address is even, so that the upper half of the    *)
(* BAR is not taken for an I/O BAR when it is asked for its size, and its  *)
(* bits are above the size: the hardware masks the lower dword only.       *)
ASSUME BarsAssumption ==
    /\ \A layout \in Layouts : LayoutFormed(layout, Header)
    /\ \A address \in Addresses :
        /\ address \in Nat /\ address < Wide /\ (address \div Dword) % 2 = 0
        /\ \A layout \in Layouts, i \in Slots :
            layout[i].size >= Dword => address % layout[i].size < Dword

VARIABLES bars, func
barsVars == <<bars, func>>

Bars == {i \in Slots : Implemented(bars, Header, i)}

BarsInit == bars \in Layouts /\ func = CreateFakeDevice(Header, bars)

(* NotifyBarChange has delivered its news when the routine returns.        *)
SetBarAddress(b, address) ==
    func' = [PciSetBarAddress(func, b, address) EXCEPT !.told = <<>>]

SizeBar(b) == func' = [GetPciBarInfo(func, b).dev EXCEPT !.told = <<>>]

BarsNext ==
    /\ \/ \E b \in Bars, address \in Addresses : SetBarAddress(b, address)
       \/ \E b \in Slots : SizeBar(b)
    /\ UNCHANGED bars

BarsSpec == BarsInit /\ [][BarsNext]_barsVars

-----------------------------------------------------------------------------
BarsTypeOK ==
    /\ bars \in Layouts
    /\ func.reg \in [Slots -> 0 .. Dword - 1]
    /\ \A i \in Slots : func.low[i] \in 0 .. Dword - 1 /\ func.high[i] \in 0 .. Dword - 1
    /\ func.cmd \subseteq {"io", "mem", "master", "parity"} /\ func.active \in BOOLEAN

(* Wherever the BARs have been moved to, sizing a BAR finds the size the   *)
(* hardware has, its kind and the address it decodes now.                  *)
SizeFound ==
    \A b \in Bars :
        GetPciBarInfo(func, b).info =
            [size |-> bars[b].size, io |-> bars[b].io, wide |-> bars[b].wide,
             base |-> BarAddress(func, b)]

(* Sizing any slot, implemented or not, puts back every register it wrote  *)
(* and leaves no half-asked question behind that a later read answers.     *)
SizingRestores ==
    \A b \in Slots :
        LET after == GetPciBarInfo(func, b).dev
        IN  /\ after.reg = func.reg /\ ~after.active
            /\ \A i \in Slots : PciConfigRead32(after, i) = func.reg[i]

(* The address the operating system is told of while a BAR is sized is the *)
(* one the BAR had before: the notifications of the restoring writes.      *)
SizingTellsTheTruth ==
    \A b \in Bars :
        LET told == GetPciBarInfo(func, b).dev.told
        IN  \A i \in DOMAIN told : told[i] = BarAddress(func, i)

(* Sizing is a question without side effects, wherever the BARs are.       *)
SizingExact == BarsTypeOK /\ SizeFound /\ SizingRestores /\ SizingTellsTheTruth

(* The function's registers implement one independent base per BAR.        *)
Decoder == INSTANCE BarDecoder WITH
    bars <- [b \in Bars |-> bars[b]], base <- [b \in Bars |-> BarAddress(func, b)]
ImplementsDecoder == Decoder!Spec
=============================================================================
