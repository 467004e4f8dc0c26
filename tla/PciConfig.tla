----------------------------- MODULE PciConfig -----------------------------
(* The configuration space of one simulated PCI function (pci_sim.c) and   *)
(* the routines of pci_logic.c that read, write and size it, as operators. *)
(* Widths are scaled: a dword has Dword values where the code has 2^32,    *)
(* the low four bits of a BAR keep their meaning, and a bridge window is   *)
(* made of two halves of a dword, in units of WindowUnit addresses.        *)
(* `told` collects what NotifyBarChange passed to the operating system.    *)
EXTENDS Integers, FiniteSets

CONSTANTS Dword, WindowUnit

Slots == 0 .. 5
Wide == Dword * Dword
AllOnes == Dword - 1
Half == Dword \div WindowUnit

ASSUME WidthAssumption ==
    /\ Dword \in {2^k : k \in 5 .. 15}
    /\ WindowUnit \in Nat \ {0} /\ WindowUnit * WindowUnit = Dword

(* A BAR as a device designer describes it. *)
NoBar == [size |-> 0, io |-> FALSE, wide |-> FALSE]
Mem32(n) == [size |-> n, io |-> FALSE, wide |-> FALSE]
Mem64(n) == [size |-> n, io |-> FALSE, wide |-> TRUE]
IoBar(n) == [size |-> n, io |-> TRUE, wide |-> FALSE]

TypeBits(bar) == IF bar.io THEN 1 ELSE IF bar.wide THEN 4 ELSE 0

(* The slot after a 64-bit BAR belongs to it; a bridge has two BAR slots.  *)
Implemented(bars, header, i) ==
    /\ i < (IF header = 1 THEN 2 ELSE 6) /\ bars[i].size > 0
    /\ i > 0 => ~(bars[i - 1].wide /\ bars[i - 1].size > 0)

CreateFakeDevice(header, bars) ==
    [header |-> header, cmd |-> {}, active |-> FALSE,
     reg |-> [i \in Slots |-> IF Implemented(bars, header, i) THEN TypeBits(bars[i]) ELSE 0],
     size |-> [i \in Slots |-> IF Implemented(bars, header, i) THEN bars[i].size ELSE 0],
     low |-> [i \in Slots |-> 0], high |-> [i \in Slots |-> 0],
     baseUpper |-> 0, limitUpper |-> 0, told |-> <<>>]

PciSimGetDeviceCommandMask(d) ==
    {"io", "mem", "master"} \union (IF d.header = 1 THEN {"parity"} ELSE {})

WriteCommand(d, bits) ==
    LET mask == PciSimGetDeviceCommandMask(d)
    IN  [d EXCEPT !.cmd = (@ \ mask) \union (bits \intersect mask)]

(* ------------------------------ registers ------------------------------ *)
Align(v, size) == v - (v % size)
Minus(v) == (Dword - (v % Dword)) % Dword
IsIo(v) == v % 2 = 1
Is64(v) == (v \div 2) % 4 = 2

IsHigh(i) == i % 2 = 1
Paired(d, i) == IsHigh(i) /\ Is64(d.reg[i - 1])
ActualBar(d, i) == IF Paired(d, i) THEN i - 1 ELSE i

PciSimClearDiscovery(d) ==
    [d EXCEPT !.active = FALSE, !.low = [i \in Slots |-> 0], !.high = [i \in Slots |-> 0]]

(* What a read of BAR slot i answers while a size is being asked for; 0 is *)
(* no answer.  An odd slot answers only as the upper half of a 64-bit BAR. *)
Answer(d, i) ==
    IF ~d.active THEN 0
    ELSE IF Paired(d, i) THEN d.high[i - 1]
    ELSE IF IsHigh(i) THEN 0 ELSE d.low[i]

PciConfigRead32(d, i) == IF Answer(d, i) # 0 THEN Answer(d, i) ELSE d.reg[i]
AfterRead(d, i) == IF Answer(d, i) # 0 THEN PciSimClearDiscovery(d) ELSE d

(* Mutants: the question overwrites the register; the upper half of a size is *)
(* left out, and I/O BARs are masked like memory BARs.                     *)
DiscoverInPlace(d, i) ==
    LET b == ActualBar(d, i)
    IN  IF d.size[b] = 0 THEN d
        ELSE [d EXCEPT !.active = TRUE, !.reg[i] = AllOnes,
                       !.low[b] = Align(Minus(d.size[b]), 16) + (d.reg[i] % 16),
                       !.high[b] = (Wide - d.size[b]) \div Dword]

(* Writing all ones asks for the size: the register keeps its contents.    *)
Discover(d, i) ==
    LET b == ActualBar(d, i)
        orig == d.reg[i]
        wide == IF IsHigh(i) THEN Paired(d, i) ELSE Is64(orig)
    IN  IF d.size[b] = 0 THEN d
        ELSE [d EXCEPT
                !.active = TRUE,
                !.low[b] = IF IsIo(orig) THEN Align(Minus(d.size[b]), 4) + (orig % 4)
                                         ELSE Align(Minus(d.size[b]), 16) + (orig % 16),
                !.high[b] = IF wide /\ ~IsIo(orig) THEN (Wide - d.size[b]) \div Dword ELSE 0]

(* The address the registers of BAR i decode.                              *)
BarAddress(d, i) ==
    IF IsIo(d.reg[i]) THEN Align(d.reg[i], 4)
    ELSE Align(d.reg[i], 16) + (IF Is64(d.reg[i]) THEN d.reg[i + 1] * Dword ELSE 0)

(* Mutant: the register takes any address. *)
HardwareUnmasked(d, i, v) == v

(* The address bits below the size read as zero, the type bits are fixed. *)
HardwareMasked(d, i, v) ==
    LET size32 == d.size[i] % Dword
        address == IF size32 = 0 THEN 0 ELSE Align(Align(v, size32), 16)
    IN  IF ~IsHigh(i) /\ d.size[i] > 0 THEN address + (d.reg[i] % 16) ELSE v

(* The news of BAR i is added to what is told.                             *)
NotifyBarChange(told, i, address) ==
    [j \in DOMAIN told \union {i} |-> IF j = i THEN address ELSE told[j]]

Store(d, i, v) ==
    LET stored == [PciSimClearDiscovery(d) EXCEPT !.reg[i] = HardwareMasked(d, i, v)]
    IN  IF IsHigh(i) THEN stored
        ELSE [stored EXCEPT !.told = NotifyBarChange(@, i, BarAddress(stored, i))]

(* All ones in any BAR slot is a question for its size, anything else goes *)
(* to the register.                                                        *)
PciConfigWrite32(d, i, v) == IF v = AllOnes THEN Discover(d, i) ELSE Store(d, i, v)

PciSetBarAddress(d, b, address) ==
    LET orig == PciConfigRead32(d, b)
        e == AfterRead(d, b)
    IN  IF IsIo(orig) THEN PciConfigWrite32(e, b, Align(address % Dword, 4) + (orig % 4))
        ELSE LET low == PciConfigWrite32(e, b, Align(address % Dword, 16) + (orig % 16))
             IN  IF Is64(orig) THEN PciConfigWrite32(low, b + 1, address \div Dword) ELSE low

(* ------------------------------- sizing -------------------------------- *)
NoInfo == [size |-> 0, io |-> FALSE, wide |-> FALSE, base |-> 0]
LegalSizes == {2^k : k \in 2 .. 30}
Valid(info) == IF info.size \in LegalSizes THEN info ELSE [info EXCEPT !.size = 0]
Refused(v) == v \in {0, AllOnes}

Ask(d, i) ==
    LET asked == PciConfigWrite32(d, i, AllOnes)
    IN  [value |-> PciConfigRead32(asked, i), dev |-> AfterRead(asked, i)]

GetPciBarInfo(d, b) ==
    LET origLow == PciConfigRead32(d, b)
        d0 == AfterRead(d, b)
        wide == Is64(origLow)
    IN
    IF IsIo(origLow) THEN
        LET ask == Ask(d0, b)
        IN  [dev |-> PciConfigWrite32(ask.dev, b, origLow),
             info |-> IF Refused(ask.value) THEN NoInfo
                      ELSE Valid([size |-> Minus(Align(ask.value, 4)), io |-> TRUE,
                                  wide |-> FALSE, base |-> Align(origLow, 4)])]
    ELSE IF wide /\ b >= 5 THEN [dev |-> d0, info |-> NoInfo]
    ELSE
        LET origHigh == IF wide THEN PciConfigRead32(d0, b + 1) ELSE 0
            ask == Ask(IF wide THEN AfterRead(d0, b + 1) ELSE d0, b)
            askHigh == IF wide THEN Ask(ask.dev, b + 1) ELSE [value |-> 0, dev |-> ask.dev]
            restored == PciConfigWrite32(askHigh.dev, b, origLow)
            mask == Align(ask.value, 16)
            size == IF wide THEN (Wide - (mask + askHigh.value * Dword)) % Wide ELSE Minus(mask)
        IN  [dev |-> IF wide THEN PciConfigWrite32(restored, b + 1, origHigh) ELSE restored,
             info |-> IF Refused(ask.value) THEN NoInfo
                      ELSE Valid([size |-> size, io |-> FALSE, wide |-> wide,
                                  base |-> origHigh * Dword + Align(origLow, 16)])]

(* The BARs the properties are about: sizes are powers of two, a 64-bit BAR *)
(* is a memory BAR, and a slot that takes the upper dword is no BAR.       *)
BarFormed(bar) ==
    /\ bar.size \in LegalSizes /\ 16 <= bar.size /\ bar.size < Wide
    /\ bar.io \in BOOLEAN /\ bar.wide \in BOOLEAN /\ ~(bar.io /\ bar.wide)
    /\ bar.wide \/ bar.size < Dword

LayoutFormed(bars, header) ==
    \A i \in Slots : Implemented(bars, header, i) => BarFormed(bars[i]) /\ ~IsHigh(i)

(* ------------------------------- decoding ------------------------------ *)
PciValidateAccess(d, address, io) ==
    /\ (IF io THEN "io" ELSE "mem") \in d.cmd
    /\ \E i \in Slots :
        LET base == Align(d.reg[i], 16) + (IF d.reg[i] % 8 = 4 THEN d.reg[i + 1] * Dword ELSE 0)
        IN  d.size[i] > 0 /\ base # 0 /\ address \in base .. base + d.size[i] - 1

(* A window register: base in the lower half of the dword, limit above it. *)
Base(v) == v % Half
Limit(v) == v \div Half
Within(address, base, limit) == base * WindowUnit <= address /\ address < (limit + 1) * WindowUnit

(* A half at or above the sign bit is shifted as a negative int.           *)
Extended(half, upper) ==
    half * WindowUnit + Dword * (IF half >= Half \div 2 THEN Dword - 1 ELSE upper)

PciBridgeValidateForward(d, address, io) ==
    /\ d.header = 1 /\ "master" \in d.cmd
    /\ \/ /\ io /\ "io" \in d.cmd
          /\ Base(d.reg[3]) # 0 /\ Limit(d.reg[3]) # 0
          /\ Within(address % Dword, Base(d.reg[3]), Limit(d.reg[3]))
       \/ /\ ~io /\ "mem" \in d.cmd
          /\ d.reg[4] # 0
          /\ Within(address, Base(d.reg[4]), Limit(d.reg[4]))
       \/ /\ ~io /\ "mem" \in d.cmd
          /\ Base(d.reg[5]) # 0 /\ Limit(d.reg[5]) # 0
          /\ Extended(Base(d.reg[5]), d.baseUpper) <= address
          /\ address < Extended(Limit(d.reg[5]), d.limitUpper) + WindowUnit
=============================================================================
