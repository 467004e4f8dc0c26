----------------------------- MODULE Pci_proofs -----------------------------
(* What is proved of PCI configuration.  Of one function: sizing finds what *)
(* the hardware has and changes nothing, and the registers implement one   *)
(* base per BAR.  Of the start of B_Kernel: the walk registers what it can *)
(* see, and the addresses it assigns collide nowhere and are the ones the  *)
(* operating system remembers, as long as they fit in the dword.           *)
EXTENDS MmioRouter, PciBars, SequenceTheorems, WellFoundedInduction, TLAPS

----------------------------------------------------------------------------
(* Arithmetic *)

(* Quotient and remainder are unique. *)
LEMMA QuotientUnique ==
  ASSUME NEW n \in Nat \ {0}, NEW q \in Int, NEW r \in 0 .. n - 1
  PROVE  (q * n + r) \div n = q /\ (q * n + r) % n = r
<1> DEFINE x == q * n + r
           k == x \div n
           s == x % n
<1>1. x \in Int
  OBVIOUS
<1>2. k \in Int /\ s \in 0 .. n - 1 /\ x = n * k + s
  BY <1>1
<1>3. n * (q - k) = s - r
  <2>1. q * n + r = n * k + s
    BY <1>2
  <2>2. n * (q - k) = n * q - n * k /\ n * q = q * n
    BY <1>2
  <2>3. n * q \in Int /\ n * k \in Int /\ n * (q - k) \in Int
    BY <1>2
  <2> HIDE DEF k, s
  <2> QED
    BY <1>2, <2>1, <2>2, <2>3
<1> DEFINE d == q - k
<1>4. d \in Int
  BY <1>2
<1> HIDE DEF k, s, d
<1>5. d < 1
  <2> SUFFICES ASSUME d >= 1 PROVE FALSE
    BY <1>4
  <2>1. n * d >= n
    BY <1>4
  <2> QED
    BY <1>2, <1>3, <1>4, <2>1 DEF d
<1>6. d > -1
  <2> SUFFICES ASSUME d <= -1 PROVE FALSE
    BY <1>4
  <2>1. n * d <= -n
    BY <1>4
  <2> QED
    BY <1>2, <1>3, <1>4, <2>1 DEF d
<1>7. k = q
  BY <1>2, <1>4, <1>5, <1>6 DEF d
<1>8. s = r
  BY <1>2, <1>3, <1>7
<1> QED
  BY <1>7, <1>8 DEF k, s

(* Quotient and remainder of a natural number. *)
LEMMA Division ==
  ASSUME NEW n \in Nat \ {0}, NEW v \in Nat
  PROVE  /\ v = (v \div n) * n + (v % n)
         /\ v \div n \in Nat /\ v % n \in 0 .. n - 1
<1>1. v \div n \in Int /\ v % n \in 0 .. n - 1 /\ v = n * (v \div n) + (v % n)
  OBVIOUS
<1> DEFINE q == v \div n
           r == v % n
<1> HIDE DEF q, r
<1>2. q \in Int /\ r \in 0 .. n - 1 /\ v = n * q + r
  BY <1>1 DEF q, r
<1>3. q >= 0
  <2> SUFFICES ASSUME q <= -1 PROVE FALSE
    BY <1>2
  <2>1. n * q <= -n
    BY <1>2
  <2> QED
    BY <1>2, <2>1
<1>4. n * q = q * n
  BY <1>2
<1> QED
  BY <1>2, <1>3, <1>4 DEF q, r

(* The widths the assumption allows, written out. *)
LEMMA DwordPower ==
  Dword \in {32, 64, 128, 256, 512, 1024, 2048, 4096, 8192, 16384, 32768}
<1>1. PICK k \in 5 .. 15 : Dword = 2^k
  BY WidthAssumption
<1>2. k \in {5, 6, 7, 8, 9, 10, 11, 12, 13, 14, 15}
  OBVIOUS
<1>3. 2^5 = 32 /\ 2^6 = 64 /\ 2^7 = 128 /\ 2^8 = 256 /\ 2^9 = 512 /\ 2^10 = 1024
      /\ 2^11 = 2048 /\ 2^12 = 4096 /\ 2^13 = 8192 /\ 2^14 = 16384 /\ 2^15 = 32768
  OBVIOUS
<1>4. Dword \in {2^5, 2^6, 2^7, 2^8, 2^9, 2^10, 2^11, 2^12, 2^13, 2^14, 2^15}
  BY <1>1, <1>2
<1> QED
  BY <1>3, <1>4

(* A dword is a positive multiple of 16. *)
LEMMA DwordType == Dword \in Nat \ {0} /\ Dword >= 32 /\ Dword % 16 = 0
  BY DwordPower

Powers == {16, 32, 64, 128, 256, 512, 1024, 2048, 4096, 8192, 16384, 32768,
           65536, 131072, 262144, 524288, 1048576, 2097152, 4194304, 8388608,
           16777216, 33554432, 67108864, 134217728, 268435456, 536870912, 1073741824}
(* The sizes a BAR can have, written out. *)
LEMMA LegalPower == ASSUME NEW s \in LegalSizes, s >= 16 PROVE s \in Powers
<1>1. PICK k \in 2 .. 30 : s = 2^k
  BY DEF LegalSizes
<1>2. k \in {2,3,4,5, 6, 7, 8, 9, 10, 11, 12, 13, 14, 15,16,17,18,19,20,21,22,23,24,25,26,27,28,29,30}
  OBVIOUS
<1>3. 2^2=4 /\ 2^3=8 /\ 2^4=16 /\ 2^5 = 32 /\ 2^6 = 64 /\ 2^7 = 128 /\ 2^8 = 256 /\ 2^9 = 512 /\ 2^10 = 1024
      /\ 2^11 = 2048 /\ 2^12 = 4096 /\ 2^13 = 8192 /\ 2^14 = 16384 /\ 2^15 = 32768
      /\ 2^16 = 65536 /\ 2^17 = 131072 /\ 2^18 = 262144 /\ 2^19 = 524288 /\ 2^20 = 1048576
      /\ 2^21 = 2097152 /\ 2^22 = 4194304 /\ 2^23 = 8388608 /\ 2^24 = 16777216
      /\ 2^25 = 33554432 /\ 2^26 = 67108864 /\ 2^27 = 134217728 /\ 2^28 = 268435456
      /\ 2^29 = 536870912 /\ 2^30 = 1073741824
  OBVIOUS
<1>4. s \in {2^2, 2^3, 2^4, 2^5, 2^6, 2^7, 2^8, 2^9, 2^10, 2^11, 2^12, 2^13, 2^14, 2^15, 2^16, 2^17, 2^18, 2^19, 2^20, 2^21, 2^22, 2^23, 2^24, 2^25, 2^26, 2^27, 2^28, 2^29, 2^30}
  BY <1>1, <1>2
<1> QED
  BY <1>3, <1>4 DEF Powers

(* Of two powers of two one divides the other: a BAR's size divides the    *)
(* dword or is a multiple of it.                                           *)
LEMMA PowersDivide ==
  ASSUME NEW s \in Powers
  PROVE  /\ s \in Nat \ {0} /\ s >= 16 /\ s % 16 = 0
         /\ s < Dword => Dword % s = 0
         /\ s >= Dword => s % Dword = 0
<1>1. s \in Nat \ {0} /\ s >= 16 /\ s % 16 = 0
  BY DEF Powers
<1>2. s < Dword => Dword % s = 0
  BY DwordPower DEF Powers
<1>3. s >= Dword => s % Dword = 0
  BY DwordPower DEF Powers
<1> QED
  BY <1>1, <1>2, <1>3

(* All ones is a dword, and its type bits are all ones. *)
LEMMA WideType == Wide \in Nat /\ Wide >= Dword /\ AllOnes \in 0 .. Dword - 1 /\ AllOnes % 16 = 15
<1>1. Dword * Dword \in Nat /\ Dword * Dword >= Dword
  BY DwordType
<1>2. (Dword - 1) % 16 = 15
  BY DwordType
<1> QED
  BY <1>1, <1>2, DwordType DEF Wide, AllOnes

----------------------------------------------------------------------------
(* What the routines do to a device *)

Registers == [Slots -> 0 .. Dword - 1]

IsDevice(d) ==
  /\ d = [header |-> d.header, cmd |-> d.cmd, active |-> d.active, reg |-> d.reg,
          size |-> d.size, low |-> d.low, high |-> d.high, baseUpper |-> d.baseUpper,
          limitUpper |-> d.limitUpper, told |-> d.told]
  /\ d.active \in BOOLEAN /\ d.reg \in Registers /\ d.size \in [Slots -> Nat]
  /\ d.low \in [Slots -> Int] /\ d.high \in [Slots -> Int]

(* No question for a size is open. *)
AtRest(d) ==
  IsDevice(d) /\ ~d.active /\ d.low = [i \in Slots |-> 0] /\ d.high = [i \in Slots |-> 0]

(* e differs from d in the open question at most. *)
SameRegisters(d, e) ==
  /\ IsDevice(e)
  /\ e.header = d.header /\ e.cmd = d.cmd /\ e.reg = d.reg /\ e.size = d.size
  /\ e.baseUpper = d.baseUpper /\ e.limitUpper = d.limitUpper /\ e.told = d.told

(* PciSimClearDiscovery closes the question and touches no register. *)
LEMMA ClearEffect ==
  ASSUME NEW d, IsDevice(d)
  PROVE  AtRest(PciSimClearDiscovery(d)) /\ SameRegisters(d, PciSimClearDiscovery(d))
<1> DEFINE e == PciSimClearDiscovery(d)
<1>1. e = [header |-> d.header, cmd |-> d.cmd, active |-> FALSE, reg |-> d.reg,
           size |-> d.size, low |-> [i \in Slots |-> 0], high |-> [i \in Slots |-> 0],
           baseUpper |-> d.baseUpper, limitUpper |-> d.limitUpper, told |-> d.told]
  <2> DEFINE z == [i \in Slots |-> 0]
  <2> HIDE DEF z
  <2>1. PICK c : c = [d EXCEPT !.active = FALSE, !.low = z, !.high = z]
    OBVIOUS
  <2>2. c = [header |-> d.header, cmd |-> d.cmd, active |-> FALSE, reg |-> d.reg,
             size |-> d.size, low |-> z, high |-> z,
             baseUpper |-> d.baseUpper, limitUpper |-> d.limitUpper, told |-> d.told]
    BY <2>1 DEF IsDevice
  <2> QED
    BY <2>1, <2>2 DEF PciSimClearDiscovery, z
<1> HIDE DEF e
<1>2. IsDevice(e)
  BY <1>1 DEF IsDevice
<1> QED
  BY <1>1, <1>2 DEF e, AtRest, SameRegisters

(* When no question is open a read answers with the register and changes   *)
(* nothing.                                                                *)
LEMMA ReadAtRest ==
  ASSUME NEW d, AtRest(d), NEW i \in Slots
  PROVE  PciConfigRead32(d, i) = d.reg[i] /\ AfterRead(d, i) = d
BY DEF AtRest, PciConfigRead32, AfterRead, Answer

(* A read may close a question and touches no register. *)
LEMMA AfterReadEffect ==
  ASSUME NEW d, IsDevice(d), NEW i \in Slots
  PROVE  SameRegisters(d, AfterRead(d, i))
BY ClearEffect DEF AfterRead, SameRegisters

(* The two's complement of a natural number is a natural number. *)
LEMMA MinusType == ASSUME NEW v \in Nat PROVE Minus(v) \in Nat
BY DwordType DEF Minus

(* Asking for a size leaves every register as it is. *)
LEMMA DiscoverEffect ==
  ASSUME NEW d, IsDevice(d), NEW i \in Slots
  PROVE  SameRegisters(d, Discover(d, i))
<1> DEFINE b == ActualBar(d, i)
           wide == IF IsHigh(i) THEN Paired(d, i) ELSE Is64(d.reg[i])
           low == IF IsIo(d.reg[i]) THEN Align(Minus(d.size[b]), 4) + (d.reg[i] % 4)
                                    ELSE Align(Minus(d.size[b]), 16) + (d.reg[i] % 16)
           high == IF wide /\ ~IsIo(d.reg[i]) THEN (Wide - d.size[b]) \div Dword ELSE 0
           e == Discover(d, i)
<1>1. b \in Slots /\ d.size[b] \in Nat /\ d.reg[i] \in Nat
  BY DwordType DEF ActualBar, Paired, IsHigh, Slots, IsDevice, Registers
<1>2. low \in Int /\ high \in Int
  <2>1. Minus(d.size[b]) \in Nat
    BY <1>1, MinusType
  <2>2. low \in Int
    BY <1>1, <2>1 DEF Align
  <2>3. (Wide - d.size[b]) \div Dword \in Int
    BY <1>1, WideType, DwordType
  <2> QED
    BY <2>2, <2>3
<1>3. CASE d.size[b] = 0
  <2>1. e = d
    BY <1>3 DEF Discover
  <2> QED
    BY <2>1 DEF SameRegisters
<1>4. CASE d.size[b] # 0
  <2>1. e = [header |-> d.header, cmd |-> d.cmd, active |-> TRUE, reg |-> d.reg,
             size |-> d.size, low |-> [d.low EXCEPT ![b] = low],
             high |-> [d.high EXCEPT ![b] = high],
             baseUpper |-> d.baseUpper, limitUpper |-> d.limitUpper, told |-> d.told]
    BY <1>4 DEF Discover, IsDevice
  <2> HIDE DEF e, low, high, b
  <2>2. IsDevice(e)
    BY <1>1, <1>2, <2>1 DEF IsDevice
  <2> QED
    BY <2>1, <2>2 DEF e, SameRegisters
<1> QED
  BY <1>3, <1>4

(* Asking and reading the answer leave every register as it is. *)
LEMMA AskEffect ==
  ASSUME NEW d, IsDevice(d), NEW i \in Slots
  PROVE  SameRegisters(d, Ask(d, i).dev)
<1> DEFINE asked == PciConfigWrite32(d, i, AllOnes)
<1>1. asked = Discover(d, i)
  BY DEF PciConfigWrite32
<1>2. SameRegisters(d, asked)
  BY <1>1, DiscoverEffect
<1>3. SameRegisters(asked, AfterRead(asked, i))
  BY <1>2, AfterReadEffect DEF SameRegisters
<1>4. Ask(d, i).dev = AfterRead(asked, i)
  BY DEF Ask
<1> QED
  BY <1>2, <1>3, <1>4 DEF SameRegisters

(* A register that keeps its contents when they are written to it. *)
Stable(d, i) == d.reg[i] # AllOnes /\ HardwareMasked(d, i, d.reg[i]) = d.reg[i]

(* Writing back what a register holds closes the question and tells the     *)
(* address the BAR decodes.                                                 *)
LEMMA WriteBack ==
  ASSUME NEW d, AtRest(d), NEW e, SameRegisters(d, e), NEW i \in Slots, Stable(d, i)
  PROVE  PciConfigWrite32(e, i, d.reg[i])
           = [d EXCEPT !.told = IF IsHigh(i) THEN @ ELSE NotifyBarChange(@, i, BarAddress(d, i))]
<1> DEFINE c == PciSimClearDiscovery(e)
           s == [c EXCEPT !.reg[i] = HardwareMasked(e, i, d.reg[i])]
<1>1. AtRest(c) /\ SameRegisters(e, c)
  BY ClearEffect DEF SameRegisters
<1>2. c = d
  BY <1>1 DEF AtRest, SameRegisters, IsDevice
<1>3. HardwareMasked(e, i, d.reg[i]) = d.reg[i]
  BY DEF Stable, HardwareMasked, SameRegisters
<1>4. s = d
  <2>1. [d.reg EXCEPT ![i] = d.reg[i]] = d.reg
    BY DEF AtRest, IsDevice, Registers
  <2> QED
    BY <1>2, <1>3, <2>1 DEF AtRest, IsDevice
<1>5. PciConfigWrite32(e, i, d.reg[i]) = Store(e, i, d.reg[i])
  BY DEF PciConfigWrite32, Stable
<1>6. Store(e, i, d.reg[i]) = IF IsHigh(i) THEN s
                              ELSE [s EXCEPT !.told = NotifyBarChange(@, i, BarAddress(s, i))]
  BY DEF Store
<1>7. [d EXCEPT !.told = @] = d
  BY DEF AtRest, IsDevice
<1> HIDE DEF s
<1> QED
  BY <1>4, <1>5, <1>6, <1>7

(* d, once the addresses t have been told. *)
Told(d, t) == [d EXCEPT !.told = t]

(* Recording news leaves the rest of the function alone; the last news     *)
(* counts.                                                                 *)
LEMMA ToldEffect ==
  ASSUME NEW d, AtRest(d), NEW t
  PROVE  AtRest(Told(d, t)) /\ Told(d, t).told = t /\ Told(d, t).reg = d.reg
         /\ Told(d, t).size = d.size /\ Told(d, t).header = d.header
         /\ Told(d, t).cmd = d.cmd /\ Told(d, t).baseUpper = d.baseUpper
         /\ Told(d, t).limitUpper = d.limitUpper
         /\ \A u : Told(Told(d, t), u) = Told(d, u)
<1> PICK e : e = Told(d, t)
  OBVIOUS
<1>1. e = [header |-> d.header, cmd |-> d.cmd, active |-> d.active, reg |-> d.reg,
           size |-> d.size, low |-> d.low, high |-> d.high, baseUpper |-> d.baseUpper,
           limitUpper |-> d.limitUpper, told |-> t]
  BY DEF Told, AtRest, IsDevice
<1>2. AtRest(e) /\ e.told = t /\ e.reg = d.reg /\ e.size = d.size /\ e.header = d.header
      /\ e.cmd = d.cmd /\ e.baseUpper = d.baseUpper /\ e.limitUpper = d.limitUpper
  BY <1>1 DEF AtRest, IsDevice
<1>3. ASSUME NEW u PROVE Told(e, u) = Told(d, u)
  <2> PICK f : f = Told(e, u)
    OBVIOUS
  <2> PICK g : g = Told(d, u)
    OBVIOUS
  <2>1. f = [header |-> d.header, cmd |-> d.cmd, active |-> d.active, reg |-> d.reg,
             size |-> d.size, low |-> d.low, high |-> d.high, baseUpper |-> d.baseUpper,
             limitUpper |-> d.limitUpper, told |-> u]
    BY <1>1 DEF Told
  <2>2. g = f
    BY <2>1 DEF Told, AtRest, IsDevice
  <2> QED
    BY <2>2
<1> QED
  BY <1>2, <1>3

(* t tells addresses the device decodes. *)
TrueNews(d, t) == \A i \in DOMAIN t : t[i] = BarAddress(d, i)

(* Writing back what a register holds tells only addresses the function    *)
(* decodes.                                                                *)
LEMMA WriteBackTells ==
  ASSUME NEW d, AtRest(d), TrueNews(d, d.told), NEW e, SameRegisters(d, e),
         NEW i \in Slots, Stable(d, i)
  PROVE  \E t : TrueNews(d, t) /\ PciConfigWrite32(e, i, d.reg[i]) = Told(d, t)
<1> DEFINE t == IF IsHigh(i) THEN d.told ELSE NotifyBarChange(d.told, i, BarAddress(d, i))
<1>1. TrueNews(d, t)
  BY DEF TrueNews, NotifyBarChange
<1>2. PciConfigWrite32(e, i, d.reg[i]) = Told(d, t)
  BY WriteBack DEF Told
<1> QED
  BY <1>1, <1>2

(* Sizing puts back every register it writes, leaves no question open and  *)
(* tells only addresses the device decodes.                                *)
LEMMA SizingRests ==
  ASSUME NEW d, AtRest(d), d.told = <<>>, NEW b \in Slots, Stable(d, b),
         Is64(d.reg[b]) /\ b < 5 => Stable(d, b + 1)
  PROVE  \E t : TrueNews(d, t) /\ GetPciBarInfo(d, b).dev = Told(d, t)
<1>1. PciConfigRead32(d, b) = d.reg[b] /\ AfterRead(d, b) = d
  BY ReadAtRest
<1>2. TrueNews(d, d.told)
  BY DEF TrueNews
<1>3. CASE IsIo(d.reg[b])
  <2>1. GetPciBarInfo(d, b).dev = PciConfigWrite32(Ask(d, b).dev, b, d.reg[b])
    BY <1>1, <1>3 DEF GetPciBarInfo
  <2> QED
    BY <1>2, <2>1, AskEffect, WriteBackTells DEF AtRest
<1>4. CASE ~IsIo(d.reg[b]) /\ Is64(d.reg[b]) /\ b >= 5
  <2>1. GetPciBarInfo(d, b).dev = d
    BY <1>1, <1>4 DEF GetPciBarInfo
  <2>2. Told(d, d.told) = d
    BY DEF Told, AtRest, IsDevice
  <2> QED
    BY <1>2, <2>1, <2>2
<1>5. CASE ~IsIo(d.reg[b]) /\ Is64(d.reg[b]) /\ b < 5
  <2> DEFINE ask == Ask(d, b)
             askHigh == Ask(ask.dev, b + 1)
             restored == PciConfigWrite32(askHigh.dev, b, d.reg[b])
  <2>1. b + 1 \in Slots
    BY <1>5 DEF Slots
  <2>2. PciConfigRead32(d, b + 1) = d.reg[b + 1] /\ AfterRead(d, b + 1) = d
    BY <2>1, ReadAtRest
  <2>2a. ~(b >= 5)
    BY <1>5 DEF Slots
  <2>3. GetPciBarInfo(d, b).dev = PciConfigWrite32(restored, b + 1, d.reg[b + 1])
    BY <1>1, <1>5, <2>2, <2>2a, Zenon DEF GetPciBarInfo
  <2>4. SameRegisters(d, ask.dev)
    BY AskEffect DEF AtRest
  <2>5. SameRegisters(ask.dev, askHigh.dev)
    BY <2>1, <2>4, AskEffect DEF SameRegisters
  <2>6. SameRegisters(d, askHigh.dev)
    BY <2>4, <2>5 DEF SameRegisters
  <2>7. PICK t : TrueNews(d, t) /\ restored = Told(d, t)
    BY <1>2, <2>6, WriteBackTells
  <2> HIDE DEF restored
  <2>8. /\ AtRest(restored) /\ restored.told = t /\ restored.reg = d.reg
        /\ restored.size = d.size /\ SameRegisters(restored, restored)
        /\ \A u : Told(restored, u) = Told(d, u)
    BY <2>7, ToldEffect DEF AtRest, SameRegisters
  <2>9. Stable(restored, b + 1)
    BY <1>5, <2>8 DEF Stable, HardwareMasked
  <2>10. \A i : BarAddress(restored, i) = BarAddress(d, i)
    BY <2>8 DEF BarAddress
  <2>11. TrueNews(restored, restored.told)
    BY <2>7, <2>8, <2>10 DEF TrueNews
  <2>12. PICK u : TrueNews(restored, u)
                  /\ PciConfigWrite32(restored, b + 1, d.reg[b + 1]) = Told(restored, u)
    BY <2>1, <2>8, <2>9, <2>11, WriteBackTells
  <2>13. TrueNews(d, u)
    BY <2>10, <2>12 DEF TrueNews
  <2> QED
    BY <2>3, <2>8, <2>12, <2>13
<1>6. CASE ~IsIo(d.reg[b]) /\ ~Is64(d.reg[b])
  <2>1. GetPciBarInfo(d, b).dev = PciConfigWrite32(Ask(d, b).dev, b, d.reg[b])
    BY <1>1, <1>6 DEF GetPciBarInfo
  <2> QED
    BY <1>2, <2>1, AskEffect, WriteBackTells DEF AtRest
<1> QED
  BY <1>3, <1>4, <1>5, <1>6 DEF Slots

----------------------------------------------------------------------------
(* Sizing finds the size *)

(* Rounding down to a multiple of s. *)
LEMMA AlignMultiple ==
  ASSUME NEW s \in Nat \ {0}, NEW m \in Nat, m % s = 0, NEW t \in 0 .. s - 1
  PROVE  (m + t) % s = t /\ Align(m + t, s) = m
<1>1. m = (m \div s) * s + 0 /\ m \div s \in Nat
  BY Division
<1> DEFINE q == m \div s
<1>2. q \in Nat /\ m = q * s
  BY <1>1
<1> HIDE DEF q
<1>3. m = q * s /\ q \in Nat /\ (q * s + t) % s = t
  BY <1>2, QuotientUnique
<1>4. (m + t) % s = t
  BY <1>3
<1> QED
  BY <1>4 DEF Align

(* The slot holds the upper dword of the BAR before it. *)
UpperSlot(layout, header, i) ==
  IsHigh(i) /\ Implemented(layout, header, i - 1) /\ layout[i - 1].wide

(* The slots where a bridge has the registers of its windows. *)
WindowSlot(header, i) == header = 1 /\ i \in 3 .. 5

(* A device whose registers hold what its BARs let them. *)
RegisterFits(d, layout, header, i) ==
  IF Implemented(layout, header, i)
  THEN /\ d.reg[i] % 16 = TypeBits(layout[i])
       /\ IF layout[i].size < Dword THEN Align(d.reg[i], 16) % layout[i].size = 0
                                  ELSE Align(d.reg[i], 16) = 0
  ELSE IF UpperSlot(layout, header, i) THEN d.reg[i] % 2 = 0
  ELSE IF WindowSlot(header, i) THEN d.reg[i] # AllOnes ELSE d.reg[i] = 0

Formed(d, layout, header) ==
  /\ AtRest(d) /\ d.told = <<>> /\ d.header = header
  /\ d.size = [i \in Slots |-> IF Implemented(layout, header, i) THEN layout[i].size ELSE 0]
  /\ \A i \in Slots : RegisterFits(d, layout, header, i)

(* The size of a BAR against the dword, and its kind against the type      *)
(* bits.                                                                   *)
LEMMA BarFacts ==
  ASSUME NEW bar, BarFormed(bar)
  PROVE  /\ bar.size \in Nat \ {0} /\ bar.size >= 16 /\ bar.size % 16 = 0
         /\ bar.size < Dword => Dword % bar.size = 0
         /\ bar.size >= Dword => bar.size % Dword = 0 /\ bar.wide
         /\ bar.size < Wide
         /\ TypeBits(bar) \in {0, 1, 4}
         /\ TypeBits(bar) = 1 <=> bar.io
         /\ TypeBits(bar) = 4 <=> bar.wide
<1>1. bar.size \in Powers
  BY LegalPower DEF BarFormed
<1>2. /\ bar.size \in Nat \ {0} /\ bar.size >= 16 /\ bar.size % 16 = 0
      /\ bar.size < Dword => Dword % bar.size = 0
      /\ bar.size >= Dword => bar.size % Dword = 0
  BY <1>1, PowersDivide
<1>3. bar.size >= Dword => bar.wide
  BY <1>2, DwordType DEF BarFormed
<1> QED
  BY <1>2, <1>3 DEF BarFormed, TypeBits

(* The low four bits of a BAR say its kind. *)
LEMMA KindBits ==
  ASSUME NEW v \in Nat, NEW t \in {0, 1, 4}, v % 16 = t
  PROVE  /\ IsIo(v) <=> t = 1
         /\ Is64(v) <=> t = 4
         /\ v % 4 = t % 4 /\ v # AllOnes
<1>1. AllOnes % 16 = 15
  BY WideType
<1> QED
  BY <1>1 DEF IsIo, Is64

(* Every register of a formed function can be written back as it is. *)
LEMMA FormedStable ==
  ASSUME NEW layout, NEW header, LayoutFormed(layout, header),
         NEW d, Formed(d, layout, header), NEW i \in Slots
  PROVE  Stable(d, i)
<1>1. d.reg[i] \in Nat /\ d.reg[i] \in 0 .. Dword - 1
  BY DwordType DEF Formed, AtRest, IsDevice, Registers
<1>2. CASE ~Implemented(layout, header, i) /\ IsHigh(i)
  <2>1. d.reg[i] % 2 = 0 \/ d.reg[i] # AllOnes
    BY <1>2 DEF Formed, RegisterFits
  <2>2. d.reg[i] # AllOnes
    BY <1>1, <2>1, WideType
  <2> QED
    BY <1>2, <2>2 DEF Stable, HardwareMasked
<1>3. CASE ~Implemented(layout, header, i) /\ ~IsHigh(i)
  <2>1. (d.reg[i] = 0 \/ d.reg[i] # AllOnes) /\ d.size[i] = 0
    BY <1>3 DEF Formed, RegisterFits, UpperSlot
  <2>2. d.reg[i] # AllOnes
    BY <2>1, DwordType DEF AllOnes
  <2> QED
    BY <2>1, <2>2 DEF Stable, HardwareMasked
<1>4. CASE Implemented(layout, header, i)
  <2> DEFINE s == layout[i].size
             t == TypeBits(layout[i])
             m == Align(d.reg[i], 16)
  <2>1. /\ BarFormed(layout[i]) /\ ~IsHigh(i) /\ d.size[i] = s /\ d.reg[i] % 16 = t
        /\ IF s < Dword THEN m % s = 0 ELSE m = 0
    BY <1>4 DEF LayoutFormed, Formed, RegisterFits
  <2>2. /\ s \in Nat \ {0} /\ s >= 16 /\ t \in {0, 1, 4}
        /\ s >= Dword => s % Dword = 0
    BY <2>1, BarFacts
  <2>3. d.reg[i] # AllOnes
    BY <1>1, <2>1, <2>2, KindBits
  <2>4. m \in Nat /\ m % 16 = 0 /\ d.reg[i] = m + t
    BY <1>1, <2>1 DEF Align
  <2> HIDE DEF s, t, m
  <2>5. CASE s < Dword
    <3>1. s % Dword = s
      BY <2>2, <2>5, DwordType
    <3>2. Align(m + t, s) = m
      <4>1. t \in 0 .. s - 1
        BY <2>2
      <4> QED
        BY <2>1, <2>2, <2>4, <2>5, <4>1, AlignMultiple
    <3>2a. Align(d.reg[i], s) = m
      BY <2>4, <3>2
    <3>3. Align(m, 16) = m
      BY <2>4 DEF Align
    <3>4. HardwareMasked(d, i, d.reg[i]) = m + t
      BY <2>1, <2>2, <2>4, <3>1, <3>2a, <3>3 DEF HardwareMasked
    <3> QED
      BY <2>3, <2>4, <3>4 DEF Stable
  <2>6. CASE s >= Dword
    <3>1. HardwareMasked(d, i, d.reg[i]) = t
      BY <2>1, <2>2, <2>6 DEF HardwareMasked
    <3>2. d.reg[i] = t
      BY <2>1, <2>2, <2>4, <2>6, DwordType
    <3> QED
      BY <2>3, <3>1, <3>2 DEF Stable
  <2> QED
    BY <2>2, <2>5, <2>6, DwordType
<1> QED
  BY <1>2, <1>3, <1>4

(* The answer the hardware prepares when the size of slot i is asked for.  *)
LowAnswer(d, i) ==
  LET s == d.size[ActualBar(d, i)]
  IN  IF IsIo(d.reg[i]) THEN Align(Minus(s), 4) + (d.reg[i] % 4)
                        ELSE Align(Minus(s), 16) + (d.reg[i] % 16)
HighAnswer(d, i) ==
  IF (IF IsHigh(i) THEN Paired(d, i) ELSE Is64(d.reg[i])) /\ ~IsIo(d.reg[i])
  THEN (Wide - d.size[ActualBar(d, i)]) \div Dword ELSE 0
Asked(d, i) == IF Paired(d, i) THEN HighAnswer(d, i) ELSE IF IsHigh(i) THEN 0 ELSE LowAnswer(d, i)

(* Asking a device at rest for a size gives the prepared answer and leaves *)
(* the device as it was.                                                   *)
LEMMA AskIs ==
  ASSUME NEW d, AtRest(d), NEW i \in Slots, d.size[ActualBar(d, i)] # 0, Asked(d, i) # 0
  PROVE  Ask(d, i).value = Asked(d, i) /\ Ask(d, i).dev = d
<1> DEFINE b == ActualBar(d, i)
           e == Discover(d, i)
<1>1. b \in Slots
  BY DEF ActualBar, Paired, IsHigh, Slots
<1>2. SameRegisters(d, e)
  BY DiscoverEffect DEF AtRest
<1>3. e = [d EXCEPT !.active = TRUE, !.low[b] = LowAnswer(d, i), !.high[b] = HighAnswer(d, i)]
  BY DEF Discover, LowAnswer, HighAnswer
<1>4. e.active /\ e.low[b] = LowAnswer(d, i) /\ e.high[b] = HighAnswer(d, i)
  BY <1>1, <1>3 DEF AtRest, IsDevice
<1>5. Answer(e, i) = Asked(d, i)
  BY <1>2, <1>4 DEF Answer, Asked, ActualBar, Paired, SameRegisters
<1>6. PciConfigWrite32(d, i, AllOnes) = e
  BY DEF PciConfigWrite32
<1> HIDE DEF e
<1>7. AfterRead(e, i) = PciSimClearDiscovery(e) /\ PciConfigRead32(e, i) = Asked(d, i)
  BY <1>5 DEF AfterRead, PciConfigRead32
<1>8. AtRest(PciSimClearDiscovery(e)) /\ SameRegisters(e, PciSimClearDiscovery(e))
  BY <1>2, ClearEffect DEF SameRegisters
<1>9. PciSimClearDiscovery(e) = d
  BY <1>2, <1>8 DEF AtRest, SameRegisters, IsDevice
<1> QED
  BY <1>6, <1>7, <1>9 DEF Ask

(* The upper dword of minus a size, and both dwords of it put together.    *)
LEMMA UpperAnswer ==
  ASSUME NEW s \in Nat \ {0}, s < Wide, s >= Dword => s % Dword = 0
  PROVE  /\ (Wide - s) \div Dword \in Nat \ {0}
         /\ (IF s < Dword THEN Dword - s ELSE 0) + ((Wide - s) \div Dword) * Dword = Wide - s
<1>1. CASE s < Dword
  <2>1. Wide - s = (Dword - 1) * Dword + (Dword - s)
    BY DwordType DEF Wide
  <2>2. ((Dword - 1) * Dword + (Dword - s)) \div Dword = Dword - 1
    BY <1>1, DwordType, QuotientUnique
  <2> QED
    BY <1>1, <2>1, <2>2, DwordType
<1>2. CASE s >= Dword
  <2> DEFINE q == s \div Dword
  <2>1. s = q * Dword + 0 /\ q \in Nat
    BY <1>2, DwordType, Division
  <2> HIDE DEF q
  <2>2. q < Dword
    <3> SUFFICES ASSUME q >= Dword PROVE FALSE
      BY <2>1, DwordType
    <3>1. q * Dword >= Dword * Dword
      BY <2>1, DwordType
    <3> QED
      BY <2>1, <3>1, DwordType DEF Wide
  <2>3. Wide - s = (Dword - q) * Dword + 0
    BY <2>1, DwordType DEF Wide
  <2>4. ((Dword - q) * Dword + 0) \div Dword = Dword - q
    BY <2>1, DwordType, QuotientUnique
  <2> QED
    BY <1>2, <2>1, <2>2, <2>3, <2>4, DwordType
<1> QED
  BY <1>1, <1>2, DwordType

(* Sizing finds the size, the kind and the address of a BAR.               *)
LEMMA SizingFinds ==
  ASSUME NEW layout, NEW header, LayoutFormed(layout, header),
         NEW d, Formed(d, layout, header), NEW b \in Slots, Implemented(layout, header, b)
  PROVE  GetPciBarInfo(d, b).info =
           [size |-> layout[b].size, io |-> layout[b].io, wide |-> layout[b].wide,
            base |-> BarAddress(d, b)]
<1> DEFINE s == layout[b].size
           t == TypeBits(layout[b])
           low == IF s < Dword THEN Dword - s ELSE 0
<1>1. /\ BarFormed(layout[b]) /\ ~IsHigh(b) /\ d.size[b] = s /\ d.reg[b] % 16 = t
      /\ AtRest(d) /\ ~Paired(d, b) /\ ActualBar(d, b) = b
  BY DEF LayoutFormed, Formed, RegisterFits, Paired, ActualBar
<1>2. /\ s \in Nat \ {0} /\ s >= 16 /\ s % 16 = 0 /\ s < Wide /\ t \in {0, 1, 4}
      /\ s >= Dword => s % Dword = 0 /\ t = 4
      /\ s < Dword => Dword % s = 0
      /\ t = 1 <=> layout[b].io
      /\ t = 4 <=> layout[b].wide
  BY <1>1, BarFacts
<1>3. layout[b].io \in BOOLEAN /\ layout[b].wide \in BOOLEAN /\ s \in LegalSizes
  BY <1>1 DEF BarFormed
<1>4. d.reg \in Registers /\ d.reg[b] \in Nat
  BY <1>1, DwordType DEF AtRest, IsDevice, Registers
<1>5. /\ IsIo(d.reg[b]) <=> layout[b].io
      /\ Is64(d.reg[b]) <=> layout[b].wide
      /\ d.reg[b] % 4 = t % 4
  BY <1>1, <1>2, <1>4, KindBits
<1>6. PciConfigRead32(d, b) = d.reg[b] /\ AfterRead(d, b) = d
  BY <1>1, ReadAtRest
<1> HIDE DEF s, t
<1>7. Minus(s) = low
  <2>1. CASE s < Dword
    BY <1>2, <2>1, DwordType DEF Minus
  <2>2. CASE s >= Dword
    BY <1>2, <2>2, DwordType DEF Minus
  <2> QED
    BY <1>2, <2>1, <2>2, DwordType
<1>8. low \in 0 .. Dword - 16 /\ low % 16 = 0
  BY <1>2, DwordType
<1>9. LowAnswer(d, b) = low + t
  <2>1. Align(low, 4) = low /\ Align(low, 16) = low
    BY <1>8, DwordType DEF Align
  <2>2. Minus(d.size[ActualBar(d, b)]) = low
    BY <1>1, <1>7
  <2> HIDE DEF low
  <2>3. LowAnswer(d, b) = IF IsIo(d.reg[b]) THEN low + (d.reg[b] % 4) ELSE low + (d.reg[b] % 16)
    BY <2>1, <2>2 DEF LowAnswer
  <2> QED
    BY <1>1, <1>2, <1>5, <2>3
<1>10. low + t # 0 /\ ~Refused(low + t)
  <2>1. low = 0 => t = 4
    BY <1>2, DwordType
  <2>2. (low + t) % 16 = t
    BY <1>2, <1>8, DwordType
  <2> QED
    BY <1>2, <1>8, <2>1, <2>2, WideType, DwordType DEF Refused
<1>11. Ask(d, b).value = low + t /\ Ask(d, b).dev = d
  BY <1>1, <1>2, <1>9, <1>10, AskIs DEF Asked
<1>12. CASE layout[b].io
  <2>1. Align(low + t, 4) = low /\ Minus(low) = s
    BY <1>2, <1>8, <1>12, DwordType DEF Align, Minus
  <2>2. GetPciBarInfo(d, b).info =
          Valid([size |-> Minus(Align(low + t, 4)), io |-> TRUE, wide |-> FALSE,
                 base |-> Align(d.reg[b], 4)])
    BY <1>5, <1>6, <1>10, <1>11, <1>12 DEF GetPciBarInfo
  <2>3. Valid([size |-> s, io |-> TRUE, wide |-> FALSE, base |-> Align(d.reg[b], 4)])
          = [size |-> s, io |-> TRUE, wide |-> FALSE, base |-> Align(d.reg[b], 4)]
    BY <1>3 DEF Valid, s
  <2>4. layout[b].wide = FALSE /\ layout[b].io = TRUE /\ BarAddress(d, b) = Align(d.reg[b], 4)
    BY <1>2, <1>3, <1>5, <1>12 DEF BarAddress
  <2> QED
    BY <2>1, <2>2, <2>3, <2>4 DEF s
<1>13. CASE ~layout[b].io /\ ~layout[b].wide
  <2>1. Align(low + t, 16) = low /\ Minus(low) = s
    BY <1>2, <1>8, <1>13, DwordType DEF Align, Minus
  <2>2. GetPciBarInfo(d, b).info =
          Valid([size |-> Minus(Align(low + t, 16)), io |-> FALSE, wide |-> Is64(d.reg[b]),
                 base |-> 0 * Dword + Align(d.reg[b], 16)])
    BY <1>5, <1>6, <1>10, <1>11, <1>13 DEF GetPciBarInfo
  <2>3. 0 * Dword + Align(d.reg[b], 16) = BarAddress(d, b)
    BY <1>4, <1>5, <1>13, DwordType DEF BarAddress, Align
  <2>4. \A base : Valid([size |-> s, io |-> FALSE, wide |-> FALSE, base |-> base])
          = [size |-> s, io |-> FALSE, wide |-> FALSE, base |-> base]
    BY <1>3 DEF Valid, s
  <2>5. layout[b].wide = FALSE /\ layout[b].io = FALSE /\ Is64(d.reg[b]) = FALSE
    BY <1>3, <1>5, <1>13 DEF Is64
  <2> QED
    BY <2>1, <2>2, <2>3, <2>4, <2>5 DEF s
<1>14. CASE ~layout[b].io /\ layout[b].wide
  <2>1. b + 1 \in Slots /\ ~(b >= 5) /\ IsHigh(b + 1) /\ (b + 1) - 1 = b
    BY <1>1 DEF Slots, IsHigh
  <2>2. PciConfigRead32(d, b + 1) = d.reg[b + 1] /\ AfterRead(d, b + 1) = d
    BY <1>1, <2>1, ReadAtRest
  <2>3. Paired(d, b + 1) /\ ActualBar(d, b + 1) = b
    BY <1>5, <1>14, <2>1 DEF Paired, ActualBar
  <2>4. d.reg[b + 1] \in Nat /\ ~IsIo(d.reg[b + 1])
    <3>1. ~Implemented(layout, header, b + 1)
      BY <2>1 DEF LayoutFormed
    <3>2. UpperSlot(layout, header, b + 1)
      BY <1>14, <2>1 DEF UpperSlot
    <3>3. d.reg[b + 1] % 2 = 0
      BY <2>1, <3>1, <3>2 DEF Formed, RegisterFits
    <3> QED
      BY <1>4, <2>1, <3>3, DwordType DEF Registers, IsIo
  <2> DEFINE high == (Wide - s) \div Dword
  <2>5. Asked(d, b + 1) = high
    BY <1>1, <2>1, <2>3, <2>4 DEF Asked, HighAnswer
  <2>6. high \in Nat \ {0} /\ low + high * Dword = Wide - s
    BY <1>2, UpperAnswer
  <2>7. Ask(d, b + 1).value = high /\ Ask(d, b + 1).dev = d
    BY <1>1, <1>2, <2>1, <2>3, <2>5, <2>6, AskIs
  <2>8. Align(low + t, 16) = low
    BY <1>2, <1>8, <1>14, DwordType DEF Align
  <2> HIDE DEF high, low
  <2>9. GetPciBarInfo(d, b).info =
          Valid([size |-> (Wide - (Align(low + t, 16) + high * Dword)) % Wide,
                 io |-> FALSE, wide |-> Is64(d.reg[b]),
                 base |-> d.reg[b + 1] * Dword + Align(d.reg[b], 16)])
    BY <1>5, <1>6, <1>10, <1>11, <1>14, <2>1, <2>2, <2>7, Zenon DEF GetPciBarInfo
  <2>10. (Wide - (low + high * Dword)) % Wide = s
    BY <1>2, <2>6, WideType, DwordType
  <2>11. d.reg[b + 1] * Dword + Align(d.reg[b], 16) = BarAddress(d, b)
    <3>1. d.reg[b + 1] * Dword \in Nat /\ Align(d.reg[b], 16) \in Nat
      BY <1>4, <2>4, DwordType DEF Align
    <3> QED
      BY <1>5, <1>14, <3>1 DEF BarAddress
  <2>12. \A base : Valid([size |-> s, io |-> FALSE, wide |-> TRUE, base |-> base])
          = [size |-> s, io |-> FALSE, wide |-> TRUE, base |-> base]
    BY <1>3 DEF Valid, s
  <2>13. layout[b].wide = TRUE /\ layout[b].io = FALSE /\ Is64(d.reg[b]) = TRUE
    BY <1>3, <1>5, <1>14 DEF Is64
  <2> QED
    BY <2>8, <2>9, <2>10, <2>11, <2>12, <2>13 DEF s
<1> QED
  BY <1>12, <1>13, <1>14

----------------------------------------------------------------------------
(* Moving a BAR *)

(* A remainder by a multiple of s has the same remainder by s.             *)
LEMMA RemainderDivides ==
  ASSUME NEW s \in Nat \ {0}, NEW n \in Nat \ {0}, n % s = 0, NEW v \in Nat
  PROVE  (v % n) % s = v % s
<1> DEFINE q == n \div s
           k == v \div n
           w == v % n
           j == w \div s
           r == w % s
<1>1. n = q * s /\ q \in Nat
  BY Division
<1>2. v = k * n + w /\ k \in Nat /\ w \in Nat
  BY Division
<1>3. w = j * s + r /\ j \in Nat /\ r \in 0 .. s - 1
  BY <1>2, Division
<1> HIDE DEF q, k, w, j, r
<1>4. v = (k * q + j) * s + r
  <2>1. k * n = (k * q) * s
    BY <1>1, <1>2
  <2>2. k * q \in Nat
    BY <1>1, <1>2
  <2>3. (k * q + j) * s = (k * q) * s + j * s
    BY <1>3, <2>2
  <2> QED
    BY <1>1, <1>2, <1>3, <2>1, <2>2, <2>3
<1>5. k * q + j \in Int
  BY <1>1, <1>2, <1>3
<1>6. v % s = r
  BY <1>3, <1>4, <1>5, QuotientUnique
<1> QED
  BY <1>6 DEF r, w

(* Rounding to 16 first, or to 4, loses nothing of rounding to a BAR size. *)
LEMMA AlignCoarse ==
  ASSUME NEW n \in {4, 16}, NEW t \in 0 .. n - 1,
         NEW s \in Nat \ {0}, s % 16 = 0, NEW v \in Nat
  PROVE  /\ Align(Align(v, n) + t, s) = Align(v, s)
         /\ Align(v, s) \in 0 .. v /\ Align(v, s) % 16 = 0 /\ Align(v, s) % s = 0
<1> DEFINE m == Align(v, s)
           r == v % s
<1>1. v = (v \div s) * s + r /\ v \div s \in Nat /\ r \in 0 .. s - 1
  BY Division
<1>2. m \in Nat /\ v = m + r /\ m <= v
  BY <1>1 DEF Align
<1>3. m % s = 0
  <2> DEFINE q == v \div s
  <2>1. m = q * s + 0 /\ q \in Nat
    BY <1>1 DEF Align
  <2> HIDE DEF q, m
  <2>2. (q * s + 0) % s = 0
    BY <2>1, QuotientUnique
  <2> QED
    BY <2>1, <2>2
<1> HIDE DEF m, r
<1>4. m % 16 = 0
  <2>1. 16 \in Nat \ {0} /\ s \in Nat \ {0} /\ m \in Nat /\ s % 16 = 0
    BY <1>2
  <2>2. (m % s) % 16 = m % 16
    BY <2>1, RemainderDivides, Zenon
  <2> QED
    BY <1>3, <2>2
<1>5. Align(v, n) + t = m + (Align(r, n) + t) /\ Align(r, n) + t \in 0 .. s - 1
  BY <1>1, <1>2, <1>4 DEF Align
<1>6. Align(Align(v, n) + t, s) = m
  BY <1>2, <1>3, <1>5, AlignMultiple
<1> QED
  BY <1>2, <1>3, <1>4, <1>6 DEF m

(* What a write to the lower dword of a BAR leaves in its register.        *)
Taken(bar, v) == IF bar.size < Dword THEN Align(v, bar.size) ELSE 0

(* The registers after BAR b has been moved to an address.                 *)
MovedRegisters(d, bar, b, address) ==
  [i \in Slots |-> IF i = b THEN Taken(bar, address % Dword) + TypeBits(bar)
                   ELSE IF i = b + 1 /\ bar.wide THEN address \div Dword ELSE d.reg[i]]

(* The address the operating system is told when BAR b is moved: the upper *)
(* dword is the one from before the move.                                  *)
MoveTold(d, bar, b, address) ==
  Taken(bar, address % Dword) + (IF bar.wide THEN d.reg[b + 1] * Dword ELSE 0)

(* e is d with the registers r and the news t. *)
Becomes(d, e, r, t) ==
  e = [header |-> d.header, cmd |-> d.cmd, active |-> FALSE, reg |-> r,
       size |-> d.size, low |-> [i \in Slots |-> 0], high |-> [i \in Slots |-> 0],
       baseUpper |-> d.baseUpper, limitUpper |-> d.limitUpper, told |-> t]

(* What a function at rest has become is at rest too. *)
LEMMA BecomesAtRest ==
  ASSUME NEW d, AtRest(d), NEW r \in Registers, NEW t, NEW e, Becomes(d, e, r, t)
  PROVE  /\ AtRest(e) /\ e.reg = r /\ e.told = t /\ e.size = d.size /\ e.header = d.header
         /\ e.cmd = d.cmd /\ e.baseUpper = d.baseUpper /\ e.limitUpper = d.limitUpper
BY DEF Becomes, AtRest, IsDevice

(* A store in slot i of a device at rest.                                  *)
LEMMA StoreIs ==
  ASSUME NEW d, AtRest(d), NEW i \in Slots, NEW v, v # AllOnes,
         NEW r \in Registers, r = [d.reg EXCEPT ![i] = HardwareMasked(d, i, v)]
  PROVE  Becomes(d, PciConfigWrite32(d, i, v), r,
                 IF IsHigh(i) THEN d.told
                 ELSE NotifyBarChange(d.told, i, BarAddress([reg |-> r], i)))
<1> DEFINE t == IF IsHigh(i) THEN d.told ELSE NotifyBarChange(d.told, i, BarAddress([reg |-> r], i))
<1> DEFINE c == PciSimClearDiscovery(d)
           s == [c EXCEPT !.reg[i] = HardwareMasked(d, i, v)]
<1>1. AtRest(c) /\ SameRegisters(d, c)
  BY ClearEffect DEF AtRest
<1>2. c = d
  BY <1>1 DEF AtRest, SameRegisters, IsDevice
<1>3. Becomes(d, s, r, d.told)
  <2> PICK f : f = [d EXCEPT !.reg = r]
    OBVIOUS
  <2>1. s = f
    BY <1>2
  <2>2. Becomes(d, f, r, d.told)
    BY DEF AtRest, IsDevice, Becomes
  <2> QED
    BY <2>1, <2>2
<1>4. PciConfigWrite32(d, i, v) = IF IsHigh(i) THEN s
                ELSE [s EXCEPT !.told = NotifyBarChange(@, i, BarAddress(s, i))]
  BY DEF PciConfigWrite32, Store
<1> HIDE DEF s
<1>5. BarAddress(s, i) = BarAddress([reg |-> r], i)
  BY <1>3 DEF BarAddress, Becomes
<1>6. CASE IsHigh(i)
  BY <1>3, <1>4, <1>6
<1>7. CASE ~IsHigh(i)
  <2> DEFINE u == NotifyBarChange(d.told, i, BarAddress(s, i))
  <2>1. s.told = d.told
    BY <1>3 DEF Becomes
  <2>2. PciConfigWrite32(d, i, v) = [s EXCEPT !.told = u]
    BY <1>4, <1>7, <2>1
  <2>3. t = u
    BY <1>5, <1>7
  <2> HIDE DEF u, t
  <2> PICK f : f = [s EXCEPT !.told = u]
    OBVIOUS
  <2>4. Becomes(d, f, r, u)
    BY <1>3 DEF Becomes
  <2> QED
    BY <2>2, <2>3, <2>4 DEF t
<1> QED
  BY <1>6, <1>7

(* Moving a BAR changes its registers and nothing else of the device.      *)
LEMMA MoveIs ==
  ASSUME NEW layout, NEW header, LayoutFormed(layout, header),
         NEW d, Formed(d, layout, header), NEW b \in Slots, Implemented(layout, header, b),
         NEW address \in Nat, layout[b].wide => address \div Dword < AllOnes
  PROVE  LET r == MovedRegisters(d, layout[b], b, address)
         IN  /\ r \in Registers
             /\ Becomes(d, PciSetBarAddress(d, b, address), r,
                        NotifyBarChange(<<>>, b, MoveTold(d, layout[b], b, address)))
<1> DEFINE s == layout[b].size
           t == TypeBits(layout[b])
           a == address % Dword
           n == IF layout[b].io THEN 4 ELSE 16
           v == Align(a, n) + (t % n)
           m == Taken(layout[b], a)
           r1 == [d.reg EXCEPT ![b] = m + t]
           r == MovedRegisters(d, layout[b], b, address)
           e1 == PciConfigWrite32(d, b, v)
           news == NotifyBarChange(<<>>, b, MoveTold(d, layout[b], b, address))
<1>1. /\ BarFormed(layout[b]) /\ ~IsHigh(b) /\ d.size[b] = s /\ d.reg[b] % 16 = t
      /\ AtRest(d) /\ d.told = <<>>
  BY DEF LayoutFormed, Formed, RegisterFits
<1>2. /\ s \in Nat \ {0} /\ s >= 16 /\ s % 16 = 0 /\ t \in {0, 1, 4}
      /\ s >= Dword => s % Dword = 0
      /\ t = 1 <=> layout[b].io
      /\ t = 4 <=> layout[b].wide
  BY <1>1, BarFacts
<1>3. /\ d.reg \in Registers /\ d.reg[b] \in Nat
      /\ b + 1 \in Slots /\ IsHigh(b + 1) /\ b # b + 1
  <2>1. d.reg \in Registers
    BY <1>1 DEF AtRest, IsDevice
  <2>2. d.reg[b] \in Nat
    BY <2>1, DwordType DEF Registers
  <2>3. b \in {0, 2, 4}
    BY <1>1 DEF Slots, IsHigh
  <2> QED
    BY <2>1, <2>2, <2>3 DEF Slots, IsHigh
<1>4. /\ IsIo(d.reg[b]) <=> layout[b].io
      /\ Is64(d.reg[b]) <=> layout[b].wide
      /\ d.reg[b] % 4 = t % 4
  BY <1>1, <1>2, <1>3, KindBits
<1>5. PciConfigRead32(d, b) = d.reg[b] /\ AfterRead(d, b) = d
  BY <1>1, ReadAtRest
<1>6. a \in 0 .. Dword - 1 /\ address \div Dword \in Nat /\ n \in {4, 16} /\ t % n \in 0 .. n - 1
      /\ t % 16 = t
  <2>1. address \div Dword \in Nat /\ a \in 0 .. Dword - 1
    BY DwordType, Division
  <2>2. n \in {4, 16} /\ t % n \in 0 .. n - 1 /\ t % 16 = t
    BY <1>2
  <2> QED
    BY <2>1, <2>2
<1>7. PciSetBarAddress(d, b, address) =
        IF layout[b].wide THEN PciConfigWrite32(e1, b + 1, address \div Dword) ELSE e1
  <2>1. CASE layout[b].io
    BY <1>1, <1>2, <1>4, <1>5, <2>1 DEF PciSetBarAddress
  <2>2. CASE ~layout[b].io
    BY <1>1, <1>2, <1>4, <1>5, <1>6, <2>2 DEF PciSetBarAddress
  <2> QED
    BY <2>1, <2>2
<1> HIDE DEF a
<1>8. v # AllOnes
  <2>1. v % 4 = (t % n) % 4
    BY <1>6 DEF Align
  <2>2. (t % n) % 4 \in {0, 1} /\ AllOnes % 4 = 3
    BY <1>2, <1>6, DwordPower DEF AllOnes
  <2> QED
    BY <2>1, <2>2
<1>9. /\ Align(v, s) = Align(a, s) /\ Align(a, s) \in 0 .. a /\ Align(a, s) % 16 = 0
  <2> DEFINE u == t % n
  <2>1. u \in 0 .. n - 1
    BY <1>6
  <2> HIDE DEF s, t, n, u
  <2>2. Align(Align(a, n) + u, s) = Align(a, s) /\ Align(a, s) \in 0 .. a /\ Align(a, s) % 16 = 0
    <3>1. n \in {4, 16} /\ s \in Nat \ {0} /\ s % 16 = 0 /\ a \in Nat
      BY <1>2, <1>6, DwordType
    <3> QED
      BY <2>1, <3>1, AlignCoarse, Zenon
  <2> QED
    BY <2>2 DEF u
<1> HIDE DEF s, t, n, v
<1>10. m \in 0 .. a /\ m % 16 = 0 /\ m + t \in 0 .. Dword - 1
  <2>1. m \in 0 .. a /\ m % 16 = 0
    BY <1>6, <1>9 DEF Taken, s
  <2>2. m + t <= Dword - 1
    BY <1>2, <1>6, <2>1, DwordType
  <2> QED
    BY <1>2, <1>6, <2>1, <2>2
<1>11. HardwareMasked(d, b, v) = m + t
  <2>1. CASE s < Dword
    <3>1. s % Dword = s
      BY <1>2, <2>1, DwordType
    <3>2. m = Align(a, s) /\ Align(m, 16) = m
      BY <1>6, <1>10, <2>1 DEF Taken, s, Align
    <3> QED
      <4> HIDE DEF m
      <4>1. HardwareMasked(d, b, v) = Align(Align(v, s), 16) + (d.reg[b] % 16)
        BY <1>1, <1>2, <3>1 DEF HardwareMasked
      <4> QED
        BY <1>1, <1>9, <3>2, <4>1
  <2>2. CASE s >= Dword
    BY <1>1, <1>2, <2>2, DwordType DEF HardwareMasked, Taken, s
  <2> QED
    BY <1>2, <2>1, <2>2, DwordType
<1>12. r1 \in Registers
  BY <1>3, <1>10 DEF Registers
<1> HIDE DEF m
<1>13. /\ (m + t) % 16 = t
       /\ IsIo(m + t) <=> layout[b].io
       /\ Is64(m + t) <=> layout[b].wide
       /\ Align(m + t, 4) = m + (t - (t % 4)) /\ Align(m + t, 16) = m
  <2>1. m \in Nat /\ (m + t) % 16 = t /\ m + t \in Nat
    BY <1>2, <1>6, <1>10
  <2>2. (IsIo(m + t) <=> t = 1) /\ (Is64(m + t) <=> t = 4)
    BY <1>2, <2>1, KindBits
  <2>3. Align(m + t, 4) = m + (t - (t % 4)) /\ Align(m + t, 16) = m
    BY <1>2, <1>10, <2>1 DEF Align
  <2> QED
    BY <1>2, <2>1, <2>2, <2>3
<1>14. BarAddress([reg |-> r1], b) = MoveTold(d, layout[b], b, address)
  <2>1. r1[b] = m + t /\ r1[b + 1] = d.reg[b + 1]
    BY <1>3, <1>12 DEF Registers
  <2>2. m + 0 = m
    BY <1>6, <1>10
  <2>3. layout[b].io => t - (t % 4) = 0 /\ ~layout[b].wide
    BY <1>2
  <2> QED
    BY <1>13, <2>1, <2>2, <2>3 DEF BarAddress, MoveTold, m, a
<1>15. Becomes(d, e1, r1, news)
  <2>1. Becomes(d, PciConfigWrite32(d, b, v), r1,
                IF IsHigh(b) THEN d.told ELSE NotifyBarChange(d.told, b, BarAddress([reg |-> r1], b)))
    BY <1>1, <1>8, <1>11, <1>12, StoreIs
  <2> QED
    BY <1>1, <1>14, <2>1
<1>16. AtRest(e1) /\ e1.reg = r1 /\ e1.told = news
  BY <1>1, <1>12, <1>15, BecomesAtRest
<1>17. CASE ~layout[b].wide
  <2>1. r = r1
    BY <1>3, <1>17 DEF MovedRegisters, Registers, m, a, t
  <2> QED
    BY <1>7, <1>12, <1>15, <1>17, <2>1
<1>18. CASE layout[b].wide
  <2> DEFINE h == address \div Dword
             r2 == [r1 EXCEPT ![b + 1] = h]
             e2 == PciConfigWrite32(e1, b + 1, h)
  <2>1. h \in Nat /\ h < AllOnes
    BY <1>6, <1>18
  <2> HIDE DEF h, e1
  <2>1a. h \in 0 .. Dword - 1 /\ h # AllOnes
    BY <2>1, WideType, DwordType
  <2>2. r2 = r
    <3>1. r2 = [i \in Slots |-> IF i = b + 1 THEN h ELSE IF i = b THEN m + t ELSE d.reg[i]]
      BY <1>3 DEF Registers
    <3>2. r = [i \in Slots |-> IF i = b + 1 THEN h ELSE IF i = b THEN m + t ELSE d.reg[i]]
      BY <1>3, <1>18 DEF MovedRegisters, m, a, t, h
    <3> QED
      BY <3>1, <3>2
  <2>3. r2 \in Registers
    BY <1>12, <2>1a DEF Registers
  <2>4. HardwareMasked(e1, b + 1, h) = h
    BY <1>3 DEF HardwareMasked
  <2>5. Becomes(e1, e2, r2,
                IF IsHigh(b + 1) THEN e1.told
                ELSE NotifyBarChange(e1.told, b + 1, BarAddress([reg |-> r2], b + 1)))
    BY <1>3, <1>16, <2>1a, <2>3, <2>4, StoreIs
  <2>6. Becomes(e1, e2, r2, news)
    BY <1>3, <1>16, <2>5
  <2>7. Becomes(d, e2, r2, news)
    BY <1>15, <2>6 DEF Becomes
  <2> QED
    BY <1>7, <1>18, <2>2, <2>3, <2>7 DEF h, e1
<1> QED
  BY <1>17, <1>18

(* What a BAR register takes of an address is a multiple of the BAR's size *)
(* below the dword.                                                        *)
LEMMA TakenFacts ==
  ASSUME NEW bar, BarFormed(bar), NEW a \in 0 .. Dword - 1
  PROVE  LET m == Taken(bar, a)
             t == TypeBits(bar)
         IN  /\ m \in 0 .. a /\ m % 16 = 0 /\ (m + t) % 16 = t /\ Align(m + t, 16) = m
             /\ IF bar.size < Dword THEN m % bar.size = 0 ELSE m = 0
             /\ m + t \in 0 .. Dword - 1
<1> DEFINE m == Taken(bar, a)
           t == TypeBits(bar)
           s == bar.size
<1>1. s \in Nat \ {0} /\ s % 16 = 0 /\ t \in {0, 1, 4}
  BY BarFacts
<1>2. a \in Nat
  BY DwordType
<1> HIDE DEF s
<1>3. Align(a, s) \in 0 .. a /\ Align(a, s) % 16 = 0 /\ Align(a, s) % s = 0
  <2>1. 16 \in {4, 16} /\ 0 \in 0 .. 16 - 1
    OBVIOUS
  <2> QED
    BY <1>1, <1>2, <2>1, AlignCoarse
<1>4. m \in 0 .. a /\ m % 16 = 0 /\ IF s < Dword THEN m % s = 0 ELSE m = 0
  BY <1>2, <1>3 DEF Taken, s
<1> HIDE DEF m, t
<1>5. (m + t) % 16 = t /\ Align(m + t, 16) = m /\ m + t <= Dword - 1 /\ m + t \in Nat
  BY <1>1, <1>2, <1>4, DwordType DEF Align
<1> QED
  BY <1>2, <1>4, <1>5, DwordType DEF m, t, s

(* A function as the power-on left it.                                     *)
LEMMA FormedCreated ==
  ASSUME NEW layout, NEW header, LayoutFormed(layout, header)
  PROVE  Formed(CreateFakeDevice(header, layout), layout, header)
<1> DEFINE d == CreateFakeDevice(header, layout)
           t(i) == IF Implemented(layout, header, i) THEN TypeBits(layout[i]) ELSE 0
           n(i) == IF Implemented(layout, header, i) THEN layout[i].size ELSE 0
<1>1. d = [header |-> header, cmd |-> {}, active |-> FALSE, reg |-> [i \in Slots |-> t(i)],
           size |-> [i \in Slots |-> n(i)], low |-> [i \in Slots |-> 0],
           high |-> [i \in Slots |-> 0], baseUpper |-> 0, limitUpper |-> 0, told |-> <<>>]
  BY DEF CreateFakeDevice
<1>2. ASSUME NEW i \in Slots
      PROVE  /\ t(i) \in {0, 1, 4} /\ n(i) \in Nat
             /\ Implemented(layout, header, i) => n(i) \in Nat \ {0} /\ t(i) = TypeBits(layout[i])
             /\ ~Implemented(layout, header, i) => t(i) = 0
  BY BarFacts DEF LayoutFormed
<1> HIDE DEF d, t, n
<1>3. d.reg \in Registers /\ d.size \in [Slots -> Nat]
  <2>1. \A i \in Slots : t(i) \in 0 .. Dword - 1
    BY <1>2, DwordType
  <2> QED
    BY <1>1, <1>2, <2>1 DEF Registers
<1>4. AtRest(d) /\ d.told = <<>> /\ d.header = header
  <2>1. IsDevice(d)
    <3>1. d.low \in [Slots -> Int] /\ d.high \in [Slots -> Int] /\ d.active \in BOOLEAN
      <4>1. d.low = [i \in Slots |-> 0] /\ d.high = [i \in Slots |-> 0]
        BY <1>1
      <4>2. d.active = FALSE
        BY <1>1
      <4>3. [i \in Slots |-> 0] \in [Slots -> Int]
        OBVIOUS
      <4> QED
        BY <4>1, <4>2, <4>3, Zenon
    <3>2. d = [header |-> d.header, cmd |-> d.cmd, active |-> d.active, reg |-> d.reg,
               size |-> d.size, low |-> d.low, high |-> d.high, baseUpper |-> d.baseUpper,
               limitUpper |-> d.limitUpper, told |-> d.told]
      <4> DEFINE r == [i \in Slots |-> t(i)]
                 k == [i \in Slots |-> n(i)]
                 z == [i \in Slots |-> 0]
      <4> HIDE DEF r, k, z
      <4>1. d = [header |-> header, cmd |-> {}, active |-> FALSE, reg |-> r, size |-> k,
                 low |-> z, high |-> z, baseUpper |-> 0, limitUpper |-> 0, told |-> <<>>]
        BY <1>1 DEF r, k, z
      <4> QED
        BY <4>1
    <3> QED
      BY <1>3, <3>1, <3>2 DEF IsDevice
  <2> QED
    BY <1>1, <2>1 DEF AtRest
<1>5. ASSUME NEW i \in Slots PROVE RegisterFits(d, layout, header, i)
  <2>1. d.reg[i] = t(i)
    BY <1>1
  <2>3. t(i) % 16 = t(i) /\ Align(t(i), 16) = 0
    BY <1>2 DEF Align
  <2>4. CASE Implemented(layout, header, i)
    <3>1. layout[i].size \in Nat \ {0}
      BY <1>2, <2>4 DEF n
    <3>2. 0 % layout[i].size = 0
      BY <3>1
    <3> QED
      BY <1>2, <2>1, <2>3, <2>4, <3>2 DEF RegisterFits
  <2>5. CASE ~Implemented(layout, header, i)
    <3>1. 0 # AllOnes
      BY DwordType DEF AllOnes
    <3> QED
      BY <1>2, <2>1, <2>5, <3>1 DEF RegisterFits
  <2> QED
    BY <2>4, <2>5
<1> QED
  BY <1>1, <1>4, <1>5 DEF Formed, d, n

(* Moving a BAR keeps the function formed, once the news is delivered.     *)
LEMMA FormedMoved ==
  ASSUME NEW layout, NEW header, LayoutFormed(layout, header),
         NEW d, Formed(d, layout, header), NEW b \in Slots, Implemented(layout, header, b),
         NEW address \in Nat,
         layout[b].wide => address \div Dword < AllOnes /\ (address \div Dword) % 2 = 0
  PROVE  LET e == Told(PciSetBarAddress(d, b, address), <<>>)
         IN  /\ Formed(e, layout, header)
             /\ e.reg = MovedRegisters(d, layout[b], b, address)
             /\ e.cmd = d.cmd /\ e.baseUpper = d.baseUpper /\ e.limitUpper = d.limitUpper
<1> DEFINE r == MovedRegisters(d, layout[b], b, address)
           a == address % Dword
           h == address \div Dword
           m == Taken(layout[b], a)
           t == TypeBits(layout[b])
<1> PICK f : f = PciSetBarAddress(d, b, address)
  OBVIOUS
<1> PICK e : e = Told(f, <<>>)
  OBVIOUS
<1>1. AtRest(d) /\ d.header = header /\ d.told = <<>>
  BY DEF Formed
<1>2. r \in Registers /\ Becomes(d, f, r, NotifyBarChange(<<>>, b, MoveTold(d, layout[b], b, address)))
  BY MoveIs
<1> HIDE DEF r
<1>3. /\ AtRest(f) /\ f.reg = r /\ f.size = d.size /\ f.header = d.header
      /\ f.cmd = d.cmd /\ f.baseUpper = d.baseUpper /\ f.limitUpper = d.limitUpper
  BY <1>1, <1>2, BecomesAtRest
<1>4. /\ AtRest(e) /\ e.reg = r /\ e.told = <<>> /\ e.size = d.size /\ e.header = header
      /\ e.cmd = d.cmd /\ e.baseUpper = d.baseUpper /\ e.limitUpper = d.limitUpper
  <2>1. AtRest(f)
    BY <1>3
  <2> DEFINE nothing == <<>>
  <2> HIDE DEF nothing
  <2>2. /\ AtRest(e) /\ e.told = nothing /\ e.reg = f.reg /\ e.size = f.size /\ e.header = f.header
        /\ e.cmd = f.cmd /\ e.baseUpper = f.baseUpper /\ e.limitUpper = f.limitUpper
    BY <2>1, ToldEffect DEF nothing
  <2> QED
    BY <1>1, <1>3, <2>2 DEF nothing
<1>5. BarFormed(layout[b]) /\ ~IsHigh(b)
  BY DEF LayoutFormed
<1>6. a \in 0 .. Dword - 1
  BY DwordType
<1>7. /\ (m + t) % 16 = t /\ Align(m + t, 16) = m
      /\ IF layout[b].size < Dword THEN m % layout[b].size = 0 ELSE m = 0
  BY <1>5, <1>6, TakenFacts
<1>8. ASSUME NEW i \in Slots PROVE RegisterFits(e, layout, header, i)
  <2>1. RegisterFits(d, layout, header, i)
    BY DEF Formed
  <2>2. CASE i = b
    <3>1. e.reg[b] = m + t
      BY <1>4 DEF r, MovedRegisters
    <3> QED
      BY <1>7, <2>2, <3>1 DEF RegisterFits
  <2>3. CASE i = b + 1 /\ layout[b].wide
    <3>1. e.reg[i] = h
      BY <1>4, <2>3 DEF r, MovedRegisters, Slots
    <3>2. IsHigh(i)
      BY <1>5, <2>3 DEF IsHigh, Slots
    <3>3. ~Implemented(layout, header, i)
      BY <3>2 DEF LayoutFormed
    <3> QED
      <4>1. i - 1 = b
        BY <2>3 DEF Slots
      <4>2. UpperSlot(layout, header, i)
        BY <2>3, <3>2, <4>1 DEF UpperSlot
      <4> QED
        BY <2>3, <3>1, <3>3, <4>2 DEF RegisterFits
  <2>4. CASE i # b /\ ~(i = b + 1 /\ layout[b].wide)
    <3>1. e.reg[i] = d.reg[i]
      BY <1>4, <2>4 DEF r, MovedRegisters
    <3> QED
      BY <2>1, <3>1 DEF RegisterFits
  <2> QED
    BY <2>2, <2>3, <2>4
<1>9. Formed(e, layout, header)
  BY <1>4, <1>8 DEF Formed
<1> QED
  BY <1>4, <1>9 DEF r

(* Sizing any slot leaves a formed function as it was, once the news is    *)
(* delivered.                                                              *)
LEMMA FormedSized ==
  ASSUME NEW layout, NEW header, LayoutFormed(layout, header),
         NEW d, Formed(d, layout, header), NEW b \in Slots
  PROVE  \E t : TrueNews(d, t) /\ GetPciBarInfo(d, b).dev = Told(d, t)
                /\ Told(GetPciBarInfo(d, b).dev, <<>>) = d
<1>1. AtRest(d) /\ d.told = <<>> /\ Stable(d, b)
  BY FormedStable DEF Formed
<1>2. b < 5 => b + 1 \in Slots
  BY DEF Slots
<1>3. b < 5 => Stable(d, b + 1)
  BY <1>2, FormedStable
<1>4. PICK t : TrueNews(d, t) /\ GetPciBarInfo(d, b).dev = Told(d, t)
  BY <1>1, <1>3, SizingRests
<1>5. Told(Told(d, t), <<>>) = Told(d, <<>>)
  BY <1>1, ToldEffect
<1>6. Told(d, <<>>) = d
  <2> PICK c : c = Told(d, <<>>)
    OBVIOUS
  <2>1. c = d
    BY <1>1 DEF Told, AtRest, IsDevice
  <2> QED
    BY <2>1
<1> QED
  BY <1>4, <1>5, <1>6

----------------------------------------------------------------------------
(* One function whose BARs are sized and moved *)

(* Between two steps the registers hold what the BARs let them and no      *)
(* question is open.                                                       *)
BarsIInv == bars \in Layouts /\ Formed(func, bars, Header) /\ func.cmd = {}

(* The addresses software may write have an even upper dword that is not   *)
(* all ones.                                                               *)
LEMMA UpperDword ==
  ASSUME NEW address \in Addresses
  PROVE  /\ address \in Nat /\ address \div Dword \in Nat /\ address \div Dword < AllOnes
         /\ (address \div Dword) % 2 = 0
<1> DEFINE h == address \div Dword
           r == address % Dword
<1>1. address \in Nat /\ address < Wide /\ h % 2 = 0
  BY BarsAssumption
<1>2. address = h * Dword + r /\ h \in Nat /\ r \in 0 .. Dword - 1
  BY <1>1, DwordType, Division
<1> HIDE DEF h, r
<1>3. h < Dword
  <2> SUFFICES ASSUME h >= Dword PROVE FALSE
    BY <1>2, DwordType
  <2>1. h * Dword >= Dword * Dword
    BY <1>2, DwordType
  <2> QED
    BY <1>1, <1>2, <2>1, DwordType DEF Wide
<1>4. AllOnes % 2 = 1 /\ AllOnes = Dword - 1
  BY DwordPower DEF AllOnes
<1> QED
  BY <1>1, <1>2, <1>3, <1>4, DwordType DEF h

(* The function is formed at power-on. *)
LEMMA BarsInitInvariant == BarsInit => BarsIInv
<1> SUFFICES ASSUME BarsInit PROVE BarsIInv
  OBVIOUS
<1>1. LayoutFormed(bars, Header)
  BY BarsAssumption DEF BarsInit
<1>2. func.cmd = {}
  BY DEF BarsInit, CreateFakeDevice
<1> QED
  BY <1>1, <1>2, FormedCreated DEF BarsInit, BarsIInv

(* Sizing and moving BARs keep the function formed. *)
LEMMA BarsNextInvariant == BarsIInv /\ [BarsNext]_barsVars => BarsIInv'
<1> SUFFICES ASSUME BarsIInv, [BarsNext]_barsVars PROVE BarsIInv'
  OBVIOUS
<1>1. LayoutFormed(bars, Header)
  BY BarsAssumption DEF BarsIInv
<1>2. ASSUME NEW b \in Bars, NEW address \in Addresses, SetBarAddress(b, address), bars' = bars
      PROVE  BarsIInv'
  <2>1. b \in Slots /\ Implemented(bars, Header, b)
    BY DEF Bars
  <2>2. func' = Told(PciSetBarAddress(func, b, address), <<>>)
    BY <1>2 DEF SetBarAddress, Told
  <2>3. Formed(func', bars, Header) /\ func'.cmd = func.cmd
    BY <1>1, <2>1, <2>2, UpperDword, FormedMoved DEF BarsIInv
  <2> QED
    BY <1>2, <2>3 DEF BarsIInv
<1>3. ASSUME NEW b \in Slots, SizeBar(b), bars' = bars
      PROVE  BarsIInv'
  <2>1. func' = Told(GetPciBarInfo(func, b).dev, <<>>)
    BY <1>3 DEF SizeBar, Told
  <2>2. func' = func
    BY <1>1, <2>1, FormedSized DEF BarsIInv
  <2> QED
    BY <1>3, <2>2 DEF BarsIInv
<1>4. CASE UNCHANGED barsVars
  BY <1>4 DEF barsVars, BarsIInv
<1> QED
  BY <1>2, <1>3, <1>4 DEF BarsNext

(* The inductive invariant of one function: its registers hold what its    *)
(* BARs let them, and no question is open.                                 *)
THEOREM BarsInvariant == BarsSpec => []BarsIInv
BY BarsInitInvariant, BarsNextInvariant, PTL DEF BarsSpec

(* Sizing is a question without side effects: a formed function answers it *)
(* with what it is, and is left as it was.                                 *)
LEMMA FormedSizingExact == BarsIInv => SizingExact
<1> SUFFICES ASSUME BarsIInv PROVE SizingExact
  OBVIOUS
<1>1. LayoutFormed(bars, Header) /\ Formed(func, bars, Header)
  BY BarsAssumption DEF BarsIInv
<1>2. AtRest(func)
  BY <1>1 DEF Formed
<1>3. BarsTypeOK
  <2>1. func.low = [i \in Slots |-> 0] /\ func.high = [i \in Slots |-> 0]
    BY <1>2 DEF AtRest
  <2>2. \A i \in Slots : func.low[i] = 0 /\ func.high[i] = 0
    BY <2>1
  <2>3. 0 \in 0 .. Dword - 1
    BY DwordType
  <2> QED
    BY <1>2, <2>2, <2>3 DEF BarsTypeOK, BarsIInv, AtRest, IsDevice, Registers
<1>4. SizeFound
  BY <1>1, SizingFinds DEF SizeFound, Bars
<1>5. ASSUME NEW b \in Slots
      PROVE  LET after == GetPciBarInfo(func, b).dev
             IN  /\ after.reg = func.reg /\ ~after.active
                 /\ \A i \in Slots : PciConfigRead32(after, i) = func.reg[i]
                 /\ \A i \in DOMAIN after.told : after.told[i] = BarAddress(func, i)
  <2>1. PICK t : TrueNews(func, t) /\ GetPciBarInfo(func, b).dev = Told(func, t)
    BY <1>1, FormedSized
  <2> PICK after : after = GetPciBarInfo(func, b).dev
    OBVIOUS
  <2>2. AtRest(after) /\ after.reg = func.reg /\ after.told = t
    BY <1>2, <2>1, ToldEffect
  <2>3. ~after.active
    BY <2>2 DEF AtRest
  <2>4. \A i \in Slots : PciConfigRead32(after, i) = func.reg[i]
    BY <2>2, ReadAtRest
  <2>5. \A i \in DOMAIN after.told : after.told[i] = BarAddress(func, i)
    BY <2>1, <2>2 DEF TrueNews
  <2> QED
    BY <2>2, <2>3, <2>4, <2>5
<1>6. SizingRestores
  BY <1>5 DEF SizingRestores
<1>7. SizingTellsTheTruth
  BY <1>5 DEF SizingTellsTheTruth, Bars
<1> QED
  BY <1>3, <1>4, <1>6, <1>7 DEF SizingExact

(* SizingExact: GetPciBarInfo finds the size and kind of every BAR,        *)
(* restores the registers it wrote and tells no address that is not        *)
(* decoded, whatever BARs the function has and wherever they were moved.   *)
THEOREM BarsSizingExact == BarsSpec => []SizingExact
BY BarsInvariant, FormedSizingExact, PTL

----------------------------------------------------------------------------
(* The registers of the function implement one base per BAR *)

BaseOf(d, layout, header) ==
  [b \in {i \in Slots : Implemented(layout, header, i)} |-> BarAddress(d, b)]

(* The address a BAR of a formed function decodes. *)
LEMMA FormedAddress ==
  ASSUME NEW layout, NEW header, LayoutFormed(layout, header),
         NEW d, Formed(d, layout, header), NEW b \in Slots, Implemented(layout, header, b)
  PROVE  BarAddress(d, b) =
           Align(d.reg[b], 16) + (IF layout[b].wide THEN d.reg[b + 1] * Dword ELSE 0)
<1> DEFINE t == TypeBits(layout[b])
           v == d.reg[b]
<1>1. /\ BarFormed(layout[b]) /\ ~IsHigh(b) /\ v % 16 = t /\ AtRest(d)
  BY DEF LayoutFormed, Formed, RegisterFits
<1>2. t \in {0, 1, 4} /\ (t = 1 <=> layout[b].io) /\ (t = 4 <=> layout[b].wide)
  BY <1>1, BarFacts
<1>3. v \in Nat
  BY <1>1, DwordType DEF AtRest, IsDevice, Registers
<1>4. (IsIo(v) <=> layout[b].io) /\ (Is64(v) <=> layout[b].wide) /\ v % 4 = t % 4
  BY <1>1, <1>2, <1>3, KindBits
<1>5. IsIo(v) => Align(v, 4) = Align(v, 16)
  <2>1. layout[b].io => t = 1 /\ t % 4 = 1
    BY <1>2
  <2> HIDE DEF t
  <2> QED
    BY <1>1, <1>4, <2>1 DEF Align
<1>6. Align(v, 16) + 0 = Align(v, 16)
  BY <1>3 DEF Align
<1> QED
  BY <1>2, <1>4, <1>5, <1>6 DEF BarAddress

(* Rounding a whole address down to the size is rounding its dwords down.  *)
LEMMA AlignDwords ==
  ASSUME NEW bar, BarFormed(bar), NEW a \in Nat, bar.size >= Dword => a % bar.size < Dword
  PROVE  Taken(bar, a % Dword) + (IF bar.wide THEN (a \div Dword) * Dword ELSE 0)
           = LET reach == IF bar.wide THEN a ELSE a % Dword
             IN  reach - (reach % bar.size)
<1> DEFINE s == bar.size
           w == a % Dword
           h == a \div Dword
<1>1. /\ s \in Nat \ {0}
      /\ s < Dword => Dword % s = 0
      /\ s >= Dword => s % Dword = 0 /\ bar.wide
  BY BarFacts
<1>2. a = h * Dword + w /\ h * Dword \in Nat /\ w \in 0 .. Dword - 1
  <2>1. a = h * Dword + w /\ h \in Nat /\ w \in 0 .. Dword - 1
    BY DwordType, Division
  <2> HIDE DEF h, w
  <2> QED
    BY <2>1, DwordType
<1>3. CASE s < Dword
  <2>1. w % s = a % s
    BY <1>1, <1>3, DwordType, RemainderDivides
  <2>2. Taken(bar, w) = w - (w % s)
    BY <1>3 DEF Taken, Align
  <2>3. w % s \in 0 .. s - 1
    BY <1>1, <1>2, DwordType
  <2> HIDE DEF w, h, s
  <2>4. CASE bar.wide
    BY <1>2, <2>1, <2>2, <2>3, <2>4, DwordType DEF w, h, s
  <2>5. CASE ~bar.wide
    BY <1>2, <2>2, <2>3, <2>5, DwordType DEF w, h, s
  <2> QED
    BY <2>4, <2>5
<1>4. CASE s >= Dword
  <2>1. (a % s) % Dword = w
    BY <1>1, <1>4, DwordType, RemainderDivides
  <2>2. a % s \in 0 .. Dword - 1
    BY <1>1, <1>4, DwordType
  <2>3. a % s = w
    BY <2>1, <2>2, DwordType
  <2>4. Taken(bar, w) = 0
    BY <1>1, <1>4, DwordType DEF Taken
  <2> HIDE DEF w, h, s
  <2> QED
    BY <1>1, <1>2, <1>4, <2>3, <2>4, DwordType DEF w, h, s
<1> QED
  BY <1>1, <1>3, <1>4, DwordType

(* Moving a BAR moves its base to the address rounded down, and no other.  *)
LEMMA BaseMoved ==
  ASSUME NEW layout, NEW header, LayoutFormed(layout, header),
         NEW d, Formed(d, layout, header), NEW b \in Slots, Implemented(layout, header, b),
         NEW address \in Nat,
         layout[b].wide => address \div Dword < AllOnes /\ (address \div Dword) % 2 = 0,
         layout[b].size >= Dword => address % layout[b].size < Dword
  PROVE  LET reach == IF layout[b].wide THEN address ELSE address % Dword
         IN  BaseOf(Told(PciSetBarAddress(d, b, address), <<>>), layout, header)
               = [BaseOf(d, layout, header) EXCEPT ![b] = reach - (reach % layout[b].size)]
<1> DEFINE reach == IF layout[b].wide THEN address ELSE address % Dword
           to == reach - (reach % layout[b].size)
           m == Taken(layout[b], address % Dword)
<1> PICK e : e = Told(PciSetBarAddress(d, b, address), <<>>)
  OBVIOUS
<1>1. Formed(e, layout, header) /\ e.reg = MovedRegisters(d, layout[b], b, address)
  BY FormedMoved
<1>2. BarFormed(layout[b]) /\ ~IsHigh(b) /\ b + 1 \in Slots /\ b # b + 1
  BY DEF LayoutFormed, IsHigh, Slots
<1>3. e.reg[b] = m + TypeBits(layout[b])
      /\ (layout[b].wide => e.reg[b + 1] = address \div Dword)
  BY <1>1, <1>2 DEF MovedRegisters
<1>4. Align(e.reg[b], 16) = m
  BY <1>2, <1>3, TakenFacts, DwordType
<1>5. BarAddress(e, b) = to
  <2>1. BarAddress(e, b) = m + (IF layout[b].wide THEN (address \div Dword) * Dword ELSE 0)
    BY <1>1, <1>3, <1>4, FormedAddress
  <2> QED
    BY <1>2, <2>1, AlignDwords
<1> HIDE DEF to, reach
<1>6. ASSUME NEW c \in Slots, Implemented(layout, header, c), c # b
      PROVE  BarAddress(e, c) = BarAddress(d, c)
  <2>1. c # b + 1 /\ c + 1 # b /\ c + 1 # b + 1 /\ c + 1 \in Slots
    BY <1>2, <1>6 DEF LayoutFormed, IsHigh, Slots
  <2>2. e.reg[c] = d.reg[c] /\ e.reg[c + 1] = d.reg[c + 1]
    BY <1>1, <1>6, <2>1 DEF MovedRegisters
  <2> QED
    BY <2>2 DEF BarAddress
<1>7. BaseOf(e, layout, header) = [BaseOf(d, layout, header) EXCEPT ![b] = to]
  BY <1>5, <1>6 DEF BaseOf
<1> QED
  BY <1>7 DEF to, reach

(* Wherever software moves the BARs, and whatever it sizes in between, the *)
(* registers decode one independent base per BAR (set_bar_address and      *)
(* PciGetBarInfo of pci_logic.c over the masking of pci_sim.c).            *)
THEOREM BarsImplementDecoder == BarsSpec => ImplementsDecoder
<1> DEFINE fns == [b \in Bars |-> bars[b]]
           at == [b \in Bars |-> BarAddress(func, b)]
<1>1. BarsInit => Decoder!Init
  <2> SUFFICES ASSUME BarsInit PROVE Decoder!Init
    OBVIOUS
  <2>1. LayoutFormed(bars, Header) /\ Formed(func, bars, Header)
    BY BarsAssumption, FormedCreated DEF BarsInit
  <2>2. ASSUME NEW b \in Bars PROVE BarAddress(func, b) = 0
    <3>1. b \in Slots /\ Implemented(bars, Header, b)
      BY DEF Bars
    <3>2. BarFormed(bars[b]) /\ ~IsHigh(b) /\ b + 1 \in Slots
      BY <2>1, <3>1 DEF LayoutFormed, IsHigh, Slots
    <3>3. func.reg[b] = TypeBits(bars[b])
      BY <3>1 DEF BarsInit, CreateFakeDevice
    <3>4. ~Implemented(bars, Header, b + 1)
      <4>1. IsHigh(b + 1)
        BY <3>1, <3>2 DEF IsHigh, Slots
      <4> QED
        BY <2>1, <3>2, <4>1 DEF LayoutFormed
    <3>5. func.reg[b + 1] = 0
      BY <3>2, <3>4 DEF BarsInit, CreateFakeDevice
    <3>6. Align(func.reg[b], 16) = 0
      BY <3>2, <3>3, BarFacts DEF Align
    <3> QED
      BY <2>1, <3>1, <3>5, <3>6, FormedAddress, DwordType
  <2>3. DOMAIN fns = Bars
    OBVIOUS
  <2> QED
    BY <2>2, <2>3 DEF Decoder!Init
<1>2. BarsIInv /\ [BarsNext]_barsVars => [Decoder!Next]_<<fns, at>>
  <2> SUFFICES ASSUME BarsIInv, [BarsNext]_barsVars PROVE [Decoder!Next]_<<fns, at>>
    OBVIOUS
  <2>1. LayoutFormed(bars, Header) /\ Formed(func, bars, Header)
    BY BarsAssumption DEF BarsIInv
  <2>2. at = BaseOf(func, bars, Header) /\ at' = BaseOf(func', bars', Header)
    BY DEF BaseOf, Bars
  <2>3. bars' = bars => fns' = fns
    BY DEF Bars
  <2>4. ASSUME NEW b \in Bars, NEW address \in Addresses, SetBarAddress(b, address), bars' = bars
        PROVE  Decoder!Next
    <3> DEFINE reach == IF bars[b].wide THEN address ELSE address % Dword
               to == reach - (reach % bars[b].size)
    <3>1. b \in Slots /\ Implemented(bars, Header, b)
      BY DEF Bars
    <3>2. bars[b].size >= Dword => address % bars[b].size < Dword
      BY <3>1, BarsAssumption DEF BarsIInv
    <3>3. func' = Told(PciSetBarAddress(func, b, address), <<>>)
      BY <2>4 DEF SetBarAddress, Told
    <3>4. BaseOf(func', bars, Header) = [BaseOf(func, bars, Header) EXCEPT ![b] = to]
      BY <2>1, <3>1, <3>2, <3>3, UpperDword, BaseMoved
    <3>5. at' = [at EXCEPT ![b] = to]
      BY <2>2, <2>4, <3>4
    <3>6. fns[b] = bars[b] /\ b \in DOMAIN fns
      OBVIOUS
    <3> HIDE DEF at
    <3>7. Decoder!Assign(b, address)
      BY <3>5, <3>6 DEF Decoder!Assign, at
    <3> QED
      BY <2>3, <2>4, <3>6, <3>7 DEF Decoder!Next
  <2>5. ASSUME NEW b \in Slots, SizeBar(b), bars' = bars
        PROVE  UNCHANGED <<fns, at>>
    <3>1. func' = Told(GetPciBarInfo(func, b).dev, <<>>)
      BY <2>5 DEF SizeBar, Told
    <3>2. func' = func
      BY <2>1, <3>1, FormedSized
    <3> QED
      BY <2>2, <2>3, <2>5, <3>2
  <2>6. CASE UNCHANGED barsVars
    BY <2>2, <2>3, <2>6 DEF barsVars
  <2> QED
    BY <2>4, <2>5, <2>6 DEF BarsNext
<1> QED
  BY <1>1, <1>2, BarsInvariant, PTL DEF BarsSpec, ImplementsDecoder, Decoder!Spec

----------------------------------------------------------------------------
(* The walk over the buses *)

End == MaxDevice * MaxFunction
Position(f) == f[2] * MaxFunction + f[3]
HasBar(pool, f, b) == Implemented(pool[f].bars, pool[f].header, b)

(* What a scan of a bus up to a position has seen, and whether it went     *)
(* down into a bridge.                                                     *)
ScannedTo(pool, bus, at) == {f \in VisibleIn(DOMAIN pool) : f[1] = bus /\ Position(f) < at}
BridgeBefore(pool, at) == \E g \in ScannedTo(pool, 0, at) : pool[g].header = 1
Behind(pool, at) == IF BridgeBefore(pool, at) THEN ScannedTo(pool, 1, End) ELSE {}

FrameFits(pool, bus, at) ==
  at \in 0 .. End /\ (at % MaxFunction # 0 => <<bus, at \div MaxFunction, 0>> \in DOMAIN pool)

Frame(bus, at) == [bus |-> bus, at |-> at]
RootScan(pool, a) ==
  /\ stack = <<Frame(0, a)>> /\ FrameFits(pool, 0, a)
  /\ Registered = ScannedTo(pool, 0, a) \union Behind(pool, a)
BridgeScan(pool, a, c) ==
  /\ stack = <<Frame(0, a), Frame(1, c)>>
  /\ FrameFits(pool, 0, a) /\ FrameFits(pool, 1, c) /\ BridgeBefore(pool, a)
  /\ Registered = ScannedTo(pool, 0, a) \union ScannedTo(pool, 1, c)
ScanOver(pool) ==
  stack = <<>> /\ Registered = ScannedTo(pool, 0, End) \union Behind(pool, End)

ScanFits(pool) ==
  \/ \E a \in 0 .. End : RootScan(pool, a)
  \/ \E a, c \in 0 .. End : BridgeScan(pool, a, c)
  \/ ScanOver(pool) /\ building = NoContext

(* What a context may say of a slot. *)
Infos == [size : Nat, io : BOOLEAN, wide : BOOLEAN, base : Nat]
InfoFits(info, pool, f, b) ==
  IF HasBar(pool, f, b)
  THEN /\ info.size = pool[f].bars[b].size /\ info.io = pool[f].bars[b].io
       /\ info.wide = pool[f].bars[b].wide
  ELSE info.size = 0

BuildingFits(pool) == building # NoContext =>
  /\ building.fn \in DOMAIN pool
  /\ building = [fn |-> building.fn, header |-> pool[building.fn].header, info |-> building.info,
                 bar |-> building.bar, assign |-> building.assign]
  /\ stack # <<>> /\ building.fn = At(Top) /\ Top.at < End
  /\ building.info \in [Slots -> Infos] /\ building.bar \in 0 .. 6 /\ building.assign \in 0 .. 6
  /\ ~UpperSlot(pool[building.fn].bars, pool[building.fn].header, building.bar)
  /\ \A b \in Slots : IF b < building.bar THEN InfoFits(building.info[b], pool, building.fn, b)
                                          ELSE building.info[b].size = 0

Contexts(pool) == [fn : DOMAIN pool, header : {0, 1}, info : [Slots -> Infos], tested : 0 .. NoDriver]
Decent(pool, f) ==
  \E b \in Slots : HasBar(pool, f, b) /\ pool[f].bars[b].size >= DecentSize /\ ~pool[f].bars[b].io
ContextFits(pool, c) ==
  /\ c.header = pool[c.fn].header
  /\ \A b \in Slots : InfoFits(c.info[b], pool, c.fn, b)
  /\ Decent(pool, c.fn) => c.tested # NoDriver /\ (~Enumerated => mem[c.fn][c.tested] = 1)
ContextsFit(pool) ==
  /\ ctxs \in Seq(Contexts(pool))
  /\ \A i \in 1 .. Len(ctxs) : ContextFits(pool, ctxs[i])
  /\ \A i, j \in 1 .. Len(ctxs) : ctxs[i].fn = ctxs[j].fn => i = j
  /\ \A j \in 1 .. Len(ctxs) : ctxs[j].fn[1] = 1 =>
       \E i \in 1 .. j - 1 : ctxs[i].fn[1] = 0 /\ ctxs[i].header = 1

(* A bridge's windows hold what software writes there.  No address has an  *)
(* upper dword.                                                            *)
WindowsFit(d, header) ==
  /\ \A i \in Slots : IF WindowSlot(header, i) THEN d.reg[i] \in {0} \union Windows[i]
                     ELSE IsHigh(i) => d.reg[i] = 0
  /\ {d.baseUpper, d.limitUpper} \subseteq {0} \union Uppers
DevicesFit(pool) ==
  /\ DOMAIN dev = DOMAIN pool /\ dev = [f \in DOMAIN pool |-> dev[f]]
  /\ \A f \in DOMAIN pool :
       /\ Formed(dev[f], pool[f].bars, pool[f].header)
       /\ dev[f].cmd \subseteq PciSimGetDeviceCommandMask(dev[f])
       /\ WindowsFit(dev[f], pool[f].header)

PoolInv(pool) ==
  /\ DevicesFit(pool) /\ ScanFits(pool) /\ BuildingFits(pool) /\ ContextsFit(pool)
  /\ mem \in [DOMAIN pool -> [Slots -> 0 .. 1]]
  /\ nextMmio \in Nat /\ nextIo \in Nat
EnumerationInv == \E pool \in Pools : PoolInv(pool)

(* The addresses of the BARs assigned so far. *)
BuildAssigned(b) ==
  /\ building # NoContext /\ building.info[b].size # 0
  /\ b < building.assign \/ \E c \in Slots : b < c /\ building.info[c].size # 0
Settled(pool, f, b) ==
  HasBar(pool, f, b) /\ (f \in Registered \/ (building # NoContext /\ f = building.fn /\ BuildAssigned(b)))
AddressOf(f, b) == Align(dev[f].reg[b], 16)
Claim(pool, f) == pool[f].bars[0].size
AddressesFit(pool) ==
  /\ MmioStart <= nextMmio
  /\ \A f \in DOMAIN pool, b \in Slots : Settled(pool, f, b) =>
       IF pool[f].bars[b].io THEN AddressOf(f, b) + Claim(pool, f) <= nextIo
       ELSE MmioStart <= AddressOf(f, b) /\ AddressOf(f, b) + Claim(pool, f) <= nextMmio
Apart(pool, f, b, g, c) ==
  \/ AddressOf(f, b) + Claim(pool, f) <= AddressOf(g, c)
  \/ AddressOf(g, c) + Claim(pool, g) <= AddressOf(f, b)
ClaimsApart(pool) ==
  \A f, g \in DOMAIN pool, b, c \in Slots :
    Settled(pool, f, b) /\ Settled(pool, g, c) /\ <<f, b>> # <<g, c>>
      /\ pool[f].bars[b].io = pool[g].bars[c].io => Apart(pool, f, b, g, c)
IoAligned(pool) ==
  \A f \in DOMAIN pool, b \in Slots : HasBar(pool, f, b) /\ pool[f].bars[b].io =>
    nextIo % pool[f].bars[b].size = 0
CacheFits(pool) ==
  /\ \A i \in 1 .. Len(ctxs), b \in Slots :
       HasBar(pool, ctxs[i].fn, b) => ctxs[i].info[b].base = AddressOf(ctxs[i].fn, b)
  /\ building # NoContext => \A b \in Slots :
       BuildAssigned(b) => building.info[b].base = AddressOf(building.fn, b)
AssignInv(pool) ==
  /\ CacheFits(pool)
  /\ ~Enumerated => AddressesFit(pool) /\ ClaimsApart(pool) /\ IoAligned(pool)
AssignmentInv == \E pool \in Pools : PoolInv(pool) /\ AssignInv(pool)

(* ----- positions ----- *)

(* Positions are counted from 0 up to End. *)
LEMMA EndType == End \in Nat \ {0} /\ MaxFunction \in Nat \ {0} /\ MaxDevice \in Nat \ {0}
<1>1. MaxFunction \in Nat \ {0} /\ MaxDevice \in Nat \ {0}
  BY PoolsAssumption
<1> QED
  BY <1>1 DEF End

(* A position names one function of a bus, and every function has one.     *)
LEMMA PositionAt ==
  ASSUME NEW bus \in Buses, NEW at \in 0 .. End, at < End
  PROVE  /\ At(Frame(bus, at)) = <<bus, at \div MaxFunction, at % MaxFunction>>
         /\ Position(At(Frame(bus, at))) = at
         /\ at \div MaxFunction \in 0 .. MaxDevice - 1 /\ at % MaxFunction \in 0 .. MaxFunction - 1
         /\ (at \div MaxFunction) * MaxFunction <= End - MaxFunction
<1> DEFINE q == at \div MaxFunction
           r == at % MaxFunction
<1>1. at \in Nat
  BY EndType
<1>2. at = q * MaxFunction + r /\ q \in Nat /\ r \in 0 .. MaxFunction - 1
  BY <1>1, EndType, Division
<1>3. At(Frame(bus, at)) = <<bus, q, r>>
  BY DEF At, Frame
<1> HIDE DEF q, r
<1>4. q < MaxDevice
  <2> SUFFICES ASSUME q >= MaxDevice PROVE FALSE
    BY <1>2, EndType
  <2>1. q * MaxFunction >= MaxDevice * MaxFunction
    BY <1>2, EndType
  <2> QED
    BY <1>2, <2>1, EndType DEF End
<1>5. q * MaxFunction <= (MaxDevice - 1) * MaxFunction
  BY <1>2, <1>4, EndType
<1>6. (MaxDevice - 1) * MaxFunction = End - MaxFunction
  BY EndType DEF End
<1> QED
  BY <1>2, <1>3, <1>4, <1>5, <1>6, EndType DEF q, r, Position

(* Every installed function has a position on its bus, and is at it. *)
LEMMA PositionOf ==
  ASSUME NEW pool \in Pools, NEW f \in DOMAIN pool
  PROVE  /\ f = <<f[1], f[2], f[3]>> /\ f[1] \in Buses
         /\ f[2] \in 0 .. MaxDevice - 1 /\ f[3] \in 0 .. MaxFunction - 1
         /\ Position(f) \in 0 .. End - 1
         /\ Position(f) \div MaxFunction = f[2] /\ Position(f) % MaxFunction = f[3]
         /\ At(Frame(f[1], Position(f))) = f
<1>1. f \in Buses \X (0 .. MaxDevice - 1) \X (0 .. MaxFunction - 1)
  BY PoolsAssumption
<1>2. /\ f = <<f[1], f[2], f[3]>> /\ f[1] \in Buses
      /\ f[2] \in 0 .. MaxDevice - 1 /\ f[3] \in 0 .. MaxFunction - 1
  BY <1>1
<1> DEFINE p == f[2]
           q == f[3]
<1>3. p \in Nat /\ q \in 0 .. MaxFunction - 1 /\ p <= MaxDevice - 1
  BY <1>2, EndType
<1> HIDE DEF p, q
<1>4. (p * MaxFunction + q) \div MaxFunction = p /\ (p * MaxFunction + q) % MaxFunction = q
  BY <1>3, EndType, QuotientUnique
<1>5. p * MaxFunction <= (MaxDevice - 1) * MaxFunction /\ p * MaxFunction \in Nat
  BY <1>3, EndType
<1>6. (MaxDevice - 1) * MaxFunction = End - MaxFunction
  BY EndType DEF End
<1>7. p * MaxFunction + q \in 0 .. End - 1
  BY <1>3, <1>5, <1>6, EndType
<1>8. At(Frame(f[1], Position(f))) = <<f[1], p, q>>
  BY <1>4 DEF At, Frame, Position, p, q
<1> QED
  BY <1>2, <1>4, <1>7, <1>8 DEF Position, p, q

(* Nothing is passed over where there is no function.                      *)
LEMMA PassedNothing ==
  ASSUME NEW pool \in Pools, NEW bus \in Buses, NEW at \in 0 .. End, at < End,
         FrameFits(pool, bus, at), At(Frame(bus, at)) \notin DOMAIN pool
  PROVE  LET next == NextAt(Frame(bus, at))
         IN  /\ FrameFits(pool, bus, next)
             /\ ScannedTo(pool, bus, next) = ScannedTo(pool, bus, at)
<1> DEFINE q == at \div MaxFunction
           r == at % MaxFunction
           next == NextAt(Frame(bus, at))
<1>1. /\ At(Frame(bus, at)) = <<bus, q, r>> /\ q \in 0 .. MaxDevice - 1
      /\ r \in 0 .. MaxFunction - 1 /\ q * MaxFunction <= End - MaxFunction
  BY PositionAt
<1>2. at \in Nat
  BY EndType
<1>3. at = q * MaxFunction + r /\ q \in Nat /\ q * MaxFunction \in Nat
  <2>1. at = q * MaxFunction + r /\ q \in Nat
    BY <1>2, EndType, Division
  <2> HIDE DEF q, r
  <2> QED
    BY <2>1, EndType
<1>4. next = IF r = 0 THEN at + MaxFunction ELSE at + 1
  BY <1>1 DEF NextAt, Frame
<1>5. r # 0 => <<bus, q, 0>> \in DOMAIN pool
  BY DEF FrameFits
<1> HIDE DEF q, r, next
<1>6. CASE r = 0
  <2>1. next = (q + 1) * MaxFunction + 0 /\ next \in 0 .. End
    BY <1>1, <1>3, <1>4, <1>6, EndType
  <2>2. next % MaxFunction = 0
    BY <1>3, <2>1, EndType, QuotientUnique
  <2>3. ASSUME NEW f \in VisibleIn(DOMAIN pool), f[1] = bus, Position(f) < next
        PROVE  Position(f) < at
    <3> SUFFICES ASSUME Position(f) >= at PROVE FALSE
      BY <1>2, PositionOf DEF VisibleIn
    <3>1. f \in DOMAIN pool /\ <<bus, f[2], 0>> \in DOMAIN pool
      BY <2>3 DEF VisibleIn
    <3>2. f[2] \in Nat /\ f[3] \in 0 .. MaxFunction - 1 /\ Position(f) \in Nat
          /\ Position(f) \div MaxFunction = f[2]
      BY <3>1, PositionOf
    <3>3. Position(f) = q * MaxFunction + (Position(f) - at) /\ Position(f) - at \in 0 .. MaxFunction - 1
      BY <1>3, <1>4, <1>6, <2>3, <3>2, EndType
    <3>4. (q * MaxFunction + (Position(f) - at)) \div MaxFunction = q
      <4> DEFINE k == Position(f) - at
      <4>1. k \in 0 .. MaxFunction - 1 /\ q \in Int /\ MaxFunction \in Nat \ {0}
        BY <1>3, <3>3, EndType
      <4> HIDE DEF k
      <4>2. (q * MaxFunction + k) \div MaxFunction = q
        BY <4>1, QuotientUnique
      <4> QED
        BY <4>2 DEF k
    <3>5. f[2] = q
      BY <3>2, <3>3, <3>4
    <3> QED
      BY <1>1, <1>6, <3>1, <3>5
  <2>4. at <= next
    BY <1>2, <1>4, <1>6, EndType
  <2>5. ScannedTo(pool, bus, next) = ScannedTo(pool, bus, at)
    <3>1. \A f \in VisibleIn(DOMAIN pool) : Position(f) \in Nat
      BY PositionOf, EndType DEF VisibleIn
    <3> QED
      BY <1>2, <2>1, <2>3, <2>4, <3>1, EndType DEF ScannedTo
  <2> QED
    BY <2>1, <2>2, <2>5 DEF FrameFits, next
<1>7. CASE r # 0
  <2>1. next = at + 1 /\ next \in 0 .. End
    BY <1>2, <1>4, <1>7, EndType
  <2>2. next % MaxFunction # 0 => next \div MaxFunction = q
    <3>1. CASE r + 1 < MaxFunction
      <4>1. (q * MaxFunction + (r + 1)) \div MaxFunction = q
        <5>1. r + 1 \in 0 .. MaxFunction - 1 /\ q \in Int /\ MaxFunction \in Nat \ {0}
          BY <1>1, <1>3, <3>1, EndType
        <5> QED
          BY <5>1, QuotientUnique
      <4> QED
        BY <1>1, <1>3, <2>1, <4>1, EndType
    <3>2. CASE r + 1 = MaxFunction
      <4>1. ((q + 1) * MaxFunction + 0) % MaxFunction = 0
        BY <1>3, EndType, QuotientUnique
      <4>2. next = (q + 1) * MaxFunction + 0
        BY <1>1, <1>3, <2>1, <3>2, EndType
      <4> QED
        BY <4>1, <4>2
    <3> QED
      BY <1>1, <3>1, <3>2, EndType
  <2>3. FrameFits(pool, bus, next)
    BY <1>5, <1>7, <2>1, <2>2 DEF FrameFits
  <2>4. ASSUME NEW f \in VisibleIn(DOMAIN pool), f[1] = bus, Position(f) < next
        PROVE  Position(f) < at
    <3>1. f \in DOMAIN pool
      BY DEF VisibleIn
    <3>2. Position(f) # at
      BY <2>4, <3>1, PositionOf
    <3> QED
      BY <1>2, <2>1, <2>4, <3>1, <3>2, PositionOf, EndType
  <2>5. ScannedTo(pool, bus, next) = ScannedTo(pool, bus, at)
    <3>1. \A f \in VisibleIn(DOMAIN pool) : Position(f) \in Nat
      BY PositionOf, EndType DEF VisibleIn
    <3> QED
      BY <1>2, <2>1, <2>4, <3>1, EndType DEF ScannedTo
  <2> QED
    BY <2>3, <2>5 DEF next
<1> QED
  BY <1>6, <1>7

(* A function at the position is seen, and counts from then on.            *)
LEMMA PassedFunction ==
  ASSUME NEW pool \in Pools, NEW bus \in Buses, NEW at \in 0 .. End, at < End,
         FrameFits(pool, bus, at), At(Frame(bus, at)) \in DOMAIN pool
  PROVE  /\ At(Frame(bus, at)) \in VisibleIn(DOMAIN pool)
         /\ FrameFits(pool, bus, at + 1)
         /\ ScannedTo(pool, bus, at + 1) = ScannedTo(pool, bus, at) \union {At(Frame(bus, at))}
         /\ At(Frame(bus, at)) \notin ScannedTo(pool, bus, at)
<1> DEFINE q == at \div MaxFunction
           r == at % MaxFunction
           g == At(Frame(bus, at))
<1>1. /\ g = <<bus, q, r>> /\ q \in 0 .. MaxDevice - 1 /\ Position(g) = at
      /\ r \in 0 .. MaxFunction - 1
  BY PositionAt
<1>2. at \in Nat
  BY EndType
<1>3. at = q * MaxFunction + r /\ q \in Nat
  BY <1>2, EndType, Division
<1>4. r # 0 => <<bus, q, 0>> \in DOMAIN pool
  BY DEF FrameFits
<1> HIDE DEF q, r, g
<1>5. <<bus, q, 0>> \in DOMAIN pool
  BY <1>1, <1>4 DEF g
<1>6. g \in VisibleIn(DOMAIN pool) /\ g[1] = bus
  BY <1>1, <1>5 DEF g, VisibleIn
<1>7. (at + 1) % MaxFunction # 0 => (at + 1) \div MaxFunction = q
  <2>1. CASE r + 1 < MaxFunction
    <3>1. (q * MaxFunction + (r + 1)) \div MaxFunction = q
      <4>1. r + 1 \in 0 .. MaxFunction - 1 /\ q \in Int /\ MaxFunction \in Nat \ {0}
        BY <1>1, <1>3, <2>1, EndType
      <4> QED
        BY <4>1, QuotientUnique
    <3>2. at + 1 = q * MaxFunction + (r + 1)
      BY <1>1, <1>3, EndType
    <3> QED
      BY <3>1, <3>2
  <2>2. CASE r + 1 = MaxFunction
    <3>1. ((q + 1) * MaxFunction + 0) % MaxFunction = 0
      BY <1>3, EndType, QuotientUnique
    <3>2. at + 1 = (q + 1) * MaxFunction + 0
      BY <1>1, <1>3, <2>2, EndType
    <3> QED
      BY <3>1, <3>2
  <2> QED
    BY <1>1, <2>1, <2>2, EndType
<1>8. FrameFits(pool, bus, at + 1)
  BY <1>2, <1>5, <1>7, EndType DEF FrameFits
<1>9. ASSUME NEW f \in VisibleIn(DOMAIN pool), f[1] = bus, Position(f) < at + 1, f # g
      PROVE  Position(f) < at
  <2>1. f \in DOMAIN pool
    BY DEF VisibleIn
  <2>2. Position(f) # at
    BY <1>9, <2>1, PositionOf DEF g
  <2> QED
    BY <1>2, <1>9, <2>1, <2>2, PositionOf, EndType
<1>10. \A f \in VisibleIn(DOMAIN pool) : Position(f) \in Nat
  BY PositionOf, EndType DEF VisibleIn
<1>11. ScannedTo(pool, bus, at + 1) = ScannedTo(pool, bus, at) \union {g}
  BY <1>1, <1>2, <1>6, <1>9, <1>10 DEF ScannedTo
<1>12. g \notin ScannedTo(pool, bus, at)
  BY <1>1, <1>2 DEF ScannedTo
<1> QED
  BY <1>6, <1>8, <1>11, <1>12 DEF g

(* ----- devices ----- *)

(* What the assumption says of one installed function. *)
LEMMA PoolFacts ==
  ASSUME NEW pool \in Pools, NEW f \in DOMAIN pool
  PROVE  pool[f].header \in {0, 1} /\ LayoutFormed(pool[f].bars, pool[f].header)
BY PoolsAssumption

(* A slot that holds no BAR, nor the upper dword of one, is found empty.   *)
LEMMA SizingFindsNone ==
  ASSUME NEW layout, NEW header, LayoutFormed(layout, header),
         NEW d, Formed(d, layout, header), NEW b \in Slots,
         ~Implemented(layout, header, b), ~UpperSlot(layout, header, b), header = 1 => b < 2
  PROVE  GetPciBarInfo(d, b).info = NoInfo
<1>1. AtRest(d) /\ d.reg[b] = 0 /\ d.size[b] = 0
  BY DEF Formed, RegisterFits, WindowSlot
<1>2. ~IsIo(0) /\ ~Is64(0)
  BY DEF IsIo, Is64
<1>3. ~Paired(d, b)
  <2> SUFFICES ASSUME IsHigh(b) PROVE ~Is64(d.reg[b - 1])
    BY DEF Paired
  <2>1. b - 1 \in Slots /\ ~IsHigh(b - 1)
    BY DEF IsHigh, Slots
  <2>2. RegisterFits(d, layout, header, b - 1)
    BY <2>1 DEF Formed
  <2>3. CASE ~Implemented(layout, header, b - 1)
    <3>1. ~WindowSlot(header, b - 1)
      BY <2>1 DEF WindowSlot, Slots
    <3> QED
      BY <1>2, <2>1, <2>2, <2>3, <3>1 DEF RegisterFits, UpperSlot
  <2>4. CASE Implemented(layout, header, b - 1)
    <3>1. ~layout[b - 1].wide
      BY <2>4 DEF UpperSlot
    <3>2. d.reg[b - 1] % 16 = TypeBits(layout[b - 1])
      BY <2>2, <2>4 DEF RegisterFits
    <3>3. TypeBits(layout[b - 1]) \in {0, 1}
      BY <3>1 DEF TypeBits
    <3>4. d.reg[b - 1] \in Nat
      BY <1>1, <2>1, DwordType DEF AtRest, IsDevice, Registers
    <3> QED
      BY <3>2, <3>3, <3>4, KindBits
  <2> QED
    BY <2>3, <2>4
<1>4. ActualBar(d, b) = b
  BY <1>3 DEF ActualBar
<1>5. PciConfigRead32(d, b) = 0 /\ AfterRead(d, b) = d
  BY <1>1, ReadAtRest
<1>6. PciConfigWrite32(d, b, AllOnes) = d
  BY <1>1, <1>4 DEF PciConfigWrite32, Discover
<1>7. Ask(d, b).value = 0
  BY <1>5, <1>6 DEF Ask
<1>8. Refused(0)
  BY DEF Refused
<1> QED
  BY <1>2, <1>5, <1>7, <1>8 DEF GetPciBarInfo

(* The functions of a system that fits its pool are formed, and no upper   *)
(* dword is set.                                                           *)
LEMMA DeviceFacts ==
  ASSUME NEW pool \in Pools, DevicesFit(pool), NEW f \in DOMAIN pool
  PROVE  /\ Formed(dev[f], pool[f].bars, pool[f].header) /\ AtRest(dev[f])
         /\ LayoutFormed(pool[f].bars, pool[f].header)
         /\ WindowsFit(dev[f], pool[f].header)
         /\ \A b \in Slots : HasBar(pool, f, b) =>
              /\ dev[f].reg[b + 1] = 0
              /\ ~WindowSlot(pool[f].header, b) /\ ~WindowSlot(pool[f].header, b + 1)
<1>1. /\ Formed(dev[f], pool[f].bars, pool[f].header) /\ AtRest(dev[f])
      /\ LayoutFormed(pool[f].bars, pool[f].header)
      /\ WindowsFit(dev[f], pool[f].header)
  BY PoolFacts DEF DevicesFit, Formed
<1>2. ASSUME NEW b \in Slots, HasBar(pool, f, b)
      PROVE  /\ dev[f].reg[b + 1] = 0
             /\ ~WindowSlot(pool[f].header, b) /\ ~WindowSlot(pool[f].header, b + 1)
  <2>1. ~IsHigh(b) /\ (pool[f].header = 1 => b < 2)
    BY <1>1, <1>2 DEF HasBar, LayoutFormed, Implemented
  <2>2. b + 1 \in Slots /\ IsHigh(b + 1) /\ (pool[f].header = 1 => b + 1 < 3)
    BY <2>1 DEF IsHigh, Slots
  <2> QED
    BY <1>1, <2>1, <2>2 DEF WindowsFit, WindowSlot
<1> QED
  BY <1>1, <1>2

(* Giving a BAR an address within the dword moves that BAR and no other,   *)
(* and tells the operating system the address it has taken.                *)
LEMMA DeviceAddressed ==
  ASSUME NEW pool \in Pools, DevicesFit(pool), NEW f \in DOMAIN pool, NEW b \in Slots,
         HasBar(pool, f, b), NEW address \in Nat, pool[f].bars[b].wide => address < Dword,
         dev' = [dev EXCEPT ![f] = Told(PciSetBarAddress(dev[f], b, address), <<>>)]
  PROVE  LET to == Taken(pool[f].bars[b], address % Dword)
         IN  /\ DevicesFit(pool)'
             /\ AddressOf(f, b)' = to
             /\ \A g \in DOMAIN pool, c \in Slots :
                  HasBar(pool, g, c) /\ <<g, c>> # <<f, b>> => AddressOf(g, c)' = AddressOf(g, c)
             /\ PciSetBarAddress(dev[f], b, address).told = NotifyBarChange(<<>>, b, to)
<1> DEFINE layout == pool[f].bars
           header == pool[f].header
           bar == layout[b]
           to == Taken(bar, address % Dword)
           h == address \div Dword
<1> PICK d : d = dev[f]
  OBVIOUS
<1> PICK m : m = PciSetBarAddress(d, b, address)
  OBVIOUS
<1> PICK e : e = Told(m, <<>>)
  OBVIOUS
<1>1. /\ Formed(d, layout, header) /\ AtRest(d) /\ LayoutFormed(layout, header)
      /\ Implemented(layout, header, b)
  BY DeviceFacts DEF HasBar
<1>2. BarFormed(bar) /\ ~IsHigh(b) /\ b + 1 \in Slots /\ b # b + 1 /\ IsHigh(b + 1)
  BY <1>1, DeviceFacts DEF LayoutFormed, IsHigh, Slots, HasBar
<1>3. bar.wide => h = 0
  <2> SUFFICES ASSUME bar.wide PROVE h = 0
    OBVIOUS
  <2>1. address = 0 * Dword + address /\ address \in 0 .. Dword - 1
    BY DwordType
  <2>2. (0 * Dword + address) \div Dword = 0
    BY <2>1, DwordType, QuotientUnique
  <2> QED
    BY <2>1, <2>2
<1>4. bar.wide => h < AllOnes /\ h % 2 = 0
  BY <1>3, DwordType DEF AllOnes
<1> HIDE DEF h
<1>5. /\ Formed(e, layout, header) /\ e.reg = MovedRegisters(d, bar, b, address) /\ e.cmd = d.cmd
      /\ e.baseUpper = d.baseUpper /\ e.limitUpper = d.limitUpper
  BY <1>1, <1>2, <1>4, DeviceFacts, FormedMoved DEF h, HasBar
<1>6. m.told = NotifyBarChange(<<>>, b, to)
  <2>1. /\ MovedRegisters(d, bar, b, address) \in Registers
        /\ Becomes(d, m, MovedRegisters(d, bar, b, address),
                   NotifyBarChange(<<>>, b, MoveTold(d, bar, b, address)))
    BY <1>1, <1>2, <1>4, DeviceFacts, MoveIs DEF h, HasBar
  <2>2. MoveTold(d, bar, b, address) = to
    <3>1. d.reg[b + 1] = 0
      BY <1>1, <1>2, DeviceFacts
    <3>2. to \in Int
      BY <1>2, TakenFacts, DwordType
    <3> QED
      BY <3>1, <3>2, DwordType DEF MoveTold
  <2> QED
    BY <1>1, <2>1, <2>2, BecomesAtRest
<1>7. e.header = header /\ d.header = header
  BY <1>1, <1>5, DeviceFacts DEF Formed
<1>8. ASSUME NEW i \in Slots
      PROVE  e.reg[i] = IF i = b THEN to + TypeBits(bar)
                        ELSE IF i = b + 1 /\ bar.wide THEN 0 ELSE d.reg[i]
  <2>1. e.reg[i] = IF i = b THEN to + TypeBits(bar)
                   ELSE IF i = b + 1 /\ bar.wide THEN h ELSE d.reg[i]
    BY <1>5 DEF MovedRegisters, h
  <2> HIDE DEF bar, to
  <2> QED
    BY <1>3, <2>1
<1> HIDE DEF to
<1>9. dev' = [g \in DOMAIN pool |-> IF g = f THEN e ELSE dev[g]]
  BY DEF DevicesFit
<1>10. DevicesFit(pool)'
  <2>1. ASSUME NEW g \in DOMAIN pool
        PROVE  /\ Formed(dev'[g], pool[g].bars, pool[g].header)
               /\ dev'[g].cmd \subseteq PciSimGetDeviceCommandMask(dev'[g])
               /\ WindowsFit(dev'[g], pool[g].header)
    <3>1. CASE g = f
      <4>1. dev'[g] = e
        BY <1>9, <3>1
      <4>2. d.cmd \subseteq PciSimGetDeviceCommandMask(d)
        BY DEF DevicesFit
      <4>3. e.cmd \subseteq PciSimGetDeviceCommandMask(e)
        BY <1>5, <1>7, <4>2 DEF PciSimGetDeviceCommandMask
      <4>4. WindowsFit(e, header)
        <5>1. WindowsFit(d, header) /\ ~WindowSlot(header, b) /\ ~WindowSlot(header, b + 1)
          BY DeviceFacts
        <5>2. ASSUME NEW i \in Slots
              PROVE  IF WindowSlot(header, i) THEN e.reg[i] \in {0} \union Windows[i]
                                              ELSE IsHigh(i) => e.reg[i] = 0
          BY <1>2, <1>8, <5>1 DEF WindowsFit
        <5> QED
          BY <1>5, <5>1, <5>2 DEF WindowsFit
      <4> QED
        BY <1>5, <3>1, <4>1, <4>3, <4>4
    <3>2. CASE g # f
      BY <1>9, <3>2 DEF DevicesFit
    <3> QED
      BY <3>1, <3>2
  <2>2. DOMAIN dev' = DOMAIN pool /\ dev' = [g \in DOMAIN pool |-> dev'[g]]
    BY <1>9
  <2> QED
    BY <2>1, <2>2 DEF DevicesFit
<1>11. AddressOf(f, b)' = to
  <2>1. Align(to + TypeBits(bar), 16) = to
    BY <1>2, TakenFacts, DwordType DEF to
  <2> QED
    BY <1>8, <1>9, <2>1 DEF AddressOf
<1>12. ASSUME NEW g \in DOMAIN pool, NEW c \in Slots, HasBar(pool, g, c), <<g, c>> # <<f, b>>
       PROVE  AddressOf(g, c)' = AddressOf(g, c)
  <2>1. CASE g # f
    BY <1>9, <2>1 DEF AddressOf
  <2>2. CASE g = f
    <3>1. c # b /\ ~IsHigh(c) /\ c # b + 1
      BY <1>2, <1>12, <2>2, PoolFacts DEF LayoutFormed, HasBar
    <3> QED
      BY <1>8, <1>9, <2>2, <3>1 DEF AddressOf
  <2> QED
    BY <2>1, <2>2
<1> QED
  BY <1>6, <1>10, <1>11, <1>12 DEF to

(* ----- the stack of scans ----- *)

(* The stack operations on one and two scans. *)
LEMMA StackOps ==
  ASSUME NEW x, NEW y
  PROVE  /\ Last(<<x>>) = x /\ Last(<<x, y>>) = y
         /\ Front(<<x>>) = <<>> /\ Front(<<x, y>>) = <<x>> /\ Append(<<x>>, y) = <<x, y>>
         /\ <<x>> # <<x, y>> /\ <<x>> # <<>> /\ <<x, y>> # <<>>
<1>1. Last(<<x>>) = x /\ Last(<<x, y>>) = y
  BY DEF Last
<1>2. Front(<<x>>) = <<>>
  <2>1. SubSeq(<<x>>, 1, 0) = <<>>
    BY SubSeqEmpty, SMT
  <2> QED
    BY <2>1 DEF Front
<1> DEFINE S == {x, y}
<1>3. <<x>> \in Seq(S) /\ x \in S /\ y \in S
  OBVIOUS
<1>4. Front(<<x, y>>) = <<x>>
  <2> DEFINE s == <<x, y>>
             f == SubSeq(s, 1, 1)
  <2>1. \A i \in 1 .. 1 : s[i] \in S
    OBVIOUS
  <2> HIDE DEF s, S
  <2>2. f \in Seq(S) /\ Len(f) = 1 /\ f[1] = s[1]
    <3>1. /\ f \in Seq(S) /\ Len(f) = IF 1 <= 1 THEN 1 - 1 + 1 ELSE 0
          /\ \A i \in 1 .. 1 - 1 + 1 : f[i] = s[1 + i - 1]
      BY <2>1, SubSeqProperties
    <3> HIDE DEF f
    <3> QED
      BY <3>1
  <2> HIDE DEF f
  <2>3. Len(<<x>>) = 1 /\ <<x>>[1] = x /\ s[1] = x
    BY DEF s
  <2>4. f = <<x>>
    <3>1. Len(f) = Len(<<x>>) /\ \A i \in 1 .. Len(f) : f[i] = <<x>>[i]
      BY <2>2, <2>3
    <3> QED
      BY <1>3, <2>2, <3>1, SeqEqual
  <2>5. Front(s) = f
    BY DEF Front, s, f
  <2> QED
    BY <2>4, <2>5 DEF s
<1>5. Append(<<x>>, y) = <<x, y>>
  <2> DEFINE s == <<x>>
             t == Append(s, y)
             u == <<x, y>>
  <2>1. s \in Seq(S) /\ Len(s) = 1 /\ s[1] = x /\ u \in Seq(S) /\ Len(u) = 2 /\ u[1] = x /\ u[2] = y
    OBVIOUS
  <2> HIDE DEF S, s, u
  <2>2. t \in Seq(S) /\ Len(t) = Len(s) + 1 /\ (\A i \in 1 .. Len(s) : t[i] = s[i]) /\ t[Len(s) + 1] = y
    <3>1. s \in Seq(S) /\ y \in S
      BY <2>1 DEF S
    <3> QED
      BY <3>1, AppendProperties
  <2> HIDE DEF t
  <2>3. Len(t) = Len(u) /\ \A i \in 1 .. Len(t) : t[i] = u[i]
    BY <2>1, <2>2
  <2>4. t = u
    BY <2>1, <2>2, <2>3, SeqEqual
  <2> QED
    BY <2>4 DEF s, t, u
<1> QED
  BY <1>1, <1>2, <1>4, <1>5

(* Moving the scan on when it is the only one. *)
LEMMA RootMoves ==
  ASSUME NEW bus, NEW at, NEW to
  PROVE  [<<Frame(bus, at)>> EXCEPT ![1].at = to] = <<Frame(bus, to)>>
BY DEF Frame

(* Moving the scan behind a bridge on. *)
LEMMA BridgeMoves ==
  ASSUME NEW z, NEW bus, NEW at, NEW to
  PROVE  [<<z, Frame(bus, at)>> EXCEPT ![2].at = to] = <<z, Frame(bus, to)>>
BY DEF Frame

(* ----- the invariant of the enumeration ----- *)

(* The scan under way is that of the root bus, or that behind the bridge. *)
LEMMA TopIs ==
  ASSUME NEW pool, NEW a, NEW c
  PROVE  /\ RootScan(pool, a) => Top = Frame(0, a) /\ Top.at = a /\ Len(stack) = 1 /\ stack # <<>>
         /\ BridgeScan(pool, a, c) =>
              Top = Frame(1, c) /\ Top.at = c /\ Len(stack) = 2 /\ stack # <<>>
<1> DEFINE x == Frame(0, a)
           y == Frame(1, c)
<1>1. x.at = a /\ y.at = c
  BY DEF Frame
<1> HIDE DEF x, y
<1>2. /\ Last(<<x>>) = x /\ Last(<<x, y>>) = y /\ <<x>> # <<>> /\ <<x, y>> # <<>>
      /\ Len(<<x>>) = 1 /\ Len(<<x, y>>) = 2
  BY StackOps
<1> QED
  BY <1>1, <1>2 DEF RootScan, BridgeScan, Top, x, y

(* The function being built is one the scan sees, and not registered yet.  *)
LEMMA BuildingSeen ==
  ASSUME NEW pool \in Pools, PoolInv(pool), building # NoContext
  PROVE  /\ building.fn \in VisibleIn(DOMAIN pool) /\ building.fn \in DOMAIN pool
         /\ building.fn \notin Registered
<1>1. building.fn = At(Top) /\ Top.at < End /\ building.fn \in DOMAIN pool
  BY DEF PoolInv, BuildingFits
<1>2. ASSUME NEW a \in 0 .. End, RootScan(pool, a)
      PROVE  building.fn \in VisibleIn(DOMAIN pool) /\ building.fn \notin Registered
  <2>1. Top = Frame(0, a) /\ Top.at = a
    BY <1>2, TopIs
  <2>2. a < End /\ 0 \in Buses
    BY <1>1, <2>1 DEF Buses
  <2>3. building.fn \in VisibleIn(DOMAIN pool) /\ building.fn \notin ScannedTo(pool, 0, a)
    BY <1>1, <1>2, <2>1, <2>2, PassedFunction DEF RootScan
  <2>4. building.fn[1] = 0
    BY <1>1, <2>1, <2>2, PositionAt
  <2>5. building.fn \notin Behind(pool, a)
    BY <2>4 DEF Behind, ScannedTo
  <2> QED
    BY <1>2, <2>3, <2>5 DEF RootScan
<1>3. ASSUME NEW a \in 0 .. End, NEW c \in 0 .. End, BridgeScan(pool, a, c)
      PROVE  building.fn \in VisibleIn(DOMAIN pool) /\ building.fn \notin Registered
  <2>1. Top = Frame(1, c) /\ Top.at = c
    BY <1>3, TopIs
  <2>2. c < End /\ 1 \in Buses
    BY <1>1, <2>1 DEF Buses
  <2>3. building.fn \in VisibleIn(DOMAIN pool) /\ building.fn \notin ScannedTo(pool, 1, c)
    BY <1>1, <1>3, <2>1, <2>2, PassedFunction DEF BridgeScan
  <2>4. building.fn[1] = 1
    BY <1>1, <2>1, <2>2, PositionAt
  <2>5. building.fn \notin ScannedTo(pool, 0, a)
    BY <2>4 DEF ScannedTo
  <2> QED
    BY <1>3, <2>3, <2>5 DEF BridgeScan
<1> QED
  BY <1>1, <1>2, <1>3 DEF PoolInv, ScanFits

(* The invariant holds at power-on. *)
LEMMA EnumerationInit == Init => EnumerationInv
<1> SUFFICES ASSUME Init PROVE EnumerationInv
  OBVIOUS
<1> PICK pool \in Pools :
      /\ dev = [f \in DOMAIN pool |-> CreateFakeDevice(pool[f].header, pool[f].bars)]
      /\ mem = [f \in DOMAIN pool |-> [b \in Slots |-> 0]]
  BY DEF Init
<1>1. DevicesFit(pool)
  <2>1. ASSUME NEW f \in DOMAIN pool
        PROVE  /\ Formed(dev[f], pool[f].bars, pool[f].header)
               /\ dev[f].cmd \subseteq PciSimGetDeviceCommandMask(dev[f])
               /\ WindowsFit(dev[f], pool[f].header)
    <3>1. LayoutFormed(pool[f].bars, pool[f].header)
      BY PoolFacts
    <3>2. Formed(dev[f], pool[f].bars, pool[f].header)
      BY <3>1, FormedCreated
    <3>3. dev[f].cmd = {}
      BY DEF CreateFakeDevice
    <3>4. WindowsFit(dev[f], pool[f].header)
      <4>1. \A i \in Slots : IsHigh(i) \/ WindowSlot(pool[f].header, i) =>
              ~Implemented(pool[f].bars, pool[f].header, i)
        BY <3>1 DEF LayoutFormed, WindowSlot, Implemented
      <4>2. \A i \in Slots : IsHigh(i) \/ WindowSlot(pool[f].header, i) => dev[f].reg[i] = 0
        BY <4>1 DEF CreateFakeDevice
      <4>3. dev[f].baseUpper = 0 /\ dev[f].limitUpper = 0
        BY DEF CreateFakeDevice
      <4> QED
        BY <4>2, <4>3 DEF WindowsFit
    <3> QED
      BY <3>2, <3>3, <3>4
  <2> QED
    BY <2>1 DEF DevicesFit
<1>2. ScanFits(pool)
  <2>1. Registered = {}
    BY DEF Init, Registered
  <2>2. \A bus : ScannedTo(pool, bus, 0) = {}
    <3> SUFFICES ASSUME NEW f \in VisibleIn(DOMAIN pool), Position(f) < 0 PROVE FALSE
      BY DEF ScannedTo
    <3> QED
      BY PositionOf, EndType DEF VisibleIn
  <2>3. ~BridgeBefore(pool, 0)
    BY <2>2 DEF BridgeBefore
  <2>4. FrameFits(pool, 0, 0)
    BY EndType DEF FrameFits
  <2>5. RootScan(pool, 0)
    BY <2>1, <2>2, <2>3, <2>4 DEF RootScan, Behind, Init, Frame
  <2> QED
    BY <2>5, EndType DEF ScanFits
<1>3. BuildingFits(pool)
  BY DEF BuildingFits, Init
<1>4. ContextsFit(pool)
  <2>1. ctxs = <<>> /\ Len(ctxs) = 0 /\ ctxs \in Seq(Contexts(pool))
    BY DEF Init
  <2> QED
    BY <2>1 DEF ContextsFit
<1>5. mem \in [DOMAIN pool -> [Slots -> 0 .. 1]] /\ nextMmio \in Nat /\ nextIo \in Nat
  BY PoolsAssumption DEF Init
<1> QED
  BY <1>1, <1>2, <1>3, <1>4, <1>5 DEF EnumerationInv, PoolInv

(* What a step that leaves devices, contexts and memory alone keeps.       *)
LEMMA Untouched ==
  ASSUME NEW pool \in Pools, PoolInv(pool), UNCHANGED <<dev, ctxs, nextMmio, nextIo, mem>>,
         Enumerated => Enumerated'
  PROVE  /\ DevicesFit(pool)' /\ ContextsFit(pool)' /\ Registered' = Registered
         /\ (mem \in [DOMAIN pool -> [Slots -> 0 .. 1]] /\ nextMmio \in Nat /\ nextIo \in Nat)'
BY DEF PoolInv, DevicesFit, ContextsFit, ContextFits, Registered

(* An empty position keeps the invariant. *)
LEMMA ScanNothingFits ==
  ASSUME NEW pool \in Pools, PoolInv(pool), ScanNothing
  PROVE  PoolInv(pool)'
<1>1. Functions = DOMAIN pool
  BY DEF PoolInv, DevicesFit, Functions
<1>2. /\ building = NoContext /\ building' = building /\ Top.at < End /\ At(Top) \notin DOMAIN pool
      /\ stack # <<>> /\ stack' = [stack EXCEPT ![Len(stack)].at = NextAt(Top)]
  BY <1>1 DEF ScanNothing, Scanning, End
<1>3. /\ DevicesFit(pool)' /\ ContextsFit(pool)' /\ Registered' = Registered
      /\ (mem \in [DOMAIN pool -> [Slots -> 0 .. 1]] /\ nextMmio \in Nat /\ nextIo \in Nat)'
  BY <1>2, Untouched DEF ScanNothing, Enumerated
<1>4. BuildingFits(pool)'
  BY <1>2 DEF BuildingFits
<1>5. ASSUME NEW a \in 0 .. End, RootScan(pool, a)
      PROVE  ScanFits(pool)'
  <2> DEFINE x == NextAt(Frame(0, a))
  <2>1. Top = Frame(0, a) /\ Top.at = a /\ Len(stack) = 1
    BY <1>5, TopIs
  <2>2. FrameFits(pool, 0, x) /\ ScannedTo(pool, 0, x) = ScannedTo(pool, 0, a)
    BY <1>2, <1>5, <2>1, PassedNothing DEF RootScan, Buses
  <2> HIDE DEF x
  <2>3. stack' = <<Frame(0, x)>>
    <3>1. [<<Frame(0, a)>> EXCEPT ![1].at = x] = <<Frame(0, x)>>
      BY RootMoves
    <3> QED
      BY <1>2, <1>5, <2>1, <3>1 DEF RootScan, x
  <2>4. Behind(pool, x) = Behind(pool, a)
    BY <2>2 DEF Behind, BridgeBefore
  <2>5. RootScan(pool, x)'
    BY <1>3, <1>5, <2>2, <2>3, <2>4 DEF RootScan
  <2> QED
    BY <2>2, <2>5 DEF ScanFits, FrameFits
<1>6. ASSUME NEW a \in 0 .. End, NEW c \in 0 .. End, BridgeScan(pool, a, c)
      PROVE  ScanFits(pool)'
  <2> DEFINE x == NextAt(Frame(1, c))
  <2>1. Top = Frame(1, c) /\ Top.at = c /\ Len(stack) = 2
    BY <1>6, TopIs
  <2>2. FrameFits(pool, 1, x) /\ ScannedTo(pool, 1, x) = ScannedTo(pool, 1, c)
    BY <1>2, <1>6, <2>1, PassedNothing DEF BridgeScan, Buses
  <2> HIDE DEF x
  <2>3. stack' = <<Frame(0, a), Frame(1, x)>>
    <3>1. [<<Frame(0, a), Frame(1, c)>> EXCEPT ![2].at = x] = <<Frame(0, a), Frame(1, x)>>
      BY BridgeMoves
    <3> QED
      BY <1>2, <1>6, <2>1, <3>1 DEF BridgeScan, x
  <2>4. BridgeScan(pool, a, x)'
    BY <1>3, <1>6, <2>2, <2>3 DEF BridgeScan
  <2> QED
    BY <2>2, <2>4 DEF ScanFits, FrameFits
<1>7. ScanFits(pool)'
  BY <1>2, <1>5, <1>6 DEF PoolInv, ScanFits, ScanOver
<1> QED
  BY <1>3, <1>4, <1>7 DEF PoolInv

(* Finding a function keeps the invariant. *)
LEMMA ScanFunctionFits ==
  ASSUME NEW pool \in Pools, PoolInv(pool), ScanFunction
  PROVE  PoolInv(pool)'
<1> DEFINE f == At(Top)
<1>1. Functions = DOMAIN pool
  BY DEF PoolInv, DevicesFit, Functions
<1>2. /\ stack # <<>> /\ Top.at < End /\ f \in DOMAIN pool
      /\ building' = [fn |-> f, header |-> dev[f].header,
                      info |-> [b \in Slots |-> NoInfo], bar |-> 0, assign |-> 6]
      /\ stack' = stack /\ Top' = Top
  BY <1>1 DEF ScanFunction, Scanning, End, Top
<1> HIDE DEF f
<1>3. /\ DevicesFit(pool)' /\ ContextsFit(pool)' /\ Registered' = Registered
      /\ (mem \in [DOMAIN pool -> [Slots -> 0 .. 1]] /\ nextMmio \in Nat /\ nextIo \in Nat)'
  BY <1>2, Untouched DEF ScanFunction, Enumerated
<1>4. dev[f].header = pool[f].header
  BY <1>2 DEF PoolInv, DevicesFit, Formed
<1>5. BuildingFits(pool)'
  <2>1. /\ building'.fn = f /\ building'.info = [b \in Slots |-> NoInfo]
        /\ building'.bar = 0 /\ building'.assign = 6
        /\ building' = [fn |-> building'.fn, header |-> pool[building'.fn].header,
                        info |-> building'.info, bar |-> building'.bar, assign |-> building'.assign]
    BY <1>2, <1>4
  <2>2. NoInfo \in Infos /\ NoInfo.size = 0
    BY DEF NoInfo, Infos
  <2>3. building'.info \in [Slots -> Infos] /\ \A b \in Slots : building'.info[b].size = 0 /\ ~(b < 0)
    BY <2>1, <2>2 DEF Slots
  <2>4. ~UpperSlot(pool[f].bars, pool[f].header, 0)
    BY DEF UpperSlot, IsHigh
  <2>5. At(Top)' = f
    BY <1>2 DEF f, At
  <2> QED
    BY <1>2, <2>1, <2>3, <2>4, <2>5 DEF BuildingFits
<1>6. ScanFits(pool)'
  BY <1>2, <1>3 DEF PoolInv, ScanFits, RootScan, BridgeScan, ScanOver
<1> QED
  BY <1>3, <1>5, <1>6 DEF PoolInv

(* The end of a bus keeps the invariant. *)
LEMMA ScanBusEndsFits ==
  ASSUME NEW pool \in Pools, PoolInv(pool), ScanBusEnds
  PROVE  PoolInv(pool)'
<1>1. building = NoContext /\ building' = building /\ Top.at >= End /\ stack # <<>> /\ stack' = Front(stack)
  BY DEF ScanBusEnds, Scanning, End
<1>2. /\ DevicesFit(pool)' /\ ContextsFit(pool)' /\ Registered' = Registered
      /\ (mem \in [DOMAIN pool -> [Slots -> 0 .. 1]] /\ nextMmio \in Nat /\ nextIo \in Nat)'
  BY <1>1, Untouched DEF ScanBusEnds, Enumerated
<1>3. BuildingFits(pool)'
  BY <1>1 DEF BuildingFits
<1>4. ASSUME NEW a \in 0 .. End, RootScan(pool, a)
      PROVE  ScanFits(pool)'
  <2>1. Top.at = a
    BY <1>4, TopIs
  <2>2. a = End
    BY <1>1, <2>1, EndType
  <2>3. stack' = <<>>
    BY <1>1, <1>4, StackOps DEF RootScan
  <2>4. ScanOver(pool)'
    BY <1>2, <1>4, <2>2, <2>3 DEF RootScan, ScanOver
  <2> QED
    BY <1>1, <2>4 DEF ScanFits
<1>5. ASSUME NEW a \in 0 .. End, NEW c \in 0 .. End, BridgeScan(pool, a, c)
      PROVE  ScanFits(pool)'
  <2>1. Top.at = c
    BY <1>5, TopIs
  <2>2. c = End
    BY <1>1, <2>1, EndType
  <2>3. stack' = <<Frame(0, a)>>
    BY <1>1, <1>5, StackOps DEF BridgeScan
  <2>4. RootScan(pool, a)'
    BY <1>2, <1>5, <2>2, <2>3 DEF RootScan, BridgeScan, Behind
  <2> QED
    BY <2>4 DEF ScanFits
<1>6. ScanFits(pool)'
  BY <1>1, <1>4, <1>5 DEF PoolInv, ScanFits, ScanOver
<1> QED
  BY <1>2, <1>3, <1>6 DEF PoolInv

(* While a function is being built no context hears of its changes.        *)
LEMMA BuildingDeaf ==
  ASSUME NEW pool \in Pools, PoolInv(pool), building # NoContext, NEW t
  PROVE  BarChangeHandler(ctxs, building.fn, t) = ctxs
<1>1. building.fn \notin Registered
  BY BuildingSeen
<1>2. {i \in DOMAIN ctxs : ctxs[i].fn = building.fn} = {}
  BY <1>1 DEF Registered
<1> QED
  BY <1>2 DEF BarChangeHandler

(* What the context being filled in says of its function so far. *)
LEMMA BuildingFacts ==
  ASSUME NEW pool \in Pools, PoolInv(pool), building # NoContext
  PROVE  /\ building = [fn |-> building.fn, header |-> pool[building.fn].header,
                        info |-> building.info, bar |-> building.bar, assign |-> building.assign]
         /\ building.fn \in DOMAIN pool /\ building.header = pool[building.fn].header
         /\ building.info \in [Slots -> Infos] /\ building.bar \in 0 .. 6 /\ building.assign \in 0 .. 6
         /\ \A b \in Slots : building.info[b].size # 0 =>
              /\ b < building.bar /\ HasBar(pool, building.fn, b)
              /\ building.info[b].size = pool[building.fn].bars[b].size
              /\ building.info[b].io = pool[building.fn].bars[b].io
              /\ building.info[b].wide = pool[building.fn].bars[b].wide
<1>1. BuildingFits(pool)
  BY DEF PoolInv
<1>2. building.header = pool[building.fn].header
  <2> PICK c : c = [fn |-> building.fn, header |-> pool[building.fn].header,
                    info |-> building.info, bar |-> building.bar, assign |-> building.assign]
    OBVIOUS
  <2>1. building = c /\ c.header = pool[building.fn].header
    BY <1>1 DEF BuildingFits
  <2> QED
    BY <2>1
<1> QED
  BY <1>1, <1>2 DEF BuildingFits, InfoFits

(* One turn of DeviceCreateFromPci's loop learns what the slot holds and   *)
(* leaves every device and context as it was.                              *)
LEMMA CreateBarIs ==
  ASSUME NEW pool \in Pools, PoolInv(pool), CreateBar
  PROVE  LET f == building.fn
             b == building.bar
         IN  \E info \in Infos :
               /\ building # NoContext /\ b \in Slots /\ building.assign = 6
               /\ dev' = dev /\ ctxs' = ctxs
               /\ InfoFits(info, pool, f, b)
               /\ building' = [fn |-> f, header |-> building.header,
                               info |-> [building.info EXCEPT ![b] = info],
                               bar |-> IF info.size # 0 /\ info.wide THEN b + 2 ELSE b + 1,
                               assign |-> IF info.size = 0 THEN 6 ELSE 0]
<1> DEFINE f == building.fn
           b == building.bar
           d == dev[f]
           header == pool[f].header
           layout == pool[f].bars
           info == GetPciBarInfo(d, b).info
           e == GetPciBarInfo(d, b).dev
<1>1. building # NoContext /\ building.assign = 6 /\ b < BarLimit
  BY DEF CreateBar
<1>2. /\ f \in DOMAIN pool /\ building.header = header /\ b \in 0 .. 6
      /\ building = [fn |-> f, header |-> header, info |-> building.info, bar |-> b,
                     assign |-> building.assign]
  BY <1>1, BuildingFacts
<1>3. b \in Slots
  BY <1>1, <1>2 DEF BarLimit, Slots
<1>4. /\ Formed(d, layout, header) /\ AtRest(d) /\ LayoutFormed(layout, header)
  BY <1>2, DeviceFacts DEF PoolInv
<1>5. PICK t : e = Told(d, t) /\ Told(e, <<>>) = d
  BY <1>3, <1>4, FormedSized
<1>6. AtRest(e) /\ e.told = t
  BY <1>4, <1>5, ToldEffect
<1>7. AfterRead(e, b) = e
  BY <1>3, <1>6, ReadAtRest
<1>8. /\ dev' = [dev EXCEPT ![f] = [e EXCEPT !.told = <<>>]]
      /\ ctxs' = BarChangeHandler(ctxs, f, e.told)
  <2>1. Reconfigured(f, AfterRead(e, b))
    BY DEF CreateBar
  <2> HIDE DEF e
  <2> QED
    BY <1>7, <2>1 DEF Reconfigured
<1>9. dev' = dev
  <2>1. dev' = [dev EXCEPT ![f] = d]
    BY <1>5, <1>8 DEF Told
  <2> QED
    BY <1>2, <2>1 DEF PoolInv, DevicesFit
<1>10. ctxs' = ctxs
  BY <1>1, <1>8, BuildingDeaf
<1>11. InfoFits(info, pool, f, b) /\ info \in Infos
  <2>1. CASE Implemented(layout, header, b)
    <3>1. info = [size |-> layout[b].size, io |-> layout[b].io, wide |-> layout[b].wide,
                  base |-> BarAddress(d, b)]
      BY <1>3, <1>4, <2>1, SizingFinds
    <3>2. BarFormed(layout[b]) /\ ~IsHigh(b)
      BY <1>3, <1>4, <2>1 DEF LayoutFormed
    <3>3. layout[b].size \in Nat
      BY <3>2, BarFacts
    <3>4. BarAddress(d, b) \in Nat
      <4>1. d.reg[b + 1] = 0 /\ d.reg[b] \in Nat
        <5>1. DevicesFit(pool)
          BY DEF PoolInv
        <5>2. d.reg[b + 1] = 0
          BY <1>2, <1>3, <2>1, <5>1, DeviceFacts DEF HasBar
        <5>3. d.reg \in Registers
          BY <1>4 DEF AtRest, IsDevice
        <5>4. d.reg[b] \in Nat
          BY <1>3, <5>3, DwordType DEF Registers
        <5> QED
          BY <5>2, <5>4
      <4>2. Align(d.reg[b], 16) \in Nat
        BY <4>1 DEF Align
      <4> QED
        BY <1>3, <1>4, <2>1, <4>1, <4>2, FormedAddress, DwordType
    <3> HIDE DEF info, layout
    <3>4a. layout[b].io \in BOOLEAN /\ layout[b].wide \in BOOLEAN
      BY <3>2 DEF BarFormed
    <3>5. info \in Infos
      BY <3>1, <3>3, <3>4, <3>4a DEF Infos
    <3>6. info.size = layout[b].size /\ info.io = layout[b].io /\ info.wide = layout[b].wide
      BY <3>1
    <3> QED
      BY <2>1, <3>5, <3>6 DEF InfoFits, HasBar, layout
  <2>2. CASE ~Implemented(layout, header, b)
    <3>1. ~UpperSlot(layout, header, b)
      BY <1>1 DEF PoolInv, BuildingFits
    <3>2. info = NoInfo
      <4>1. header = 1 => b < 2
        BY <1>1, <1>2 DEF BarLimit
      <4> QED
        BY <1>3, <1>4, <2>2, <3>1, <4>1, SizingFindsNone
    <3> HIDE DEF info
    <3>3. NoInfo \in Infos /\ NoInfo.size = 0
      BY DEF NoInfo, Infos
    <3> QED
      BY <2>2, <3>2, <3>3 DEF InfoFits, HasBar
  <2> QED
    BY <2>1, <2>2
<1>12. building' = [building EXCEPT !.info[b] = info,
                             !.assign = IF info.size = 0 THEN 6 ELSE 0,
                             !.bar = IF info.size # 0 /\ info.wide THEN b + 2 ELSE b + 1]
  BY DEF CreateBar
<1> HIDE DEF info
<1>13. building' = [fn |-> f, header |-> building.header,
                    info |-> [building.info EXCEPT ![b] = info],
                    bar |-> IF info.size # 0 /\ info.wide THEN b + 2 ELSE b + 1,
                    assign |-> IF info.size = 0 THEN 6 ELSE 0]
  BY <1>2, <1>12
<1> QED
  BY <1>1, <1>3, <1>9, <1>10, <1>11, <1>13

(* Sizing a BAR keeps the invariant. *)
LEMMA CreateBarFits ==
  ASSUME NEW pool \in Pools, PoolInv(pool), CreateBar
  PROVE  PoolInv(pool)'
<1> DEFINE f == building.fn
           b == building.bar
           next(info) == IF info.size # 0 /\ info.wide THEN b + 2 ELSE b + 1
<1>1. PICK info \in Infos :
        /\ building # NoContext /\ b \in Slots /\ building.assign = 6
        /\ dev' = dev /\ ctxs' = ctxs
        /\ InfoFits(info, pool, f, b)
        /\ building' = [fn |-> f, header |-> building.header,
                        info |-> [building.info EXCEPT ![b] = info],
                        bar |-> next(info), assign |-> IF info.size = 0 THEN 6 ELSE 0]
  BY CreateBarIs
<1>2. stack' = stack /\ nextMmio' = nextMmio /\ nextIo' = nextIo /\ mem' = mem
  BY DEF CreateBar
<1>3. /\ DevicesFit(pool)' /\ ContextsFit(pool)' /\ Registered' = Registered
      /\ (mem \in [DOMAIN pool -> [Slots -> 0 .. 1]] /\ nextMmio \in Nat /\ nextIo \in Nat)'
  BY <1>1, <1>2, Untouched DEF Enumerated
<1>4. ScanFits(pool)'
  <2>1. stack # <<>>
    BY <1>1 DEF PoolInv, BuildingFits
  <2> QED
    BY <1>2, <1>3, <2>1 DEF PoolInv, ScanFits, RootScan, BridgeScan, ScanOver
<1>5. /\ f \in DOMAIN pool /\ building.header = pool[f].header
      /\ building.info \in [Slots -> Infos]
  BY <1>1, BuildingFacts
<1>6. LayoutFormed(pool[f].bars, pool[f].header)
  BY <1>5, PoolFacts
<1> DEFINE n == next(info)
           infos == [building.info EXCEPT ![b] = info]
<1>7. (info.size # 0 /\ info.wide) => HasBar(pool, f, b) /\ pool[f].bars[b].wide /\ ~IsHigh(b)
  BY <1>1, <1>6 DEF InfoFits, LayoutFormed, HasBar
<1>8. n \in 0 .. 6 /\ ~UpperSlot(pool[f].bars, pool[f].header, n)
  <2>1. CASE info.size # 0 /\ info.wide
    <3>1. n = b + 2 /\ n \in 0 .. 6 /\ ~IsHigh(n)
      BY <1>1, <1>7, <2>1 DEF Slots, IsHigh
    <3> QED
      BY <3>1 DEF UpperSlot
  <2>2. CASE ~(info.size # 0 /\ info.wide)
    <3>1. n = b + 1 /\ n \in 0 .. 6 /\ n - 1 = b
      BY <1>1, <2>2 DEF Slots
    <3>2. HasBar(pool, f, b) => info.size # 0
      <4> SUFFICES ASSUME HasBar(pool, f, b) PROVE info.size # 0
        OBVIOUS
      <4>1. pool[f].bars[b].size > 0 /\ info.size = pool[f].bars[b].size
        BY <1>1 DEF InfoFits, HasBar, Implemented
      <4>2. BarFormed(pool[f].bars[b])
        BY <1>1, <1>6 DEF LayoutFormed, HasBar
      <4> QED
        BY <4>1, <4>2, BarFacts
    <3>3. HasBar(pool, f, b) => ~pool[f].bars[b].wide
      BY <1>1, <2>2, <3>2 DEF InfoFits
    <3> QED
      BY <3>1, <3>3 DEF UpperSlot, HasBar
  <2> QED
    BY <2>1, <2>2
<1>9. ASSUME NEW c \in Slots
      PROVE  IF c < n THEN InfoFits(infos[c], pool, f, c) ELSE infos[c].size = 0
  <2>1. IF c < b THEN InfoFits(building.info[c], pool, f, c) ELSE building.info[c].size = 0
    BY <1>1 DEF PoolInv, BuildingFits
  <2>2. CASE c = b
    <3>1. c < n /\ infos[c] = info
      BY <1>1, <1>5, <2>2 DEF Slots
    <3> QED
      BY <1>1, <2>2, <3>1
  <2>3. CASE c < b
    <3>1. c < n /\ infos[c] = building.info[c]
      BY <1>1, <1>5, <2>3 DEF Slots
    <3> QED
      BY <1>1, <2>1, <2>3, <3>1 DEF Slots
  <2>4. CASE b < c
    <3>1. infos[c] = building.info[c] /\ building.info[c].size = 0
      BY <1>1, <1>5, <2>1, <2>4 DEF Slots
    <3>2. c < n => IsHigh(c)
      BY <1>1, <1>7, <2>4 DEF Slots, IsHigh
    <3>3. c < n => ~HasBar(pool, f, c)
      BY <1>6, <3>2 DEF LayoutFormed, HasBar
    <3> QED
      BY <3>1, <3>3 DEF InfoFits
  <2> QED
    BY <1>1, <2>2, <2>3, <2>4 DEF Slots
<1>10. infos \in [Slots -> Infos]
  BY <1>1, <1>5
<1> HIDE DEF n, infos
<1>11. BuildingFits(pool)'
  <2>1. /\ building'.fn = f /\ building'.info = infos /\ building'.bar = n
        /\ building'.assign \in 0 .. 6
        /\ building' = [fn |-> building'.fn, header |-> pool[building'.fn].header,
                        info |-> building'.info, bar |-> building'.bar, assign |-> building'.assign]
    BY <1>1, <1>5 DEF infos, n
  <2>2. stack # <<>> /\ f = At(Top) /\ Top.at < End
    BY <1>1 DEF PoolInv, BuildingFits
  <2>3. At(Top)' = At(Top) /\ Top' = Top
    BY <1>2 DEF At, Top
  <2> QED
    BY <1>2, <1>5, <1>8, <1>9, <1>10, <2>1, <2>2, <2>3 DEF BuildingFits
<1> QED
  BY <1>3, <1>4, <1>11 DEF PoolInv

(* Passing over a slot without a BAR keeps the invariant. *)
LEMMA AssignSkipFits ==
  ASSUME NEW pool \in Pools, PoolInv(pool), AssignSkip
  PROVE  PoolInv(pool)'
<1>1. /\ building # NoContext /\ building.assign < 6 /\ building' = [building EXCEPT !.assign = @ + 1]
      /\ stack' = stack /\ Top' = Top /\ At(Top)' = At(Top)
  BY DEF AssignSkip, Top, At
<1>2. /\ DevicesFit(pool)' /\ ContextsFit(pool)' /\ Registered' = Registered
      /\ (mem \in [DOMAIN pool -> [Slots -> 0 .. 1]] /\ nextMmio \in Nat /\ nextIo \in Nat)'
  BY <1>1, Untouched DEF AssignSkip, Enumerated
<1>3. BuildingFits(pool) /\ stack # <<>>
  BY <1>1 DEF PoolInv, BuildingFits
<1>4. building' = [fn |-> building.fn, header |-> pool[building.fn].header, info |-> building.info,
                   bar |-> building.bar, assign |-> building.assign + 1]
  BY <1>1, <1>3 DEF BuildingFits
<1>5. BuildingFits(pool)'
  <2>1. /\ building'.fn = building.fn /\ building'.info = building.info /\ building'.bar = building.bar
        /\ building'.assign = building.assign + 1
        /\ building' = [fn |-> building'.fn, header |-> pool[building'.fn].header,
                        info |-> building'.info, bar |-> building'.bar, assign |-> building'.assign]
    BY <1>4
  <2> QED
    BY <1>1, <1>3, <2>1 DEF BuildingFits
<1>6. ScanFits(pool)'
  BY <1>1, <1>2, <1>3 DEF PoolInv, ScanFits, RootScan, BridgeScan, ScanOver
<1> QED
  BY <1>2, <1>5, <1>6 DEF PoolInv

(* The turn that assigns an address to a BAR of the function being built   *)
(* moves that BAR and no other, and no context hears of it.                *)
LEMMA AssignIs ==
  ASSUME NEW pool \in Pools, PoolInv(pool), AllocatorsFit, AllocatorsFit', AssignBarAddress,
         NEW f, f = building.fn, NEW i, i = building.assign,
         NEW addr, addr = NextAddress(building.info[i], building.info[0].size)
  PROVE  /\ building # NoContext /\ f \in DOMAIN pool /\ i \in Slots /\ HasBar(pool, f, i)
         /\ addr \in Nat /\ (~pool[f].bars[i].io => addr < Dword)
         /\ ctxs' = ctxs /\ DevicesFit(pool)'
         /\ AddressOf(f, i)' = Taken(pool[f].bars[i], addr % Dword)
         /\ \A g \in DOMAIN pool, c \in Slots :
              HasBar(pool, g, c) /\ <<g, c>> # <<f, i>> => AddressOf(g, c)' = AddressOf(g, c)
         /\ building' = [fn |-> f, header |-> building.header,
                         info |-> [building.info EXCEPT ![i] = [@ EXCEPT !.base = addr]],
                         bar |-> building.bar, assign |-> i + 1]
<1> DEFINE info == building.info[i]
           bar == pool[f].bars[i]
           size == building.info[0].size
           m == PciSetBarAddress(dev[f], i, addr)
<1>1. /\ building # NoContext /\ i < 6 /\ info.size # 0
      /\ building' = [building EXCEPT !.info[i].base = addr, !.assign = i + 1]
      /\ nextIo' = IF info.io THEN nextIo + size ELSE nextIo
      /\ nextMmio' = IF info.io THEN nextMmio ELSE addr + size
      /\ Reconfigured(f, m)
  BY DEF AssignBarAddress
<1>2. /\ f \in DOMAIN pool /\ building.header = pool[f].header
      /\ building = [fn |-> f, header |-> pool[f].header, info |-> building.info,
                     bar |-> building.bar, assign |-> i]
      /\ building.info \in [Slots -> Infos] /\ i \in 0 .. 6
  BY <1>1, BuildingFacts
<1>3. i \in Slots /\ 0 \in Slots
  BY <1>1, <1>2 DEF Slots
<1>4. HasBar(pool, f, i) /\ info.io = bar.io /\ info.wide = bar.wide
  BY <1>1, <1>3, BuildingFacts
<1>5. size \in Nat /\ nextMmio \in Nat /\ nextIo \in Nat /\ nextMmio' \in Int
  BY <1>2, <1>3 DEF Infos, PoolInv, AllocatorsFit
<1>6. addr \in Nat /\ (~info.io => addr < Dword)
  <2>1. CASE info.io
    BY <1>5, <2>1 DEF NextAddress
  <2>2. CASE ~info.io
    <3>1. addr = IF size = 0 THEN 0 ELSE Align(nextMmio + size - 1, size)
      BY <2>2 DEF NextAddress, AllocateMmioAddress
    <3>2. nextMmio' = addr + size /\ nextMmio' <= Dword
      BY <1>1, <2>2 DEF AllocatorsFit
    <3> HIDE DEF size
    <3>3. CASE size = 0
      BY <3>1, <3>3, DwordType
    <3>4. CASE size # 0
      <4> DEFINE v == nextMmio + size - 1
      <4>1. v \in Nat /\ size \in Nat \ {0}
        BY <1>5, <3>4
      <4> HIDE DEF v
      <4>2. v = (v \div size) * size + (v % size) /\ v \div size \in Nat /\ v % size \in 0 .. size - 1
        BY <4>1, Division
      <4>3. Align(v, size) \in Nat
        <5> DEFINE q == v \div size
        <5>1. q \in Nat /\ Align(v, size) = q * size
          BY <4>1, <4>2 DEF Align
        <5> HIDE DEF q
        <5> QED
          BY <4>1, <5>1
      <4>4. addr \in Nat
        BY <3>1, <3>4, <4>3 DEF v
      <4> QED
        BY <3>2, <3>4, <4>1, <4>4, DwordType
    <3> QED
      BY <3>3, <3>4
  <2> QED
    BY <2>1, <2>2
<1>7. bar.wide => addr < Dword
  <2>1. bar.wide => ~bar.io
    BY <1>2, <1>3, <1>4, PoolFacts DEF LayoutFormed, BarFormed, HasBar
  <2> QED
    BY <1>4, <1>6, <2>1
<1>8. /\ dev' = [dev EXCEPT ![f] = Told(m, <<>>)]
      /\ ctxs' = BarChangeHandler(ctxs, f, m.told)
  BY <1>1 DEF Reconfigured, Told
<1>9. ctxs' = ctxs
  BY <1>1, <1>8, BuildingDeaf
<1>10. /\ DevicesFit(pool)' /\ AddressOf(f, i)' = Taken(bar, addr % Dword)
       /\ \A g \in DOMAIN pool, c \in Slots :
            HasBar(pool, g, c) /\ <<g, c>> # <<f, i>> => AddressOf(g, c)' = AddressOf(g, c)
  <2>1. DevicesFit(pool)
    BY DEF PoolInv
  <2> QED
    BY <1>2, <1>3, <1>4, <1>6, <1>7, <1>8, <2>1, DeviceAddressed
<1>11. building' = [fn |-> f, header |-> building.header,
                    info |-> [building.info EXCEPT ![i] = [@ EXCEPT !.base = addr]],
                    bar |-> building.bar, assign |-> i + 1]
  BY <1>1, <1>2
<1> QED
  BY <1>1, <1>2, <1>3, <1>4, <1>6, <1>9, <1>10, <1>11

(* Assigning an address keeps the invariant. *)
LEMMA AssignFits ==
  ASSUME NEW pool \in Pools, PoolInv(pool), AllocatorsFit, AllocatorsFit', AssignBarAddress
  PROVE  PoolInv(pool)'
<1> DEFINE f == building.fn
           i == building.assign
           addr == NextAddress(building.info[i], building.info[0].size)
           infos == [building.info EXCEPT ![i] = [@ EXCEPT !.base = addr]]
<1>1. /\ building # NoContext /\ i \in Slots
      /\ addr \in Nat /\ ctxs' = ctxs /\ DevicesFit(pool)'
      /\ building' = [fn |-> f, header |-> building.header, info |-> infos,
                      bar |-> building.bar, assign |-> i + 1]
  BY AssignIs
<1>2. stack' = stack /\ mem' = mem /\ Top' = Top /\ At(Top)' = At(Top)
  BY DEF AssignBarAddress, Top, At
<1>3. BuildingFits(pool) /\ building.header = pool[f].header /\ f \in DOMAIN pool
      /\ building.info \in [Slots -> Infos]
  BY <1>1, BuildingFacts DEF PoolInv
<1> HIDE DEF addr
<1>4. PICK one : one = [building.info[i] EXCEPT !.base = addr]
  OBVIOUS
<1>5. /\ one \in Infos /\ one.size = building.info[i].size /\ one.io = building.info[i].io
      /\ one.wide = building.info[i].wide
  BY <1>1, <1>3, <1>4 DEF Infos
<1>6. infos \in [Slots -> Infos] /\ infos[i] = one /\ \A b \in Slots : b # i => infos[b] = building.info[b]
  BY <1>1, <1>3, <1>4, <1>5
<1>7. \A b \in Slots : infos[b].size = building.info[b].size
         /\ (InfoFits(building.info[b], pool, f, b) => InfoFits(infos[b], pool, f, b))
  BY <1>5, <1>6 DEF InfoFits
<1> HIDE DEF infos
<1>8. BuildingFits(pool)'
  <2>1. /\ building'.fn = f /\ building'.info = infos /\ building'.bar = building.bar
        /\ building'.assign = i + 1
        /\ building' = [fn |-> building'.fn, header |-> pool[building'.fn].header,
                        info |-> building'.info, bar |-> building'.bar, assign |-> building'.assign]
    BY <1>1, <1>3
  <2>2. building'.assign \in 0 .. 6
    BY <1>1, <2>1 DEF Slots
  <2>3. /\ stack # <<>> /\ f = At(Top) /\ Top.at < End /\ building.bar \in 0 .. 6
        /\ ~UpperSlot(pool[f].bars, pool[f].header, building.bar)
        /\ \A b \in Slots : IF b < building.bar THEN InfoFits(building.info[b], pool, f, b)
                                                ELSE building.info[b].size = 0
    BY <1>1, <1>3 DEF BuildingFits
  <2> QED
    BY <1>2, <1>3, <1>6, <1>7, <2>1, <2>2, <2>3 DEF BuildingFits
<1>9. ContextsFit(pool)' /\ Registered' = Registered
  BY <1>1, <1>2 DEF PoolInv, ContextsFit, ContextFits, Registered, Enumerated
<1>10. ScanFits(pool)'
  BY <1>1, <1>2, <1>3, <1>9 DEF PoolInv, ScanFits, RootScan, BridgeScan, ScanOver, BuildingFits
<1>11. (mem \in [DOMAIN pool -> [Slots -> 0 .. 1]] /\ nextMmio \in Nat /\ nextIo \in Nat)'
  BY <1>2 DEF PoolInv, AllocatorsFit
<1> QED
  BY <1>1, <1>8, <1>9, <1>10, <1>11 DEF PoolInv

(* A set of numbers that is not empty has a least one. *)
LEMMA LeastNatural ==
  ASSUME NEW T \in SUBSET Nat, T # {}
  PROVE  \E x \in T : \A y \in T : x <= y
<1> DEFINE R == {p \in Nat \X Nat : p[1] < p[2]}
<1>1. IsWellFoundedOn(R, Nat)
  BY NatLessThanWellFounded DEF OpToRel
<1>2. \A x, y \in Nat : <<y, x>> \in R <=> y < x
  OBVIOUS
<1> HIDE DEF R
<1>3. T \subseteq Nat
  OBVIOUS
<1>4. PICK x \in T : \A y \in T : ~(<<y, x>> \in R)
  BY <1>1, <1>3, WFMin
<1>5. ASSUME NEW y \in T PROVE x <= y
  <2>1. x \in Nat /\ y \in Nat
    BY <1>3
  <2>2. ~(y < x)
    BY <1>2, <1>4, <2>1
  <2> QED
    BY <2>1, <2>2
<1> QED
  BY <1>5

(* So has a set of slots. *)
LEMMA LeastSlot ==
  ASSUME NEW S \in SUBSET Slots, S # {}
  PROVE  \E b \in S : \A c \in S : b <= c
BY LeastNatural DEF Slots

(* The context that is registered says what the function has, and is       *)
(* driven when the function has a decent memory BAR.                       *)
LEMMA HandleIs ==
  ASSUME NEW pool \in Pools, PoolInv(pool), HandleNewPciDevice
  PROVE  LET f == building.fn
         IN  \E c \in Contexts(pool) :
               /\ ctxs' = Append(ctxs, c) /\ c.fn = f /\ c.header = pool[f].header
               /\ c.info = building.info
               /\ \A b \in Slots : InfoFits(c.info[b], pool, f, b)
               /\ mem' \in [DOMAIN pool -> [Slots -> 0 .. 1]]
               /\ \A g \in DOMAIN pool : g # f => mem'[g] = mem[g]
               /\ Decent(pool, f) => c.tested # NoDriver /\ mem'[f][c.tested] = 1
<1> DEFINE f == building.fn
           info == building.info
           drive == TestBarDriverProbe(info)
           tested == TestedBar(info)
           mine == MemoryBars(info)
           c == [fn |-> f, header |-> building.header, info |-> info,
                 tested |-> IF drive THEN tested ELSE NoDriver]
<1>1. /\ building # NoContext /\ building.bar >= BarLimit
      /\ ctxs' = Append(ctxs, c)
      /\ mem' = IF drive THEN [mem EXCEPT ![f] = TestBarDriverInit(info, @)] ELSE mem
  BY DEF HandleNewPciDevice
<1>2. /\ f \in DOMAIN pool /\ building.header = pool[f].header /\ building.bar \in 0 .. 6
      /\ info \in [Slots -> Infos]
  BY <1>1, BuildingFacts
<1>3. ASSUME NEW b \in Slots PROVE InfoFits(info[b], pool, f, b)
  <2>1. IF b < building.bar THEN InfoFits(info[b], pool, f, b) ELSE info[b].size = 0
    BY <1>1 DEF PoolInv, BuildingFits
  <2>2. ~(b < building.bar) => ~HasBar(pool, f, b)
    BY <1>1, <1>2 DEF BarLimit, HasBar, Implemented, Slots
  <2> QED
    BY <2>1, <2>2 DEF InfoFits
<1>4. drive => tested \in mine /\ tested \in Slots
  <2> SUFFICES ASSUME drive PROVE tested \in mine /\ tested \in Slots
    OBVIOUS
  <2>1. mine # {} /\ mine \in SUBSET Slots
    BY DEF TestBarDriverProbe, MemoryBars
  <2>2. \E b \in mine : \A e \in mine : b <= e
    BY <2>1, LeastSlot
  <2> QED
    BY <2>1, <2>2 DEF TestedBar
<1>5. drive => mem' = [mem EXCEPT ![f] = [@ EXCEPT ![tested] = 1]]
  <2> SUFFICES ASSUME drive PROVE mem' = [mem EXCEPT ![f] = [@ EXCEPT ![tested] = 1]]
    OBVIOUS
  <2>1. info[tested].size > 0 /\ tested \in Slots
    BY <1>4 DEF MemoryBars
  <2>2. dev[f].size[tested] = info[tested].size
    <3>1. HasBar(pool, f, tested) /\ info[tested].size = pool[f].bars[tested].size
      BY <1>3, <2>1 DEF InfoFits
    <3>2. Formed(dev[f], pool[f].bars, pool[f].header)
      BY <1>2 DEF PoolInv, DevicesFit
    <3> QED
      BY <2>1, <3>1, <3>2 DEF Formed, HasBar
  <2> HIDE DEF info
  <2>3. TestBarDriverInit(info, mem[f]) = [mem[f] EXCEPT ![tested] = 1]
    BY <2>1, <2>2 DEF TestBarDriverInit, tested
  <2> QED
    BY <1>1, <2>3 DEF info
<1>6. mem \in [DOMAIN pool -> [Slots -> 0 .. 1]]
  BY DEF PoolInv
<1> HIDE DEF drive, tested, mine, info
<1>7. /\ mem' \in [DOMAIN pool -> [Slots -> 0 .. 1]]
      /\ \A g \in DOMAIN pool : g # f => mem'[g] = mem[g]
      /\ drive => mem'[f][tested] = 1
  <2>1. CASE drive
    BY <1>2, <1>4, <1>5, <1>6, <2>1
  <2>2. CASE ~drive
    BY <1>1, <1>6, <2>2
  <2> QED
    BY <2>1, <2>2
<1>8. Decent(pool, f) => drive
  <2> SUFFICES ASSUME NEW b \in Slots, HasBar(pool, f, b), pool[f].bars[b].size >= DecentSize,
                      ~pool[f].bars[b].io
               PROVE  drive
    BY DEF Decent
  <2>1. /\ info[b].size >= DecentSize /\ ~info[b].io /\ info[b].size > 0
    BY <1>3, PoolsAssumption DEF InfoFits, HasBar, Implemented
  <2> QED
    BY <2>1 DEF drive, TestBarDriverProbe, MemoryBars
<1>9. c \in Contexts(pool) /\ c.fn = f /\ c.header = pool[f].header /\ c.info = info
      /\ c.tested = IF drive THEN tested ELSE NoDriver
  <2>1. (IF drive THEN tested ELSE NoDriver) \in 0 .. NoDriver
    BY <1>4 DEF NoDriver, Slots
  <2>2. pool[f].header \in {0, 1}
    BY <1>2, PoolFacts
  <2> QED
    BY <1>2, <2>1, <2>2 DEF Contexts
<1>10. drive => tested # NoDriver
  BY <1>4 DEF NoDriver, Slots
<1> HIDE DEF c
<1>11. ctxs' = Append(ctxs, c) /\ c.info = building.info
  BY <1>1, <1>9 DEF c, info
<1>12. \A b \in Slots : InfoFits(c.info[b], pool, f, b)
  BY <1>3, <1>9
<1> QED
  BY <1>7, <1>8, <1>9, <1>10, <1>11, <1>12

(* A context that is appended registers its function. *)
LEMMA RegisteredAppend ==
  ASSUME NEW pool, ctxs \in Seq(Contexts(pool)), NEW c \in Contexts(pool), ctxs' = Append(ctxs, c)
  PROVE  Registered' = Registered \union {c.fn}
<1>1. /\ Len(ctxs') = Len(ctxs) + 1 /\ Len(ctxs) \in Nat
      /\ DOMAIN ctxs = 1 .. Len(ctxs) /\ DOMAIN ctxs' = 1 .. Len(ctxs) + 1
      /\ \A i \in 1 .. Len(ctxs) : ctxs'[i] = ctxs[i]
      /\ ctxs'[Len(ctxs) + 1] = c
  OBVIOUS
<1> QED
  BY <1>1 DEF Registered

(* Registering a function moves the scan past it, and down behind a        *)
(* bridge.                                                                 *)
LEMMA HandleScan ==
  ASSUME NEW pool \in Pools, PoolInv(pool), HandleNewPciDevice
  PROVE  ScanFits(pool)'
<1> DEFINE f == building.fn
           later == [stack EXCEPT ![Len(stack)].at = @ + 1]
<1>1. /\ building # NoContext
      /\ stack' = IF Descends THEN Append(later, [bus |-> SecondaryBus, at |-> 0]) ELSE later
  BY DEF HandleNewPciDevice
<1>2. /\ f = At(Top) /\ Top.at < End /\ f \in DOMAIN pool /\ building.header = pool[f].header
  BY <1>1, BuildingFacts DEF PoolInv, BuildingFits
<1>3. Registered' = Registered \union {f}
  <2>1. ctxs \in Seq(Contexts(pool))
    BY DEF PoolInv, ContextsFit
  <2> QED
    BY <2>1, HandleIs, RegisteredAppend
<1>4. ASSUME NEW a \in 0 .. End, RootScan(pool, a)
      PROVE  ScanFits(pool)'
  <2>0. Top = Frame(0, a) /\ Top.at = a /\ Len(stack) = 1
    BY <1>4, TopIs
  <2>1. Top = Frame(0, a) /\ Top.at = a /\ Len(stack) = 1 /\ Top.bus = 0
    BY <2>0 DEF Frame
  <2>2. f = At(Frame(0, a)) /\ a < End
    BY <1>2, <2>1
  <2>3. /\ f \in VisibleIn(DOMAIN pool) /\ FrameFits(pool, 0, a + 1)
        /\ ScannedTo(pool, 0, a + 1) = ScannedTo(pool, 0, a) \union {f}
        /\ f \notin ScannedTo(pool, 0, a)
    BY <1>2, <1>4, <2>2, PassedFunction DEF RootScan, Buses
  <2>4. later = <<Frame(0, a + 1)>>
    <3>1. [<<Frame(0, a)>> EXCEPT ![1].at = a + 1] = <<Frame(0, a + 1)>>
      BY RootMoves
    <3> QED
      BY <1>4, <2>1, <3>1 DEF RootScan, Frame
  <2>5. f[1] = 0
    BY <2>2, PositionAt DEF Buses
  <2>6. a + 1 \in 0 .. End
    BY <2>3 DEF FrameFits
  <2> HIDE DEF later
  <2>7. CASE building.header = 1
    <3>1. stack' = <<Frame(0, a + 1), Frame(1, 0)>>
      <4>1. Descends
        BY <2>1, <2>7 DEF Descends, SecondaryBus
      <4> QED
        BY <1>1, <2>4, <4>1, StackOps DEF SecondaryBus, Frame
    <3>2. ~BridgeBefore(pool, a)
      <4> SUFFICES ASSUME NEW g \in ScannedTo(pool, 0, a), pool[g].header = 1 PROVE FALSE
        BY DEF BridgeBefore
      <4>1. g \in VisibleIn(DOMAIN pool) /\ g[1] = 0
        BY DEF ScannedTo
      <4>2. g = f
        BY <1>2, <2>3, <2>5, <2>7, <4>1, PoolsAssumption
      <4> QED
        BY <2>3, <4>2
    <3>3. BridgeBefore(pool, a + 1)
      BY <1>2, <2>3, <2>7 DEF BridgeBefore
    <3>4. ScannedTo(pool, 1, 0) = {}
      <4> SUFFICES ASSUME NEW g \in VisibleIn(DOMAIN pool), Position(g) < 0 PROVE FALSE
        BY DEF ScannedTo
      <4> QED
        BY PositionOf, EndType DEF VisibleIn
    <3>5. FrameFits(pool, 1, 0)
      BY EndType DEF FrameFits
    <3>6. BridgeScan(pool, a + 1, 0)'
      BY <1>3, <1>4, <2>3, <3>1, <3>2, <3>3, <3>4, <3>5 DEF BridgeScan, RootScan, Behind
    <3> QED
      BY <2>6, <3>6, EndType DEF ScanFits
  <2>8. CASE building.header # 1
    <3>1. stack' = <<Frame(0, a + 1)>>
      BY <1>1, <2>4, <2>8 DEF Descends
    <3>2. BridgeBefore(pool, a + 1) <=> BridgeBefore(pool, a)
      BY <1>2, <2>3, <2>8 DEF BridgeBefore
    <3>3. RootScan(pool, a + 1)'
      BY <1>3, <1>4, <2>3, <3>1, <3>2 DEF RootScan, Behind
    <3> QED
      BY <2>6, <3>3 DEF ScanFits
  <2> QED
    BY <2>7, <2>8
<1>5. ASSUME NEW a \in 0 .. End, NEW c \in 0 .. End, BridgeScan(pool, a, c)
      PROVE  ScanFits(pool)'
  <2>1. Top = Frame(1, c) /\ Top.at = c /\ Len(stack) = 2 /\ Top.bus = 1
    BY <1>5, TopIs DEF Frame
  <2>2. f = At(Frame(1, c)) /\ c < End
    BY <1>2, <2>1
  <2>3. /\ f \in VisibleIn(DOMAIN pool) /\ FrameFits(pool, 1, c + 1)
        /\ ScannedTo(pool, 1, c + 1) = ScannedTo(pool, 1, c) \union {f}
    BY <1>2, <1>5, <2>2, PassedFunction DEF BridgeScan, Buses
  <2>4. later = <<Frame(0, a), Frame(1, c + 1)>>
    <3>1. [<<Frame(0, a), Frame(1, c)>> EXCEPT ![2].at = c + 1] = <<Frame(0, a), Frame(1, c + 1)>>
      BY BridgeMoves
    <3> QED
      BY <1>5, <2>1, <3>1 DEF BridgeScan, Frame
  <2>5. stack' = later
    BY <1>1, <2>1 DEF Descends, SecondaryBus
  <2>6. BridgeScan(pool, a, c + 1)'
    BY <1>3, <1>5, <2>3, <2>4, <2>5 DEF BridgeScan
  <2> QED
    BY <2>3, <2>6 DEF ScanFits, FrameFits
<1>6. ~ScanOver(pool)
  BY <1>1 DEF ScanOver, PoolInv, BuildingFits
<1> QED
  BY <1>4, <1>5, <1>6 DEF PoolInv, ScanFits

(* Registering a function keeps the invariant. *)
LEMMA HandleFits ==
  ASSUME NEW pool \in Pools, PoolInv(pool), HandleNewPciDevice
  PROVE  PoolInv(pool)'
<1> DEFINE f == building.fn
<1>1. PICK c \in Contexts(pool) :
        /\ ctxs' = Append(ctxs, c) /\ c.fn = f /\ c.header = pool[f].header
        /\ \A b \in Slots : InfoFits(c.info[b], pool, f, b)
        /\ mem' \in [DOMAIN pool -> [Slots -> 0 .. 1]]
        /\ \A g \in DOMAIN pool : g # f => mem'[g] = mem[g]
        /\ Decent(pool, f) => c.tested # NoDriver /\ mem'[f][c.tested] = 1
  BY HandleIs
<1>2. building # NoContext /\ building' = NoContext /\ dev' = dev /\ nextMmio' = nextMmio /\ nextIo' = nextIo
  BY DEF HandleNewPciDevice
<1>3. f \in VisibleIn(DOMAIN pool) /\ f \in DOMAIN pool /\ f \notin Registered
  BY <1>2, BuildingSeen
<1>4. ContextsFit(pool)
  BY DEF PoolInv
<1> DEFINE n == Len(ctxs)
<1>5. /\ ctxs \in Seq(Contexts(pool)) /\ n \in Nat /\ ctxs' \in Seq(Contexts(pool)) /\ Len(ctxs') = n + 1
      /\ DOMAIN ctxs = 1 .. n /\ ctxs'[n + 1] = c
      /\ \A i \in 1 .. n : ctxs'[i] = ctxs[i] /\ ctxs[i] \in Contexts(pool)
  BY <1>1, <1>4 DEF ContextsFit
<1> HIDE DEF f, n
<1>6. \A i \in 1 .. n : ctxs[i].fn # f /\ ctxs[i].fn \in DOMAIN pool
  BY <1>3, <1>5 DEF Registered, Contexts
<1>7. ASSUME NEW i \in 1 .. n + 1
      PROVE  /\ ctxs'[i].header = pool[ctxs'[i].fn].header
             /\ \A b \in Slots : InfoFits(ctxs'[i].info[b], pool, ctxs'[i].fn, b)
             /\ Decent(pool, ctxs'[i].fn) =>
                  ctxs'[i].tested # NoDriver /\ mem'[ctxs'[i].fn][ctxs'[i].tested] = 1
  <2>1. CASE i = n + 1
    BY <1>1, <1>5, <2>1
  <2>2. CASE i # n + 1
    <3>1. i \in 1 .. n
      BY <1>5, <2>2
    <3>2. ContextFits(pool, ctxs[i]) /\ mem'[ctxs[i].fn] = mem[ctxs[i].fn] /\ ctxs'[i] = ctxs[i]
      BY <1>1, <1>4, <1>5, <1>6, <3>1 DEF ContextsFit, n
    <3>3. ~Enumerated
      BY <1>2 DEF PoolInv, BuildingFits, Enumerated
    <3> QED
      BY <3>2, <3>3 DEF ContextFits
  <2> QED
    BY <2>1, <2>2
<1>8. ASSUME NEW i \in 1 .. n + 1, NEW j \in 1 .. n + 1, ctxs'[i].fn = ctxs'[j].fn
      PROVE  i = j
  <2>1. \A k \in 1 .. n + 1 : k = n + 1 \/ k \in 1 .. n
    BY <1>5
  <2>2. CASE i \in 1 .. n /\ j \in 1 .. n
    BY <1>4, <1>5, <1>8, <2>2 DEF ContextsFit, n
  <2> QED
    BY <1>1, <1>5, <1>6, <1>8, <2>1, <2>2
<1>9. ASSUME NEW j \in 1 .. n + 1, ctxs'[j].fn[1] = 1
      PROVE  \E i \in 1 .. j - 1 : ctxs'[i].fn[1] = 0 /\ ctxs'[i].header = 1
  <2>1. CASE j \in 1 .. n
    <3>1. PICK i \in 1 .. j - 1 : ctxs[i].fn[1] = 0 /\ ctxs[i].header = 1
      BY <1>4, <1>5, <1>9, <2>1 DEF ContextsFit, n
    <3>2. i \in 1 .. n
      BY <1>5, <2>1
    <3> QED
      BY <1>5, <3>1, <3>2
  <2>2. CASE j = n + 1
    <3>1. f[1] = 1
      BY <1>1, <1>5, <1>9, <2>2
    <3>2. f = At(Top) /\ Top.at < End
      BY <1>2 DEF PoolInv, BuildingFits, f
    <3>3. ASSUME NEW a \in 0 .. End, RootScan(pool, a) PROVE FALSE
      <4>1. f = At(Frame(0, a)) /\ a < End
        BY <3>2, <3>3, TopIs
      <4> QED
        BY <3>1, <4>1, PositionAt DEF Buses
    <3>4. \E g \in Registered : g[1] = 0 /\ pool[g].header = 1
      <4>1. PICK a \in 0 .. End, e \in 0 .. End : BridgeScan(pool, a, e)
        BY <1>2, <3>3 DEF PoolInv, ScanFits
      <4>2. PICK g \in ScannedTo(pool, 0, a) : pool[g].header = 1
        BY <4>1 DEF BridgeScan, BridgeBefore
      <4> QED
        BY <4>1, <4>2 DEF BridgeScan, ScannedTo
    <3>5. PICK i \in 1 .. n : ctxs[i].fn[1] = 0 /\ pool[ctxs[i].fn].header = 1
      BY <1>5, <3>4 DEF Registered
    <3>6. ctxs[i].header = 1
      BY <1>4, <3>5 DEF ContextsFit, ContextFits, n
    <3>7. i \in 1 .. j - 1
      BY <1>5, <2>2
    <3> QED
      BY <1>5, <3>5, <3>6, <3>7
  <2> QED
    BY <1>5, <2>1, <2>2
<1>10. ContextsFit(pool)'
  <2>1. \A i \in 1 .. n + 1 : ContextFits(pool, ctxs[i])'
    BY <1>7 DEF ContextFits
  <2> QED
    BY <1>5, <1>8, <1>9, <2>1 DEF ContextsFit
<1>11. DevicesFit(pool)' /\ BuildingFits(pool)'
  BY <1>2 DEF PoolInv, DevicesFit, BuildingFits
<1> QED
  BY <1>1, <1>2, <1>10, <1>11, HandleScan DEF PoolInv

(* The handler changes the remembered addresses of one function, and those *)
(* only that it was told of.                                               *)
LEMMA HandlerIs ==
  ASSUME NEW pool \in Pools, ContextsFit(pool), NEW f, NEW told,
         \A b \in Slots : b \in DOMAIN told => told[b] \in Nat,
         ctxs' = BarChangeHandler(ctxs, f, told)
  PROVE  /\ ctxs' \in Seq(Contexts(pool)) /\ Len(ctxs') = Len(ctxs) /\ DOMAIN ctxs' = 1 .. Len(ctxs)
         /\ \A i \in 1 .. Len(ctxs) :
              /\ ctxs'[i].fn = ctxs[i].fn /\ ctxs'[i].header = ctxs[i].header
              /\ ctxs'[i].tested = ctxs[i].tested
              /\ \A b \in Slots :
                   /\ ctxs'[i].info[b].size = ctxs[i].info[b].size
                   /\ ctxs'[i].info[b].io = ctxs[i].info[b].io
                   /\ ctxs'[i].info[b].wide = ctxs[i].info[b].wide
                   /\ ctxs'[i].info[b].base = IF ctxs[i].fn = f /\ b \in DOMAIN told
                                              THEN told[b] ELSE ctxs[i].info[b].base
<1> DEFINE n == Len(ctxs)
           mine == {i \in DOMAIN ctxs : ctxs[i].fn = f}
           C == Contexts(pool)
<1>1. ctxs \in Seq(C) /\ n \in Nat /\ DOMAIN ctxs = 1 .. n /\ \A i \in 1 .. n : ctxs[i] \in C
  BY DEF ContextsFit
<1>2. CASE mine = {}
  <2>1. ctxs' = ctxs
    BY <1>2 DEF BarChangeHandler
  <2>2. \A i \in 1 .. n : ctxs[i].fn # f
    BY <1>1, <1>2
  <2> QED
    BY <1>1, <2>1, <2>2
<1>3. CASE mine # {}
  <2> PICK k \in 1 .. n : ctxs[k].fn = f
    BY <1>1, <1>3
  <2>1. \A i \in 1 .. n : ctxs[i].fn = f <=> i = k
    BY DEF ContextsFit
  <2>2. mine = {k}
    BY <1>1, <2>1
  <2> DEFINE first == CHOOSE i \in mine : \A j \in mine : i <= j
  <2>3. first = k
    <3>1. \E i \in {k} : \A j \in {k} : i <= j
      BY <1>1
    <3>2. first \in {k}
      BY <2>2, <3>1
    <3> QED
      BY <3>2
  <2> DEFINE infos == [b \in Slots |-> IF b \in DOMAIN told THEN [ctxs[k].info[b] EXCEPT !.base = told[b]]
                                                           ELSE ctxs[k].info[b]]
  <2>4. ctxs' = [ctxs EXCEPT ![k].info = infos]
    <3>1. ctxs' = [ctxs EXCEPT ![first].info =
                     [b \in Slots |-> IF b \in DOMAIN told THEN [@[b] EXCEPT !.base = told[b]] ELSE @[b]]]
      BY <1>3, Zenon DEF BarChangeHandler
    <3> HIDE DEF first
    <3> QED
      BY <2>3, <3>1, Zenon
  <2>5. ctxs[k].info \in [Slots -> Infos]
    BY <1>1 DEF Contexts
  <2>6. ASSUME NEW b \in Slots
        PROVE  /\ infos[b] \in Infos /\ infos[b].size = ctxs[k].info[b].size
               /\ infos[b].io = ctxs[k].info[b].io /\ infos[b].wide = ctxs[k].info[b].wide
               /\ infos[b].base = IF b \in DOMAIN told THEN told[b] ELSE ctxs[k].info[b].base
    <3>1. CASE b \in DOMAIN told
      <4> PICK one : one = [ctxs[k].info[b] EXCEPT !.base = told[b]]
        OBVIOUS
      <4>1. infos[b] = one
        BY <3>1
      <4> QED
        BY <2>5, <3>1, <4>1 DEF Infos
    <3>2. CASE b \notin DOMAIN told
      <4>1. infos[b] = ctxs[k].info[b]
        BY <3>2
      <4> QED
        BY <2>5, <3>2, <4>1
    <3> QED
      BY <3>1, <3>2
  <2>7. infos \in [Slots -> Infos]
    <3>1. infos = [b \in Slots |-> infos[b]]
      OBVIOUS
    <3> HIDE DEF infos
    <3> QED
      BY <2>6, <3>1
  <2> HIDE DEF infos
  <2> PICK c : c = [ctxs[k] EXCEPT !.info = infos]
    OBVIOUS
  <2>8. /\ c \in C /\ c.fn = ctxs[k].fn /\ c.header = ctxs[k].header
        /\ c.tested = ctxs[k].tested /\ c.info = infos
    BY <1>1, <2>7 DEF Contexts
  <2> HIDE DEF C
  <2>9. ctxs' = [ctxs EXCEPT ![k] = c]
    BY <2>4
  <2>10. /\ ctxs' \in Seq(C) /\ Len(ctxs') = n /\ DOMAIN ctxs' = 1 .. n
         /\ \A i \in 1 .. n : ctxs'[i] = IF i = k THEN c ELSE ctxs[i]
    BY <1>1, <2>8, <2>9
  <2>11. ASSUME NEW i \in 1 .. n
         PROVE  /\ ctxs'[i].fn = ctxs[i].fn /\ ctxs'[i].header = ctxs[i].header
                /\ ctxs'[i].tested = ctxs[i].tested
                /\ \A b \in Slots :
                     /\ ctxs'[i].info[b].size = ctxs[i].info[b].size
                     /\ ctxs'[i].info[b].io = ctxs[i].info[b].io
                     /\ ctxs'[i].info[b].wide = ctxs[i].info[b].wide
                     /\ ctxs'[i].info[b].base = IF ctxs[i].fn = f /\ b \in DOMAIN told
                                                THEN told[b] ELSE ctxs[i].info[b].base
    <3>1. CASE i = k
      <4>1. ctxs'[i] = c /\ ctxs[i].fn = f
        BY <2>10, <3>1
      <4>2. ctxs'[i].fn = ctxs[i].fn /\ ctxs'[i].header = ctxs[i].header
            /\ ctxs'[i].tested = ctxs[i].tested /\ ctxs'[i].info = infos
        BY <2>8, <3>1, <4>1
      <4> QED
        BY <2>6, <3>1, <4>1, <4>2
    <3>2. CASE i # k
      BY <2>1, <2>10, <3>2
    <3> QED
      BY <3>1, <3>2
  <2> QED
    BY <2>10, <2>11 DEF C
<1> QED
  BY <1>2, <1>3

(* Contexts stay fit when only their remembered addresses change.          *)
LEMMA HandlerFits ==
  ASSUME NEW pool \in Pools, ContextsFit(pool), NEW f, NEW told,
         \A b \in Slots : b \in DOMAIN told => told[b] \in Nat,
         ctxs' = BarChangeHandler(ctxs, f, told), mem' = mem, stack' = stack
  PROVE  ContextsFit(pool)' /\ Registered' = Registered
<1> DEFINE n == Len(ctxs)
<1>1. /\ ctxs' \in Seq(Contexts(pool)) /\ Len(ctxs') = n /\ DOMAIN ctxs' = 1 .. n
      /\ \A i \in 1 .. n :
           /\ ctxs'[i].fn = ctxs[i].fn /\ ctxs'[i].header = ctxs[i].header
           /\ ctxs'[i].tested = ctxs[i].tested
           /\ \A b \in Slots :
                /\ ctxs'[i].info[b].size = ctxs[i].info[b].size
                /\ ctxs'[i].info[b].io = ctxs[i].info[b].io
                /\ ctxs'[i].info[b].wide = ctxs[i].info[b].wide
  BY HandlerIs
<1>2. n \in Nat /\ DOMAIN ctxs = 1 .. n
  BY DEF ContextsFit
<1>3. Registered' = Registered
  BY <1>1, <1>2 DEF Registered
<1>4. ASSUME NEW i \in 1 .. n PROVE ContextFits(pool, ctxs[i])'
  <2>1. ContextFits(pool, ctxs[i])
    BY DEF ContextsFit
  <2>2. \A b \in Slots : InfoFits(ctxs'[i].info[b], pool, ctxs'[i].fn, b)
    BY <1>1, <2>1 DEF ContextFits, InfoFits
  <2> QED
    BY <1>1, <2>1, <2>2 DEF ContextFits, Enumerated
<1>5. \A i, j \in 1 .. n : ctxs'[i].fn = ctxs'[j].fn => i = j
  BY <1>1 DEF ContextsFit
<1>6. ASSUME NEW j \in 1 .. n, ctxs'[j].fn[1] = 1
      PROVE  \E i \in 1 .. j - 1 : ctxs'[i].fn[1] = 0 /\ ctxs'[i].header = 1
  <2>1. PICK i \in 1 .. j - 1 : ctxs[i].fn[1] = 0 /\ ctxs[i].header = 1
    BY <1>1, <1>6 DEF ContextsFit
  <2>2. i \in 1 .. n
    BY <1>2
  <2> QED
    BY <1>1, <2>1, <2>2
<1> HIDE DEF n
<1>7. ContextsFit(pool)'
  BY <1>1, <1>4, <1>5, <1>6 DEF ContextsFit
<1> QED
  BY <1>3, <1>7

(* After the walk no scan and no function is under way.                    *)
LEMMA WalkIsOver ==
  ASSUME NEW pool \in Pools, PoolInv(pool), Enumerated
  PROVE  ScanOver(pool) /\ building = NoContext
<1>1. ASSUME NEW a \in 0 .. End, RootScan(pool, a) PROVE FALSE
  BY <1>1, TopIs DEF Enumerated
<1>2. ASSUME NEW a \in 0 .. End, NEW c \in 0 .. End, BridgeScan(pool, a, c) PROVE FALSE
  BY <1>2, TopIs DEF Enumerated
<1> QED
  BY <1>1, <1>2 DEF PoolInv, ScanFits

(* What is left of the invariant when a function has been reconfigured.    *)
LEMMA ReconfiguredFits ==
  ASSUME NEW pool \in Pools, PoolInv(pool), Enumerated,
         UNCHANGED <<stack, building, nextMmio, nextIo, mem>>,
         DevicesFit(pool)', ContextsFit(pool)', Registered' = Registered
  PROVE  PoolInv(pool)'
<1>1. ScanOver(pool) /\ building = NoContext
  BY WalkIsOver
<1>2. ScanFits(pool)'
  BY <1>1 DEF ScanFits, ScanOver
<1>3. BuildingFits(pool)'
  BY <1>1 DEF BuildingFits
<1> QED
  BY <1>2, <1>3 DEF PoolInv

(* A write to the command register changes nothing else of the function.   *)
LEMMA CommandIs ==
  ASSUME NEW pool \in Pools, PoolInv(pool), NEW f \in Functions, NEW bits, SetCommand(f, bits)
  PROVE  /\ f \in DOMAIN pool /\ DevicesFit(pool)'
         /\ \A g \in DOMAIN pool : dev'[g].reg = dev[g].reg
         /\ ctxs' = BarChangeHandler(ctxs, f, <<>>)
<1> PICK d : d = dev[f]
  OBVIOUS
<1> PICK m : m = WriteCommand(d, bits)
  OBVIOUS
<1> PICK e : e = [m EXCEPT !.told = <<>>]
  OBVIOUS
<1> DEFINE mask == PciSimGetDeviceCommandMask(d)
           cmd == (d.cmd \ mask) \union (bits \intersect mask)
<1>1. f \in DOMAIN pool /\ DevicesFit(pool)
  BY DEF PoolInv, DevicesFit, Functions
<1>2. /\ Formed(d, pool[f].bars, pool[f].header) /\ d.cmd \subseteq mask
      /\ WindowsFit(d, pool[f].header)
  BY <1>1 DEF DevicesFit
<1>3. d = [header |-> d.header, cmd |-> d.cmd, active |-> d.active, reg |-> d.reg,
           size |-> d.size, low |-> d.low, high |-> d.high, baseUpper |-> d.baseUpper,
           limitUpper |-> d.limitUpper, told |-> d.told]
  BY <1>2 DEF Formed, AtRest, IsDevice
<1>4. m = [d EXCEPT !.cmd = cmd]
  BY DEF WriteCommand
<1> HIDE DEF cmd
<1>5. m = [header |-> d.header, cmd |-> cmd, active |-> d.active, reg |-> d.reg,
           size |-> d.size, low |-> d.low, high |-> d.high, baseUpper |-> d.baseUpper,
           limitUpper |-> d.limitUpper, told |-> d.told]
  BY <1>3, <1>4
<1>6. e = [header |-> d.header, cmd |-> cmd, active |-> d.active, reg |-> d.reg,
           size |-> d.size, low |-> d.low, high |-> d.high, baseUpper |-> d.baseUpper,
           limitUpper |-> d.limitUpper, told |-> <<>>]
  BY <1>5
<1>7. m.told = <<>>
  BY <1>2, <1>5 DEF Formed
<1>8. Formed(e, pool[f].bars, pool[f].header)
  <2>1. AtRest(d) /\ d.header = pool[f].header
    BY <1>2 DEF Formed
  <2>2. AtRest(e)
    BY <1>6, <2>1 DEF AtRest, IsDevice
  <2>3. e.reg = d.reg /\ e.size = d.size /\ e.header = d.header /\ e.told = <<>>
    BY <1>6
  <2> QED
    BY <1>2, <2>2, <2>3 DEF Formed, RegisterFits
<1>9. /\ e.cmd \subseteq PciSimGetDeviceCommandMask(e) /\ e.reg = d.reg
      /\ WindowsFit(e, pool[f].header)
  <2>1. /\ e.cmd = cmd /\ e.header = d.header /\ e.reg = d.reg
        /\ e.baseUpper = d.baseUpper /\ e.limitUpper = d.limitUpper
    BY <1>6
  <2>2. cmd \subseteq mask
    BY <1>2 DEF cmd
  <2> QED
    BY <1>2, <2>1, <2>2 DEF PciSimGetDeviceCommandMask, WindowsFit
<1>10. /\ dev' = [dev EXCEPT ![f] = e] /\ ctxs' = BarChangeHandler(ctxs, f, m.told)
  BY DEF SetCommand, Reconfigured
<1>11. /\ dev' = [g \in DOMAIN pool |-> IF g = f THEN e ELSE dev[g]]
  BY <1>1, <1>10 DEF DevicesFit
<1>12. DevicesFit(pool)'
  <2>1. ASSUME NEW g \in DOMAIN pool
        PROVE  /\ Formed(dev'[g], pool[g].bars, pool[g].header)
               /\ dev'[g].cmd \subseteq PciSimGetDeviceCommandMask(dev'[g])
               /\ WindowsFit(dev'[g], pool[g].header)
    <3>1. CASE g = f
      <4>1. dev'[g] = e
        BY <1>11, <3>1
      <4> QED
        BY <1>2, <1>8, <1>9, <3>1, <4>1
    <3>2. CASE g # f
      BY <1>1, <1>11, <3>2 DEF DevicesFit
    <3> QED
      BY <3>1, <3>2
  <2>2. DOMAIN dev' = DOMAIN pool /\ dev' = [g \in DOMAIN pool |-> dev'[g]]
    BY <1>11
  <2> QED
    BY <2>1, <2>2 DEF DevicesFit
<1>13. ctxs' = BarChangeHandler(ctxs, f, <<>>)
  BY <1>7, <1>10
<1> QED
  BY <1>1, <1>9, <1>11, <1>12, <1>13

(* Writing a command register keeps the invariant. *)
LEMMA SetCommandFits ==
  ASSUME NEW pool \in Pools, PoolInv(pool), NEW f \in Functions, NEW bits, SetCommand(f, bits)
  PROVE  PoolInv(pool)'
<1>1. /\ DevicesFit(pool)' /\ ctxs' = BarChangeHandler(ctxs, f, <<>>)
  BY CommandIs
<1>2. Enumerated /\ UNCHANGED <<stack, building, nextMmio, nextIo, mem>> /\ ContextsFit(pool)
  BY DEF SetCommand, PoolInv
<1>3. ContextsFit(pool)' /\ Registered' = Registered
  <2>1. \A b \in Slots : b \in DOMAIN <<>> => <<>>[b] \in Nat
    BY DEF Slots
  <2> QED
    BY <1>1, <1>2, <2>1, HandlerFits
<1> QED
  BY <1>1, <1>2, <1>3, ReconfiguredFits

(* Software moves a BAR: the register takes what it can of the address,    *)
(* and the context of the function hears what it took.                     *)
LEMMA MoveBarIs ==
  ASSUME NEW pool \in Pools, PoolInv(pool), NEW f \in Functions, NEW b \in Slots,
         NEW address \in Moves, MoveBar(f, b, address)
  PROVE  LET to == Taken(pool[f].bars[b], address % Dword)
         IN  /\ f \in DOMAIN pool /\ HasBar(pool, f, b) /\ to \in Nat
             /\ DevicesFit(pool)' /\ AddressOf(f, b)' = to
             /\ \A g \in DOMAIN pool, c \in Slots :
                  HasBar(pool, g, c) /\ <<g, c>> # <<f, b>> => AddressOf(g, c)' = AddressOf(g, c)
             /\ ctxs' = BarChangeHandler(ctxs, f, NotifyBarChange(<<>>, b, to))
<1> DEFINE m == PciSetBarAddress(dev[f], b, address)
           to == Taken(pool[f].bars[b], address % Dword)
<1>1. f \in DOMAIN pool /\ DevicesFit(pool)
  BY DEF PoolInv, DevicesFit, Functions
<1>2. HasBar(pool, f, b)
  <2>1. dev[f].size[b] > 0
    BY DEF MoveBar
  <2>2. Formed(dev[f], pool[f].bars, pool[f].header)
    BY <1>1, DeviceFacts
  <2>3. dev[f].size[b] = IF Implemented(pool[f].bars, pool[f].header, b) THEN pool[f].bars[b].size ELSE 0
    BY <2>2 DEF Formed
  <2> QED
    BY <2>1, <2>3 DEF HasBar
<1>3. address \in 0 .. Dword - 1 /\ address \in Nat /\ address % Dword \in 0 .. Dword - 1
  BY PoolsAssumption, DwordType
<1>4. dev' = [dev EXCEPT ![f] = Told(m, <<>>)] /\ ctxs' = BarChangeHandler(ctxs, f, m.told)
  BY DEF MoveBar, Reconfigured, Told
<1>5. to \in Nat
  <2>1. BarFormed(pool[f].bars[b])
    BY <1>1, <1>2, PoolFacts DEF LayoutFormed, HasBar
  <2> QED
    BY <1>3, <2>1, TakenFacts, DwordType
<1>6. address < Dword
  BY <1>3, DwordType
<1>7. /\ DevicesFit(pool)' /\ AddressOf(f, b)' = to
      /\ \A g \in DOMAIN pool, c \in Slots :
           HasBar(pool, g, c) /\ <<g, c>> # <<f, b>> => AddressOf(g, c)' = AddressOf(g, c)
      /\ m.told = NotifyBarChange(<<>>, b, to)
  BY <1>1, <1>2, <1>3, <1>4, <1>6, DeviceAddressed
<1> HIDE DEF m, to
<1> QED
  BY <1>1, <1>2, <1>4, <1>5, <1>7 DEF to

(* Moving a BAR keeps the invariant. *)
LEMMA MoveBarFits ==
  ASSUME NEW pool \in Pools, PoolInv(pool), NEW f \in Functions, NEW b \in Slots,
         NEW address \in Moves, MoveBar(f, b, address)
  PROVE  PoolInv(pool)'
<1> DEFINE to == Taken(pool[f].bars[b], address % Dword)
           news == NotifyBarChange(<<>>, b, to)
<1>1. /\ to \in Nat /\ DevicesFit(pool)' /\ ctxs' = BarChangeHandler(ctxs, f, news)
  BY MoveBarIs
<1>2. Enumerated /\ UNCHANGED <<stack, building, nextMmio, nextIo, mem>> /\ ContextsFit(pool)
  BY DEF MoveBar, PoolInv
<1> HIDE DEF to
<1>3. \A c \in Slots : c \in DOMAIN news => news[c] \in Nat
  BY <1>1 DEF NotifyBarChange, Slots
<1> HIDE DEF news
<1>4. ContextsFit(pool)' /\ Registered' = Registered
  BY <1>1, <1>2, <1>3, HandlerFits
<1> QED
  BY <1>1, <1>2, <1>4, ReconfiguredFits

(* Every step keeps the invariant of the enumeration. *)
LEMMA NextFits ==
  ASSUME NEW pool \in Pools, PoolInv(pool), AllocatorsFit, AllocatorsFit', [Next]_pciVars
  PROVE  PoolInv(pool)'
<1>1. CASE PciEnumerate
  BY <1>1, ScanNothingFits, ScanFunctionFits, ScanBusEndsFits, CreateBarFits, AssignSkipFits,
     AssignFits, HandleFits DEF PciEnumerate
<1>2. CASE Configure
  BY <1>2, SetCommandFits, MoveBarFits DEF Configure
<1>3. CASE UNCHANGED pciVars
  <2>1. /\ DevicesFit(pool)' /\ ContextsFit(pool)' /\ Registered' = Registered
        /\ (mem \in [DOMAIN pool -> [Slots -> 0 .. 1]] /\ nextMmio \in Nat /\ nextIo \in Nat)'
    BY <1>3, Untouched DEF pciVars, Enumerated
  <2>2. stack' = stack /\ building' = building /\ Top' = Top /\ At(Top)' = At(Top)
    BY <1>3 DEF pciVars, Top, At
  <2> QED
    BY <2>1, <2>2 DEF PoolInv, ScanFits, RootScan, BridgeScan, ScanOver, BuildingFits
<1> QED
  BY <1>1, <1>2, <1>3 DEF Next

(* What a register of a BAR says of its kind is what the BAR is.           *)
LEMMA DeviceKinds ==
  ASSUME NEW pool \in Pools, DevicesFit(pool), NEW f \in DOMAIN pool, NEW b \in Slots
  PROVE  /\ dev[f].size[b] = IF HasBar(pool, f, b) THEN pool[f].bars[b].size ELSE 0
         /\ HasBar(pool, f, b) =>
              /\ BarFormed(pool[f].bars[b]) /\ ~IsHigh(b) /\ b + 1 \in Slots
              /\ pool[f].bars[b].size \in Nat \ {0} /\ dev[f].size[b] > 0
              /\ IsIo(dev[f].reg[b]) <=> pool[f].bars[b].io
              /\ Is64(dev[f].reg[b]) <=> pool[f].bars[b].wide
              /\ BarAddress(dev[f], b) = AddressOf(f, b) /\ AddressOf(f, b) \in Nat
<1> DEFINE bar == pool[f].bars[b]
           v == dev[f].reg[b]
<1>1. /\ Formed(dev[f], pool[f].bars, pool[f].header) /\ AtRest(dev[f])
      /\ LayoutFormed(pool[f].bars, pool[f].header)
  BY DeviceFacts
<1>2. dev[f].size[b] = IF HasBar(pool, f, b) THEN pool[f].bars[b].size ELSE 0
  BY <1>1 DEF Formed, HasBar
<1>3. ASSUME HasBar(pool, f, b)
      PROVE  /\ BarFormed(pool[f].bars[b]) /\ ~IsHigh(b) /\ b + 1 \in Slots
             /\ pool[f].bars[b].size \in Nat \ {0} /\ dev[f].size[b] > 0
             /\ IsIo(dev[f].reg[b]) <=> pool[f].bars[b].io
             /\ Is64(dev[f].reg[b]) <=> pool[f].bars[b].wide
             /\ BarAddress(dev[f], b) = AddressOf(f, b) /\ AddressOf(f, b) \in Nat
  <2>1. BarFormed(bar) /\ ~IsHigh(b) /\ b + 1 \in Slots
    BY <1>1, <1>3 DEF LayoutFormed, HasBar, IsHigh, Slots
  <2>2. bar.size \in Nat \ {0} /\ TypeBits(bar) \in {0, 1, 4}
        /\ (TypeBits(bar) = 1 <=> bar.io) /\ (TypeBits(bar) = 4 <=> bar.wide)
    BY <2>1, BarFacts
  <2>3. v % 16 = TypeBits(bar)
    BY <1>1, <1>3 DEF Formed, RegisterFits, HasBar
  <2>4. v \in Nat
    BY <1>1, DwordType DEF AtRest, IsDevice, Registers
  <2>5. (IsIo(v) <=> bar.io) /\ (Is64(v) <=> bar.wide)
    BY <2>2, <2>3, <2>4, KindBits
  <2>6. dev[f].reg[b + 1] = 0
    BY <1>3, DeviceFacts
  <2>7. Align(v, 16) \in Nat
    BY <2>4 DEF Align
  <2>8. BarAddress(dev[f], b) = Align(v, 16)
    BY <1>1, <1>3, <2>6, <2>7, FormedAddress, DwordType DEF HasBar
  <2>9. dev[f].size[b] > 0
    BY <1>2, <1>3, <2>2
  <2> QED
    BY <2>1, <2>2, <2>5, <2>7, <2>8, <2>9 DEF AddressOf
<1> QED
  BY <1>2, <1>3

(* Types of the whole system. *)
LEMMA EnumerationTypes == EnumerationInv /\ AllocatorsFit => TypeOK
<1> SUFFICES ASSUME EnumerationInv, AllocatorsFit PROVE TypeOK
  OBVIOUS
<1> PICK pool \in Pools : PoolInv(pool)
  BY DEF EnumerationInv
<1>1. Functions = DOMAIN pool /\ DevicesFit(pool)
  BY DEF PoolInv, DevicesFit, Functions
<1>2. \A f \in Functions : dev[f].reg \in [Slots -> 0 .. Dword - 1]
  BY <1>1, DeviceFacts DEF AtRest, IsDevice, Registers
<1>3. \A f \in Functions : dev[f].told = <<>> /\ dev[f].cmd \subseteq PciSimGetDeviceCommandMask(dev[f])
  BY <1>1 DEF DevicesFit, Formed
<1>4. \A i \in DOMAIN stack : stack[i].bus \in Buses /\ stack[i].at \in Positions
  <2>1. ASSUME NEW bus, NEW at, FrameFits(pool, bus, at), bus \in Buses
        PROVE  Frame(bus, at).bus \in Buses /\ Frame(bus, at).at \in Positions
    BY <2>1 DEF Frame, FrameFits, Positions, End
  <2>2. ASSUME NEW a \in 0 .. End, RootScan(pool, a)
        PROVE  \A i \in DOMAIN stack : stack[i].bus \in Buses /\ stack[i].at \in Positions
    <3> DEFINE x == Frame(0, a)
    <3>1. x.bus \in Buses /\ x.at \in Positions
      BY <2>1, <2>2 DEF RootScan, Buses
    <3>2. stack = <<x>>
      BY <2>2 DEF RootScan
    <3> HIDE DEF x
    <3> QED
      BY <3>1, <3>2
  <2>3. ASSUME NEW a \in 0 .. End, NEW c \in 0 .. End, BridgeScan(pool, a, c)
        PROVE  \A i \in DOMAIN stack : stack[i].bus \in Buses /\ stack[i].at \in Positions
    <3> DEFINE x == Frame(0, a)
               y == Frame(1, c)
    <3>1. x.bus \in Buses /\ x.at \in Positions /\ y.bus \in Buses /\ y.at \in Positions
      BY <2>1, <2>3 DEF BridgeScan, Buses
    <3>2. stack = <<x, y>>
      BY <2>3 DEF BridgeScan
    <3> HIDE DEF x, y
    <3> QED
      BY <3>1, <3>2
  <2>4. stack = <<>> => \A i \in DOMAIN stack : stack[i].bus \in Buses /\ stack[i].at \in Positions
    OBVIOUS
  <2> QED
    BY <2>2, <2>3, <2>4 DEF PoolInv, ScanFits, ScanOver
<1>5. building = NoContext \/ (building.fn \in Functions /\ building.bar \in 0 .. 7)
  BY <1>1 DEF PoolInv, BuildingFits
<1>6. \A i \in DOMAIN ctxs : ctxs[i].fn \in Functions /\ ctxs[i].tested \in 0 .. NoDriver
  <2>1. ctxs \in Seq(Contexts(pool))
    BY DEF PoolInv, ContextsFit
  <2>2. \A i \in DOMAIN ctxs : ctxs[i] \in Contexts(pool)
    BY <2>1
  <2> QED
    BY <1>1, <2>2 DEF Contexts
<1>7. mem \in [Functions -> [Slots -> 0 .. 1]]
  BY <1>1 DEF PoolInv
<1> QED
  BY <1>2, <1>3, <1>4, <1>5, <1>6, <1>7 DEF TypeOK

(* The invariant says what main relies on when the walk is over.           *)
LEMMA EnumerationIsExact == EnumerationInv /\ AllocatorsFit => EnumerationExact
<1> SUFFICES ASSUME EnumerationInv, AllocatorsFit PROVE EnumerationExact
  OBVIOUS
<1> PICK pool \in Pools : PoolInv(pool)
  BY DEF EnumerationInv
<1> DEFINE n == Len(ctxs)
<1>1. Functions = DOMAIN pool /\ DevicesFit(pool) /\ ContextsFit(pool)
  BY DEF PoolInv, DevicesFit, Functions
<1>2. /\ DOMAIN ctxs = 1 .. n /\ n \in Nat
      /\ \A i \in 1 .. n : ctxs[i] \in Contexts(pool) /\ ContextFits(pool, ctxs[i])
  BY <1>1 DEF ContextsFit
<1>3. RegisteredOnce
  <2>1. ASSUME Enumerated PROVE Registered = Reachable
    <3>1. Registered = ScannedTo(pool, 0, End) \union Behind(pool, End)
      BY <2>1, WalkIsOver DEF ScanOver
    <3>2. \A f \in VisibleIn(DOMAIN pool) :
            /\ f \in DOMAIN pool /\ f[1] \in {0, 1} /\ Position(f) < End
            /\ dev[f].header = pool[f].header
      <4> SUFFICES ASSUME NEW f \in VisibleIn(DOMAIN pool)
                   PROVE  /\ f \in DOMAIN pool /\ f[1] \in {0, 1} /\ Position(f) < End
                          /\ dev[f].header = pool[f].header
        OBVIOUS
      <4>1. f \in DOMAIN pool
        BY DEF VisibleIn
      <4>2. f[1] \in Buses /\ Position(f) \in 0 .. End - 1
        BY <4>1, PositionOf
      <4>3. dev[f].header = pool[f].header
        BY <1>1, <4>1, DeviceFacts DEF Formed
      <4> QED
        BY <4>1, <4>2, <4>3, EndType DEF Buses
    <3>3. BridgeBefore(pool, End) <=> \E g \in Visible : g[1] = 0 /\ dev[g].header = 1
      BY <1>1, <3>2 DEF BridgeBefore, ScannedTo, Visible
    <3>4. ScannedTo(pool, 0, End) = {f \in Visible : f[1] = 0}
          /\ ScannedTo(pool, 1, End) = {f \in Visible : f[1] = 1}
      BY <1>1, <3>2 DEF ScannedTo, Visible
    <3>5. \A f \in Visible : f[1] = 0 \/ f[1] = 1
      BY <1>1, <3>2 DEF Visible
    <3>6. CASE BridgeBefore(pool, End)
      <4>1. Reachable = Visible
        BY <3>3, <3>6 DEF Reachable
      <4>2. Registered = Visible
        BY <3>1, <3>4, <3>5, <3>6 DEF Behind
      <4> QED
        BY <4>1, <4>2
    <3>7. CASE ~BridgeBefore(pool, End)
      <4>1. Reachable = {f \in Visible : f[1] = 0}
        BY <3>3, <3>7 DEF Reachable
      <4>2. Registered = ScannedTo(pool, 0, End)
        BY <3>1, <3>7 DEF Behind
      <4> QED
        BY <3>4, <4>1, <4>2
    <3> QED
      BY <3>6, <3>7
  <2>2. \A i, j \in DOMAIN ctxs : ctxs[i].fn = ctxs[j].fn => i = j
    BY <1>1, <1>2 DEF ContextsFit
  <2>3. \A j \in DOMAIN ctxs : ctxs[j].fn[1] = 1 =>
          \E i \in 1 .. j - 1 : ctxs[i].fn[1] = 0 /\ ctxs[i].header = 1
    BY <1>1, <1>2 DEF ContextsFit
  <2> QED
    BY <2>1, <2>2, <2>3 DEF RegisteredOnce
<1>4. BarsKnown
  <2>1. ASSUME NEW i \in DOMAIN ctxs, NEW b \in Slots
        PROVE  LET d == dev[ctxs[i].fn]
                   info == ctxs[i].info[b]
               IN  /\ info.size = d.size[b]
                   /\ d.size[b] > 0 => info.io = IsIo(d.reg[b]) /\ info.wide = (~info.io /\ Is64(d.reg[b]))
    <3> DEFINE f == ctxs[i].fn
               info == ctxs[i].info[b]
               bar == pool[f].bars[b]
    <3>1. f \in DOMAIN pool /\ info \in Infos /\ InfoFits(info, pool, f, b)
      BY <1>2 DEF Contexts, ContextFits
    <3>2. info.io \in BOOLEAN /\ info.wide \in BOOLEAN
      BY <3>1 DEF Infos
    <3>3. /\ dev[f].size[b] = IF HasBar(pool, f, b) THEN bar.size ELSE 0
          /\ HasBar(pool, f, b) =>
               /\ BarFormed(bar)
               /\ IsIo(dev[f].reg[b]) <=> bar.io
               /\ Is64(dev[f].reg[b]) <=> bar.wide
      BY <1>1, <3>1, DeviceKinds
    <3>4. info.size = dev[f].size[b]
      BY <3>1, <3>3 DEF InfoFits
    <3>5. dev[f].size[b] > 0 => HasBar(pool, f, b)
      BY <3>3
    <3>6. HasBar(pool, f, b) => /\ info.io <=> IsIo(dev[f].reg[b])
                                /\ info.wide <=> (~info.io /\ Is64(dev[f].reg[b]))
      BY <3>1, <3>3 DEF InfoFits, BarFormed
    <3>7. IsIo(dev[f].reg[b]) \in BOOLEAN
      BY DEF IsIo
    <3>8. HasBar(pool, f, b) => /\ info.io = IsIo(dev[f].reg[b])
                                /\ info.wide = (~info.io /\ Is64(dev[f].reg[b]))
      <4>1. \A p, q \in BOOLEAN : (p <=> q) => p = q
        OBVIOUS
      <4>2. (~info.io /\ Is64(dev[f].reg[b])) \in BOOLEAN
        BY DEF Is64
      <4> HIDE DEF info, f
      <4> QED
        BY <3>2, <3>6, <3>7, <4>1, <4>2
    <3> QED
      BY <3>4, <3>5, <3>8
  <2> QED
    BY <2>1 DEF BarsKnown
<1>5. DriverProbed
  <2>1. ASSUME ~Enumerated, NEW i \in DOMAIN ctxs, NEW b \in Slots,
               dev[ctxs[i].fn].size[b] >= DecentSize, ~IsIo(dev[ctxs[i].fn].reg[b])
        PROVE  ctxs[i].tested # NoDriver /\ mem[ctxs[i].fn][ctxs[i].tested] = 1
    <3> DEFINE f == ctxs[i].fn
    <3>1. f \in DOMAIN pool /\ ContextFits(pool, ctxs[i])
      BY <1>2 DEF Contexts
    <3>2. /\ dev[f].size[b] = IF HasBar(pool, f, b) THEN pool[f].bars[b].size ELSE 0
          /\ HasBar(pool, f, b) => (IsIo(dev[f].reg[b]) <=> pool[f].bars[b].io)
      BY <1>1, <3>1, DeviceKinds
    <3>3. HasBar(pool, f, b)
      BY <2>1, <3>2, PoolsAssumption
    <3>4. Decent(pool, f)
      BY <2>1, <3>2, <3>3 DEF Decent
    <3> QED
      BY <2>1, <3>1, <3>4 DEF ContextFits
  <2> QED
    BY <2>1 DEF DriverProbed
<1> QED
  BY <1>3, <1>4, <1>5, EnumerationTypes DEF EnumerationExact

----------------------------------------------------------------------------
(* The addresses the walk assigns *)

(* A function that has a BAR has a first BAR, whose size, which the        *)
(* allocators advance by, is a multiple of the BAR's.                      *)
LEMMA ClaimFacts ==
  ASSUME NEW pool \in Pools, NEW f \in DOMAIN pool, NEW b \in Slots, HasBar(pool, f, b)
  PROVE  /\ HasBar(pool, f, 0) /\ Claim(pool, f) \in Nat \ {0}
         /\ pool[f].bars[b].size \in Nat \ {0} /\ pool[f].bars[b].size <= Claim(pool, f)
         /\ Claim(pool, f) % pool[f].bars[b].size = 0
<1> DEFINE n == Claim(pool, f)
           s == pool[f].bars[b].size
<1>1. HasBar(pool, f, 0) /\ n % s = 0
  BY FirstBarAssumption DEF HasBar, Claim
<1>2. n \in Nat \ {0} /\ s \in Nat \ {0}
  <2>1. BarFormed(pool[f].bars[b]) /\ BarFormed(pool[f].bars[0])
    BY <1>1, PoolFacts DEF LayoutFormed, HasBar, Slots
  <2> QED
    BY <2>1, BarFacts DEF Claim
<1> HIDE DEF n, s
<1>3. s <= n
  <2> SUFFICES ASSUME n < s PROVE FALSE
    BY <1>2
  <2>1. (0 * s + n) % s = n
    BY <1>2, QuotientUnique
  <2> QED
    BY <1>1, <1>2, <2>1
<1> QED
  BY <1>1, <1>2, <1>3 DEF n, s

(* Rounding the next address up to the size of the first BAR.              *)
LEMMA RoundUp ==
  ASSUME NEW next \in Nat, NEW size \in Nat \ {0}
  PROVE  LET addr == Align(next + size - 1, size)
         IN  addr \in Nat /\ next <= addr /\ addr % size = 0
<1> DEFINE v == next + size - 1
           q == v \div size
           r == v % size
           addr == Align(v, size)
<1>1. v \in Nat
  OBVIOUS
<1>2. v = q * size + r /\ q \in Nat /\ r \in 0 .. size - 1 /\ addr = v - r
  BY <1>1, Division DEF Align
<1> HIDE DEF v, q, r, addr
<1>3. addr = q * size + 0 /\ q \in Int
  <2>1. q * size \in Nat
    BY <1>2
  <2> QED
    BY <1>1, <1>2, <2>1
<1>4. addr % size = 0
  BY <1>3, QuotientUnique
<1>5. addr >= next /\ addr \in Nat
  BY <1>2 DEF v
<1> QED
  BY <1>4, <1>5 DEF addr, v

(* A BAR takes the address it is assigned as it is, and the allocator of   *)
(* its space goes past the claim of its function.                          *)
LEMMA AssignClaims ==
  ASSUME NEW pool \in Pools, PoolInv(pool), AllocatorsFit, AllocatorsFit', AssignBarAddress,
         IoAligned(pool),
         NEW f, f = building.fn, NEW i, i = building.assign,
         NEW addr, addr = NextAddress(building.info[i], building.info[0].size)
  PROVE  /\ addr \in Nat /\ AddressOf(f, i)' = addr /\ HasBar(pool, f, i) /\ f \in DOMAIN pool /\ i \in Slots
         /\ IF pool[f].bars[i].io
            THEN addr = nextIo /\ nextIo' = addr + Claim(pool, f) /\ nextMmio' = nextMmio
            ELSE addr >= nextMmio /\ nextMmio' = addr + Claim(pool, f) /\ nextIo' = nextIo
<1> DEFINE info == building.info[i]
           bar == pool[f].bars[i]
           size == building.info[0].size
           s == bar.size
<1>1. /\ building # NoContext /\ f \in DOMAIN pool /\ i \in Slots /\ HasBar(pool, f, i)
      /\ addr \in Nat /\ (~bar.io => addr < Dword)
      /\ AddressOf(f, i)' = Taken(bar, addr % Dword)
  BY AssignIs
<1>2. /\ info.size # 0
      /\ nextIo' = IF info.io THEN nextIo + size ELSE nextIo
      /\ nextMmio' = IF info.io THEN nextMmio ELSE addr + size
  BY DEF AssignBarAddress
<1>3. i < building.bar /\ info.io = bar.io /\ building.bar \in 0 .. 6
  BY <1>1, <1>2, BuildingFacts
<1>4. /\ HasBar(pool, f, 0) /\ Claim(pool, f) \in Nat \ {0} /\ s \in Nat \ {0}
      /\ s <= Claim(pool, f) /\ Claim(pool, f) % s = 0
  BY <1>1, ClaimFacts
<1>5. size = Claim(pool, f)
  <2>1. 0 \in Slots /\ 0 < building.bar
    BY <1>1, <1>3 DEF Slots
  <2>2. InfoFits(building.info[0], pool, f, 0)
    BY <1>1, <2>1 DEF PoolInv, BuildingFits
  <2> QED
    BY <1>4, <2>2 DEF InfoFits, Claim
<1>6. BarFormed(bar)
  BY <1>1, PoolFacts DEF LayoutFormed, HasBar
<1>7. /\ s % 16 = 0 /\ (s >= Dword => bar.wide) /\ (bar.wide => ~bar.io)
  BY <1>6, BarFacts DEF BarFormed
<1>8. nextMmio \in Nat /\ nextIo \in Nat /\ nextMmio' <= Dword /\ nextIo' <= Dword
      /\ nextIo' \in Int /\ nextMmio' \in Int
  BY DwordType DEF AllocatorsFit
<1> DEFINE n == Claim(pool, f)
<1>9. CASE bar.io
  <2>1. addr = nextIo /\ nextIo' = addr + n /\ nextMmio' = nextMmio
    BY <1>2, <1>3, <1>5, <1>9 DEF NextAddress
  <2>2. addr % s = 0
    BY <1>1, <1>9, <2>1 DEF IoAligned
  <2>3. addr < Dword
    BY <1>1, <1>4, <1>8, <2>1, DwordType
  <2>4. addr % Dword = addr
    BY <1>1, <2>3, DwordType
  <2>5. Taken(bar, addr) = addr
    <3>1. s < Dword /\ addr - 0 = addr
      BY <1>1, <1>4, <1>7, <1>9, DwordType
    <3>2. Align(addr, s) = addr
      BY <2>2, <3>1 DEF Align
    <3> QED
      BY <3>1, <3>2 DEF Taken
  <2> QED
    BY <1>1, <1>9, <2>1, <2>4, <2>5
<1>10. CASE ~bar.io
  <2>1. addr = IF size = 0 THEN 0 ELSE Align(nextMmio + size - 1, size)
    BY <1>3, <1>10 DEF NextAddress, AllocateMmioAddress
  <2>2. nextMmio' = addr + n /\ nextIo' = nextIo
    BY <1>2, <1>3, <1>5, <1>10
  <2> HIDE DEF size, n
  <2>3. n \in Nat \ {0} /\ size = n
    BY <1>4, <1>5 DEF n
  <2>4. addr \in Nat /\ nextMmio <= addr /\ addr % n = 0
    BY <1>8, <2>1, <2>3, RoundUp
  <2>5. addr % s = 0
    <3>1. (addr % n) % s = addr % s
      <4>1. n % s = 0 /\ s \in Nat \ {0} /\ addr \in Nat
        BY <1>4, <2>4 DEF n
      <4> HIDE DEF s
      <4> QED
        BY <2>3, <4>1, RemainderDivides
    <3>2. 0 % s = 0
      BY <1>4
    <3> QED
      BY <2>4, <3>1, <3>2
  <2>6. addr % Dword = addr
    BY <1>1, <1>10, DwordType
  <2>7. Taken(bar, addr) = addr
    <3>1. CASE s < Dword
      BY <1>1, <2>5, <3>1 DEF Taken, Align
    <3>2. CASE s >= Dword
      <4>1. addr = 0
        BY <1>4, <1>8, <2>2, <2>4, <3>2, DwordType DEF n
      <4> QED
        BY <1>4, <3>2, <4>1, DwordType DEF Taken
    <3> QED
      BY <1>4, <3>1, <3>2, DwordType
  <2> QED
    BY <1>1, <1>10, <2>2, <2>4, <2>6, <2>7 DEF n
<1> QED
  BY <1>9, <1>10

(* The claims stay apart when nothing new is assigned.                     *)
LEMMA NothingAssigned ==
  ASSUME NEW pool \in Pools, AddressesFit(pool), ClaimsApart(pool), IoAligned(pool),
         UNCHANGED <<nextMmio, nextIo>>,
         \A f \in DOMAIN pool, b \in Slots :
           /\ Settled(pool, f, b)' => Settled(pool, f, b)
           /\ HasBar(pool, f, b) => AddressOf(f, b)' = AddressOf(f, b)
  PROVE  AddressesFit(pool)' /\ ClaimsApart(pool)' /\ IoAligned(pool)'
<1>1. IoAligned(pool)'
  BY DEF IoAligned
<1>2. \A f \in DOMAIN pool, b \in Slots :
        Settled(pool, f, b)' => Settled(pool, f, b) /\ AddressOf(f, b)' = AddressOf(f, b)
  BY DEF Settled
<1>3. AddressesFit(pool)'
  BY <1>2 DEF AddressesFit
<1>4. ASSUME NEW f \in DOMAIN pool, NEW g \in DOMAIN pool, NEW b \in Slots, NEW c \in Slots,
             Settled(pool, f, b)', Settled(pool, g, c)', <<f, b>> # <<g, c>>,
             pool[f].bars[b].io = pool[g].bars[c].io
      PROVE  Apart(pool, f, b, g, c)'
  <2>1. Apart(pool, f, b, g, c)
    BY <1>2, <1>4 DEF ClaimsApart
  <2> QED
    BY <1>2, <1>4, <2>1 DEF Apart
<1>5. ClaimsApart(pool)'
  BY <1>4 DEF ClaimsApart
<1> QED
  BY <1>1, <1>3, <1>5

(* A step that moves no BAR, registers nothing and finds no BAR keeps the  *)
(* assignment as it was.                                                   *)
LEMMA AssignmentKept ==
  ASSUME NEW pool \in Pools, PoolInv(pool), AssignInv(pool), UNCHANGED <<dev, ctxs, nextMmio, nextIo>>,
         Enumerated => Enumerated',
         building' # NoContext => \A b \in Slots :
           BuildAssigned(b)' => /\ BuildAssigned(b) /\ building # NoContext /\ building'.fn = building.fn
                                /\ building'.info[b].base = building.info[b].base
  PROVE  AssignInv(pool)'
<1>1. Registered' = Registered
  BY DEF Registered
<1>2. \A f \in DOMAIN pool, b \in Slots : AddressOf(f, b)' = AddressOf(f, b)
  BY DEF AddressOf
<1>3. \A f \in DOMAIN pool, b \in Slots : Settled(pool, f, b)' => Settled(pool, f, b)
  BY <1>1 DEF Settled
<1>4. ~Enumerated' => AddressesFit(pool)' /\ ClaimsApart(pool)' /\ IoAligned(pool)'
  <2> SUFFICES ASSUME ~Enumerated' PROVE AddressesFit(pool)' /\ ClaimsApart(pool)' /\ IoAligned(pool)'
    OBVIOUS
  <2>1. AddressesFit(pool) /\ ClaimsApart(pool) /\ IoAligned(pool)
    BY DEF AssignInv
  <2> QED
    BY <1>2, <1>3, <2>1, NothingAssigned
<1>5. CacheFits(pool)'
  <2>1. CacheFits(pool)
    BY DEF AssignInv
  <2>2. \A i \in 1 .. Len(ctxs'), b \in Slots :
          HasBar(pool, ctxs'[i].fn, b) => ctxs'[i].info[b].base = AddressOf(ctxs[i].fn, b)'
    BY <2>1 DEF CacheFits, AddressOf
  <2>3. building' # NoContext => \A b \in Slots :
          BuildAssigned(b)' => building'.info[b].base = AddressOf(building.fn, b)'
    BY <2>1 DEF CacheFits, AddressOf
  <2> QED
    BY <2>2, <2>3 DEF CacheFits
<1> QED
  BY <1>4, <1>5 DEF AssignInv

(* Steps that move no BAR keep the assignment. *)
LEMMA ScanAssigns ==
  ASSUME NEW pool \in Pools, PoolInv(pool), AssignInv(pool),
         ScanNothing \/ ScanFunction \/ ScanBusEnds \/ AssignSkip \/ UNCHANGED pciVars
  PROVE  AssignInv(pool)'
<1>1. CASE ScanNothing \/ ScanBusEnds
  <2>1. UNCHANGED <<dev, ctxs, nextMmio, nextIo>> /\ ~Enumerated /\ building' = NoContext
    BY <1>1 DEF ScanNothing, ScanBusEnds, Scanning, Enumerated
  <2> QED
    BY <2>1, AssignmentKept
<1>2. CASE ScanFunction
  <2>1. UNCHANGED <<dev, ctxs, nextMmio, nextIo>> /\ ~Enumerated
    BY <1>2 DEF ScanFunction, Scanning, Enumerated
  <2>2. building'.info = [b \in Slots |-> NoInfo] /\ NoInfo.size = 0
    BY <1>2 DEF ScanFunction, NoInfo
  <2>3. \A b \in Slots : ~BuildAssigned(b)'
    BY <2>2 DEF BuildAssigned
  <2> QED
    BY <2>1, <2>3, AssignmentKept
<1>3. CASE AssignSkip
  <2>1. /\ UNCHANGED <<dev, ctxs, nextMmio, nextIo>> /\ building # NoContext
        /\ building' = [building EXCEPT !.assign = @ + 1]
        /\ building.info[building.assign].size = 0
    BY <1>3 DEF AssignSkip
  <2>2. ~Enumerated
    BY <2>1 DEF PoolInv, BuildingFits, Enumerated
  <2>3. /\ building'.info = building.info /\ building'.fn = building.fn
        /\ building'.assign = building.assign + 1 /\ building.assign \in 0 .. 6
    <3>1. building = [fn |-> building.fn, header |-> pool[building.fn].header, info |-> building.info,
                      bar |-> building.bar, assign |-> building.assign]
      BY <2>1, BuildingFacts
    <3>2. building.assign \in 0 .. 6
      BY <2>1, BuildingFacts
    <3> QED
      BY <2>1, <3>1, <3>2
  <2>4. ASSUME NEW b \in Slots, BuildAssigned(b)' PROVE BuildAssigned(b)
    <3>1. /\ building.info[b].size # 0
          /\ b < building.assign + 1 \/ \E c \in Slots : b < c /\ building.info[c].size # 0
      BY <2>3, <2>4 DEF BuildAssigned
    <3>2. b # building.assign
      BY <2>1, <3>1
    <3>3. b < building.assign + 1 => b < building.assign
      BY <2>3, <3>2 DEF Slots
    <3> QED
      BY <2>1, <3>1, <3>3 DEF BuildAssigned
  <2> QED
    BY <2>1, <2>2, <2>3, <2>4, AssignmentKept
<1>4. CASE UNCHANGED pciVars
  <2>1. UNCHANGED <<dev, ctxs, nextMmio, nextIo, building, stack>>
    BY <1>4 DEF pciVars
  <2>2. \A b \in Slots : BuildAssigned(b)' => BuildAssigned(b) /\ building # NoContext
    BY <2>1 DEF BuildAssigned
  <2>3. Enumerated => Enumerated'
    BY <2>1 DEF Enumerated
  <2> QED
    BY <2>1, <2>2, <2>3, AssignmentKept
<1> QED
  BY <1>1, <1>2, <1>3, <1>4

(* Sizing a BAR keeps the assignment: the new BAR counts from its turn of  *)
(* AssignBarAddress on.                                                    *)
LEMMA CreateBarAssigns ==
  ASSUME NEW pool \in Pools, PoolInv(pool), AssignInv(pool), CreateBar
  PROVE  AssignInv(pool)'
<1> DEFINE f == building.fn
           b == building.bar
<1>1. PICK info \in Infos :
        /\ building # NoContext /\ b \in Slots /\ building.assign = 6
        /\ dev' = dev /\ ctxs' = ctxs
        /\ building' = [fn |-> f, header |-> building.header,
                        info |-> [building.info EXCEPT ![b] = info],
                        bar |-> IF info.size # 0 /\ info.wide THEN b + 2 ELSE b + 1,
                        assign |-> IF info.size = 0 THEN 6 ELSE 0]
  BY CreateBarIs
<1>2. nextMmio' = nextMmio /\ nextIo' = nextIo
  BY DEF CreateBar
<1>3. ~Enumerated
  BY <1>1 DEF PoolInv, BuildingFits, Enumerated
<1>4. building.info \in [Slots -> Infos] /\ \A c \in Slots : building.info[c].size # 0 => c < b
  BY <1>1, BuildingFacts
<1>5. /\ building'.fn = f /\ building'.assign = IF info.size = 0 THEN 6 ELSE 0
      /\ building'.info = [building.info EXCEPT ![b] = info]
  BY <1>1
<1>6. \A c \in Slots : building'.info[c] = IF c = b THEN info ELSE building.info[c]
  BY <1>1, <1>4, <1>5
<1>7. ASSUME NEW c \in Slots, BuildAssigned(c)'
      PROVE  BuildAssigned(c) /\ building'.info[c].base = building.info[c].base
  <2>1. /\ building'.info[c].size # 0
        /\ c < building'.assign \/ \E e \in Slots : c < e /\ building'.info[e].size # 0
    BY <1>7 DEF BuildAssigned
  <2>2. c # b
    <3> SUFFICES ASSUME c = b PROVE FALSE
      OBVIOUS
    <3>1. info.size # 0 /\ building'.assign = 0
      BY <1>5, <1>6, <2>1
    <3>2. PICK e \in Slots : c < e /\ building'.info[e].size # 0
      BY <2>1, <3>1 DEF Slots
    <3>3. e # b /\ building.info[e].size # 0
      BY <1>6, <3>2 DEF Slots
    <3> QED
      BY <1>4, <3>2, <3>3 DEF Slots
  <2>3. building.info[c].size # 0 /\ building'.info[c] = building.info[c]
    BY <1>6, <2>1, <2>2
  <2> QED
    BY <1>1, <2>3 DEF BuildAssigned, Slots
<1> QED
  BY <1>1, <1>2, <1>3, <1>5, <1>7, AssignmentKept

(* The address a BAR is given is past every claim of its space, so the     *)
(* claims stay apart.                                                      *)
LEMMA AddressAssigns ==
  ASSUME NEW pool \in Pools, PoolInv(pool), AssignInv(pool), AllocatorsFit, AllocatorsFit',
         AssignBarAddress
  PROVE  AssignInv(pool)'
<1> PICK f : f = building.fn
  OBVIOUS
<1> PICK i : i = building.assign
  OBVIOUS
<1> PICK addr : addr = NextAddress(building.info[i], building.info[0].size)
  OBVIOUS
<1>1. /\ building # NoContext /\ ctxs' = ctxs
      /\ \A g \in DOMAIN pool, c \in Slots :
           HasBar(pool, g, c) /\ <<g, c>> # <<f, i>> => AddressOf(g, c)' = AddressOf(g, c)
      /\ building' = [fn |-> f, header |-> building.header,
                      info |-> [building.info EXCEPT ![i] = [@ EXCEPT !.base = addr]],
                      bar |-> building.bar, assign |-> i + 1]
  BY AssignIs
<1>2. ~Enumerated
  BY <1>1 DEF PoolInv, BuildingFits, Enumerated
<1>3. AddressesFit(pool) /\ ClaimsApart(pool) /\ IoAligned(pool) /\ CacheFits(pool)
  BY <1>2 DEF AssignInv
<1>4. /\ addr \in Nat /\ AddressOf(f, i)' = addr /\ HasBar(pool, f, i) /\ f \in DOMAIN pool /\ i \in Slots
      /\ IF pool[f].bars[i].io
         THEN addr = nextIo /\ nextIo' = addr + Claim(pool, f) /\ nextMmio' = nextMmio
         ELSE addr >= nextMmio /\ nextMmio' = addr + Claim(pool, f) /\ nextIo' = nextIo
  BY <1>3, AssignClaims
<1>5. Claim(pool, f) \in Nat \ {0}
  BY <1>4, ClaimFacts
<1>6. building.info \in [Slots -> Infos] /\ building.info[i].size # 0
  BY <1>1, BuildingFacts DEF AssignBarAddress
<1>7. f \notin Registered /\ Registered' = Registered
  BY <1>1, BuildingSeen DEF Registered
<1> PICK one : one = [building.info[i] EXCEPT !.base = addr]
  OBVIOUS
<1>8. one.base = addr /\ one.size = building.info[i].size
  BY <1>4, <1>6 DEF Infos
<1>9. /\ building'.fn = f /\ building'.assign = i + 1 /\ building' # NoContext
      /\ \A c \in Slots : building'.info[c] = IF c = i THEN one ELSE building.info[c]
  <2>1. building'.info = [building.info EXCEPT ![i] = one]
    BY <1>1
  <2>2. building'.fn = f /\ building'.assign = i + 1
    BY <1>1
  <2>3. building' # NoContext
    <3>1. DevicesFit(pool)' /\ BuildingFits(pool)
      BY AssignIs DEF PoolInv
    <3>2. DOMAIN building' = {"fn", "header", "info", "bar", "assign"}
      BY <1>1
    <3>3. DOMAIN NoContext = {"fn"}
      BY DEF NoContext
    <3> QED
      BY <3>2, <3>3
  <2> QED
    BY <1>4, <1>6, <2>1, <2>2, <2>3
<1>10. ASSUME NEW c \in Slots, BuildAssigned(c)', c # i PROVE BuildAssigned(c)
  <2>1. /\ building.info[c].size # 0
        /\ c < i + 1 \/ \E e \in Slots : c < e /\ building.info[e].size # 0
    BY <1>8, <1>9, <1>10 DEF BuildAssigned
  <2>2. c < i + 1 => c < i
    BY <1>4, <1>10 DEF Slots
  <2> QED
    BY <1>1, <2>1, <2>2 DEF BuildAssigned
<1>11. ASSUME NEW g \in DOMAIN pool, NEW c \in Slots, Settled(pool, g, c)', <<g, c>> # <<f, i>>
       PROVE  Settled(pool, g, c) /\ AddressOf(g, c)' = AddressOf(g, c)
  <2>1. HasBar(pool, g, c)
    BY <1>11 DEF Settled
  <2>2. AddressOf(g, c)' = AddressOf(g, c)
    BY <1>1, <1>11, <2>1
  <2>3. CASE g \in Registered
    BY <2>1, <2>2, <2>3 DEF Settled
  <2>4. CASE g \notin Registered
    <3>1. g = f /\ BuildAssigned(c)'
      BY <1>7, <1>9, <1>11, <2>4 DEF Settled
    <3>2. BuildAssigned(c)
      BY <1>10, <1>11, <3>1
    <3> QED
      BY <1>1, <2>1, <2>2, <3>1, <3>2 DEF Settled
  <2> QED
    BY <2>3, <2>4
<1>12. nextMmio \in Nat /\ nextIo \in Nat /\ nextMmio' >= nextMmio /\ nextIo' >= nextIo
  BY <1>4, <1>5 DEF PoolInv
<1>13. \A g \in DOMAIN pool, c \in Slots : HasBar(pool, g, c) =>
         AddressOf(g, c) \in Nat /\ Claim(pool, g) \in Nat
  BY DeviceKinds, ClaimFacts DEF PoolInv
<1>13a. nextMmio' \in Nat /\ nextIo' \in Nat /\ MmioStart \in Nat
  BY <1>4, <1>5, <1>12, PoolsAssumption
<1>14. AddressesFit(pool)'
  <2>1. ASSUME NEW g \in DOMAIN pool, NEW c \in Slots, Settled(pool, g, c)'
        PROVE  IF pool[g].bars[c].io THEN AddressOf(g, c)' + Claim(pool, g) <= nextIo'
               ELSE MmioStart <= AddressOf(g, c)' /\ AddressOf(g, c)' + Claim(pool, g) <= nextMmio'
    <3>1. CASE <<g, c>> = <<f, i>>
      <4>1. ~pool[f].bars[i].io => MmioStart <= nextMmio
        BY <1>3 DEF AddressesFit
      <4> QED
        BY <1>4, <1>5, <1>12, <1>13a, <3>1, <4>1
    <3>2. CASE <<g, c>> # <<f, i>>
      <4>1. Settled(pool, g, c) /\ AddressOf(g, c)' = AddressOf(g, c) /\ HasBar(pool, g, c)
        BY <1>11, <2>1, <3>2 DEF Settled
      <4>2. AddressOf(g, c) \in Nat /\ Claim(pool, g) \in Nat
        BY <1>13, <4>1
      <4>3. IF pool[g].bars[c].io THEN AddressOf(g, c) + Claim(pool, g) <= nextIo
            ELSE MmioStart <= AddressOf(g, c) /\ AddressOf(g, c) + Claim(pool, g) <= nextMmio
        BY <1>3, <4>1 DEF AddressesFit
      <4> QED
        BY <1>12, <1>13a, <4>1, <4>2, <4>3
    <3> QED
      BY <3>1, <3>2
  <2>2. MmioStart <= nextMmio'
    BY <1>3, <1>12, <1>13a DEF AddressesFit
  <2> QED
    BY <2>1, <2>2 DEF AddressesFit
<1>15. ASSUME NEW g \in DOMAIN pool, NEW c \in Slots, Settled(pool, g, c), HasBar(pool, g, c),
             pool[g].bars[c].io = pool[f].bars[i].io
       PROVE  AddressOf(g, c) + Claim(pool, g) <= addr
  <2>1. AddressOf(g, c) \in Nat /\ Claim(pool, g) \in Nat
    BY <1>13, <1>15
  <2>2. IF pool[g].bars[c].io THEN AddressOf(g, c) + Claim(pool, g) <= nextIo
        ELSE MmioStart <= AddressOf(g, c) /\ AddressOf(g, c) + Claim(pool, g) <= nextMmio
    BY <1>3, <1>15 DEF AddressesFit
  <2> QED
    BY <1>4, <1>12, <1>15, <2>1, <2>2
<1>16. ClaimsApart(pool)'
  <2>1. ASSUME NEW g \in DOMAIN pool, NEW h \in DOMAIN pool, NEW c \in Slots, NEW e \in Slots,
               Settled(pool, g, c)', Settled(pool, h, e)', <<g, c>> # <<h, e>>,
               pool[g].bars[c].io = pool[h].bars[e].io
        PROVE  Apart(pool, g, c, h, e)'
    <3>1. HasBar(pool, g, c) /\ HasBar(pool, h, e)
      BY <2>1 DEF Settled
    <3>2. CASE <<g, c>> = <<f, i>>
      <4>1. Settled(pool, h, e) /\ AddressOf(h, e)' = AddressOf(h, e)
        BY <1>11, <2>1, <3>2
      <4>2. AddressOf(h, e) + Claim(pool, h) <= addr
        BY <1>15, <2>1, <3>1, <3>2, <4>1
      <4>3. AddressOf(h, e)' + Claim(pool, h) <= AddressOf(g, c)'
        BY <1>4, <3>2, <4>1, <4>2
      <4> QED
        BY <4>3 DEF Apart
    <3>3. CASE <<h, e>> = <<f, i>>
      <4>1. Settled(pool, g, c) /\ AddressOf(g, c)' = AddressOf(g, c)
        BY <1>11, <2>1, <3>3
      <4>2. AddressOf(g, c) + Claim(pool, g) <= addr
        BY <1>15, <2>1, <3>1, <3>3, <4>1
      <4>3. AddressOf(g, c)' + Claim(pool, g) <= AddressOf(h, e)'
        BY <1>4, <3>3, <4>1, <4>2
      <4> QED
        BY <4>3 DEF Apart
    <3>4. CASE <<g, c>> # <<f, i>> /\ <<h, e>> # <<f, i>>
      <4>1. /\ Settled(pool, g, c) /\ AddressOf(g, c)' = AddressOf(g, c)
            /\ Settled(pool, h, e) /\ AddressOf(h, e)' = AddressOf(h, e)
        BY <1>11, <2>1, <3>4
      <4>2. Apart(pool, g, c, h, e)
        BY <1>3, <2>1, <4>1 DEF ClaimsApart
      <4> QED
        BY <4>1, <4>2 DEF Apart
    <3> QED
      BY <3>2, <3>3, <3>4
  <2> QED
    BY <2>1 DEF ClaimsApart
<1>17. IoAligned(pool)'
  <2>1. ASSUME NEW g \in DOMAIN pool, NEW c \in Slots, HasBar(pool, g, c), pool[g].bars[c].io
        PROVE  nextIo' % pool[g].bars[c].size = 0
    <3> DEFINE s == pool[g].bars[c].size
               n == Claim(pool, f)
    <3>1. nextIo % s = 0 /\ s \in Nat \ {0}
      BY <1>3, <2>1, ClaimFacts DEF IoAligned
    <3>2. CASE pool[f].bars[i].io
      <4>1. n % s = 0
        BY <1>4, <2>1, <3>2, FirstBarAssumption DEF HasBar, Claim
      <4>2. nextIo' = nextIo + n
        BY <1>4, <3>2
      <4> HIDE DEF s, n
      <4> DEFINE p == nextIo \div s
                 q == n \div s
      <4>3. nextIo = p * s + 0 /\ n = q * s + 0 /\ p \in Nat /\ q \in Nat
        BY <1>5, <1>12, <3>1, <4>1, Division DEF n
      <4> HIDE DEF p, q
      <4>4. nextIo' = (p + q) * s + 0 /\ p + q \in Int
        BY <3>1, <4>2, <4>3
      <4>5. 0 \in 0 .. s - 1
        BY <3>1 DEF s
      <4>6. ((p + q) * s + 0) % s = 0
        BY <3>1, <4>4, <4>5, QuotientUnique DEF s
      <4> QED
        BY <4>4, <4>6 DEF s
    <3>3. CASE ~pool[f].bars[i].io
      BY <1>4, <3>1, <3>3
    <3> QED
      BY <3>2, <3>3
  <2> QED
    BY <2>1 DEF IoAligned
<1>18. CacheFits(pool)'
  <2>1. ASSUME NEW k \in 1 .. Len(ctxs), NEW b \in Slots, HasBar(pool, ctxs[k].fn, b)
        PROVE  ctxs[k].info[b].base = AddressOf(ctxs[k].fn, b)'
    <3>1. ctxs[k].fn \in DOMAIN pool /\ ctxs[k].fn \in Registered
      <4>1. ctxs \in Seq(Contexts(pool))
        BY DEF PoolInv, ContextsFit
      <4>2. ctxs[k] \in Contexts(pool) /\ k \in DOMAIN ctxs
        BY <4>1
      <4> QED
        BY <4>2 DEF Contexts, Registered
    <3>2. ctxs[k].fn # f
      BY <1>7, <3>1
    <3>3. AddressOf(ctxs[k].fn, b)' = AddressOf(ctxs[k].fn, b)
      BY <1>1, <2>1, <3>1, <3>2
    <3> QED
      BY <1>3, <2>1, <3>3 DEF CacheFits
  <2>2. ASSUME NEW b \in Slots, BuildAssigned(b)'
        PROVE  building'.info[b].base = AddressOf(f, b)'
    <3>1. CASE b = i
      BY <1>4, <1>8, <1>9, <3>1
    <3>2. CASE b # i
      <4>1. BuildAssigned(b)
        BY <1>10, <2>2, <3>2
      <4>2. building.info[b].size # 0
        BY <4>1 DEF BuildAssigned
      <4>3. HasBar(pool, f, b)
        BY <1>1, <4>2, BuildingFacts
      <4>4. AddressOf(f, b)' = AddressOf(f, b)
        BY <1>1, <1>4, <3>2, <4>3
      <4> QED
        BY <1>1, <1>3, <1>9, <3>2, <4>1, <4>4 DEF CacheFits
    <3> QED
      BY <3>1, <3>2
  <2> QED
    BY <1>1, <1>9, <2>1, <2>2 DEF CacheFits, AddressOf
<1> QED
  BY <1>14, <1>16, <1>17, <1>18 DEF AssignInv

(* A function is registered when all its BARs have been assigned, so       *)
(* registering it changes no claim.                                        *)
LEMMA HandleAssigns ==
  ASSUME NEW pool \in Pools, PoolInv(pool), AssignInv(pool), HandleNewPciDevice
  PROVE  AssignInv(pool)'
<1> DEFINE f == building.fn
           n == Len(ctxs)
<1>1. PICK c \in Contexts(pool) :
        /\ ctxs' = Append(ctxs, c) /\ c.fn = f /\ c.info = building.info
        /\ \A b \in Slots : InfoFits(c.info[b], pool, f, b)
  BY HandleIs
<1>2. /\ building # NoContext /\ building.assign = 6 /\ building' = NoContext
      /\ dev' = dev /\ nextMmio' = nextMmio /\ nextIo' = nextIo
  BY DEF HandleNewPciDevice
<1>3. ~Enumerated
  BY <1>2 DEF PoolInv, BuildingFits, Enumerated
<1>4. AddressesFit(pool) /\ ClaimsApart(pool) /\ IoAligned(pool) /\ CacheFits(pool)
  BY <1>3 DEF AssignInv
<1>5. f \in DOMAIN pool
  BY <1>2, BuildingFacts
<1>6. ctxs \in Seq(Contexts(pool))
  BY DEF PoolInv, ContextsFit
<1>7. Registered' = Registered \union {f}
  BY <1>1, <1>6, RegisteredAppend
<1>8. ASSUME NEW b \in Slots, HasBar(pool, f, b) PROVE BuildAssigned(b)
  <2>1. building.info[b].size = pool[f].bars[b].size
    BY <1>1, <1>8 DEF InfoFits
  <2>2. pool[f].bars[b].size # 0
    BY <1>5, <1>8, ClaimFacts
  <2> QED
    BY <1>2, <2>1, <2>2 DEF BuildAssigned, Slots
<1>9. ASSUME NEW g \in DOMAIN pool, NEW b \in Slots, Settled(pool, g, b)'
      PROVE  Settled(pool, g, b)
  <2>1. HasBar(pool, g, b) /\ (g \in Registered \/ g = f)
    BY <1>2, <1>7, <1>9 DEF Settled
  <2> QED
    BY <1>2, <1>8, <2>1 DEF Settled
<1>10. \A g \in DOMAIN pool, b \in Slots : AddressOf(g, b)' = AddressOf(g, b)
  BY <1>2 DEF AddressOf
<1>11. AddressesFit(pool)' /\ ClaimsApart(pool)' /\ IoAligned(pool)'
  BY <1>2, <1>4, <1>9, <1>10, NothingAssigned
<1>12. n \in Nat /\ Len(ctxs') = n + 1 /\ ctxs'[n + 1] = c /\ \A i \in 1 .. n : ctxs'[i] = ctxs[i]
  BY <1>1, <1>6
<1> HIDE DEF n
<1>13. ASSUME NEW i \in 1 .. n + 1, NEW b \in Slots, HasBar(pool, ctxs'[i].fn, b)
       PROVE  ctxs'[i].info[b].base = AddressOf(ctxs'[i].fn, b)
  <2>1. CASE i = n + 1
    <3>1. ctxs'[i] = c
      BY <1>12, <2>1
    <3>2. BuildAssigned(b)
      BY <1>1, <1>8, <1>13, <3>1
    <3>3. building.info[b].base = AddressOf(f, b)
      BY <1>2, <1>4, <3>2 DEF CacheFits
    <3> QED
      BY <1>1, <3>1, <3>3
  <2>2. CASE i # n + 1
    <3>1. i \in 1 .. n /\ ctxs'[i] = ctxs[i]
      BY <1>12, <2>2
    <3> QED
      BY <1>4, <1>13, <3>1 DEF CacheFits, n
  <2> QED
    BY <2>1, <2>2
<1>14. CacheFits(pool)'
  BY <1>2, <1>12, <1>13 DEF CacheFits, AddressOf
<1> QED
  BY <1>11, <1>14 DEF AssignInv

(* Software's changes keep the remembered addresses true.                  *)
LEMMA ConfigureAssigns ==
  ASSUME NEW pool \in Pools, PoolInv(pool), AssignInv(pool), Configure
  PROVE  AssignInv(pool)'
<1> DEFINE n == Len(ctxs)
<1>1. CacheFits(pool) /\ ContextsFit(pool) /\ DevicesFit(pool)
  BY DEF AssignInv, PoolInv
<1>2. Enumerated /\ stack' = stack /\ building' = building
  BY DEF Configure, SetCommand, MoveBar
<1>3. building = NoContext /\ Enumerated'
  BY <1>2, WalkIsOver DEF Enumerated
<1>4. \A i \in 1 .. n : ctxs[i].fn \in DOMAIN pool
  <2>1. ctxs \in Seq(Contexts(pool))
    BY <1>1 DEF ContextsFit
  <2>2. \A i \in 1 .. n : ctxs[i] \in Contexts(pool)
    BY <2>1
  <2> QED
    BY <2>2 DEF Contexts
<1>5. ASSUME NEW f \in Functions, NEW bits, SetCommand(f, bits)
      PROVE  CacheFits(pool)'
  <2>1. /\ \A g \in DOMAIN pool : dev'[g].reg = dev[g].reg
        /\ ctxs' = BarChangeHandler(ctxs, f, <<>>)
    BY <1>5, CommandIs
  <2>2. \A b \in Slots : b \notin DOMAIN <<>>
    BY DEF Slots
  <2>3. /\ Len(ctxs') = n
        /\ \A i \in 1 .. n : ctxs'[i].fn = ctxs[i].fn /\ \A b \in Slots :
             ctxs'[i].info[b].base = IF ctxs[i].fn = f /\ b \in DOMAIN <<>>
                                     THEN <<>>[b] ELSE ctxs[i].info[b].base
    BY <1>1, <2>1, <2>2, HandlerIs
  <2>4. \A i \in 1 .. n : ctxs'[i].fn = ctxs[i].fn /\ \A b \in Slots :
          ctxs'[i].info[b].base = ctxs[i].info[b].base
    BY <2>2, <2>3
  <2>5. \A i \in 1 .. n, b \in Slots : Align(dev'[ctxs[i].fn].reg[b], 16) = AddressOf(ctxs[i].fn, b)
    BY <1>4, <2>1 DEF AddressOf
  <2> QED
    BY <1>1, <1>2, <1>3, <2>3, <2>4, <2>5 DEF CacheFits, AddressOf
<1>6. ASSUME NEW f \in Functions, NEW b \in Slots, NEW address \in Moves, MoveBar(f, b, address)
      PROVE  CacheFits(pool)'
  <2> DEFINE to == Taken(pool[f].bars[b], address % Dword)
             news == NotifyBarChange(<<>>, b, to)
  <2>1. /\ to \in Nat /\ AddressOf(f, b)' = to
        /\ \A g \in DOMAIN pool, c \in Slots :
             HasBar(pool, g, c) /\ <<g, c>> # <<f, b>> => AddressOf(g, c)' = AddressOf(g, c)
        /\ ctxs' = BarChangeHandler(ctxs, f, news)
    BY <1>6, MoveBarIs
  <2> HIDE DEF to
  <2>2. (\A c \in Slots : c \in DOMAIN news <=> c = b) /\ news[b] = to
    BY DEF NotifyBarChange, Slots
  <2> HIDE DEF news
  <2>3. \A c \in Slots : c \in DOMAIN news => news[c] \in Nat
    BY <2>1, <2>2
  <2>4. /\ Len(ctxs') = n
        /\ \A i \in 1 .. n : ctxs'[i].fn = ctxs[i].fn /\ \A c \in Slots :
             ctxs'[i].info[c].base = IF ctxs[i].fn = f /\ c \in DOMAIN news
                                     THEN news[c] ELSE ctxs[i].info[c].base
    BY <1>1, <2>1, <2>3, HandlerIs
  <2>5. ASSUME NEW i \in 1 .. n, NEW c \in Slots, HasBar(pool, ctxs[i].fn, c)
        PROVE  ctxs'[i].info[c].base = AddressOf(ctxs[i].fn, c)'
    <3> PICK g : g = ctxs[i].fn
      OBVIOUS
    <3>0. g \in DOMAIN pool /\ HasBar(pool, g, c)
      BY <1>4, <2>5
    <3>0a. AddressOf(ctxs[i].fn, c)' = Align(dev'[ctxs'[i].fn].reg[c], 16)
      BY DEF AddressOf
    <3>0b. AddressOf(g, c)' = Align(dev'[g].reg[c], 16)
      BY DEF AddressOf
    <3>0c. AddressOf(ctxs[i].fn, c)' = AddressOf(g, c)'
      BY <2>4, <3>0a, <3>0b
    <3>1. CASE <<g, c>> = <<f, b>>
      <4>1. ctxs'[i].info[c].base = to
        BY <2>2, <2>4, <3>1
      <4> QED
        BY <2>1, <3>0c, <3>1, <4>1
    <3>2. CASE <<g, c>> # <<f, b>>
      <4>1. ctxs'[i].info[c].base = ctxs[i].info[c].base
        BY <2>2, <2>4, <3>2
      <4>2. AddressOf(g, c)' = AddressOf(g, c)
        BY <2>1, <3>0, <3>2
      <4>3. ctxs[i].info[c].base = AddressOf(g, c)
        BY <1>1, <2>5 DEF CacheFits
      <4> QED
        BY <3>0c, <4>1, <4>2, <4>3
    <3> QED
      BY <3>1, <3>2
  <2>6. \A i \in 1 .. n, c \in Slots : HasBar(pool, ctxs'[i].fn, c) =>
          ctxs'[i].info[c].base = Align(dev'[ctxs'[i].fn].reg[c], 16)
    <3> SUFFICES ASSUME NEW i \in 1 .. n, NEW c \in Slots, HasBar(pool, ctxs'[i].fn, c)
                 PROVE  ctxs'[i].info[c].base = Align(dev'[ctxs'[i].fn].reg[c], 16)
      OBVIOUS
    <3>1. HasBar(pool, ctxs[i].fn, c)
      BY <2>4
    <3> QED
      BY <2>5, <3>1 DEF AddressOf
  <2> QED
    BY <1>2, <1>3, <2>4, <2>6 DEF CacheFits, AddressOf
<1> QED
  BY <1>3, <1>5, <1>6 DEF AssignInv, Configure

(* Every step keeps the assignment. *)
LEMMA NextAssigns ==
  ASSUME NEW pool \in Pools, PoolInv(pool), AssignInv(pool), AllocatorsFit, AllocatorsFit',
         [Next]_pciVars
  PROVE  AssignInv(pool)'
BY ScanAssigns, CreateBarAssigns, AddressAssigns, HandleAssigns, ConfigureAssigns
   DEF Next, PciEnumerate

(* Nothing is assigned at power-on. *)
LEMMA AssignmentInit ==
  ASSUME NEW pool \in Pools, Init PROVE AssignInv(pool)
<1>1. ctxs = <<>> /\ building = NoContext /\ Registered = {} /\ nextMmio = MmioStart /\ nextIo = IoStart
  BY DEF Init, Registered
<1>2. CacheFits(pool)
  BY <1>1 DEF CacheFits
<1>3. \A f \in DOMAIN pool, b \in Slots : ~Settled(pool, f, b)
  BY <1>1 DEF Settled
<1>4. AddressesFit(pool)
  BY <1>1, <1>3, PoolsAssumption DEF AddressesFit
<1>5. ClaimsApart(pool)
  BY <1>3 DEF ClaimsApart
<1>6. IoAligned(pool)
  BY <1>1, FirstBarAssumption DEF IoAligned, HasBar
<1> QED
  BY <1>2, <1>4, <1>5, <1>6 DEF AssignInv

(* What a registered context knows of a BAR. *)
LEMMA KnownFacts ==
  ASSUME NEW pool \in Pools, PoolInv(pool), NEW k \in KnownBars
  PROVE  /\ k = <<k[1], k[2]>> /\ k[1] \in 1 .. Len(ctxs) /\ k[2] \in Slots
         /\ ctxs[k[1]].fn \in DOMAIN pool /\ ctxs[k[1]].fn \in Registered
         /\ HasBar(pool, ctxs[k[1]].fn, k[2])
         /\ InfoOf(k).io = pool[ctxs[k[1]].fn].bars[k[2]].io
         /\ BarAddress(DeviceOf(k), k[2]) = AddressOf(ctxs[k[1]].fn, k[2])
         /\ AddressOf(ctxs[k[1]].fn, k[2]) \in Nat
         /\ DeviceOf(k).size[k[2]] = pool[ctxs[k[1]].fn].bars[k[2]].size
<1> PICK i : i = k[1]
  OBVIOUS
<1> PICK b : b = k[2]
  OBVIOUS
<1>1. ctxs \in Seq(Contexts(pool)) /\ ContextsFit(pool) /\ DevicesFit(pool)
  BY DEF PoolInv, ContextsFit
<1>2. k = <<k[1], k[2]>> /\ i \in DOMAIN ctxs /\ b \in Slots /\ ctxs[i].info[b].size > 0
  BY DEF KnownBars
<1>3. i \in 1 .. Len(ctxs) /\ ctxs[i] \in Contexts(pool)
  BY <1>1, <1>2
<1> PICK f : f = ctxs[i].fn
  OBVIOUS
<1>4. f \in DOMAIN pool /\ f \in Registered /\ InfoFits(ctxs[i].info[b], pool, f, b)
  BY <1>1, <1>2, <1>3 DEF Contexts, Registered, ContextsFit, ContextFits
<1>5. HasBar(pool, f, b) /\ ctxs[i].info[b].io = pool[f].bars[b].io
  BY <1>2, <1>4 DEF InfoFits
<1>6. /\ BarAddress(dev[f], b) = AddressOf(f, b) /\ AddressOf(f, b) \in Nat
      /\ dev[f].size[b] = pool[f].bars[b].size
  BY <1>1, <1>2, <1>4, <1>5, DeviceKinds
<1> QED
  BY <1>2, <1>3, <1>4, <1>5, <1>6 DEF InfoOf, DeviceOf

----------------------------------------------------------------------------
(* Software programs the windows of a bridge *)

(* A pool's functions stay formed when one of them is replaced by one that *)
(* is formed.                                                              *)
LEMMA DeviceReplaced ==
  ASSUME NEW pool \in Pools, DevicesFit(pool), NEW f \in DOMAIN pool, NEW e,
         Formed(e, pool[f].bars, pool[f].header), e.cmd = dev[f].cmd, WindowsFit(e, pool[f].header),
         dev' = [dev EXCEPT ![f] = e]
  PROVE  DevicesFit(pool)'
<1>1. dev' = [g \in DOMAIN pool |-> IF g = f THEN e ELSE dev[g]]
  BY DEF DevicesFit
<1>2. ASSUME NEW g \in DOMAIN pool
      PROVE  /\ Formed(dev'[g], pool[g].bars, pool[g].header)
             /\ dev'[g].cmd \subseteq PciSimGetDeviceCommandMask(dev'[g])
             /\ WindowsFit(dev'[g], pool[g].header)
  <2>1. CASE g = f
    <3>1. dev'[g] = e
      BY <1>1, <2>1
    <3>2. e.header = dev[f].header
      BY DEF DevicesFit, Formed
    <3>3. e.cmd \subseteq PciSimGetDeviceCommandMask(e)
      BY <3>2 DEF DevicesFit, PciSimGetDeviceCommandMask
    <3> QED
      BY <2>1, <3>1, <3>3
  <2>2. CASE g # f
    BY <1>1, <2>2 DEF DevicesFit
  <2> QED
    BY <2>1, <2>2
<1>3. DOMAIN dev' = DOMAIN pool /\ dev' = [g \in DOMAIN pool |-> dev'[g]]
  BY <1>1
<1> QED
  BY <1>1, <1>2, <1>3 DEF DevicesFit

(* A write to a window of a bridge changes that register, or nothing when  *)
(* it is the question for a size.                                          *)
LEMMA WindowStored ==
  ASSUME NEW layout, LayoutFormed(layout, 1), NEW d, Formed(d, layout, 1), WindowsFit(d, 1),
         NEW slot \in 3 .. 5, NEW v \in Windows[slot]
  PROVE  LET m == PciConfigWrite32(d, slot, v)
             e == Told(m, <<>>)
         IN  /\ Formed(e, layout, 1) /\ WindowsFit(e, 1) /\ e.cmd = d.cmd
             /\ \A i \in Slots : i # slot => e.reg[i] = d.reg[i]
             /\ \A c \in Slots : c \in DOMAIN m.told => c = slot /\ m.told[c] \in Nat
<1> PICK m : m = PciConfigWrite32(d, slot, v)
  OBVIOUS
<1> PICK e : e = Told(m, <<>>)
  OBVIOUS
<1>1. AtRest(d) /\ d.told = <<>> /\ d.header = 1 /\ slot \in Slots
  BY DEF Formed, Slots
<1>2. \A c \in Slots : c \notin DOMAIN <<>>
  BY DEF Slots
<1>3. CASE v = AllOnes
  <2>1. \A i \in 2 .. 5 : d.size[i] = 0
    <3>1. \A i \in 2 .. 5 : i \in Slots /\ ~Implemented(layout, 1, i)
      BY DEF Slots, Implemented
    <3> QED
      BY <3>1 DEF Formed
  <2>2. ActualBar(d, slot) \in 2 .. 5
    BY DEF ActualBar
  <2>3. m = d
    BY <1>3, <2>1, <2>2 DEF PciConfigWrite32, Discover
  <2>4. e = d
    BY <1>1, <2>3 DEF Told, AtRest, IsDevice
  <2> QED
    BY <1>1, <1>2, <2>3, <2>4
<1>4. CASE v # AllOnes
  <2> DEFINE r == [d.reg EXCEPT ![slot] = v]
             t == IF IsHigh(slot) THEN d.told
                  ELSE NotifyBarChange(d.told, slot, BarAddress([reg |-> r], slot))
  <2>1. v \in 0 .. Dword - 1 /\ d.reg \in Registers
    BY <1>1, RouterAssumption DEF AtRest, IsDevice
  <2>2. r \in Registers
    BY <2>1 DEF Registers
  <2>3. ~Implemented(layout, 1, slot) /\ d.size[slot] = 0
    <3>1. ~Implemented(layout, 1, slot)
      BY DEF Implemented
    <3> QED
      BY <1>1, <3>1 DEF Formed
  <2>4. HardwareMasked(d, slot, v) = v
    BY <2>3 DEF HardwareMasked
  <2>5. \A i \in Slots : r[i] = IF i = slot THEN v ELSE d.reg[i]
    BY <1>1, <2>1 DEF Registers
  <2>6. r = [d.reg EXCEPT ![slot] = HardwareMasked(d, slot, v)]
    BY <2>4
  <2>7. \A c \in Slots : c \in DOMAIN t => c = slot /\ t[c] \in Nat
    <3>1. CASE IsHigh(slot)
      BY <1>1, <1>2, <3>1
    <3>2. CASE ~IsHigh(slot)
      <4> DEFINE addr == BarAddress([reg |-> r], slot)
      <4>1. slot = 4 /\ 4 \in Slots /\ 5 \in Slots
        BY <3>2 DEF IsHigh, Slots
      <4>2. r[4] \in Nat /\ r[5] \in Nat
        BY <2>2, <4>1, DwordType DEF Registers
      <4>3. addr = IF IsIo(r[4]) THEN Align(r[4], 4)
                   ELSE Align(r[4], 16) + (IF Is64(r[4]) THEN r[5] * Dword ELSE 0)
        BY <4>1 DEF BarAddress
      <4>4. Align(r[4], 4) \in Nat /\ Align(r[4], 16) \in Nat
        <5>1. \A n \in Nat : Align(n, 4) \in Nat /\ Align(n, 16) \in Nat
          BY DEF Align
        <5> QED
          BY <4>2, <5>1
      <4> HIDE DEF r
      <4>5. addr \in Nat
        BY <4>2, <4>3, <4>4, DwordType
      <4> HIDE DEF addr
      <4>6. t = NotifyBarChange(<<>>, slot, addr)
        BY <1>1, <3>2 DEF addr
      <4> HIDE DEF t
      <4>7. (\A c \in Slots : c \in DOMAIN t <=> c = slot) /\ t[slot] = addr
        BY <1>1, <1>2, <4>6 DEF NotifyBarChange
      <4> QED
        BY <4>5, <4>7
    <3> QED
      BY <3>1, <3>2
  <2>8. Becomes(d, m, r, t)
    BY <1>1, <1>4, <2>2, <2>6, StoreIs
  <2> HIDE DEF r, t
  <2>9. /\ AtRest(m) /\ m.reg = r /\ m.told = t /\ m.size = d.size /\ m.header = d.header
        /\ m.cmd = d.cmd /\ m.baseUpper = d.baseUpper /\ m.limitUpper = d.limitUpper
    BY <1>1, <2>2, <2>8, BecomesAtRest
  <2>10. /\ AtRest(e) /\ e.reg = r /\ e.told = <<>> /\ e.size = d.size /\ e.header = 1
         /\ e.cmd = d.cmd /\ e.baseUpper = d.baseUpper /\ e.limitUpper = d.limitUpper
    <3> PICK nothing : nothing = <<>>
      OBVIOUS
    <3>1. /\ AtRest(e) /\ e.told = nothing /\ e.reg = m.reg /\ e.size = m.size /\ e.header = m.header
          /\ e.cmd = m.cmd /\ e.baseUpper = m.baseUpper /\ e.limitUpper = m.limitUpper
      BY <2>9, ToldEffect
    <3> QED
      BY <1>1, <2>9, <3>1
  <2>11. ASSUME NEW i \in Slots PROVE RegisterFits(e, layout, 1, i)
    <3>1. CASE i = slot
      <4>1. WindowSlot(1, i) /\ e.reg[i] = v
        BY <2>5, <2>10, <3>1 DEF WindowSlot
      <4>2. ~UpperSlot(layout, 1, i)
        BY <3>1 DEF UpperSlot, Implemented
      <4> QED
        BY <1>4, <2>3, <3>1, <4>1, <4>2 DEF RegisterFits
    <3>2. CASE i # slot
      <4>1. e.reg[i] = d.reg[i] /\ RegisterFits(d, layout, 1, i)
        BY <2>5, <2>10, <3>2 DEF Formed
      <4> QED
        BY <4>1 DEF RegisterFits
    <3> QED
      BY <3>1, <3>2
  <2>12. Formed(e, layout, 1)
    BY <2>10, <2>11 DEF Formed
  <2>13. WindowsFit(e, 1)
    BY <2>5, <2>10 DEF WindowsFit, WindowSlot
  <2> QED
    BY <2>5, <2>7, <2>9, <2>10, <2>12, <2>13
<1> QED
  BY <1>3, <1>4

(* The bridges software programs are registered functions of the pool.     *)
LEMMA BridgeFacts ==
  ASSUME NEW pool \in Pools, PoolInv(pool), NEW f \in Bridges
  PROVE  /\ f \in DOMAIN pool /\ f \in Registered /\ f[1] = 0 /\ pool[f].header = 1
         /\ DevicesFit(pool) /\ ContextsFit(pool) /\ LayoutFormed(pool[f].bars, 1)
         /\ Formed(dev[f], pool[f].bars, 1) /\ WindowsFit(dev[f], 1)
<1>1. DevicesFit(pool) /\ ContextsFit(pool)
  BY DEF PoolInv
<1>2. f \in Registered /\ f[1] = 0 /\ dev[f].header = 1
  BY DEF Bridges
<1>3. f \in DOMAIN pool
  <2>1. PICK i \in DOMAIN ctxs : f = ctxs[i].fn
    BY <1>2 DEF Registered
  <2>2. ctxs \in Seq(Contexts(pool))
    BY <1>1 DEF ContextsFit
  <2>3. ctxs[i] \in Contexts(pool)
    BY <2>1, <2>2
  <2> QED
    BY <2>1, <2>3 DEF Contexts
<1>4. pool[f].header = 1
  BY <1>1, <1>2, <1>3 DEF DevicesFit, Formed
<1> QED
  BY <1>1, <1>2, <1>3, <1>4, DeviceFacts

(* Programming a window of a bridge changes no BAR: the news the operating *)
(* system hears is of a slot without one.                                  *)
LEMMA WindowIs ==
  ASSUME NEW pool \in Pools, PoolInv(pool), NEW f \in Bridges,
         NEW slot \in 3 .. 5, NEW v \in Windows[slot], ProgramWindow(f, slot, v)
  PROVE  /\ DevicesFit(pool)'
         /\ \A g \in DOMAIN pool, c \in Slots : HasBar(pool, g, c) => AddressOf(g, c)' = AddressOf(g, c)
         /\ \E told : /\ \A c \in Slots : c \in DOMAIN told => told[c] \in Nat /\ ~HasBar(pool, f, c)
                      /\ ctxs' = BarChangeHandler(ctxs, f, told)
<1> PICK m : m = PciConfigWrite32(dev[f], slot, v)
  OBVIOUS
<1> PICK e : e = Told(m, <<>>)
  OBVIOUS
<1>1. /\ f \in DOMAIN pool /\ pool[f].header = 1 /\ DevicesFit(pool)
      /\ LayoutFormed(pool[f].bars, 1) /\ Formed(dev[f], pool[f].bars, 1) /\ WindowsFit(dev[f], 1)
  BY BridgeFacts
<1>2. /\ Formed(e, pool[f].bars, 1) /\ WindowsFit(e, 1) /\ e.cmd = dev[f].cmd
      /\ \A i \in Slots : i # slot => e.reg[i] = dev[f].reg[i]
      /\ \A c \in Slots : c \in DOMAIN m.told => c = slot /\ m.told[c] \in Nat
  BY <1>1, WindowStored
<1>3. dev' = [dev EXCEPT ![f] = e] /\ ctxs' = BarChangeHandler(ctxs, f, m.told)
  BY DEF ProgramWindow, Reconfigured, Told
<1>4. DevicesFit(pool)' /\ \A g \in DOMAIN pool : dev'[g] = IF g = f THEN e ELSE dev[g]
  <2>1. Formed(e, pool[f].bars, pool[f].header) /\ WindowsFit(e, pool[f].header)
    BY <1>1, <1>2
  <2>2. DevicesFit(pool)'
    BY <1>1, <1>2, <1>3, <2>1, DeviceReplaced
  <2>3. \A g \in DOMAIN pool : dev'[g] = IF g = f THEN e ELSE dev[g]
    BY <1>1, <1>3 DEF DevicesFit
  <2> QED
    BY <2>2, <2>3
<1>5. ~HasBar(pool, f, slot)
  BY <1>1 DEF HasBar, Implemented
<1>6. ASSUME NEW g \in DOMAIN pool, NEW c \in Slots, HasBar(pool, g, c)
      PROVE  AddressOf(g, c)' = AddressOf(g, c)
  <2>1. dev'[g].reg[c] = dev[g].reg[c]
    BY <1>2, <1>4, <1>5, <1>6
  <2> QED
    BY <2>1 DEF AddressOf
<1> QED
  BY <1>2, <1>3, <1>4, <1>5, <1>6

(* So does programming the upper halves of the prefetch window.            *)
LEMMA UppersAre ==
  ASSUME NEW pool \in Pools, PoolInv(pool), NEW f \in Bridges,
         NEW base \in Uppers, NEW limit \in Uppers, ProgramUppers(f, base, limit)
  PROVE  /\ DevicesFit(pool)'
         /\ \A g \in DOMAIN pool, c \in Slots : HasBar(pool, g, c) => AddressOf(g, c)' = AddressOf(g, c)
         /\ ctxs' = BarChangeHandler(ctxs, f, <<>>)
<1> PICK d : d = dev[f]
  OBVIOUS
<1> PICK m : m = [d EXCEPT !.baseUpper = base, !.limitUpper = limit]
  OBVIOUS
<1> PICK e : e = Told(m, <<>>)
  OBVIOUS
<1>1. /\ f \in DOMAIN pool /\ pool[f].header = 1 /\ DevicesFit(pool)
      /\ Formed(d, pool[f].bars, 1) /\ WindowsFit(d, 1)
  BY BridgeFacts
<1>2. AtRest(d) /\ d.told = <<>> /\ d.header = 1
  BY <1>1 DEF Formed
<1>3. m = [header |-> d.header, cmd |-> d.cmd, active |-> d.active, reg |-> d.reg,
           size |-> d.size, low |-> d.low, high |-> d.high, baseUpper |-> base,
           limitUpper |-> limit, told |-> d.told]
  BY <1>2 DEF AtRest, IsDevice
<1>4. e = [header |-> d.header, cmd |-> d.cmd, active |-> d.active, reg |-> d.reg,
           size |-> d.size, low |-> d.low, high |-> d.high, baseUpper |-> base,
           limitUpper |-> limit, told |-> <<>>]
  BY <1>3 DEF Told
<1>5. AtRest(e) /\ e.reg = d.reg /\ e.size = d.size /\ e.header = d.header /\ e.cmd = d.cmd
      /\ e.told = <<>> /\ e.baseUpper = base /\ e.limitUpper = limit
  <2>1. /\ e = [header |-> e.header, cmd |-> e.cmd, active |-> e.active, reg |-> e.reg,
                size |-> e.size, low |-> e.low, high |-> e.high, baseUpper |-> e.baseUpper,
                limitUpper |-> e.limitUpper, told |-> e.told]
        /\ e.reg = d.reg /\ e.size = d.size /\ e.header = d.header /\ e.cmd = d.cmd
        /\ e.active = d.active /\ e.low = d.low /\ e.high = d.high
        /\ e.told = <<>> /\ e.baseUpper = base /\ e.limitUpper = limit
    <3> HIDE DEF AtRest
    <3> QED
      BY ONLY <1>4
  <2>2. IsDevice(d) /\ ~d.active /\ d.low = [i \in Slots |-> 0] /\ d.high = [i \in Slots |-> 0]
    BY <1>2 DEF AtRest
  <2>3. IsDevice(e)
    BY <2>1, <2>2 DEF IsDevice
  <2> QED
    BY <2>1, <2>2, <2>3 DEF AtRest
<1>6. Formed(e, pool[f].bars, 1)
  BY <1>1, <1>5 DEF Formed, RegisterFits
<1>7. WindowsFit(e, 1)
  BY <1>1, <1>5 DEF WindowsFit
<1>8. dev' = [dev EXCEPT ![f] = e] /\ ctxs' = BarChangeHandler(ctxs, f, m.told)
  BY DEF ProgramUppers, Reconfigured, Told
<1>9. m.told = <<>>
  BY <1>2, <1>3
<1>10. DevicesFit(pool)' /\ \A g \in DOMAIN pool : dev'[g] = IF g = f THEN e ELSE dev[g]
  <2>1. Formed(e, pool[f].bars, pool[f].header) /\ WindowsFit(e, pool[f].header)
    BY <1>1, <1>6, <1>7
  <2>2. DevicesFit(pool)'
    BY <1>1, <1>5, <1>8, <2>1, DeviceReplaced
  <2>3. \A g \in DOMAIN pool : dev'[g] = IF g = f THEN e ELSE dev[g]
    BY <1>1, <1>8 DEF DevicesFit
  <2> QED
    BY <2>2, <2>3
<1>11. \A g \in DOMAIN pool, c \in Slots : AddressOf(g, c)' = AddressOf(g, c)
  BY <1>5, <1>10 DEF AddressOf
<1> QED
  BY <1>8, <1>9, <1>10, <1>11

(* A step that moves no BAR and tells of none keeps the invariants.        *)
LEMMA WindowsKeep ==
  ASSUME NEW pool \in Pools, PoolInv(pool), AssignInv(pool), Enumerated, NEW f, NEW told,
         UNCHANGED <<stack, building, nextMmio, nextIo, mem>>, DevicesFit(pool)',
         \A g \in DOMAIN pool, c \in Slots : HasBar(pool, g, c) => AddressOf(g, c)' = AddressOf(g, c),
         \A c \in Slots : c \in DOMAIN told => told[c] \in Nat /\ ~HasBar(pool, f, c),
         ctxs' = BarChangeHandler(ctxs, f, told)
  PROVE  PoolInv(pool)' /\ AssignInv(pool)'
<1> DEFINE n == Len(ctxs)
<1>1. ContextsFit(pool) /\ CacheFits(pool) /\ building = NoContext
  BY WalkIsOver DEF PoolInv, AssignInv
<1>2. ContextsFit(pool)' /\ Registered' = Registered
  BY <1>1, HandlerFits
<1>3. PoolInv(pool)'
  BY <1>2, ReconfiguredFits
<1>4. /\ Len(ctxs') = n
      /\ \A i \in 1 .. n : ctxs'[i].fn = ctxs[i].fn /\ \A c \in Slots :
           ctxs'[i].info[c].base = IF ctxs[i].fn = f /\ c \in DOMAIN told
                                   THEN told[c] ELSE ctxs[i].info[c].base
  BY <1>1, HandlerIs
<1>5. \A i \in 1 .. n : ctxs[i].fn \in DOMAIN pool
  <2>1. ctxs \in Seq(Contexts(pool))
    BY <1>1 DEF ContextsFit
  <2>2. \A i \in 1 .. n : ctxs[i] \in Contexts(pool)
    BY <2>1
  <2> QED
    BY <2>2 DEF Contexts
<1>6. ASSUME NEW i \in 1 .. n, NEW c \in Slots, HasBar(pool, ctxs'[i].fn, c)
      PROVE  ctxs'[i].info[c].base = Align(dev'[ctxs'[i].fn].reg[c], 16)
  <2> PICK g : g = ctxs[i].fn
    OBVIOUS
  <2>1. g \in DOMAIN pool /\ HasBar(pool, g, c) /\ ctxs'[i].fn = g
    BY <1>4, <1>5, <1>6
  <2>2. ctxs'[i].info[c].base = ctxs[i].info[c].base
    BY <1>4, <2>1
  <2>3. ctxs[i].info[c].base = AddressOf(g, c)
    BY <1>1, <2>1 DEF CacheFits
  <2>4. AddressOf(g, c) = Align(dev'[g].reg[c], 16)
    <3>1. AddressOf(g, c)' = AddressOf(g, c)
      BY <2>1
    <3>2. AddressOf(g, c)' = Align(dev'[g].reg[c], 16)
      BY DEF AddressOf
    <3> QED
      BY <3>1, <3>2
  <2> QED
    BY <2>1, <2>2, <2>3, <2>4
<1>7. CacheFits(pool)'
  BY <1>1, <1>4, <1>6 DEF CacheFits, AddressOf
<1> QED
  BY <1>3, <1>7 DEF AssignInv, Enumerated

(* Programming the windows keeps the invariants. *)
LEMMA WindowsFitKept ==
  ASSUME NEW pool \in Pools, PoolInv(pool), AssignInv(pool), ProgramWindows
  PROVE  PoolInv(pool)' /\ AssignInv(pool)'
<1>1. ASSUME NEW f \in Bridges, NEW slot \in 3 .. 5, NEW v \in Windows[slot], ProgramWindow(f, slot, v)
      PROVE  PoolInv(pool)' /\ AssignInv(pool)'
  <2>1. Enumerated /\ UNCHANGED <<stack, building, nextMmio, nextIo, mem>>
    BY <1>1 DEF ProgramWindow
  <2>2. /\ DevicesFit(pool)'
        /\ \A g \in DOMAIN pool, c \in Slots : HasBar(pool, g, c) => AddressOf(g, c)' = AddressOf(g, c)
        /\ \E told : /\ \A c \in Slots : c \in DOMAIN told => told[c] \in Nat /\ ~HasBar(pool, f, c)
                     /\ ctxs' = BarChangeHandler(ctxs, f, told)
    BY <1>1, WindowIs
  <2> QED
    BY <2>1, <2>2, WindowsKeep
<1>2. ASSUME NEW f \in Bridges, NEW base \in Uppers, NEW limit \in Uppers, ProgramUppers(f, base, limit)
      PROVE  PoolInv(pool)' /\ AssignInv(pool)'
  <2>1. Enumerated /\ UNCHANGED <<stack, building, nextMmio, nextIo, mem>>
    BY <1>2 DEF ProgramUppers
  <2>2. /\ DevicesFit(pool)'
        /\ \A g \in DOMAIN pool, c \in Slots : HasBar(pool, g, c) => AddressOf(g, c)' = AddressOf(g, c)
        /\ ctxs' = BarChangeHandler(ctxs, f, <<>>)
    BY <1>2, UppersAre
  <2>3. \A c \in Slots : c \notin DOMAIN <<>>
    BY DEF Slots
  <2> QED
    BY <2>1, <2>2, <2>3, WindowsKeep
<1> QED
  BY <1>1, <1>2 DEF ProgramWindows

(* A write through the router changes the memory behind the BARs only.     *)
LEMMA WriteKeeps ==
  ASSUME NEW pool \in Pools, PoolInv(pool), AssignInv(pool),
         NEW address \in PhysAddresses, NEW word \in Words, MmioRouteWrite(address, word)
  PROVE  PoolInv(pool)' /\ AssignInv(pool)'
<1>1. Enumerated /\ UNCHANGED <<dev, stack, building, ctxs, nextMmio, nextIo>>
  BY DEF MmioRouteWrite
<1>2. building = NoContext /\ ScanOver(pool) /\ ContextsFit(pool) /\ DevicesFit(pool)
  BY <1>1, WalkIsOver DEF PoolInv
<1>3. mem' \in [DOMAIN pool -> [Slots -> 0 .. 1]]
  <2>1. mem \in [DOMAIN pool -> [Slots -> 0 .. 1]]
    BY DEF PoolInv
  <2>2. word \in 0 .. 1
    BY RouterAssumption
  <2>3. mem' = mem \/ \E f, b : mem' = [mem EXCEPT ![f][b] = word]
    BY DEF MmioRouteWrite
  <2>4. ASSUME NEW f, NEW b, mem' = [mem EXCEPT ![f][b] = word] PROVE mem' \in [DOMAIN pool -> [Slots -> 0 .. 1]]
    <3>1. f \in DOMAIN pool => [mem[f] EXCEPT ![b] = word] \in [Slots -> 0 .. 1]
      BY <2>1, <2>2
    <3> QED
      BY <2>1, <2>4, <3>1
  <2> QED
    BY <2>1, <2>3, <2>4
<1>4. DevicesFit(pool)' /\ Registered' = Registered
  BY <1>1, <1>2 DEF DevicesFit, Registered
<1>5. ContextsFit(pool)'
  <2>1. \A i \in 1 .. Len(ctxs) : ContextFits(pool, ctxs[i])'
    BY <1>1, <1>2 DEF ContextsFit, ContextFits, Enumerated
  <2> QED
    BY <1>1, <1>2, <2>1 DEF ContextsFit
<1>6. ScanFits(pool)' /\ BuildingFits(pool)'
  BY <1>1, <1>2, <1>4 DEF ScanFits, ScanOver, BuildingFits
<1>7. PoolInv(pool)'
  BY <1>1, <1>3, <1>4, <1>5, <1>6 DEF PoolInv
<1>8. AssignInv(pool)'
  BY <1>1, <1>2, AssignmentKept DEF Enumerated
<1> QED
  BY <1>7, <1>8

(* The inductive invariant: whatever software does with the functions that *)
(* have been found, through their registers and their memory, the system   *)
(* fits the pool it has started with, as long as the addresses handed out  *)
(* are in the dword.                                                       *)
THEOREM AssignmentInvariant == RouterSpec /\ []AllocatorsFit => []AssignmentInv
<1>1. Init => AssignmentInv
  <2>1. Init => EnumerationInv
    BY EnumerationInit
  <2> QED
    BY <2>1, AssignmentInit DEF EnumerationInv, AssignmentInv
<1>2. ASSUME AssignmentInv, AllocatorsFit, AllocatorsFit', [RouterNext]_pciVars
      PROVE  AssignmentInv'
  <2> PICK pool \in Pools : PoolInv(pool) /\ AssignInv(pool)
    BY <1>2 DEF AssignmentInv
  <2>1. CASE [Next]_pciVars
    BY <1>2, <2>1, NextFits, NextAssigns DEF AssignmentInv
  <2>2. CASE MmioWrites
    BY <2>2, WriteKeeps DEF MmioWrites, AssignmentInv
  <2>3. CASE ProgramWindows
    BY <2>3, WindowsFitKept DEF AssignmentInv
  <2> QED
    BY <1>2, <2>1, <2>2, <2>3 DEF RouterNext
<1> QED
  BY <1>1, <1>2, PTL DEF RouterSpec

(* Every function the walk has passed is registered once with what it has. *)
THEOREM EnumerationInvariant == RouterSpec /\ []AllocatorsFit => []EnumerationInv
<1>1. AssignmentInv => EnumerationInv
  BY DEF AssignmentInv, EnumerationInv
<1> QED
  BY <1>1, AssignmentInvariant, PTL

(* EnumerationExact: when PciEnumerate has returned, every function the    *)
(* walk can see has one device context, made with the sizes and kinds its  *)
(* hardware has, after the bridge it is behind, and is driven when it has  *)
(* a decent memory BAR.                                                    *)
THEOREM EnumerationExactHolds == RouterSpec /\ []AllocatorsFit => []EnumerationExact
BY EnumerationInvariant, EnumerationIsExact, PTL

(* CacheFollowsRegister: the address the operating system remembers for a  *)
(* BAR is the one its registers decode, during the walk and however often  *)
(* software moves the BAR afterwards.                                      *)
THEOREM CacheFollowsRegisterHolds == RouterSpec /\ []AllocatorsFit => []CacheFollowsRegister
<1>1. ASSUME AssignmentInv PROVE CacheFollowsRegister
  <2> PICK pool \in Pools : PoolInv(pool) /\ CacheFits(pool)
    BY <1>1 DEF AssignmentInv, AssignInv
  <2>1. ASSUME NEW k \in KnownBars PROVE InfoOf(k).base = BarAddress(DeviceOf(k), k[2])
    BY KnownFacts DEF CacheFits, InfoOf
  <2> QED
    BY <2>1 DEF CacheFollowsRegister
<1> QED
  BY <1>1, AssignmentInvariant, PTL

(* AssignedDisjoint: while PciEnumerate runs, the ranges of two BARs of    *)
(* one space, of any two registered functions, do not overlap, and memory  *)
(* BARs are in the MMIO region.                                            *)
THEOREM AssignedDisjointHolds == RouterSpec /\ []AllocatorsFit => []AssignedDisjoint
<1>1. ASSUME AssignmentInv PROVE AssignedDisjoint
  <2> SUFFICES ASSUME ~Enumerated, NEW k \in KnownBars, NEW l \in KnownBars
               PROVE  /\ ~InfoOf(k).io => BarAddress(DeviceOf(k), k[2]) >= MmioStart
                      /\ k # l /\ InfoOf(k).io = InfoOf(l).io => Region(k) \intersect Region(l) = {}
    BY DEF AssignedDisjoint
  <2> PICK pool \in Pools : /\ PoolInv(pool) /\ CacheFits(pool)
                            /\ AddressesFit(pool) /\ ClaimsApart(pool) /\ IoAligned(pool)
    BY <1>1 DEF AssignmentInv, AssignInv
  <2> DEFINE f == ctxs[k[1]].fn
             b == k[2]
             g == ctxs[l[1]].fn
             c == l[2]
  <2>1. /\ k = <<k[1], k[2]>> /\ k[1] \in 1 .. Len(ctxs) /\ b \in Slots
        /\ f \in DOMAIN pool /\ f \in Registered /\ HasBar(pool, f, b)
        /\ InfoOf(k).io = pool[f].bars[b].io
        /\ BarAddress(DeviceOf(k), k[2]) = AddressOf(f, b) /\ AddressOf(f, b) \in Nat
        /\ DeviceOf(k).size[k[2]] = pool[f].bars[b].size
    BY KnownFacts
  <2>2. /\ l = <<l[1], l[2]>> /\ l[1] \in 1 .. Len(ctxs) /\ c \in Slots
        /\ g \in DOMAIN pool /\ g \in Registered /\ HasBar(pool, g, c)
        /\ InfoOf(l).io = pool[g].bars[c].io
        /\ BarAddress(DeviceOf(l), l[2]) = AddressOf(g, c) /\ AddressOf(g, c) \in Nat
        /\ DeviceOf(l).size[l[2]] = pool[g].bars[c].size
    BY KnownFacts
  <2>3. k # l => <<f, b>> # <<g, c>>
    <3>1. f = g => k[1] = l[1]
      BY <2>1, <2>2 DEF PoolInv, ContextsFit
    <3> QED
      BY <2>1, <2>2, <3>1
  <2>4. Region(k) = AddressOf(f, b) .. AddressOf(f, b) + pool[f].bars[b].size - 1
        /\ Region(l) = AddressOf(g, c) .. AddressOf(g, c) + pool[g].bars[c].size - 1
    BY <2>1, <2>2 DEF Region
  <2> HIDE DEF f, b, g, c
  <2>5. /\ pool[f].bars[b].size \in Nat \ {0} /\ pool[f].bars[b].size <= Claim(pool, f)
        /\ pool[g].bars[c].size \in Nat \ {0} /\ pool[g].bars[c].size <= Claim(pool, g)
        /\ Claim(pool, f) \in Nat /\ Claim(pool, g) \in Nat
    BY <2>1, <2>2, ClaimFacts
  <2>6. Settled(pool, f, b) /\ Settled(pool, g, c)
    BY <2>1, <2>2 DEF Settled
  <2>7. ~InfoOf(k).io => BarAddress(DeviceOf(k), k[2]) >= MmioStart
    <3>1. ~pool[f].bars[b].io => MmioStart <= AddressOf(f, b)
      BY <2>1, <2>6 DEF AddressesFit
    <3> QED
      BY <2>1, <3>1, PoolsAssumption
  <2>8. k # l /\ InfoOf(k).io = InfoOf(l).io => Apart(pool, f, b, g, c)
    BY <2>1, <2>2, <2>3, <2>6 DEF ClaimsApart
  <2>9. ASSUME Apart(pool, f, b, g, c) PROVE Region(k) \intersect Region(l) = {}
    <3> DEFINE x == AddressOf(f, b)
               y == AddressOf(g, c)
               s == pool[f].bars[b].size
               t == pool[g].bars[c].size
    <3>1. x + s <= y \/ y + t <= x
      <4> PICK p : p = Claim(pool, f)
        OBVIOUS
      <4> PICK q : q = Claim(pool, g)
        OBVIOUS
      <4>1. p \in Nat /\ q \in Nat /\ s <= p /\ t <= q
        BY <2>5
      <4>2. x + p <= y \/ y + q <= x
        BY <2>9 DEF Apart
      <4>3. x \in Nat /\ y \in Nat /\ s \in Nat /\ t \in Nat
        BY <2>1, <2>2, <2>5
      <4> HIDE DEF x, y, s, t
      <4> QED
        BY <4>1, <4>2, <4>3
    <3>2. x \in Nat /\ y \in Nat /\ s \in Nat /\ t \in Nat
      BY <2>1, <2>2, <2>5
    <3>3. Region(k) = x .. x + s - 1 /\ Region(l) = y .. y + t - 1
      BY <2>4
    <3> HIDE DEF x, y, s, t
    <3> QED
      BY <3>1, <3>2, <3>3
  <2> QED
    BY <2>7, <2>8, <2>9
<1> QED
  BY <1>1, AssignmentInvariant, PTL

----------------------------------------------------------------------------
(* The router and the decoders *)

(* Rounding an address of a block down to the size of the block gives its base. *)
LEMMA AlignInside ==
  ASSUME NEW size \in Nat \ {0}, NEW base \in Nat, base % size = 0, NEW a \in base .. base + size - 1
  PROVE  Align(a, size) = base /\ Align(base, size) = base
<1> DEFINE q == base \div size
           r == a - base
<1>1. base = q * size + 0 /\ q \in Nat
  BY Division
<1>2. r \in 0 .. size - 1 /\ a = base + r
  OBVIOUS
<1> HIDE DEF q, r
<1>3. q * size \in Nat
  BY <1>1
<1>4. a = q * size + r
  BY <1>1, <1>2, <1>3
<1>5. a % size = r
  BY <1>1, <1>2, <1>4, QuotientUnique
<1> QED
  BY <1>2, <1>5 DEF Align

(* The address of a BAR that has one is below the dword, a multiple of the *)
(* BAR's size, and the base at which the function decodes it.              *)
LEMMA BarPlaced ==
  ASSUME NEW pool \in Pools, DevicesFit(pool), NEW f \in DOMAIN pool, NEW b \in Slots,
         HasBar(pool, f, b), AddressOf(f, b) # 0
  PROVE  LET size == pool[f].bars[b].size
         IN  /\ size \in Nat \ {0} /\ size % 8 = 0 /\ dev[f].size[b] = size
             /\ AddressOf(f, b) \in Nat /\ AddressOf(f, b) % size = 0
             /\ AddressOf(f, b) % 8 = 0 /\ BarAddress(dev[f], b) = AddressOf(f, b)
             /\ IsIo(dev[f].reg[b]) <=> pool[f].bars[b].io
             /\ Align(dev[f].reg[b], 16)
                  + (IF dev[f].reg[b] % 8 = 4 THEN dev[f].reg[b + 1] * Dword ELSE 0) = AddressOf(f, b)
<1> DEFINE size == pool[f].bars[b].size
           reg == dev[f].reg[b]
<1>1. /\ Formed(dev[f], pool[f].bars, pool[f].header) /\ AtRest(dev[f]) /\ dev[f].reg[b + 1] = 0
      /\ BarFormed(pool[f].bars[b]) /\ size \in Nat \ {0} /\ dev[f].size[b] = size
      /\ BarAddress(dev[f], b) = AddressOf(f, b) /\ AddressOf(f, b) \in Nat
      /\ IsIo(reg) <=> pool[f].bars[b].io
  BY DeviceFacts, DeviceKinds
<1>2. size % 8 = 0
  <2>1. size \in Powers
    BY <1>1, LegalPower DEF BarFormed
  <2> HIDE DEF size
  <2> QED
    BY <2>1 DEF Powers
<1>3. AddressOf(f, b) % size = 0
  BY <1>1 DEF Formed, RegisterFits, HasBar, AddressOf
<1>4. AddressOf(f, b) % 8 = 0
  <2>1. (AddressOf(f, b) % size) % 8 = AddressOf(f, b) % 8
    BY <1>1, <1>2, RemainderDivides
  <2> QED
    BY <1>3, <2>1
<1>5. 0 * Dword = 0
  BY DwordType
<1>6. Align(reg, 16) + (IF reg % 8 = 4 THEN dev[f].reg[b + 1] * Dword ELSE 0) = AddressOf(f, b)
  BY <1>1, <1>5 DEF AddressOf
<1> QED
  BY <1>1, <1>2, <1>3, <1>4, <1>6

(* The contexts of the pool, and what their remembered addresses say.      *)
LEMMA ContextIs ==
  ASSUME NEW pool \in Pools, PoolInv(pool), CacheFits(pool), NEW i \in DOMAIN ctxs
  PROVE  /\ i \in 1 .. Len(ctxs) /\ ctxs[i].fn \in DOMAIN pool /\ ctxs[i].fn \in Registered
         /\ ctxs[i].header = pool[ctxs[i].fn].header /\ DevicesFit(pool)
         /\ \A b \in Slots :
              /\ ctxs[i].info[b].size \in Nat
              /\ ctxs[i].info[b].size # 0 => HasBar(pool, ctxs[i].fn, b)
              /\ HasBar(pool, ctxs[i].fn, b) =>
                   /\ ctxs[i].info[b].size = pool[ctxs[i].fn].bars[b].size
                   /\ ctxs[i].info[b].io = pool[ctxs[i].fn].bars[b].io
                   /\ ctxs[i].info[b].base = AddressOf(ctxs[i].fn, b)
<1>1. ctxs \in Seq(Contexts(pool)) /\ ContextsFit(pool) /\ DevicesFit(pool)
  BY DEF PoolInv, ContextsFit
<1>2. i \in 1 .. Len(ctxs) /\ ctxs[i] \in Contexts(pool) /\ ContextFits(pool, ctxs[i])
  BY <1>1 DEF ContextsFit
<1>3. ctxs[i].fn \in DOMAIN pool /\ ctxs[i].fn \in Registered /\ ctxs[i].info \in [Slots -> Infos]
  BY <1>2 DEF Contexts, Registered
<1>4. ASSUME NEW b \in Slots
      PROVE  /\ ctxs[i].info[b].size \in Nat
             /\ ctxs[i].info[b].size # 0 => HasBar(pool, ctxs[i].fn, b)
             /\ HasBar(pool, ctxs[i].fn, b) =>
                  /\ ctxs[i].info[b].size = pool[ctxs[i].fn].bars[b].size
                  /\ ctxs[i].info[b].io = pool[ctxs[i].fn].bars[b].io
                  /\ ctxs[i].info[b].base = AddressOf(ctxs[i].fn, b)
  <2>1. ctxs[i].info[b] \in Infos /\ InfoFits(ctxs[i].info[b], pool, ctxs[i].fn, b)
    BY <1>2, <1>3 DEF ContextFits
  <2> QED
    BY <1>2, <2>1 DEF InfoFits, Infos, CacheFits
<1> QED
  BY <1>1, <1>2, <1>3, <1>4 DEF ContextFits

(* A BAR the router finds to claim an address has it in its range.         *)
LEMMA ClaimIs ==
  ASSUME NEW pool \in Pools, PoolInv(pool), CacheFits(pool), NEW i \in DOMAIN ctxs,
         NEW address \in Nat, NEW io \in BOOLEAN, NEW b \in EndpointClaims(i, address, io)
  PROVE  LET f == ctxs[i].fn
             size == pool[f].bars[b].size
         IN  /\ f \in DOMAIN pool /\ b \in Slots /\ HasBar(pool, f, b) /\ pool[f].bars[b].io = io
             /\ ctxs[i].info[b].size = size /\ AddressOf(f, b) # 0
             /\ address = AddressOf(f, b) + (address % size)
             /\ address % size \in 0 .. size - 1
<1> PICK f : f = ctxs[i].fn
  OBVIOUS
<1> PICK size : size = pool[f].bars[b].size
  OBVIOUS
<1> PICK base : base = AddressOf(f, b)
  OBVIOUS
<1>1. /\ b \in Slots /\ ctxs[i].info[b].size # 0 /\ ctxs[i].info[b].base # 0 /\ ctxs[i].info[b].io = io
      /\ Align(address, ctxs[i].info[b].size) = Align(ctxs[i].info[b].base, ctxs[i].info[b].size)
  BY DEF EndpointClaims
<1>2. /\ f \in DOMAIN pool /\ HasBar(pool, f, b) /\ DevicesFit(pool)
      /\ ctxs[i].info[b].size = size /\ ctxs[i].info[b].io = pool[f].bars[b].io
      /\ ctxs[i].info[b].base = base
  BY <1>1, ContextIs
<1>3. base # 0 /\ size \in Nat \ {0} /\ base \in Nat /\ base % size = 0
  BY <1>1, <1>2, BarPlaced
<1>4. Align(address, size) = base
  BY <1>1, <1>2, <1>3 DEF Align
<1>5. address % size \in 0 .. size - 1
  BY <1>3
<1>6. address = base + (address % size)
  BY <1>3, <1>4, <1>5 DEF Align
<1> QED
  BY <1>1, <1>2, <1>3, <1>5, <1>6

(* A context that matches an address does so by one of its claims.         *)
LEMMA MatchIs ==
  ASSUME NEW i, NEW address, NEW io
  PROVE  LET match == EndpointMatch(i, address, io)
         IN  /\ EndpointClaims(i, address, io) # {} => match # NoMatch
             /\ match # NoMatch =>
                  /\ match.bar \in EndpointClaims(i, address, io) /\ match.fn = ctxs[i].fn
                  /\ match.io = io /\ match.size = ctxs[i].info[match.bar].size
                  /\ match.offset = address % ctxs[i].info[match.bar].size
<1> DEFINE claims == EndpointClaims(i, address, io)
           b == CHOOSE c \in claims : \A e \in claims : c <= e
           match == EndpointMatch(i, address, io)
<1>1. claims # {} => b \in claims
  <2> SUFFICES ASSUME claims # {} PROVE b \in claims
    OBVIOUS
  <2>1. claims \in SUBSET Slots
    BY DEF EndpointClaims
  <2>2. \E c \in claims : \A e \in claims : c <= e
    BY <2>1, LeastSlot
  <2> HIDE DEF claims
  <2> QED
    BY <2>2
<1> PICK c : c = b
  OBVIOUS
<1>2. match = IF claims = {} THEN NoMatch
              ELSE [fn |-> ctxs[i].fn, bar |-> c, size |-> ctxs[i].info[c].size, io |-> io,
                    offset |-> address % ctxs[i].info[c].size]
  BY DEF EndpointMatch
<1> HIDE DEF claims, b, match
<1>3. CASE claims = {}
  BY <1>2, <1>3 DEF match, claims
<1>4. CASE claims # {}
  <2> PICK rec : rec = [fn |-> ctxs[i].fn, bar |-> c, size |-> ctxs[i].info[c].size, io |-> io,
                        offset |-> address % ctxs[i].info[c].size]
    OBVIOUS
  <2>1. DOMAIN rec = {"fn", "bar", "size", "io", "offset"} /\ DOMAIN NoMatch = {"fn"}
    BY DEF NoMatch
  <2>2. rec # NoMatch
    BY <2>1
  <2> QED
    BY <1>1, <1>2, <1>4, <2>2 DEF match, claims, b
<1> QED
  BY <1>3, <1>4

(* The first match is one of the matches, when there is any.               *)
LEMMA FirstMatchIs ==
  ASSUME NEW matches, DOMAIN matches \subseteq Nat
  PROVE  /\ (\E i \in DOMAIN matches : matches[i] # NoMatch) => FirstMatch(matches) # NoMatch
         /\ FirstMatch(matches) # NoMatch =>
              \E i \in DOMAIN matches : FirstMatch(matches) = matches[i]
<1> DEFINE claimants == {i \in DOMAIN matches : matches[i] # NoMatch}
<1>1. CASE claimants = {}
  BY <1>1 DEF FirstMatch
<1>2. CASE claimants # {}
  <2>1. claimants \in SUBSET Nat
    OBVIOUS
  <2>2. \E i \in claimants : \A j \in claimants : i <= j
    BY <1>2, <2>1, LeastNatural
  <2> DEFINE first == CHOOSE i \in claimants : \A j \in claimants : i <= j
  <2>3. FirstMatch(matches) = matches[first]
    BY <1>2 DEF FirstMatch
  <2> HIDE DEF claimants
  <2>4. first \in claimants
    BY <2>2
  <2> HIDE DEF first
  <2>5. first \in DOMAIN matches /\ matches[first] # NoMatch
    BY <2>4 DEF claimants
  <2> QED
    BY <2>3, <2>5
<1> QED
  BY <1>1, <1>2

(* What the router finds is a match of an enabled context, of the root bus *)
(* or behind a bridge of it that is enabled and has the address in one of  *)
(* its windows.                                                            *)
LEMMA FoundIs ==
  ASSUME NEW pool \in Pools, PoolInv(pool), CacheFits(pool), NEW address, NEW io,
         MmioFindDevice(address, io) # NoMatch
  PROVE  \E i \in DOMAIN ctxs :
           /\ MmioFindDevice(address, io) = EndpointMatch(i, address, io) /\ IsDeviceEnabled(i, io)
           /\ \/ ctxs[i].fn[1] = 0
              \/ \E j \in DOMAIN ctxs : /\ ctxs[j].fn[1] = 0 /\ ctxs[j].header = 1
                                        /\ IsDeviceEnabled(j, io) /\ InWindow(j, address, io)
<1> DEFINE on(bus) == EnabledOn(bus, io)
           roots == [i \in on(0) |-> MatchOf(i, address, io)]
           behinds == [i \in on(SecondaryBus) |-> EndpointMatch(i, address, io)]
           found == MmioFindDevice(address, io)
<1>1. DOMAIN ctxs \subseteq Nat
  <2>1. ctxs \in Seq(Contexts(pool))
    BY DEF PoolInv, ContextsFit
  <2> QED
    BY <2>1
<1>2. \A bus : on(bus) \subseteq DOMAIN ctxs
  BY DEF EnabledOn
<1>3. found = FirstMatch(roots)
  BY DEF MmioFindDevice
<1>4. PICK j \in on(0) : found = MatchOf(j, address, io)
  <2>1. DOMAIN roots \subseteq Nat
    BY <1>1, <1>2
  <2>2. \E j \in DOMAIN roots : FirstMatch(roots) = roots[j]
    BY <1>3, <2>1, FirstMatchIs
  <2> QED
    BY <1>3, <2>2
<1>5. j \in DOMAIN ctxs /\ ctxs[j].fn[1] = 0 /\ IsDeviceEnabled(j, io)
  BY DEF EnabledOn
<1>6. CASE found = EndpointMatch(j, address, io)
  BY <1>5, <1>6
<1>7. CASE found # EndpointMatch(j, address, io)
  <2>1. ctxs[j].header = 1 /\ found = BridgeForwardsAddress(j, address, io)
    BY <1>4, <1>7 DEF MatchOf
  <2>2. InWindow(j, address, io) /\ found = ScanSecondaryBus(address, io)
    BY <1>7, <2>1 DEF BridgeForwardsAddress
  <2>3. found = FirstMatch(behinds)
    BY <2>2 DEF ScanSecondaryBus
  <2>4. PICK i \in on(SecondaryBus) : found = EndpointMatch(i, address, io)
    <3>1. DOMAIN behinds \subseteq Nat
      BY <1>1, <1>2
    <3>2. \E i \in DOMAIN behinds : FirstMatch(behinds) = behinds[i]
      BY <2>3, <3>1, FirstMatchIs
    <3> QED
      BY <2>3, <3>2
  <2>5. i \in DOMAIN ctxs /\ IsDeviceEnabled(i, io)
    BY DEF EnabledOn
  <2> QED
    BY <1>5, <2>1, <2>2, <2>4, <2>5
<1> QED
  BY <1>6, <1>7

(* The match is of a BAR that decodes the address: the offset is the       *)
(* distance to the BAR's own address.                                      *)
LEMMA FoundDecodes ==
  ASSUME NEW pool \in Pools, PoolInv(pool), CacheFits(pool), NEW address \in Nat, NEW io \in BOOLEAN,
         MmioFindDevice(address, io) # NoMatch
  PROVE  LET match == MmioFindDevice(address, io)
             d == dev[match.fn]
         IN  /\ match.fn \in DOMAIN pool /\ match.fn \in Registered /\ match.bar \in Slots
             /\ match.io = io /\ (IsIo(d.reg[match.bar]) <=> io)
             /\ match.size \in Nat \ {0} /\ match.size % 8 = 0 /\ match.offset \in 0 .. match.size - 1
             /\ BarAddress(d, match.bar) \in Nat /\ BarAddress(d, match.bar) % 8 = 0
             /\ address = BarAddress(d, match.bar) + match.offset
             /\ PciValidateAccess(d, address, io)
<1> PICK match : match = MmioFindDevice(address, io)
  OBVIOUS
<1> PICK i \in DOMAIN ctxs : match = EndpointMatch(i, address, io) /\ IsDeviceEnabled(i, io)
  BY FoundIs
<1> PICK f : f = ctxs[i].fn
  OBVIOUS
<1> PICK b : b = match.bar
  OBVIOUS
<1>1. /\ b \in EndpointClaims(i, address, io) /\ match.fn = f /\ match.io = io
      /\ match.size = ctxs[i].info[b].size /\ match.offset = address % ctxs[i].info[b].size
  BY MatchIs
<1> PICK size : size = pool[f].bars[b].size
  OBVIOUS
<1>2. /\ f \in DOMAIN pool /\ b \in Slots /\ HasBar(pool, f, b) /\ pool[f].bars[b].io = io
      /\ ctxs[i].info[b].size = size /\ AddressOf(f, b) # 0
      /\ address = AddressOf(f, b) + (address % size)
      /\ address % size \in 0 .. size - 1
  BY <1>1, ClaimIs
<1>3. f \in Registered /\ DevicesFit(pool)
  BY ContextIs
<1>4. /\ size \in Nat \ {0} /\ size % 8 = 0 /\ dev[f].size[b] = size
      /\ AddressOf(f, b) \in Nat /\ AddressOf(f, b) % 8 = 0 /\ BarAddress(dev[f], b) = AddressOf(f, b)
      /\ IsIo(dev[f].reg[b]) <=> pool[f].bars[b].io
      /\ Align(dev[f].reg[b], 16)
           + (IF dev[f].reg[b] % 8 = 4 THEN dev[f].reg[b + 1] * Dword ELSE 0) = AddressOf(f, b)
  BY <1>2, <1>3, BarPlaced
<1>5. (IF io THEN "io" ELSE "mem") \in dev[f].cmd
  BY DEF IsDeviceEnabled
<1>6. address \in AddressOf(f, b) .. AddressOf(f, b) + dev[f].size[b] - 1
  BY <1>2, <1>4
<1>7. PciValidateAccess(dev[f], address, io)
  <2>1. LET base == Align(dev[f].reg[b], 16)
                      + (IF dev[f].reg[b] % 8 = 4 THEN dev[f].reg[b + 1] * Dword ELSE 0)
        IN  dev[f].size[b] > 0 /\ base # 0 /\ address \in base .. base + dev[f].size[b] - 1
    <3>1. dev[f].size[b] > 0
      BY <1>4
    <3> QED
      BY <1>2, <1>4, <1>6, <3>1, Zenon
  <2> QED
    BY <1>2, <1>5, <2>1, Zenon DEF PciValidateAccess
<1> QED
  BY <1>1, <1>2, <1>3, <1>4, <1>7

(* An access is validated when it is aligned. *)
LEMMA AlignedIsValid ==
  ASSUME NEW pool \in Pools, PoolInv(pool), CacheFits(pool), NEW address \in Nat,
         MmioFindDevice(address, FALSE) # NoMatch
  PROVE  LET match == MmioFindDevice(address, FALSE)
         IN  /\ ValidateAccess(match, address) <=> address % AccessSize = 0
             /\ address % AccessSize = 0 => match.offset % AccessSize = 0
<1> PICK match : match = MmioFindDevice(address, FALSE)
  OBVIOUS
<1> PICK base : base = BarAddress(dev[match.fn], match.bar)
  OBVIOUS
<1> PICK offset : offset = match.offset
  OBVIOUS
<1> PICK size : size = match.size
  OBVIOUS
<1>1. /\ match.io = FALSE /\ size \in Nat \ {0} /\ size % 8 = 0 /\ offset \in 0 .. size - 1
      /\ base \in Nat /\ base % 8 = 0 /\ address = base + offset
  BY FoundDecodes
<1>2. address % 8 = 0 => offset % 8 = 0
  <2>1. \A x, y \in Nat : x % 8 = 0 /\ (x + y) % 8 = 0 => y % 8 = 0
    OBVIOUS
  <2>2. offset \in Nat
    BY ONLY <1>1
  <2> QED
    BY <1>1, <2>1, <2>2
<1>3. offset % 8 = 0 => offset + 8 <= size
  <2>1. \A n \in Nat : \A x \in 0 .. n - 1 : n % 8 = 0 /\ x % 8 = 0 => x + 8 <= n
    OBVIOUS
  <2> QED
    BY <1>1, <2>1
<1> QED
  BY <1>1, <1>2, <1>3 DEF ValidateAccess, AccessSize

(* RoutedIsDecoded, in a state of the program. *)
LEMMA RouterDecodes == AssignmentInv => RoutedIsDecoded
<1> SUFFICES ASSUME AssignmentInv, NEW a \in PhysAddresses, NEW io \in Spaces,
                    MmioFindDevice(a, io) # NoMatch
             PROVE  PciValidateAccess(dev[MmioFindDevice(a, io).fn], a, io)
  BY DEF RoutedIsDecoded
<1> PICK pool \in Pools : PoolInv(pool) /\ CacheFits(pool)
  BY DEF AssignmentInv, AssignInv
<1>1. a \in Nat /\ io \in BOOLEAN
  BY RouterAssumption DEF Spaces
<1> QED
  BY <1>1, FoundDecodes

(* DecodedIsRouted, in a state of the program. *)
LEMMA DecodersRouted == AssignmentInv => DecodedIsRouted
<1> SUFFICES ASSUME AssignmentInv, NEW k \in KnownBars, NEW a \in PhysAddresses,
                    ctxs[k[1]].fn[1] = 0, ~IsIo(DeviceOf(k).reg[k[2]]), a \in Region(k),
                    a % AccessSize = 0, BarAddress(DeviceOf(k), k[2]) # 0,
                    PciValidateAccess(DeviceOf(k), a, FALSE)
             PROVE  MmioRouteRead(a) # Nothing
  BY DEF DecodedIsRouted
<1> PICK pool \in Pools : PoolInv(pool) /\ CacheFits(pool)
  BY DEF AssignmentInv, AssignInv
<1> PICK i : i = k[1]
  OBVIOUS
<1> PICK b : b = k[2]
  OBVIOUS
<1> PICK f : f = ctxs[i].fn
  OBVIOUS
<1> PICK base : base = AddressOf(f, b)
  OBVIOUS
<1> PICK size : size = pool[f].bars[b].size
  OBVIOUS
<1> DEFINE found == MmioFindDevice(a, FALSE)
<1>0. a \in Nat
  BY RouterAssumption
<1>1. /\ i \in 1 .. Len(ctxs) /\ b \in Slots /\ f \in DOMAIN pool /\ HasBar(pool, f, b)
      /\ BarAddress(dev[f], b) = base /\ DeviceOf(k) = dev[f] /\ dev[f].size[b] = size
  BY KnownFacts DEF DeviceOf
<1>2. i \in DOMAIN ctxs /\ DOMAIN ctxs \subseteq Nat
  <2>1. ctxs \in Seq(Contexts(pool))
    BY DEF PoolInv, ContextsFit
  <2> QED
    BY <1>1, <2>1
<1>3. /\ base # 0 /\ size \in Nat \ {0} /\ base \in Nat /\ base % size = 0
      /\ (IsIo(dev[f].reg[b]) <=> pool[f].bars[b].io) /\ DevicesFit(pool)
  BY <1>1, BarPlaced DEF PoolInv
<1>4. ctxs[i].info[b].size = size /\ ctxs[i].info[b].io = pool[f].bars[b].io
      /\ ctxs[i].info[b].base = base
  BY <1>1, <1>2, ContextIs
<1>5. Align(a, size) = base /\ Align(base, size) = base
  <2>1. a \in base .. base + size - 1
    BY <1>1 DEF Region
  <2> QED
    BY <1>3, <2>1, AlignInside
<1>6. b \in EndpointClaims(i, a, FALSE)
  <2>1. pool[f].bars[b].io = FALSE
    <3>1. pool[f].bars[b].io \in BOOLEAN
      BY <1>1, <1>3, DeviceKinds DEF BarFormed
    <3> QED
      BY <1>1, <1>3, <3>1
  <2> QED
    BY <1>1, <1>3, <1>4, <1>5, <2>1 DEF EndpointClaims
<1>7. EndpointMatch(i, a, FALSE) # NoMatch
  <2>1. EndpointClaims(i, a, FALSE) # {}
    BY <1>6
  <2>2. \A io : EndpointClaims(i, a, io) # {} => EndpointMatch(i, a, io) # NoMatch
    BY MatchIs
  <2> QED
    BY <2>1, <2>2, Zenon
<1>8. MatchOf(i, a, FALSE) # NoMatch
  BY <1>7 DEF MatchOf, BridgeForwardsAddress
<1>9. i \in EnabledOn(0, FALSE)
  <2>1. "mem" \in dev[f].cmd
    BY <1>1 DEF PciValidateAccess
  <2> QED
    BY <1>2, <2>1 DEF EnabledOn, IsDeviceEnabled
<1>10. found # NoMatch
  <2> DEFINE roots == [j \in EnabledOn(0, FALSE) |-> MatchOf(j, a, FALSE)]
  <2>1. DOMAIN roots \subseteq Nat /\ i \in DOMAIN roots /\ roots[i] # NoMatch
    BY <1>2, <1>8, <1>9 DEF EnabledOn
  <2>2. found = FirstMatch(roots)
    BY DEF MmioFindDevice
  <2> HIDE DEF roots, found
  <2>3. FirstMatch(roots) # NoMatch
    BY <2>1, FirstMatchIs
  <2> QED
    BY <2>2, <2>3
<1>11. ValidateAccess(found, a) /\ found.fn \in DOMAIN pool /\ found.bar \in Slots
  BY <1>0, <1>10, AlignedIsValid, FoundDecodes
<1>12. MmioRouteRead(a) = mem[found.fn][found.bar]
  BY <1>11 DEF MmioRouteRead
<1> HIDE DEF found
<1>13. mem[found.fn][found.bar] \in 0 .. 1
  BY <1>11 DEF PoolInv
<1> QED
  BY <1>12, <1>13 DEF Nothing

(* WritesDecoded: what a step of the program does to the memory, once the  *)
(* functions are enumerated.                                               *)
LEMMA WriteDecodes ==
  ASSUME AssignmentInv, [RouterNext]_pciVars, Enumerated, mem' # mem
  PROVE  \E f \in Registered, b \in Slots, a \in PhysAddresses, word \in Words :
           /\ mem' = [mem EXCEPT ![f][b] = word]
           /\ ~IsIo(dev[f].reg[b])
           /\ BarAddress(dev[f], b) = a
           /\ PciValidateAccess(dev[f], a, FALSE)
<1> PICK pool \in Pools : PoolInv(pool) /\ CacheFits(pool)
  BY DEF AssignmentInv, AssignInv
<1>1. MmioWrites
  <2>1. building = NoContext
    BY WalkIsOver
  <2>2. ~PciEnumerate
    BY <2>1 DEF PciEnumerate, ScanNothing, ScanFunction, ScanBusEnds, Scanning, Enumerated,
       CreateBar, AssignSkip, AssignBarAddress, HandleNewPciDevice
  <2>3. ~Configure
    BY DEF Configure, SetCommand, MoveBar
  <2>4. ~ProgramWindows
    <3>1. ASSUME NEW f, NEW slot, NEW v, ProgramWindow(f, slot, v) PROVE FALSE
      BY <3>1 DEF ProgramWindow
    <3>2. ASSUME NEW f, NEW base, NEW limit, ProgramUppers(f, base, limit) PROVE FALSE
      BY <3>2 DEF ProgramUppers
    <3> QED
      BY <3>1, <3>2 DEF ProgramWindows
  <2>5. ~UNCHANGED pciVars
    BY DEF pciVars
  <2> QED
    BY <2>2, <2>3, <2>4, <2>5 DEF RouterNext, Next
<1> PICK a \in PhysAddresses, word \in Words : MmioRouteWrite(a, word)
  BY <1>1 DEF MmioWrites
<1> PICK match : match = MmioFindDevice(a, FALSE)
  OBVIOUS
<1>2. a \in Nat
  BY RouterAssumption
<1>3. a \in FirstWords /\ ValidateAccess(match, a) /\ mem' = [mem EXCEPT ![match.fn][match.bar] = word]
  BY DEF MmioRouteWrite
<1>4. match # NoMatch /\ match.offset < AccessSize
  BY <1>3 DEF FirstWords, ValidateAccess
<1>5. /\ match.fn \in Registered /\ match.bar \in Slots /\ ~IsIo(dev[match.fn].reg[match.bar])
      /\ match.offset \in Nat /\ BarAddress(dev[match.fn], match.bar) \in Nat
      /\ a = BarAddress(dev[match.fn], match.bar) + match.offset
      /\ PciValidateAccess(dev[match.fn], a, FALSE)
  <2>1. /\ match.fn \in Registered /\ match.bar \in Slots
        /\ (IsIo(dev[match.fn].reg[match.bar]) <=> FALSE)
        /\ match.size \in Nat \ {0} /\ match.offset \in 0 .. match.size - 1
        /\ BarAddress(dev[match.fn], match.bar) \in Nat
        /\ a = BarAddress(dev[match.fn], match.bar) + match.offset
        /\ PciValidateAccess(dev[match.fn], a, FALSE)
    BY <1>2, <1>4, FoundDecodes
  <2>2. match.offset \in Nat
    BY ONLY <2>1
  <2> QED
    BY <2>1, <2>2
<1>6. match.offset % AccessSize = 0
  BY <1>2, <1>3, <1>4, AlignedIsValid
<1>7. match.offset = 0
  <2>1. \A n \in Nat : n < 8 /\ n % 8 = 0 => n = 0
    OBVIOUS
  <2> QED
    BY <1>4, <1>5, <1>6, <2>1 DEF AccessSize
<1>8. BarAddress(dev[match.fn], match.bar) = a
  BY ONLY <1>5, <1>7
<1> QED
  BY <1>3, <1>5, <1>8, Zenon

(* AccessesRouted: at all times, whatever software has done with the       *)
(* registers, the router sends an access to a BAR that decodes its         *)
(* address, leaves no aligned access to an enabled memory BAR of the root  *)
(* bus unanswered, and a write changes the word of a BAR that decodes it.  *)
THEOREM AccessesRoutedHolds == RouterSpec /\ []AllocatorsFit => AccessesRouted
<1>1. AssignmentInv /\ [RouterNext]_pciVars =>
        [Enumerated /\ mem' # mem =>
          \E f \in Registered, b \in Slots, a \in PhysAddresses, word \in Words :
            /\ mem' = [mem EXCEPT ![f][b] = word]
            /\ ~IsIo(dev[f].reg[b])
            /\ BarAddress(dev[f], b) = a
            /\ PciValidateAccess(dev[f], a, FALSE)]_pciVars
  BY WriteDecodes
<1> QED
  BY <1>1, RouterDecodes, DecodersRouted, AssignmentInvariant, PTL DEF RouterSpec, AccessesRouted, WritesDecoded

(* There is one bridge for the router to forward through. *)
LEMMA OneBridge ==
  ASSUME NEW pool \in Pools, PoolInv(pool), Enumerated, NEW g \in Bridges
  PROVE  RootBridge = g
<1>1. Registered \subseteq VisibleIn(DOMAIN pool)
  <2>1. ScanOver(pool)
    BY WalkIsOver
  <2> QED
    BY <2>1 DEF ScanOver, ScannedTo, Behind
<1>2. ASSUME NEW h \in Bridges PROVE h = g
  <2>1. /\ g \in Registered /\ g[1] = 0 /\ pool[g].header = 1
        /\ h \in Registered /\ h[1] = 0 /\ pool[h].header = 1
    BY BridgeFacts
  <2> QED
    BY <1>1, <2>1, PoolsAssumption
<1>3. RootBridge \in Bridges
  BY DEF RootBridge
<1> QED
  BY <1>2, <1>3

(* A registered bridge of the root bus is one software can program. *)
LEMMA BridgeOf ==
  ASSUME NEW pool \in Pools, PoolInv(pool), CacheFits(pool), NEW j \in DOMAIN ctxs,
         ctxs[j].fn[1] = 0, ctxs[j].header = 1
  PROVE  ctxs[j].fn \in Bridges
<1> PICK g : g = ctxs[j].fn
  OBVIOUS
<1>1. g \in Registered /\ g \in DOMAIN pool /\ pool[g].header = 1 /\ DevicesFit(pool)
  BY ContextIs
<1>2. dev[g].header = 1
  BY <1>1, DeviceFacts DEF Formed
<1> QED
  BY <1>1, <1>2 DEF Bridges

(* A dword is made of two halves, and an empty one has no base. *)
LEMMA HalfType == Half \in Nat \ {0} /\ Base(0) = 0
<1>1. WindowUnit \in Nat \ {0} /\ Dword = WindowUnit * WindowUnit + 0
  BY WidthAssumption, DwordType
<1>2. Dword \div WindowUnit = WindowUnit
  BY <1>1, QuotientUnique
<1> QED
  BY <1>1, <1>2 DEF Half, Base

(* What is in a window of a bridge by its registers the bridge forwards.   *)
LEMMA WindowForwards ==
  ASSUME PrefetchWindowsLow, NEW pool \in Pools, PoolInv(pool), CacheFits(pool), NEW j \in DOMAIN ctxs,
         ctxs[j].fn[1] = 0, ctxs[j].header = 1, NEW address \in Nat, NEW io \in BOOLEAN,
         IsDeviceEnabled(j, io), InWindow(j, address, io), "master" \in dev[ctxs[j].fn].cmd
  PROVE  PciBridgeValidateForward(dev[ctxs[j].fn], address, io)
<1> PICK g : g = ctxs[j].fn
  OBVIOUS
<1> PICK d : d = dev[g]
  OBVIOUS
<1>1. g \in Registered /\ g \in DOMAIN pool /\ pool[g].header = 1 /\ DevicesFit(pool)
  BY ContextIs
<1>2. d.header = 1 /\ AtRest(d) /\ WindowsFit(d, 1)
  BY <1>1, DeviceFacts DEF Formed
<1>4. (IF io THEN "io" ELSE "mem") \in d.cmd
  BY DEF IsDeviceEnabled
<1>5. CASE io
  BY <1>2, <1>4, <1>5 DEF InWindow, AddressInIoWindow, Programmed, PciBridgeValidateForward
<1>6. CASE ~io /\ AddressInMemoryWindow(d, address)
  <2>1. Base(0) = 0
    BY HalfType DEF Base
  <2>2. d.reg[4] # 0
    BY <1>6, <2>1 DEF AddressInMemoryWindow, Programmed
  <2> QED
    BY <1>2, <1>4, <1>6, <2>2 DEF AddressInMemoryWindow, PciBridgeValidateForward
<1>7. CASE ~io /\ AddressInPrefetchWindow(d, address)
  <2> DEFINE v == d.reg[5]
             wide == d.baseUpper # 0
             base == Base(v) * WindowUnit + (IF wide THEN d.baseUpper * Dword ELSE 0)
             limit == Limit(v) * WindowUnit + (IF wide THEN d.limitUpper * Dword ELSE 0)
  <2>1. Base(v) # 0 /\ Limit(v) # 0 /\ base <= address /\ address < limit + WindowUnit
    BY <1>7 DEF AddressInPrefetchWindow, Programmed
  <2>2. v \in {0} \union Windows[5] /\ d.baseUpper \in Nat /\ d.limitUpper \in Nat /\ v \in Nat
    <3>1. 5 \in Slots /\ WindowSlot(1, 5)
      BY DEF Slots, WindowSlot
    <3>2. v \in Nat
      BY <1>2, <3>1, DwordType DEF AtRest, IsDevice, Registers
    <3> QED
      <4>1. v \in {0} \union Windows[5]
        BY <1>2, <3>1 DEF WindowsFit
      <4>2. d.baseUpper \in {0} \union Uppers /\ d.limitUpper \in {0} \union Uppers
        BY <1>2 DEF WindowsFit
      <4>3. {0} \union Uppers \subseteq Nat
        BY RouterAssumption
      <4>4. d.baseUpper \in Nat /\ d.limitUpper \in Nat
        BY ONLY <4>2, <4>3, Zenon
      <4> HIDE DEF v
      <4> QED
        BY ONLY <3>2, <4>1, <4>4
  <2>3. ~(Base(v) >= Half \div 2) /\ ~(Limit(v) >= Half \div 2) /\ Base(v) \in Nat /\ Limit(v) \in Nat
    <3>1. Base(0) = 0
      BY HalfType DEF Base
    <3>2. v \in Windows[5]
      BY <2>1, <2>2, <3>1
    <3>3. Base(v) \in Nat /\ Limit(v) \in Nat /\ Half \div 2 \in Nat
      <4>1. Half \in Nat \ {0}
        BY HalfType
      <4>2. v % Half \in 0 .. Half - 1 /\ v \div Half \in Nat
        BY <2>2, <4>1, Division
      <4>3. Half \div 2 \in Nat
        BY <4>1
      <4> QED
        BY <4>1, <4>2, <4>3 DEF Base, Limit
    <3> QED
      BY <3>2, <3>3 DEF PrefetchWindowsLow
  <2>4. /\ Extended(Base(v), d.baseUpper) = Base(v) * WindowUnit + Dword * d.baseUpper
        /\ Extended(Limit(v), d.limitUpper) = Limit(v) * WindowUnit + Dword * d.limitUpper
    BY <2>3 DEF Extended
  <2>5. WindowUnit \in Nat /\ Dword \in Nat
    BY WidthAssumption, DwordType
  <2>6. Extended(Base(v), d.baseUpper) = base
    <3>1. Dword * d.baseUpper = d.baseUpper * Dword /\ (d.baseUpper = 0 => Dword * d.baseUpper = 0)
      BY <2>2, <2>5
    <3>2. Base(v) * WindowUnit \in Nat /\ d.baseUpper * Dword \in Nat
      BY <2>2, <2>3, <2>5
    <3> QED
      BY <2>4, <3>1, <3>2
  <2>7. limit <= Extended(Limit(v), d.limitUpper)
    <3>1. Dword * d.limitUpper = d.limitUpper * Dword /\ d.limitUpper * Dword \in Nat
      BY <2>2, <2>5
    <3>2. Limit(v) * WindowUnit \in Nat
      BY <2>3, <2>5
    <3> QED
      BY <2>4, <3>1, <3>2
  <2>8. limit \in Nat /\ Extended(Limit(v), d.limitUpper) \in Nat
    BY <2>2, <2>3, <2>4, <2>5
  <2> HIDE DEF base, limit, v
  <2>9. Extended(Base(v), d.baseUpper) <= address /\ address < Extended(Limit(v), d.limitUpper) + WindowUnit
    BY <2>1, <2>5, <2>6, <2>7, <2>8
  <2> QED
    BY <1>2, <1>4, <1>7, <2>1, <2>9 DEF PciBridgeValidateForward, v
<1> QED
  BY <1>5, <1>6, <1>7 DEF InWindow

(* ForwardedByBridge: the router's windows and the bridge's decoder agree. *)
(* What the router finds on the secondary bus the bridge forwards, when it *)
(* masters the bus and no half of the prefetch window that software writes *)
(* has the sign bit.                                                       *)
THEOREM ForwardedByBridgeHolds ==
  ASSUME PrefetchWindowsLow PROVE RouterSpec /\ []AllocatorsFit => []ForwardedByBridge
<1>1. ASSUME AssignmentInv PROVE ForwardedByBridge
  <2> SUFFICES ASSUME Enumerated, NEW a \in PhysAddresses, NEW io \in Spaces,
                      MmioFindDevice(a, io) # NoMatch, MmioFindDevice(a, io).fn[1] = 1,
                      "master" \in dev[RootBridge].cmd
               PROVE  PciBridgeValidateForward(dev[RootBridge], a, io)
    BY DEF ForwardedByBridge
  <2> PICK pool \in Pools : PoolInv(pool) /\ CacheFits(pool)
    BY <1>1 DEF AssignmentInv, AssignInv
  <2>1. a \in Nat /\ io \in BOOLEAN
    BY RouterAssumption DEF Spaces
  <2>2. PICK i \in DOMAIN ctxs :
          /\ MmioFindDevice(a, io) = EndpointMatch(i, a, io)
          /\ \/ ctxs[i].fn[1] = 0
             \/ \E j \in DOMAIN ctxs : /\ ctxs[j].fn[1] = 0 /\ ctxs[j].header = 1
                                       /\ IsDeviceEnabled(j, io) /\ InWindow(j, a, io)
    BY FoundIs
  <2>3. ctxs[i].fn[1] = 1
    BY <2>2, MatchIs
  <2>4. PICK j \in DOMAIN ctxs : /\ ctxs[j].fn[1] = 0 /\ ctxs[j].header = 1
                                 /\ IsDeviceEnabled(j, io) /\ InWindow(j, a, io)
    BY <2>2, <2>3
  <2>5. ctxs[j].fn \in Bridges
    BY <2>4, BridgeOf
  <2>6. RootBridge = ctxs[j].fn
    BY <2>5, OneBridge
  <2> QED
    BY <2>1, <2>4, <2>6, WindowForwards
<1> QED
  BY <1>1, AssignmentInvariant, PTL

=============================================================================
