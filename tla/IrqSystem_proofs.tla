-------------------------- MODULE IrqSystem_proofs --------------------------
(***************************************************************************)
(* Proofs about the interrupt path, for every number of CPUs, every pool   *)
(* of devices and every size of the rings: no interrupt and no event is    *)
(* lost on the way, and a ring overflows only in a burst.                  *)
(***************************************************************************)
EXTENDS IrqSystem, FiniteSetTheorems, SequenceTheorems, TLAPS

----------------------------------------------------------------------------
(* Where the loop is.                                                       *)

\* Only the CPU that steps is above PASSIVE_LVL, has an interrupt in service
\* or DPCs; it runs DPCs when nothing is pending any more, and the CPUs that
\* have stepped are quiet.
Control ==
    /\ chain # NoNode => phase = "cpus" /\ irql[stepping] = DEVICE
    /\ phase \in {"timer", "end"} => \A c \in Cpus : pending[c] = {}
    /\ \A c \in Cpus :
         /\ irql[c] # PASSIVE => phase = "cpus" /\ c = stepping
         /\ irql[c] # DEVICE => inService[c] = -1
         /\ irql[c] = DISPATCH => pending[c] = {}
         /\ dpcs[c] # <<>> => phase = "cpus" /\ c = stepping
         /\ phase = "cpus" /\ c < stepping => pending[c] = {}

\* The timer's bit is pending on the timer's CPU only, and not while the ISR
\* of the timer is the one to call.
TimerBit == Served(Timer) /\ TimerAlone =>
    /\ \A c \in Cpus \ {Arrives(Timer).cpu} : Arrives(Timer).bits \cap pending[c] = {}
    /\ Called(Timer) => /\ stepping = Arrives(Timer).cpu
                        /\ Arrives(Timer).bits \cap pending[stepping] = {}

\* What waits in the ring of a served device came in this tick, unless a DPC
\* could not be allocated.
UnreadIsRecent == \A d \in Pooled \ {Timer} :
    Served(d) /\ d \notin dropped => Len(unread[d]) <= events[d]

IInv == /\ TypeOK /\ Control /\ RingExact /\ NoStrandedEvents
        /\ TimerBit /\ TicksExact /\ UnreadIsRecent

----------------------------------------------------------------------------
(* The pool.                                                                *)

(* A set of naturals has a least element. *)
LEMMA LeastNatural ==
  ASSUME NEW T, T \subseteq Nat, T # {}
  PROVE  \E x \in T : \A y \in T : x <= y
<1>1. PICK x \in T : \A y \in T : <<y, x>> \notin OpToRel(<, Nat)
  BY WFMin, NatLessThanWellFounded, Zenon
<1>2. \A y \in T : ~(y < x)
  BY <1>1, Zenon DEF OpToRel
<1> QED
  BY <1>2

(* Some of the first n places have a last one. *)
LEMMA LastPlace ==
  ASSUME NEW n \in Nat, NEW S \in SUBSET (1..n)
  PROVE  /\ S = {} => LastOf(S) = NoNode
         /\ S # {} => LastOf(S) \in S /\ \A j \in S : j <= LastOf(S)
<1>1. ASSUME S # {} PROVE \E i \in S : \A j \in S : j <= i
  <2> DEFINE T == {n - i : i \in S}
  <2>0. \A i \in S : n - i \in Nat
    OBVIOUS
  <2>1. T \subseteq Nat /\ T # {}
    BY <1>1, <2>0
  <2>2. PICK x \in T : \A y \in T : x <= y
    <3> HIDE DEF T
    <3> QED
      BY <2>1, LeastNatural
  <2>3. PICK i \in S : x = n - i
    BY <2>2
  <2>4. \A j \in S : j <= i
    <3> TAKE j \in S
    <3>1. x <= n - j
      BY <2>2
    <3> QED
      BY <2>3, <3>1
  <2> QED
    BY <2>4
<1> QED
  BY <1>1 DEF LastOf

(* The pool is one of Pools: each device has one place. *)
LEMMA PoolTypes ==
  ASSUME pool \in Pools
  PROVE  /\ Len(pool) \in Nat /\ DOMAIN pool = 1..Len(pool)
         /\ \A i \in DOMAIN pool : /\ pool[i] \in [device: Devices, msi: BOOLEAN, cpu: Cpus, vector: Nat]
                                   /\ pool[i].device \in Devices /\ pool[i].msi \in BOOLEAN
                                   /\ pool[i].cpu \in Cpus /\ pool[i].vector \in Nat
         /\ \A i, j \in DOMAIN pool : pool[i].device = pool[j].device => i = j
         /\ Timer \in Pooled /\ Pooled \subseteq Devices
<1>1. /\ pool \in Seq([device: Devices, msi: BOOLEAN, cpu: Cpus, vector: Nat])
      /\ \E i \in DOMAIN pool : pool[i].device = Timer
      /\ \A i, j \in DOMAIN pool : pool[i].device = pool[j].device => i = j
  BY IrqAssumption
<1>3. Len(pool) \in Nat /\ DOMAIN pool = 1..Len(pool)
  BY <1>1, LenProperties
<1>2. \A i \in DOMAIN pool : /\ pool[i] \in [device: Devices, msi: BOOLEAN, cpu: Cpus, vector: Nat]
                             /\ pool[i].device \in Devices /\ pool[i].msi \in BOOLEAN
                             /\ pool[i].cpu \in Cpus /\ pool[i].vector \in Nat
  <2> TAKE i \in DOMAIN pool
  <2>1. pool[i] \in [device: Devices, msi: BOOLEAN, cpu: Cpus, vector: Nat]
    BY <1>1, <1>3, ElementOfSeq
  <2> QED
    BY <2>1
<1> QED
  BY <1>1, <1>2, <1>3 DEF Pooled

(* A device of the pool has one configuration. *)
LEMMA ConfigTypes ==
  ASSUME pool \in Pools, NEW d \in Pooled
  PROVE  \E i \in DOMAIN pool : Config(d) = pool[i] /\ pool[i].device = d
BY DEF Config, Pooled

(* The node a vector's chain begins with is a device of that vector. *)
LEMMA IsrTableNode ==
  ASSUME pool \in Pools, NEW v
  PROVE  /\ IsrTable(v) \in 0..Len(pool)
         /\ IsrTable(v) # NoNode => /\ IsrTable(v) \in DOMAIN pool
                                    /\ pool[IsrTable(v)].vector = v
<1> DEFINE S == {i \in DOMAIN pool : pool[i].vector = v}
<1>1. Len(pool) \in Nat /\ DOMAIN pool = 1..Len(pool)
  BY PoolTypes
<1>2. S \in SUBSET (1..Len(pool))
  BY <1>1
<1>3. \/ LastOf(S) = NoNode
      \/ LastOf(S) \in S
  <2> HIDE DEF S
  <2> QED
    BY <1>1, <1>2, LastPlace
<1> QED
  BY <1>1, <1>3 DEF IsrTable, NoNode

(* Interrupts arrive at a CPU, at a bit of the bitmap or at none. *)
LEMMA ArrivesTypes ==
  ASSUME pool \in Pools, NEW d \in Pooled
  PROVE  /\ Arrives(d).cpu \in Cpus
         /\ \/ Arrives(d).bits = {}
            \/ \E v \in 0..(VectorBits - 1) : Arrives(d).bits = {v}
<1> DEFINE conf == IF Config(d).msi THEN Config(d) ELSE Route
<1>1. PICK i \in DOMAIN pool : Config(d) = pool[i] /\ pool[i].device = d
  BY ConfigTypes
<1>2. \E j \in DOMAIN pool : conf = pool[j]
  <2>1. CASE Config(d).msi
    BY <1>1, <2>1
  <2>2. CASE ~Config(d).msi
    <3> DEFINE S == {k \in DOMAIN pool : ~pool[k].msi}
    <3>1. Len(pool) \in Nat /\ S \in SUBSET (1..Len(pool)) /\ S # {}
      BY <1>1, <2>2, PoolTypes
    <3>2. LastOf(S) \in S
      <4> HIDE DEF S
      <4> QED
        BY <3>1, LastPlace
    <3> QED
      BY <2>2, <3>2 DEF Route
  <2> QED
    BY <2>1, <2>2
<1>3. conf.cpu \in Cpus /\ conf.vector \in Nat
  BY <1>2, PoolTypes
<1>4. conf.vector % VectorBits \in 0..(VectorBits - 1)
  <2>1. \A v \in Nat : v % VectorBits \in 0..(VectorBits - 1)
    BY IrqAssumption
  <2> HIDE DEF conf
  <2> QED
    BY <1>3, <2>1
<1>5. Arrives(d).cpu = conf.cpu /\ (Arrives(d).bits = {} \/ Arrives(d).bits = {conf.vector % VectorBits})
  BY DEF Arrives
<1> HIDE DEF conf
<1> QED
  BY <1>3, <1>4, <1>5

(* A served device has one bit, and its ISR is first in the chain of that   *)
(* vector and of no other.                                                  *)
LEMMA ServedBit ==
  ASSUME pool \in Pools, NEW d \in Pooled, Served(d)
  PROVE  \E v \in 0..(VectorBits - 1) :
           /\ Arrives(d).bits = {v}
           /\ IsrTable(v) # NoNode /\ pool[IsrTable(v)].device = d
           /\ \A w : IsrTable(w) # NoNode /\ pool[IsrTable(w)].device = d => w = v
<1>1. PICK v \in Arrives(d).bits : IsrTable(v) # NoNode /\ pool[IsrTable(v)].device = d
  BY DEF Served
<1>2. v \in 0..(VectorBits - 1) /\ Arrives(d).bits = {v}
  BY <1>1, ArrivesTypes
<1>3. IsrTable(v) \in DOMAIN pool /\ pool[IsrTable(v)].vector = v
  BY <1>1, IsrTableNode
<1>4. ASSUME NEW w, IsrTable(w) # NoNode, pool[IsrTable(w)].device = d
      PROVE  w = v
  <2>1. IsrTable(w) \in DOMAIN pool /\ pool[IsrTable(w)].vector = w
    BY <1>4, IsrTableNode
  <2>2. IsrTable(w) = IsrTable(v)
    BY <1>1, <1>3, <1>4, <2>1, PoolTypes
  <2> QED
    BY <1>3, <2>1, <2>2
<1> QED
  BY <1>1, <1>2, <1>4

(* The configuration does not change. *)
LEMMA PoolStays ==
  ASSUME [Next]_vars
  PROVE  /\ pool' = pool /\ Pooled' = Pooled
         /\ \A d : Arrives(d)' = Arrives(d)
         /\ \A d : Served(d)' <=> Served(d)
         /\ TimerAlone' <=> TimerAlone
<1>1. pool' = pool
  BY DEF Next, vars, TimerStep, DeviceGenerateEvent, StepCpus, CpuStep, DispatchInterrupt, TimerIsr,
         LapicSendEoi, DeviceIsr, BeginDpcs, RunDpc, CpuStepEnds
<1>2. Pooled' = Pooled
  BY <1>1 DEF Pooled
<1>3. \A v : IsrTable(v)' = IsrTable(v)
  BY <1>1 DEF IsrTable
<1>4. Route' = Route
  BY <1>1 DEF Route
<1>5. \A d : Config(d)' = Config(d)
  BY <1>1 DEF Config
<1>6. \A d : Arrives(d)' = Arrives(d)
  BY <1>4, <1>5 DEF Arrives
<1>7. \A d : Served(d)' <=> Served(d)
  BY <1>1, <1>3, <1>6 DEF Served
<1>8. TimerAlone' <=> TimerAlone
  BY <1>2, <1>6 DEF TimerAlone
<1> QED
  BY <1>1, <1>2, <1>6, <1>7, <1>8

----------------------------------------------------------------------------
(* The ring of a device.                                                    *)

(* One round below or above, a place wraps around once. *)
LEMMA Wraps ==
  ASSUME NEW n \in Nat \ {0}, NEW x \in (-n)..(2 * n - 1)
  PROVE  x % n = IF x < 0 THEN x + n ELSE IF x < n THEN x ELSE x - n
<1> DEFINE q == x \div n
           r == x % n
<1>1. q \in Int /\ r \in 0..(n - 1) /\ x = n * q + r
  OBVIOUS
<1> HIDE DEF q, r
<1>2. q < 2
  <2> SUFFICES ASSUME q >= 2 PROVE FALSE
    BY <1>1
  <2>1. n * q >= n * 2
    BY <1>1
  <2> QED
    BY <1>1, <2>1
<1>3. q >= -1
  <2> SUFFICES ASSUME q <= -2 PROVE FALSE
    BY <1>1
  <2>1. n * q <= n * (-2)
    BY <1>1
  <2> QED
    BY <1>1, <2>1
<1>4. CASE q = 0
  <2>1. x = r
    BY <1>1, <1>4
  <2> QED
    BY <1>1, <2>1 DEF r
<1>5. CASE q = 1
  <2>1. x = n + r
    BY <1>1, <1>5
  <2> QED
    BY <1>1, <2>1 DEF r
<1>6. CASE q = -1
  <2>1. n * q = -n
    BY <1>6
  <2>2. x = r - n
    BY <1>1, <2>1
  <2> QED
    BY <1>1, <2>2 DEF r
<1> QED
  BY <1>1, <1>2, <1>3, <1>4, <1>5, <1>6

\* The number of events a ring holds, and the slot of the i-th of them.
Count(rb) == (rb.tail - rb.head) % BUF_SIZE
Slot(rb, i) == (rb.head + i - 1) % BUF_SIZE

(* Both by cases, without a remainder. *)
LEMMA RingPlaces ==
  ASSUME NEW rb \in Arrays
  PROVE  /\ BUF_SIZE \in Nat \ {0}
         /\ rb.head \in 0..(BUF_SIZE - 1) /\ rb.tail \in 0..(BUF_SIZE - 1)
         /\ Count(rb) = IF rb.tail < rb.head THEN rb.tail - rb.head + BUF_SIZE
                                             ELSE rb.tail - rb.head
         /\ Next_(rb.tail) = IF rb.tail + 1 = BUF_SIZE THEN 0 ELSE rb.tail + 1
         /\ \A i \in 1..BUF_SIZE :
              Slot(rb, i) = IF rb.head + i - 1 < BUF_SIZE THEN rb.head + i - 1
                                                         ELSE rb.head + i - 1 - BUF_SIZE
<1>1. BUF_SIZE \in Nat \ {0}
  BY IrqAssumption
<1>2. rb.head \in 0..(BUF_SIZE - 1) /\ rb.tail \in 0..(BUF_SIZE - 1)
  BY DEF Arrays
<1> DEFINE h == rb.head
           t == rb.tail
<1> HIDE DEF h, t
<1>3. h \in 0..(BUF_SIZE - 1) /\ t \in 0..(BUF_SIZE - 1)
  BY <1>2 DEF h, t
<1>4. (t - h) % BUF_SIZE = IF t < h THEN t - h + BUF_SIZE ELSE t - h
  <2> DEFINE x == t - h
  <2>1. x \in (-BUF_SIZE)..(2 * BUF_SIZE - 1)
    BY <1>1, <1>3
  <2>2. x % BUF_SIZE = IF x < 0 THEN x + BUF_SIZE ELSE IF x < BUF_SIZE THEN x ELSE x - BUF_SIZE
    <3> HIDE DEF x
    <3> QED
      BY <1>1, <2>1, Wraps
  <2> QED
    BY <1>1, <1>3, <2>2
<1>5. (t + 1) % BUF_SIZE = IF t + 1 = BUF_SIZE THEN 0 ELSE t + 1
  <2> DEFINE x == t + 1
  <2>1. x \in (-BUF_SIZE)..(2 * BUF_SIZE - 1)
    BY <1>1, <1>3
  <2>2. x % BUF_SIZE = IF x < 0 THEN x + BUF_SIZE ELSE IF x < BUF_SIZE THEN x ELSE x - BUF_SIZE
    <3> HIDE DEF x
    <3> QED
      BY <1>1, <2>1, Wraps
  <2> QED
    BY <1>1, <1>3, <2>2
<1>6. ASSUME NEW i \in 1..BUF_SIZE
      PROVE  (h + i - 1) % BUF_SIZE = IF h + i - 1 < BUF_SIZE THEN h + i - 1 ELSE h + i - 1 - BUF_SIZE
  <2> DEFINE x == h + i - 1
  <2>1. x \in (-BUF_SIZE)..(2 * BUF_SIZE - 1)
    BY <1>1, <1>3
  <2>2. x % BUF_SIZE = IF x < 0 THEN x + BUF_SIZE ELSE IF x < BUF_SIZE THEN x ELSE x - BUF_SIZE
    <3> HIDE DEF x
    <3> QED
      BY <1>1, <2>1, Wraps
  <2> QED
    BY <1>1, <1>3, <2>2
<1> QED
  BY <1>1, <1>2, <1>4, <1>5, <1>6 DEF h, t, Count, Slot, Next_

(* A ring that is not full takes one more event, at the end; a full one     *)
(* holds one event less than it has slots.                                  *)
LEMMA RingPush ==
  ASSUME NEW rb \in Arrays, NEW u \in Seq(0..MaxEvents), Contents(rb) = u,
         NEW value \in 0..MaxEvents
  PROVE  /\ Len(u) = Count(rb) /\ Len(u) < BUF_SIZE
         /\ IsFull(rb) => Len(u) = BUF_SIZE - 1
         /\ ~IsFull(rb) => /\ Pushed(rb, value) \in Arrays
                           /\ Contents(Pushed(rb, value)) = Append(u, value)
<1> DEFINE n == Count(rb)
           new == Pushed(rb, value)
<1>1. /\ BUF_SIZE \in Nat \ {0}
      /\ rb.head \in 0..(BUF_SIZE - 1) /\ rb.tail \in 0..(BUF_SIZE - 1)
      /\ n = IF rb.tail < rb.head THEN rb.tail - rb.head + BUF_SIZE ELSE rb.tail - rb.head
      /\ Next_(rb.tail) = IF rb.tail + 1 = BUF_SIZE THEN 0 ELSE rb.tail + 1
  BY RingPlaces
<1>2. n \in 0..(BUF_SIZE - 1)
  <2> HIDE DEF n
  <2> QED
    BY <1>1
<1>3. u = [i \in 1..n |-> rb.data[Slot(rb, i)]]
  BY DEF Contents, Count, Slot
<1>4. Len(u) = n
  <2>1. DOMAIN u = 1..n /\ n \in Nat
    BY <1>2, <1>3
  <2>2. Len(u) \in Nat /\ DOMAIN u = 1..Len(u)
    BY LenProperties
  <2> HIDE DEF n
  <2> QED
    BY <2>1, <2>2
<1>5. IsFull(rb) => n = BUF_SIZE - 1
  <2> HIDE DEF n
  <2> QED
    BY <1>1, <1>2 DEF IsFull
<1>6. ASSUME ~IsFull(rb)
      PROVE  new \in Arrays /\ Contents(new) = Append(u, value)
  <2>1. /\ new.head = rb.head /\ new.tail = Next_(rb.tail)
        /\ new.data = [rb.data EXCEPT ![rb.tail] = value]
        /\ new = [data |-> new.data, head |-> new.head, tail |-> new.tail]
    BY DEF Pushed
  <2>2. rb.data \in [0..(BUF_SIZE - 1) -> 0..MaxEvents]
    BY DEF Arrays
  <2>3. Next_(rb.tail) \in 0..(BUF_SIZE - 1)
    BY <1>1
  <2>4. new.data \in [0..(BUF_SIZE - 1) -> 0..MaxEvents]
    BY <2>1, <2>2
  <2>5. new \in Arrays
    <3> HIDE DEF new
    <3> QED
      BY <1>1, <2>1, <2>3, <2>4 DEF Arrays
  <2>6. Count(new) = IF new.tail < new.head THEN new.tail - new.head + BUF_SIZE ELSE new.tail - new.head
    <3> HIDE DEF new
    <3> QED
      BY <2>5, RingPlaces
  <2>7. Count(new) = n + 1 /\ n + 1 < BUF_SIZE
    <3> DEFINE k == Count(new)
               e == new.tail
    <3>1. e = Next_(rb.tail) /\ e # rb.head
      BY <1>6, <2>1 DEF IsFull
    <3>2. k = IF e < rb.head THEN e - rb.head + BUF_SIZE ELSE e - rb.head
      BY <2>1, <2>6
    <3> HIDE DEF n, k, e
    <3>3. k = n + 1 /\ n + 1 < BUF_SIZE
      BY <1>1, <1>2, <3>1, <3>2, SMTT(60)
    <3> QED
      BY <3>3 DEF k
  <2>8. \A i \in 1..(n + 1) : Slot(new, i) = Slot(rb, i)
    BY <2>1 DEF Slot
  <2>9. ASSUME NEW i \in 1..(n + 1)
        PROVE  new.data[Slot(rb, i)] = IF i = n + 1 THEN value ELSE rb.data[Slot(rb, i)]
    <3> DEFINE p == Slot(rb, i)
    <3>1. i \in 1..BUF_SIZE
      <4> HIDE DEF n
      <4> QED
        BY <1>1, <1>2, <2>7
    <3>2. p = IF rb.head + i - 1 < BUF_SIZE THEN rb.head + i - 1 ELSE rb.head + i - 1 - BUF_SIZE
      BY <3>1, RingPlaces
    <3>3. p \in 0..(BUF_SIZE - 1) /\ (p = rb.tail <=> i = n + 1)
      <4> DEFINE h == rb.head
                 t == rb.tail
      <4>1. /\ BUF_SIZE \in Nat \ {0} /\ h \in 0..(BUF_SIZE - 1) /\ t \in 0..(BUF_SIZE - 1)
            /\ n = IF t < h THEN t - h + BUF_SIZE ELSE t - h
        BY <1>1
      <4>2. p = IF h + i - 1 < BUF_SIZE THEN h + i - 1 ELSE h + i - 1 - BUF_SIZE
        BY <3>2
      <4>3. n + 1 < BUF_SIZE
        BY <2>7
      <4> HIDE DEF n, p, h, t
      <4>4. i \in 1..(n + 1)
        BY <2>9
      <4>5. p \in 0..(BUF_SIZE - 1)
        BY <3>1, <4>1, <4>2
      <4>6. p = t <=> i = n + 1
        BY <1>2, <4>1, <4>2, <4>3, <4>4
      <4> QED
        BY <4>5, <4>6 DEF t
    <3> HIDE DEF n, p
    <3>4. new.data[p] = IF i = n + 1 THEN value ELSE rb.data[p]
      BY <2>1, <2>2, <3>3
    <3> QED
      BY <3>4 DEF p
  <2>10. Contents(new) = [i \in 1..(n + 1) |-> new.data[Slot(new, i)]]
    BY <2>7 DEF Contents, Count, Slot
  <2>11. \A i \in 1..n : u[i] = rb.data[Slot(rb, i)]
    BY <1>3
  <2>12. /\ DOMAIN Append(u, value) = 1..(n + 1)
         /\ Append(u, value) = [i \in DOMAIN Append(u, value) |-> Append(u, value)[i]]
         /\ \A i \in 1..(n + 1) : Append(u, value)[i] = IF i = n + 1 THEN value ELSE u[i]
    <3> HIDE DEF n
    <3>1. /\ Append(u, value) \in Seq(0..MaxEvents) /\ Len(Append(u, value)) = n + 1
          /\ \A i \in 1..n : Append(u, value)[i] = u[i]
          /\ Append(u, value)[n + 1] = value
      BY <1>4, AppendProperties
    <3>2. /\ DOMAIN Append(u, value) = 1..(n + 1)
          /\ Append(u, value) \in [1..(n + 1) -> 0..MaxEvents]
      BY <3>1, LenProperties
    <3>3. \A i \in 1..(n + 1) : i # n + 1 => i \in 1..n
      BY <1>2
    <3> QED
      BY <3>1, <3>2, <3>3
  <2>13. ASSUME NEW i \in 1..(n + 1)
         PROVE  new.data[Slot(new, i)] = IF i = n + 1 THEN value ELSE u[i]
    <3>1. i # n + 1 => i \in 1..n
      BY <1>2
    <3> QED
      BY <2>8, <2>9, <2>11, <3>1
  <2>14. Contents(new) = Append(u, value)
    <3> HIDE DEF n, new
    <3> QED
      BY <2>10, <2>12, <2>13
  <2> QED
    BY <2>5, <2>14
<1> QED
  <2> HIDE DEF n, new
  <2>1. Len(u) < BUF_SIZE
    BY <1>1, <1>2, <1>4
  <2>2. IsFull(rb) => Len(u) = BUF_SIZE - 1
    BY <1>4, <1>5
  <2> QED
    BY <1>4, <1>6, <2>1, <2>2 DEF n, new

(* A ring whose head has come to its tail holds nothing. *)
LEMMA RingEmpty ==
  ASSUME NEW rb \in Arrays, rb.head = rb.tail
  PROVE  Contents(rb) = <<>>
<1>1. Count(rb) = 0
  <2>1. Count(rb) = IF rb.tail < rb.head THEN rb.tail - rb.head + BUF_SIZE ELSE rb.tail - rb.head
    BY RingPlaces
  <2>2. rb.tail \in 0..(BUF_SIZE - 1) /\ BUF_SIZE \in Nat
    BY RingPlaces
  <2> QED
    BY <2>1, <2>2
<1>2. DOMAIN Contents(rb) = {}
  BY <1>1 DEF Contents, Count
<1> QED
  BY <1>1, <1>2 DEF Contents, Count

(* A ring that was read to its end is one of those. *)
LEMMA RingDrain ==
  ASSUME NEW rb \in Arrays
  PROVE  Drained(rb) \in Arrays /\ Contents(Drained(rb)) = <<>>
<1>1. Drained(rb) \in Arrays /\ Drained(rb).head = Drained(rb).tail
  BY DEF Drained, Arrays
<1> QED
  BY <1>1, RingEmpty

----------------------------------------------------------------------------
(* Types.                                                                   *)

(* The constants. *)
LEMMA Numbers ==
  /\ NumCpus \in Nat \ {0} /\ Interval \in Nat \ {0} /\ BUF_SIZE \in Nat \ {0}
  /\ VectorBits \in Nat \ {0} /\ MaxTicks \in Nat /\ MaxEvents \in Nat /\ MaxFailures \in Nat
BY IrqAssumption

(* A new interrupt sets bits of the bitmap of one CPU. *)
LEMMA RaiseTypes ==
  ASSUME TypeOK, NEW d \in Pooled, Raise(d)
  PROVE  /\ pending' \in [Cpus -> SUBSET (0 .. VectorBits - 1)]
         /\ \A c \in Cpus : pending'[c] = IF c = Arrives(d).cpu THEN pending[c] \cup Arrives(d).bits
                                                               ELSE pending[c]
<1>1. Arrives(d).cpu \in Cpus /\ Arrives(d).bits \in SUBSET (0 .. VectorBits - 1)
  <2>1. pool \in Pools
    BY DEF TypeOK
  <2>2. CASE Arrives(d).bits = {}
    BY <2>1, <2>2, ArrivesTypes
  <2>3. CASE \E v \in 0..(VectorBits - 1) : Arrives(d).bits = {v}
    BY <2>1, <2>3, ArrivesTypes
  <2> QED
    BY <2>1, <2>2, <2>3, ArrivesTypes
<1>2. pending \in [Cpus -> SUBSET (0 .. VectorBits - 1)]
  BY DEF TypeOK
<1>3. pending' = [pending EXCEPT ![Arrives(d).cpu] = @ \cup Arrives(d).bits]
  BY DEF Raise
<1> HIDE DEF Raise
<1> QED
  BY <1>1, <1>2, <1>3

(* The lowest pending vector is a pending one. *)
LEMMA LowestPending ==
  ASSUME NEW bits \in SUBSET Nat, bits # {}
  PROVE  Lowest(bits) \in bits
<1>1. \E v \in bits : \A w \in bits : v <= w
  BY LeastNatural
<1> QED
  BY <1>1 DEF Lowest

(* The node called next is one of the pool. *)
LEMMA CalledDevice ==
  ASSUME TypeOK, NEW d, Called(d)
  PROVE  d \in Pooled /\ chain \in DOMAIN pool
<1>1. chain \in DOMAIN pool
  BY PoolTypes DEF TypeOK, Called, NoNode
<1> QED
  BY <1>1 DEF Called, Pooled

(* Every step keeps the types. *)
LEMMA TypeNext == TypeOK /\ [Next]_vars => TypeOK'
<1> SUFFICES ASSUME TypeOK, [Next]_vars PROVE TypeOK'
  OBVIOUS
<1>0. /\ pool \in Pools /\ ring \in [Devices -> Arrays]
      /\ pending \in [Cpus -> SUBSET (0 .. VectorBits - 1)]
      /\ inService \in [Cpus -> -1 .. VectorBits - 1]
      /\ chain \in 0 .. Len(pool)
      /\ irql \in [Cpus -> {PASSIVE, DISPATCH, DEVICE}]
      /\ dpcs \in [Cpus -> Seq(Devices \ {Timer})]
      /\ counter \in 0 .. Interval - 1 /\ ticks \in Nat /\ expired \in Nat
      /\ phase \in {"timer", "devices", "cpus", "end"} /\ stepping \in Cpus
      /\ loops \in 0 .. MaxTicks /\ failures \in 0 .. MaxFailures
      /\ events \in [Devices -> 0 .. MaxEvents]
      /\ unread \in [Devices -> Seq(0 .. MaxEvents)]
      /\ lost \in SUBSET Devices /\ dropped \in SUBSET Devices
  BY DEF TypeOK
<1> USE <1>0
<1>1. CASE TimerStep
  <2>1. counter' \in 0 .. Interval - 1 /\ expired' \in Nat /\ loops' \in 0 .. MaxTicks
    BY <1>1, Numbers DEF TimerStep
  <2>2. pending' \in [Cpus -> SUBSET (0 .. VectorBits - 1)]
    <3>1. CASE Raise(Timer)
      BY <3>1, RaiseTypes, PoolTypes
    <3> QED
      BY <1>1, <3>1 DEF TimerStep
  <2>3. events' \in [Devices -> 0 .. MaxEvents] /\ lost' \in SUBSET Devices
    BY <1>1, Numbers DEF TimerStep
  <2> QED
    BY <1>1, <2>1, <2>2, <2>3 DEF TimerStep, TypeOK
<1>2. ASSUME NEW d \in Pooled \ {Timer}, DeviceGenerateEvent(d) PROVE TypeOK'
  <2>0. d \in Devices
    BY PoolTypes
  <2>1. events' \in [Devices -> 0 .. MaxEvents] /\ events'[d] \in 0 .. MaxEvents
    BY <1>2, <2>0, Numbers DEF DeviceGenerateEvent
  <2>2. pending' \in [Cpus -> SUBSET (0 .. VectorBits - 1)]
    BY <1>2, RaiseTypes DEF DeviceGenerateEvent
  <2>3. ring' \in [Devices -> Arrays]
    <3>1. CASE IsFull(ring[d])
      BY <1>2, <3>1 DEF DeviceGenerateEvent
    <3>2. CASE ~IsFull(ring[d])
      <4>1. Pushed(ring[d], events'[d]) \in Arrays
        <5>1. ring[d].data \in [0 .. BUF_SIZE - 1 -> 0 .. MaxEvents] /\ ring[d].head \in 0 .. BUF_SIZE - 1
          BY <2>0 DEF Arrays
        <5>2. [ring[d].data EXCEPT ![ring[d].tail] = events'[d]] \in [0 .. BUF_SIZE - 1 -> 0 .. MaxEvents]
          BY <2>1, <5>1
        <5>3. Next_(ring[d].tail) \in 0 .. BUF_SIZE - 1
          <6>1. ring[d].tail \in 0 .. BUF_SIZE - 1
            BY <2>0 DEF Arrays
          <6> QED
            BY <6>1, Numbers, SMTT(20) DEF Next_
        <5> QED
          BY <5>1, <5>2, <5>3 DEF Pushed, Arrays
      <4> QED
        BY <1>2, <2>0, <3>2, <4>1 DEF DeviceGenerateEvent
    <3> QED
      BY <3>1, <3>2
  <2>4. unread' \in [Devices -> Seq(0 .. MaxEvents)] /\ lost' \in SUBSET Devices
    <3>1. Append(unread[d], events'[d]) \in Seq(0 .. MaxEvents)
      BY <2>0, <2>1
    <3> QED
      BY <1>2, <2>0, <3>1 DEF DeviceGenerateEvent
  <2> QED
    BY <1>2, <2>1, <2>2, <2>3, <2>4 DEF DeviceGenerateEvent, TypeOK
<1>3. CASE StepCpus
  <2>1. 0 \in Cpus
    BY Numbers DEF Cpus
  <2> QED
    BY <1>3, <2>1 DEF StepCpus, TypeOK, cpuVars, history
<1>4. ASSUME NEW c \in Cpus, CpuStep(c) PROVE TypeOK'
  <2>1. CASE DispatchInterrupt(c)
    <3>1. pending[c] \in SUBSET Nat /\ pending[c] # {} /\ pending[c] \subseteq 0 .. VectorBits - 1
      BY <2>1 DEF DispatchInterrupt
    <3>2. Lowest(pending[c]) \in 0 .. VectorBits - 1
      BY <3>1, LowestPending
    <3>3. IsrTable(Lowest(pending[c])) \in 0 .. Len(pool)
      BY IsrTableNode
    <3>4. inService' \in [Cpus -> -1 .. VectorBits - 1]
      BY <2>1, <3>2, Numbers DEF DispatchInterrupt
    <3>5. pending' \in [Cpus -> SUBSET (0 .. VectorBits - 1)]
      BY <2>1, <3>1 DEF DispatchInterrupt
    <3>6. irql' \in [Cpus -> {PASSIVE, DISPATCH, DEVICE}]
      BY <2>1 DEF DispatchInterrupt
    <3>7. chain' \in 0 .. Len(pool)
      BY <2>1, <3>3 DEF DispatchInterrupt
    <3> QED
      BY <2>1, <3>4, <3>5, <3>6, <3>7 DEF DispatchInterrupt, TypeOK, history
  <2>2. CASE TimerIsr(c)
    <3>1. chain' \in 0 .. Len(pool) /\ ticks' \in Nat
      BY <2>2, PoolTypes DEF TimerIsr, ChainAfter, NoNode
    <3> QED
      BY <2>2, <3>1 DEF TimerIsr, TypeOK, history
  <2>3. CASE LapicSendEoi(c)
    <3>1. inService' \in [Cpus -> -1 .. VectorBits - 1]
      BY <2>3, Numbers DEF LapicSendEoi
    <3>2. irql' \in [Cpus -> {PASSIVE, DISPATCH, DEVICE}]
      BY <2>3 DEF LapicSendEoi
    <3> QED
      BY <2>3, <3>1, <3>2 DEF LapicSendEoi, TypeOK, history
  <2>4. ASSUME NEW d \in Devices \ {Timer}, DeviceIsr(c, d) PROVE TypeOK'
    <3>1. chain' \in 0 .. Len(pool)
      BY <2>4, PoolTypes DEF DeviceIsr, ChainAfter, NoNode
    <3>2. dpcs' \in [Cpus -> Seq(Devices \ {Timer})]
      <4>1. Append(dpcs[c], d) \in Seq(Devices \ {Timer})
        OBVIOUS
      <4> QED
        BY <2>4, <4>1 DEF DeviceIsr
    <3>3. failures' \in 0 .. MaxFailures /\ dropped' \in SUBSET Devices
      BY <2>4, Numbers DEF DeviceIsr
    <3> QED
      BY <2>4, <3>1, <3>2, <3>3 DEF DeviceIsr, TypeOK
  <2>5. CASE BeginDpcs(c)
    <3>1. irql' \in [Cpus -> {PASSIVE, DISPATCH, DEVICE}]
      BY <2>5 DEF BeginDpcs
    <3> QED
      BY <2>5, <3>1 DEF BeginDpcs, TypeOK, history
  <2>6. CASE RunDpc(c)
    <3>1. Head(dpcs[c]) \in Devices \ {Timer} /\ Tail(dpcs[c]) \in Seq(Devices \ {Timer})
      BY <2>6 DEF RunDpc
    <3>2. ring' \in [Devices -> Arrays]
      <4>1. Drained(ring[Head(dpcs[c])]) \in Arrays
        BY <3>1, RingDrain
      <4> QED
        BY <2>6, <3>1, <4>1 DEF RunDpc
    <3>3. unread' \in [Devices -> Seq(0 .. MaxEvents)] /\ dropped' \in SUBSET Devices
      <4>1. <<>> \in Seq(0 .. MaxEvents)
        OBVIOUS
      <4> QED
        BY <2>6, <3>1, <4>1 DEF RunDpc
    <3>4. dpcs' \in [Cpus -> Seq(Devices \ {Timer})]
      BY <2>6, <3>1 DEF RunDpc
    <3> QED
      BY <2>6, <3>2, <3>3, <3>4 DEF RunDpc, TypeOK
  <2>7. CASE CpuStepEnds(c)
    <3>1. stepping' \in Cpus /\ phase' \in {"timer", "devices", "cpus", "end"}
      BY <2>7 DEF CpuStepEnds, NextCpu
    <3>2. irql' \in [Cpus -> {PASSIVE, DISPATCH, DEVICE}]
      BY <2>7 DEF CpuStepEnds
    <3> QED
      BY <2>7, <3>1, <3>2 DEF CpuStepEnds, TypeOK, history
  <2> QED
    BY <1>4, <2>1, <2>2, <2>3, <2>4, <2>5, <2>6, <2>7 DEF CpuStep
<1>5. CASE UNCHANGED vars
  BY <1>5 DEF vars, cpuVars, history, TypeOK
<1> QED
  BY <1>1, <1>2, <1>3, <1>4, <1>5 DEF Next

----------------------------------------------------------------------------
(* Where the loop is, step by step.                                         *)

(* The three levels differ, and CPUs are numbers. *)
LEMMA Levels ==
  /\ PASSIVE # DISPATCH /\ PASSIVE # DEVICE /\ DISPATCH # DEVICE
  /\ Cpus = 0 .. NumCpus - 1 /\ 0 \in Cpus
BY Numbers DEF PASSIVE, DISPATCH, DEVICE, Cpus

(* Before the CPUs step every CPU is at PASSIVE_LVL with nothing to run. *)
LEMMA QuietBeforeCpus ==
  ASSUME Control, phase # "cpus"
  PROVE  /\ chain = NoNode
         /\ \A c \in Cpus : irql[c] = PASSIVE /\ inService[c] = -1 /\ dpcs[c] = <<>>
BY Levels DEF Control

(* The CPU that steps delivers, serves or drains; the others rest. *)
LEMMA ControlNext == TypeOK /\ Control /\ [Next]_vars => Control'
<1> SUFFICES ASSUME TypeOK, Control, [Next]_vars PROVE Control'
  OBVIOUS
<1>0. /\ pending \in [Cpus -> SUBSET (0 .. VectorBits - 1)]
      /\ inService \in [Cpus -> -1 .. VectorBits - 1]
      /\ irql \in [Cpus -> {PASSIVE, DISPATCH, DEVICE}]
      /\ dpcs \in [Cpus -> Seq(Devices \ {Timer})]
      /\ stepping \in Cpus
  BY DEF TypeOK
<1>1. CASE TimerStep
  <2>1. phase = "timer" /\ phase' = "devices" /\ UNCHANGED <<inService, chain, irql, dpcs>>
    BY <1>1 DEF TimerStep
  <2> QED
    BY <2>1, QuietBeforeCpus, Levels DEF Control
<1>2. ASSUME NEW d \in Pooled \ {Timer}, DeviceGenerateEvent(d) PROVE Control'
  <2>1. phase = "devices" /\ phase' = "devices" /\ UNCHANGED <<inService, chain, irql, dpcs>>
    BY <1>2 DEF DeviceGenerateEvent
  <2> QED
    BY <2>1, QuietBeforeCpus, Levels DEF Control
<1>3. CASE StepCpus
  <2>1. phase = "devices" /\ phase' = "cpus" /\ stepping' = 0 /\ UNCHANGED cpuVars
    BY <1>3 DEF StepCpus
  <2>2. \A c \in Cpus : ~(c < stepping')
    BY <2>1, Levels, Numbers
  <2> QED
    BY <2>1, <2>2, QuietBeforeCpus, Levels DEF Control, cpuVars
<1>4. ASSUME NEW c \in Cpus, CpuStep(c) PROVE Control'
  <2>0. phase = "cpus" /\ stepping = c
    BY <1>4 DEF CpuStep, DispatchInterrupt, TimerIsr, LapicSendEoi, DeviceIsr, BeginDpcs, RunDpc,
                CpuStepEnds, Stepping
  <2>1. CASE DispatchInterrupt(c)
    <3>1. /\ phase' = phase /\ stepping' = stepping /\ dpcs' = dpcs
          /\ irql' = [irql EXCEPT ![c] = DEVICE]
          /\ pending' = [pending EXCEPT ![c] = @ \ {Lowest(pending[c])}]
          /\ inService' = [inService EXCEPT ![c] = Lowest(pending[c])]
      BY <2>1 DEF DispatchInterrupt
    <3>2. irql'[c] = DEVICE
      BY <1>0, <3>1
    <3>3. \A b \in Cpus \ {c} : irql'[b] = irql[b] /\ pending'[b] = pending[b] /\ inService'[b] = inService[b]
      BY <1>0, <3>1
    <3> QED
      BY <2>0, <3>1, <3>2, <3>3, Levels, Numbers DEF Control
  <2>2. CASE TimerIsr(c)
    <3>1. chain' = NoNode /\ UNCHANGED <<phase, stepping, irql, inService, pending, dpcs>>
      BY <2>2 DEF TimerIsr, ChainAfter
    <3> QED
      BY <3>1 DEF Control
  <2>3. CASE LapicSendEoi(c)
    <3>1. /\ phase' = phase /\ stepping' = stepping /\ dpcs' = dpcs /\ pending' = pending
          /\ chain' = chain /\ chain = NoNode /\ irql[c] = DEVICE
          /\ irql' = [irql EXCEPT ![c] = PASSIVE]
          /\ inService' = [inService EXCEPT ![c] = -1]
      BY <2>3 DEF LapicSendEoi
    <3>2. irql'[c] = PASSIVE /\ inService'[c] = -1
      BY <1>0, <3>1
    <3>3. \A b \in Cpus \ {c} : irql'[b] = irql[b] /\ inService'[b] = inService[b]
      BY <1>0, <3>1
    <3> QED
      BY <2>0, <3>1, <3>2, <3>3, Levels DEF Control
  <2>4. ASSUME NEW d \in Devices \ {Timer}, DeviceIsr(c, d) PROVE Control'
    <3>1. /\ chain' = NoNode /\ UNCHANGED <<phase, stepping, irql, inService, pending>>
          /\ \A b \in Cpus \ {c} : dpcs'[b] = dpcs[b]
      BY <1>0, <2>4 DEF DeviceIsr, ChainAfter
    <3> QED
      BY <2>0, <3>1 DEF Control
  <2>5. CASE BeginDpcs(c)
    <3>1. /\ irql[c] = PASSIVE /\ pending[c] = {} /\ irql' = [irql EXCEPT ![c] = DISPATCH]
          /\ UNCHANGED <<phase, stepping, chain, inService, pending, dpcs>>
      BY <2>5 DEF BeginDpcs
    <3>2. irql'[c] = DISPATCH /\ \A b \in Cpus \ {c} : irql'[b] = irql[b]
      BY <1>0, <3>1
    <3> QED
      BY <2>0, <3>1, <3>2, Levels DEF Control
  <2>6. CASE RunDpc(c)
    <3>1. /\ UNCHANGED <<phase, stepping, chain, irql, inService, pending>>
          /\ \A b \in Cpus \ {c} : dpcs'[b] = dpcs[b]
      BY <1>0, <2>6 DEF RunDpc
    <3> QED
      BY <2>0, <3>1 DEF Control
  <2>7. CASE CpuStepEnds(c)
    <3>1. /\ irql[c] = DISPATCH \/ (irql[c] = PASSIVE /\ pending[c] = {})
          /\ dpcs[c] = <<>> /\ irql' = [irql EXCEPT ![c] = PASSIVE]
          /\ UNCHANGED <<chain, inService, pending, dpcs>>
      BY <2>7 DEF CpuStepEnds
    <3>2. irql'[c] = PASSIVE /\ \A b \in Cpus \ {c} : irql'[b] = irql[b]
      BY <1>0, <3>1
    <3>3. /\ chain = NoNode /\ pending[c] = {} /\ inService[c] = -1
          /\ \A b \in Cpus : irql'[b] = PASSIVE /\ inService[b] = -1 /\ dpcs[b] = <<>>
      BY <2>0, <3>1, <3>2, Levels DEF Control
    <3>4. \A b \in Cpus : b <= c => pending[b] = {}
      <4> TAKE b \in Cpus
      <4>1. b < c \/ b = c \/ ~(b <= c)
        BY Levels
      <4> QED
        BY <2>0, <3>3, <4>1 DEF Control
    <3>5. CASE stepping + 1 \in Cpus
      <4>1. phase' = "cpus" /\ stepping' = c + 1
        BY <2>0, <2>7, <3>5 DEF CpuStepEnds, NextCpu
      <4>2. \A b \in Cpus : b < stepping' => pending[b] = {}
        BY <3>4, <4>1, Levels
      <4> QED
        BY <3>1, <3>3, <4>1, <4>2, Levels DEF Control
    <3>6. CASE stepping + 1 \notin Cpus
      <4>1. phase' \in {"timer", "end"} /\ stepping' = c
        BY <2>0, <2>7, <3>6 DEF CpuStepEnds, NextCpu
      <4>2. \A b \in Cpus : b <= c
        BY <2>0, <3>6, Levels, Numbers
      <4> QED
        BY <3>1, <3>3, <3>4, <4>1, <4>2, Levels DEF Control
    <3> QED
      BY <3>5, <3>6
  <2> QED
    BY <1>4, <2>1, <2>2, <2>3, <2>4, <2>5, <2>6, <2>7 DEF CpuStep
<1>5. CASE UNCHANGED vars
  BY <1>5 DEF vars, cpuVars, Control
<1> QED
  BY <1>1, <1>2, <1>3, <1>4, <1>5 DEF Next

----------------------------------------------------------------------------
(* The rings, and what waits in them.                                       *)

(* Only an event and a DPC touch a ring. *)
LEMMA RingNext == TypeOK /\ RingExact /\ [Next]_vars => RingExact'
<1> SUFFICES ASSUME TypeOK, RingExact, [Next]_vars PROVE RingExact'
  OBVIOUS
<1>0. /\ ring \in [Devices -> Arrays] /\ unread \in [Devices -> Seq(0 .. MaxEvents)]
      /\ events \in [Devices -> 0 .. MaxEvents] /\ pool \in Pools
      /\ dpcs \in [Cpus -> Seq(Devices \ {Timer})]
  BY DEF TypeOK
<1>1. CASE UNCHANGED <<ring, unread>>
  BY <1>1 DEF RingExact, Contents
<1>2. ASSUME NEW d \in Pooled \ {Timer}, DeviceGenerateEvent(d) PROVE RingExact'
  <2>1. CASE IsFull(ring[d])
    BY <1>1, <1>2, <2>1 DEF DeviceGenerateEvent
  <2>2. CASE ~IsFull(ring[d])
    <3> DEFINE value == events'[d]
    <3>1. d \in Devices
      BY <1>0, PoolTypes
    <3>2. /\ ring' = [ring EXCEPT ![d] = Pushed(@, value)]
          /\ unread' = [unread EXCEPT ![d] = Append(@, value)]
      BY <1>2, <2>2 DEF DeviceGenerateEvent
    <3>3. value \in 0 .. MaxEvents
      BY <1>0, <1>2, <3>1, Numbers DEF DeviceGenerateEvent
    <3> HIDE DEF value
    <3>4. Contents(Pushed(ring[d], value)) = Append(unread[d], value)
      <4>1. ring[d] \in Arrays /\ unread[d] \in Seq(0 .. MaxEvents) /\ Contents(ring[d]) = unread[d]
        BY <1>0, <3>1 DEF RingExact
      <4> QED
        BY <2>2, <3>3, <4>1, RingPush
    <3>5. \A e \in Devices : /\ ring'[e] = IF e = d THEN Pushed(ring[d], value) ELSE ring[e]
                             /\ unread'[e] = IF e = d THEN Append(unread[d], value) ELSE unread[e]
      BY <1>0, <3>2
    <3>6. \A e \in Devices : Contents(ring'[e]) = unread'[e]
      BY <3>4, <3>5 DEF RingExact
    <3> QED
      BY <3>6 DEF RingExact, Contents
  <2> QED
    BY <2>1, <2>2
<1>3. ASSUME NEW c \in Cpus, RunDpc(c) PROVE RingExact'
  <2> DEFINE d == Head(dpcs[c])
  <2>1. d \in Devices
    BY <1>0, <1>3 DEF RunDpc
  <2>2. ring' = [ring EXCEPT ![d] = Drained(@)] /\ unread' = [unread EXCEPT ![d] = <<>>]
    BY <1>3 DEF RunDpc
  <2> HIDE DEF d
  <2>3. Contents(Drained(ring[d])) = <<>>
    BY <1>0, <2>1, RingDrain
  <2>4. \A e \in Devices : /\ ring'[e] = IF e = d THEN Drained(ring[d]) ELSE ring[e]
                           /\ unread'[e] = IF e = d THEN <<>> ELSE unread[e]
    BY <1>0, <2>2
  <2>5. \A e \in Devices : Contents(ring'[e]) = unread'[e]
    BY <2>3, <2>4 DEF RingExact
  <2> QED
    BY <2>5 DEF RingExact, Contents
<1> QED
  BY <1>1, <1>2, <1>3 DEF Next, CpuStep, TimerStep, StepCpus, DispatchInterrupt, TimerIsr,
     LapicSendEoi, DeviceIsr, BeginDpcs, CpuStepEnds, vars, history

(* An event in a ring keeps something on its way: the pending bit becomes   *)
(* the ISR, the ISR the DPC, and only the DPC goes without leaving work.    *)
LEMMA StrandedNext == TypeOK /\ Control /\ NoStrandedEvents /\ [Next]_vars => NoStrandedEvents'
<1> SUFFICES ASSUME TypeOK, Control, NoStrandedEvents, [Next]_vars,
                    NEW d \in Pooled \ {Timer}, Served(d), unread'[d] # <<>>
             PROVE  \/ Delivering(d)'
                    \/ d \in Range(dpcs'[Arrives(d).cpu])
                    \/ d \in dropped'
  BY PoolStays DEF NoStrandedEvents
<1>0. /\ pool \in Pools /\ unread \in [Devices -> Seq(0 .. MaxEvents)]
      /\ pending \in [Cpus -> SUBSET (0 .. VectorBits - 1)]
      /\ dpcs \in [Cpus -> Seq(Devices \ {Timer})]
  BY DEF TypeOK
<1> DEFINE k == Arrives(d).cpu
<1>d. d \in Devices /\ d # Timer /\ k \in Cpus
  BY <1>0, PoolTypes, ArrivesTypes
<1>v. PICK v \in 0..(VectorBits - 1) :
        /\ Arrives(d).bits = {v}
        /\ IsrTable(v) # NoNode /\ pool[IsrTable(v)].device = d
  BY <1>0, ServedBit
<1>p. pool' = pool /\ Arrives(d)' = Arrives(d)
  BY PoolStays
<1>a. SUFFICES \/ v \in pending'[k]
               \/ phase' = "cpus" /\ stepping' = k /\ chain' # NoNode /\ pool[chain'].device = d
               \/ d \in Range(dpcs'[k])
               \/ d \in dropped'
  BY <1>v, <1>p DEF Delivering, Stepping, Called
<1>b. unread[d] # <<>> =>
        \/ v \in pending[k]
        \/ phase = "cpus" /\ stepping = k /\ chain # NoNode /\ pool[chain].device = d
        \/ d \in Range(dpcs[k])
        \/ d \in dropped
  BY <1>v DEF NoStrandedEvents, Delivering, Stepping, Called
<1> HIDE DEF k
<1>1. ASSUME NEW e \in Pooled, Raise(e)
      PROVE  \A b \in Cpus : pending[b] \subseteq pending'[b]
  BY <1>1, RaiseTypes
<1>2. CASE TimerStep
  <2>1. phase # "cpus" /\ UNCHANGED <<unread, dpcs, dropped>>
    BY <1>2 DEF TimerStep
  <2>2. pending[k] \subseteq pending'[k]
    <3>1. CASE Raise(Timer)
      BY <1>0, <1>1, <1>d, <3>1, PoolTypes
    <3> QED
      BY <1>2, <3>1 DEF TimerStep
  <2> QED
    BY <1>b, <2>1, <2>2
<1>3. ASSUME NEW e \in Pooled \ {Timer}, DeviceGenerateEvent(e)
      PROVE  \/ v \in pending'[k] \/ d \in Range(dpcs'[k]) \/ d \in dropped'
  <2>1. phase # "cpus" /\ UNCHANGED <<dpcs, dropped>> /\ Raise(e)
    BY <1>3 DEF DeviceGenerateEvent
  <2>2. CASE e = d
    BY <1>d, <1>v, <2>1, <2>2, RaiseTypes DEF k
  <2>3. CASE e # d
    <3>1. unread'[d] = unread[d]
      BY <1>0, <1>3, <1>d, <2>3 DEF DeviceGenerateEvent
    <3>2. pending[k] \subseteq pending'[k]
      BY <1>1, <1>d, <2>1
    <3> QED
      BY <1>b, <2>1, <3>1, <3>2
  <2> QED
    BY <2>2, <2>3
<1>4. CASE StepCpus
  BY <1>b, <1>4 DEF StepCpus, cpuVars, history
<1>5. ASSUME NEW c \in Cpus, CpuStep(c)
      PROVE  \/ v \in pending'[k]
             \/ phase' = "cpus" /\ stepping' = k /\ chain' # NoNode /\ pool[chain'].device = d
             \/ d \in Range(dpcs'[k])
             \/ d \in dropped'
  <2>0. phase = "cpus" /\ stepping = c
    BY <1>5 DEF CpuStep, DispatchInterrupt, TimerIsr, LapicSendEoi, DeviceIsr, BeginDpcs, RunDpc,
                CpuStepEnds, Stepping
  <2>1. CASE DispatchInterrupt(c)
    <3> DEFINE w == Lowest(pending[c])
    <3>1. /\ pending' = [pending EXCEPT ![c] = @ \ {w}] /\ chain' = IsrTable(w)
          /\ irql[c] = PASSIVE
          /\ UNCHANGED <<unread, dpcs, dropped, phase, stepping>>
      BY <2>1 DEF DispatchInterrupt, history
    <3> HIDE DEF w
    <3>2. chain = NoNode
      BY <2>0, <3>1, Levels DEF Control
    <3>3. v \in pending[k] => v \in pending'[k] \/ (k = c /\ w = v)
      BY <1>0, <1>d, <3>1
    <3>4. k = c /\ w = v => chain' # NoNode /\ pool[chain'].device = d
      BY <1>v, <3>1
    <3> QED
      BY <1>b, <2>0, <3>1, <3>2, <3>3, <3>4
  <2>2. CASE TimerIsr(c)
    <3>1. pool[chain].device # d /\ UNCHANGED <<unread, pending, dpcs, dropped>>
      BY <1>d, <2>2 DEF TimerIsr, Called, history
    <3> QED
      BY <1>b, <3>1
  <2>3. CASE LapicSendEoi(c)
    BY <1>b, <2>3 DEF LapicSendEoi, history
  <2>4. ASSUME NEW e \in Devices \ {Timer}, DeviceIsr(c, e)
        PROVE  \/ v \in pending'[k] \/ d \in Range(dpcs'[k]) \/ d \in dropped'
    <3>1. /\ pool[chain].device = e /\ UNCHANGED <<unread, pending>>
          /\ \/ dpcs' = [dpcs EXCEPT ![c] = Append(@, e)] /\ dropped' = dropped
             \/ dropped' = dropped \cup {e} /\ dpcs' = dpcs
      BY <2>4 DEF DeviceIsr, Called
    <3>2. d \in Range(dpcs[k]) => d \in Range(dpcs'[k])
      <4>1. dpcs[k] \in Seq(Devices \ {Timer})
        BY <1>0, <1>d
      <4>2. ASSUME d \in Range(dpcs[k]) PROVE d \in Range(Append(dpcs[k], e))
        <5>1. PICK i \in 1..Len(dpcs[k]) : dpcs[k][i] = d
          BY <4>1, <4>2 DEF Range
        <5>2. i \in 1..Len(Append(dpcs[k], e)) /\ Append(dpcs[k], e)[i] = d
          BY <4>1, <5>1
        <5>3. DOMAIN Append(dpcs[k], e) = 1..Len(Append(dpcs[k], e))
          BY <4>1
        <5> QED
          BY <5>2, <5>3 DEF Range
      <4> QED
        BY <1>0, <1>d, <3>1, <4>2
    <3>3. e = d /\ k = c => d \in Range(dpcs'[k]) \/ d \in dropped'
      <4>1. dpcs[k] \in Seq(Devices \ {Timer})
        BY <1>0, <1>d
      <4>2. e \in Range(Append(dpcs[k], e))
        <5>1. /\ Len(dpcs[k]) + 1 \in 1..Len(Append(dpcs[k], e))
              /\ Append(dpcs[k], e)[Len(dpcs[k]) + 1] = e
          BY <4>1
        <5>2. DOMAIN Append(dpcs[k], e) = 1..Len(Append(dpcs[k], e))
          BY <4>1
        <5> QED
          BY <5>1, <5>2 DEF Range
      <4> QED
        BY <1>0, <1>d, <3>1, <4>2
    <3> QED
      BY <1>b, <2>0, <3>1, <3>2, <3>3
  <2>5. CASE BeginDpcs(c)
    BY <1>b, <2>5 DEF BeginDpcs, history
  <2>6. CASE RunDpc(c)
    <3> DEFINE e == Head(dpcs[c])
    <3>1. /\ unread' = [unread EXCEPT ![e] = <<>>] /\ dropped' = dropped \ {e}
          /\ dpcs[c] # <<>> /\ dpcs' = [dpcs EXCEPT ![c] = Tail(@)]
          /\ UNCHANGED <<pending, chain, phase, stepping>>
      BY <2>6 DEF RunDpc
    <3>2. e # d /\ unread[d] # <<>>
      BY <1>0, <1>d, <3>1
    <3>3. d \in Range(dpcs[k]) => d \in Range(dpcs'[k])
      <4>1. dpcs[k] \in Seq(Devices \ {Timer})
        BY <1>0, <1>d
      <4>2. ASSUME k = c, d \in Range(dpcs[k]) PROVE d \in Range(Tail(dpcs[k]))
        <5>1. PICK i \in 1..Len(dpcs[k]) : dpcs[k][i] = d
          BY <4>1, <4>2 DEF Range
        <5>2. i # 1
          BY <3>2, <4>1, <4>2, <5>1 DEF e
        <5>3. i - 1 \in 1..Len(Tail(dpcs[k])) /\ Tail(dpcs[k])[i - 1] = dpcs[k][i]
          BY <3>1, <4>1, <4>2, <5>1, <5>2
        <5>4. DOMAIN Tail(dpcs[k]) = 1..Len(Tail(dpcs[k]))
          BY <3>1, <4>1, <4>2
        <5> QED
          BY <5>1, <5>3, <5>4 DEF Range
      <4> QED
        BY <1>0, <1>d, <3>1, <4>2
    <3> QED
      BY <1>b, <3>1, <3>2, <3>3
  <2>7. CASE CpuStepEnds(c)
    <3>1. chain = NoNode /\ UNCHANGED <<unread, pending, dpcs, dropped>>
      BY <2>0, <2>7, Levels DEF CpuStepEnds, Control, history
    <3> QED
      BY <1>b, <3>1
  <2> QED
    BY <1>5, <2>1, <2>2, <2>3, <2>4, <2>5, <2>6, <2>7 DEF CpuStep
<1>6. CASE UNCHANGED vars
  BY <1>b, <1>6 DEF vars, cpuVars, history
<1> QED
  BY <1>2, <1>3, <1>4, <1>5, <1>6 DEF Next

(* What waits in a ring came in this tick: at the end of a tick nothing of  *)
(* a served device waits, unless a DPC could not be allocated.              *)
LEMMA RecentNext ==
  TypeOK /\ Control /\ NoStrandedEvents /\ UnreadIsRecent /\ [Next]_vars => UnreadIsRecent'
<1> SUFFICES ASSUME TypeOK, Control, NoStrandedEvents, UnreadIsRecent, [Next]_vars,
                    NEW d \in Pooled \ {Timer}, Served(d), d \notin dropped'
             PROVE  Len(unread'[d]) <= events'[d]
  BY PoolStays DEF UnreadIsRecent
<1>0. /\ pool \in Pools /\ unread \in [Devices -> Seq(0 .. MaxEvents)]
      /\ events \in [Devices -> 0 .. MaxEvents]
      /\ dpcs \in [Cpus -> Seq(Devices \ {Timer})]
  BY DEF TypeOK
<1>d. d \in Devices
  BY <1>0, PoolTypes
<1>n. Len(unread[d]) \in Nat /\ events[d] \in Nat
  BY <1>0, <1>d, Numbers
<1>b. d \notin dropped => Len(unread[d]) <= events[d]
  BY DEF UnreadIsRecent
<1>1. CASE TimerStep
  <2>1. /\ phase = "timer" /\ UNCHANGED <<unread, dropped>>
        /\ events' = [e \in Devices |-> 0]
    BY <1>1 DEF TimerStep
  <2>2. unread[d] = <<>>
    <3>1. PICK v : Arrives(d).bits = {v}
      BY <1>0, ServedBit
    <3>2. Arrives(d).cpu \in Cpus
      BY <1>0, ArrivesTypes
    <3>3. pending[Arrives(d).cpu] = {} /\ dpcs[Arrives(d).cpu] = <<>>
      BY <2>1, <3>2, QuietBeforeCpus DEF Control
    <3>4. ~Delivering(d)
      BY <2>1, <3>1, <3>3 DEF Delivering, Stepping
    <3>5. d \notin Range(dpcs[Arrives(d).cpu])
      BY <3>3 DEF Range
    <3> QED
      BY <2>1, <3>4, <3>5 DEF NoStrandedEvents
  <2> QED
    BY <1>d, <2>1, <2>2
<1>2. ASSUME NEW e \in Pooled \ {Timer}, DeviceGenerateEvent(e)
      PROVE  Len(unread'[d]) <= events'[d]
  <2>1. /\ dropped' = dropped /\ events' = [events EXCEPT ![e] = @ + 1]
        /\ unread' = unread \/ unread' = [unread EXCEPT ![e] = Append(@, events'[e])]
    BY <1>2 DEF DeviceGenerateEvent
  <2>2. CASE e = d
    <3>1. events'[d] = events[d] + 1
      BY <1>0, <1>d, <2>1, <2>2
    <3>2. unread'[d] = unread[d] \/ unread'[d] = Append(unread[d], events'[d])
      BY <1>0, <1>d, <2>1, <2>2
    <3>3. Len(unread'[d]) <= Len(unread[d]) + 1
      BY <1>0, <1>d, <1>n, <3>2
    <3>4. Len(unread'[d]) \in Nat
      BY <1>0, <1>d, <1>n, <3>2
    <3> QED
      BY <1>b, <1>n, <2>1, <3>1, <3>3, <3>4
  <2>3. CASE e # d
    BY <1>0, <1>b, <1>d, <2>1, <2>3
  <2> QED
    BY <2>2, <2>3
<1>3. ASSUME NEW c \in Cpus, NEW e \in Devices \ {Timer}, DeviceIsr(c, e)
      PROVE  Len(unread'[d]) <= events'[d]
  BY <1>3, <1>b DEF DeviceIsr
<1>4. ASSUME NEW c \in Cpus, RunDpc(c)
      PROVE  Len(unread'[d]) <= events'[d]
  <2> DEFINE e == Head(dpcs[c])
  <2>1. /\ unread' = [unread EXCEPT ![e] = <<>>] /\ dropped' = dropped \ {e} /\ events' = events
    BY <1>4 DEF RunDpc
  <2> HIDE DEF e
  <2>2. CASE e = d
    <3>1. unread'[d] = <<>>
      BY <1>0, <1>d, <2>1, <2>2
    <3> QED
      BY <1>n, <2>1, <3>1
  <2>3. CASE e # d
    BY <1>0, <1>b, <1>d, <2>1, <2>3
  <2> QED
    BY <2>2, <2>3
<1>5. CASE UNCHANGED <<unread, events, dropped>>
  BY <1>5, <1>b
<1> QED
  BY <1>1, <1>2, <1>3, <1>4, <1>5 DEF Next, CpuStep, StepCpus, DispatchInterrupt, TimerIsr,
     LapicSendEoi, BeginDpcs, CpuStepEnds, vars, history

----------------------------------------------------------------------------
(* The ticks of the timer.                                                  *)

(* The bit of the timer goes to its CPU, and from there once to its ISR:    *)
(* each expiration is counted, or on its way and not merged with another.   *)
LEMMA TicksNext ==
  TypeOK /\ Control /\ TimerBit /\ TicksExact /\ [Next]_vars => TimerBit' /\ TicksExact'
<1> SUFFICES ASSUME TypeOK, Control, TimerBit, TicksExact, [Next]_vars, Served(Timer), TimerAlone
             PROVE  /\ \A c \in Cpus \ {Arrives(Timer)'.cpu} :
                         Arrives(Timer)'.bits \cap pending'[c] = {}
                    /\ Called(Timer)' => /\ stepping' = Arrives(Timer)'.cpu
                                         /\ Arrives(Timer)'.bits \cap pending'[stepping'] = {}
                    /\ ticks' + (IF Delivering(Timer)' THEN 1 ELSE 0) = expired'
  BY PoolStays DEF TimerBit, TicksExact
<1>0. /\ pool \in Pools /\ pending \in [Cpus -> SUBSET (0 .. VectorBits - 1)]
      /\ ticks \in Nat /\ expired \in Nat /\ stepping \in Cpus
  BY DEF TypeOK
<1> DEFINE k == Arrives(Timer).cpu
<1>k. k \in Cpus /\ Timer \in Pooled
  BY <1>0, PoolTypes, ArrivesTypes
<1>v. PICK v \in 0..(VectorBits - 1) :
        /\ Arrives(Timer).bits = {v}
        /\ IsrTable(v) # NoNode /\ pool[IsrTable(v)].device = Timer
        /\ \A w : IsrTable(w) # NoNode /\ pool[IsrTable(w)].device = Timer => w = v
  BY <1>0, <1>k, ServedBit
<1>p. pool' = pool /\ Arrives(Timer)' = Arrives(Timer)
  BY PoolStays
<1> DEFINE Call == chain # NoNode /\ pool[chain].device = Timer
           Call1 == chain' # NoNode /\ pool[chain'].device = Timer
           Due == v \in pending[k] \/ (phase = "cpus" /\ stepping = k /\ Call)
           Due1 == v \in pending'[k] \/ (phase' = "cpus" /\ stepping' = k /\ Call1)
<1>a. SUFFICES /\ \A c \in Cpus \ {k} : v \notin pending'[c]
               /\ Call1 => stepping' = k /\ v \notin pending'[k]
               /\ ticks' + (IF Due1 THEN 1 ELSE 0) = expired'
  <2>1. Called(Timer)' <=> Call1
    BY <1>p DEF Called
  <2>2. Delivering(Timer)' <=> Due1
    BY <1>v, <1>p, <2>1 DEF Delivering, Stepping
  <2> QED
    BY <1>v, <1>p, <2>1, <2>2
<1>b. /\ \A c \in Cpus \ {k} : v \notin pending[c]
      /\ Call => stepping = k /\ v \notin pending[k]
      /\ ticks + (IF Due THEN 1 ELSE 0) = expired
  <2>1. Called(Timer) <=> Call
    BY DEF Called
  <2>2. Delivering(Timer) <=> Due
    BY <1>v, <2>1 DEF Delivering, Stepping
  <2>3. ticks + (IF Delivering(Timer) THEN 1 ELSE 0) = expired
    BY DEF TicksExact
  <2> QED
    BY <1>v, <2>1, <2>2, <2>3 DEF TimerBit
<1> HIDE DEF k
<1>1. CASE TimerStep
  <2>1. phase = "timer" /\ phase' = "devices" /\ chain' = chain /\ ticks' = ticks /\ chain = NoNode
    BY <1>1, QuietBeforeCpus DEF TimerStep
  <2>2. v \notin pending[k]
    BY <1>k, <2>1 DEF Control
  <2>3. CASE counter + 1 >= Interval
    <3>1. Raise(Timer) /\ expired' = expired + 1
      BY <1>1, <2>3 DEF TimerStep
    <3>2. v \in pending'[k] /\ \A c \in Cpus \ {k} : pending'[c] = pending[c]
      BY <1>k, <1>v, <3>1, RaiseTypes DEF k
    <3> QED
      BY <1>0, <1>b, <2>1, <2>2, <3>1, <3>2
  <2>4. CASE ~(counter + 1 >= Interval)
    <3>1. pending' = pending /\ expired' = expired
      BY <1>1, <2>4 DEF TimerStep
    <3> QED
      BY <1>b, <2>1, <2>2, <3>1
  <2> QED
    BY <2>3, <2>4
<1>2. ASSUME NEW d \in Pooled \ {Timer}, DeviceGenerateEvent(d)
      PROVE  /\ \A c \in Cpus \ {k} : v \notin pending'[c]
             /\ Call1 => stepping' = k /\ v \notin pending'[k]
             /\ ticks' + (IF Due1 THEN 1 ELSE 0) = expired'
  <2>1. /\ phase = "devices" /\ phase' = "devices" /\ chain' = chain /\ chain = NoNode
        /\ ticks' = ticks /\ expired' = expired /\ Raise(d)
    BY <1>2, QuietBeforeCpus DEF DeviceGenerateEvent
  <2>2. v \notin Arrives(d).bits
    BY <1>v DEF TimerAlone
  <2>3. \A c \in Cpus : v \in pending'[c] <=> v \in pending[c]
    BY <2>1, <2>2, RaiseTypes
  <2> QED
    BY <1>b, <1>k, <2>1, <2>3
<1>3. CASE StepCpus
  <2>1. /\ phase = "devices" /\ chain' = chain /\ chain = NoNode /\ pending' = pending
        /\ ticks' = ticks /\ expired' = expired
    BY <1>3, QuietBeforeCpus DEF StepCpus, cpuVars, history
  <2> QED
    BY <1>b, <2>1
<1>4. ASSUME NEW c \in Cpus, CpuStep(c)
      PROVE  /\ \A b \in Cpus \ {k} : v \notin pending'[b]
             /\ Call1 => stepping' = k /\ v \notin pending'[k]
             /\ ticks' + (IF Due1 THEN 1 ELSE 0) = expired'
  <2>0. phase = "cpus" /\ stepping = c
    BY <1>4 DEF CpuStep, DispatchInterrupt, TimerIsr, LapicSendEoi, DeviceIsr, BeginDpcs, RunDpc,
                CpuStepEnds, Stepping
  <2>1. CASE DispatchInterrupt(c)
    <3> DEFINE w == Lowest(pending[c])
    <3>1. /\ pending' = [pending EXCEPT ![c] = @ \ {w}] /\ chain' = IsrTable(w)
          /\ irql[c] = PASSIVE /\ pending[c] # {}
          /\ UNCHANGED <<phase, stepping, ticks, expired>>
      BY <2>1 DEF DispatchInterrupt, history
    <3>2. chain = NoNode
      BY <2>0, <3>1, Levels DEF Control
    <3>3. w \in pending[c]
      BY <1>0, <3>1, LowestPending
    <3> HIDE DEF w
    <3>4. Call1 <=> w = v
      BY <1>v, <3>1
    <3>5. \A b \in Cpus : v \in pending'[b] <=> v \in pending[b] /\ ~(b = c /\ w = v)
      BY <1>0, <3>1
    <3>6. w = v => c = k
      BY <1>b, <3>3
    <3> QED
      BY <1>b, <1>k, <2>0, <3>1, <3>2, <3>3, <3>4, <3>5, <3>6
  <2>2. CASE TimerIsr(c)
    <3>1. /\ Call /\ chain' = NoNode /\ ticks' = ticks + 1
          /\ UNCHANGED <<pending, phase, stepping, expired>>
      BY <2>2 DEF TimerIsr, Called, ChainAfter, history
    <3> QED
      BY <1>0, <1>b, <2>0, <3>1
  <2>3. CASE LapicSendEoi(c)
    <3>1. UNCHANGED <<pending, chain, phase, stepping, ticks, expired>>
      BY <2>3 DEF LapicSendEoi, history
    <3> QED
      BY <1>b, <3>1
  <2>4. ASSUME NEW d \in Devices \ {Timer}, DeviceIsr(c, d)
        PROVE  /\ \A b \in Cpus \ {k} : v \notin pending'[b]
               /\ Call1 => stepping' = k /\ v \notin pending'[k]
               /\ ticks' + (IF Due1 THEN 1 ELSE 0) = expired'
    <3>1. ~Call /\ chain' = NoNode /\ UNCHANGED <<pending, phase, stepping, ticks, expired>>
      BY <2>4 DEF DeviceIsr, Called, ChainAfter
    <3> QED
      BY <1>b, <3>1
  <2>5. CASE BeginDpcs(c)
    <3>1. UNCHANGED <<pending, chain, phase, stepping, ticks, expired>>
      BY <2>5 DEF BeginDpcs, history
    <3> QED
      BY <1>b, <3>1
  <2>6. CASE RunDpc(c)
    <3>1. UNCHANGED <<pending, chain, phase, stepping, ticks, expired>>
      BY <2>6 DEF RunDpc
    <3> QED
      BY <1>b, <3>1
  <2>7. CASE CpuStepEnds(c)
    <3>1. chain = NoNode /\ UNCHANGED <<pending, chain, ticks, expired>>
      BY <2>0, <2>7, Levels DEF CpuStepEnds, Control, history
    <3> QED
      BY <1>b, <3>1
  <2> QED
    BY <1>4, <2>1, <2>2, <2>3, <2>4, <2>5, <2>6, <2>7 DEF CpuStep
<1>5. CASE UNCHANGED vars
  <2>1. UNCHANGED <<pending, chain, phase, stepping, ticks, expired>>
    BY <1>5 DEF vars, cpuVars, history
  <2> QED
    BY <1>b, <2>1
<1> QED
  BY <1>1, <1>2, <1>3, <1>4, <1>5 DEF Next

----------------------------------------------------------------------------
(* The theorems.                                                            *)

(* The program starts with every ring empty and every CPU quiet. *)
LEMMA InitIInv == Init => IInv
<1> SUFFICES ASSUME Init PROVE IInv
  OBVIOUS
<1>1. TypeOK
  <2>1. [data |-> [i \in 0 .. BUF_SIZE - 1 |-> 0], head |-> 0, tail |-> 0] \in Arrays
    BY Numbers DEF Arrays
  <2>2. ring \in [Devices -> Arrays]
    BY <2>1 DEF Init
  <2>3. /\ pending \in [Cpus -> SUBSET (0 .. VectorBits - 1)]
        /\ inService \in [Cpus -> -1 .. VectorBits - 1]
        /\ irql \in [Cpus -> {PASSIVE, DISPATCH, DEVICE}]
    BY Numbers DEF Init
  <2>4. dpcs \in [Cpus -> Seq(Devices \ {Timer})]
    <3>1. <<>> \in Seq(Devices \ {Timer})
      OBVIOUS
    <3> QED
      BY <3>1 DEF Init
  <2>5. unread \in [Devices -> Seq(0 .. MaxEvents)] /\ events \in [Devices -> 0 .. MaxEvents]
    <3>1. <<>> \in Seq(0 .. MaxEvents) /\ 0 \in 0 .. MaxEvents
      BY Numbers
    <3> QED
      BY <3>1 DEF Init
  <2>6. pool \in Pools /\ chain \in 0 .. Len(pool)
    <3>1. pool \in Pools /\ chain = 0
      BY DEF Init, NoNode
    <3> QED
      BY <3>1, PoolTypes
  <2>7. /\ counter \in 0 .. Interval - 1 /\ ticks \in Nat /\ expired \in Nat
        /\ phase \in {"timer", "devices", "cpus", "end"} /\ stepping \in Cpus
        /\ loops \in 0 .. MaxTicks /\ failures \in 0 .. MaxFailures
        /\ lost \in SUBSET Devices /\ dropped \in SUBSET Devices
    BY Numbers, Levels DEF Init
  <2> QED
    BY <2>2, <2>3, <2>4, <2>5, <2>6, <2>7 DEF TypeOK
<1>2. Control
  BY Levels DEF Init, Control
<1>3. RingExact
  <2>1. ASSUME NEW d \in Devices PROVE Contents(ring[d]) = unread[d]
    <3>1. ring[d] \in Arrays
      BY <1>1 DEF TypeOK
    <3>2. ring[d].head = ring[d].tail /\ unread[d] = <<>>
      BY DEF Init
    <3> QED
      BY <3>1, <3>2, RingEmpty
  <2> QED
    BY <2>1 DEF RingExact
<1>4. NoStrandedEvents /\ UnreadIsRecent
  <2>1. pool \in Pools /\ \A d \in Pooled : d \in Devices
    BY PoolTypes DEF Init
  <2> QED
    BY <2>1 DEF Init, NoStrandedEvents, UnreadIsRecent
<1>5. TimerBit /\ TicksExact
  <2>1. pool \in Pools /\ Timer \in Pooled
    BY PoolTypes DEF Init
  <2>2. chain = NoNode /\ (\A c \in Cpus : pending[c] = {}) /\ phase = "timer"
    BY DEF Init
  <2>3. Served(Timer) => ~Delivering(Timer)
    <3> SUFFICES ASSUME Served(Timer) PROVE ~Delivering(Timer)
      OBVIOUS
    <3>1. PICK v : Arrives(Timer).bits = {v}
      BY <2>1, ServedBit
    <3>2. pending[Arrives(Timer).cpu] = {}
      BY <2>1, <2>2, ArrivesTypes
    <3> QED
      BY <2>2, <3>1, <3>2 DEF Delivering, Stepping
  <2>4. TicksExact
    BY <2>3 DEF TicksExact, Init
  <2>5. TimerBit
    BY <2>2 DEF TimerBit, Called
  <2> QED
    BY <2>4, <2>5
<1> QED
  BY <1>1, <1>2, <1>3, <1>4, <1>5 DEF IInv

(* The inductive invariant of the interrupt path: where the loop is, what   *)
(* the rings hold, and what each unread event and each expiration of the    *)
(* timer has on its way (main's loop, CpuStep).                             *)
THEOREM Invariant == Spec => []IInv
<1>1. IInv /\ [Next]_vars => IInv'
  BY TypeNext, ControlNext, RingNext, StrandedNext, RecentNext, TicksNext DEF IInv
<1> QED
  BY <1>1, InitIInv, PTL DEF Spec

(* For every number of CPUs, pool of devices, size of the rings and pattern *)
(* of events: the rings hold what was accepted and not processed, no unread *)
(* event of a served device is left without an interrupt or a DPC on its    *)
(* way, each expiration of the timer is counted once, and the CPUs are      *)
(* quiet between two ticks (DeviceRaiseInterrupt to ProcessDpcQueue).       *)
THEOREM InterruptsCorrect == Spec => []InterruptsAccounted
<1>1. IInv => QuietBetweenTicks
  BY QuietBeforeCpus DEF IInv, QuietBetweenTicks, Control
<1>2. IInv => InterruptsAccounted
  BY <1>1 DEF IInv, InterruptsAccounted
<1> QED
  BY <1>2, Invariant, PTL

(* RB_Push drops an event of a served device only in a tick that brings as  *)
(* many events as the ring has slots, or while events of an earlier tick    *)
(* wait for a DPC that could not be allocated.                              *)
THEOREM LossCorrect == Spec => LossOnlyOnOverrun
<1>1. IInv /\ [Next]_vars =>
        [\A d \in lost' \ lost : Served(d) => events'[d] >= BUF_SIZE \/ d \in dropped]_vars
  <2> SUFFICES ASSUME IInv, [Next]_vars, NEW d \in lost' \ lost, Served(d), d \notin dropped
               PROVE  events'[d] >= BUF_SIZE
    OBVIOUS
  <2>0. /\ pool \in Pools /\ unread \in [Devices -> Seq(0 .. MaxEvents)]
        /\ ring \in [Devices -> Arrays] /\ events \in [Devices -> 0 .. MaxEvents]
    BY DEF IInv, TypeOK
  <2>1. d \in Pooled \ {Timer} /\ DeviceGenerateEvent(d) /\ IsFull(ring[d])
    BY DEF Next, TimerStep, DeviceGenerateEvent, StepCpus, CpuStep, DispatchInterrupt, TimerIsr,
           LapicSendEoi, DeviceIsr, BeginDpcs, RunDpc, CpuStepEnds, vars, history
  <2>2. d \in Devices
    BY <2>0, <2>1, PoolTypes
  <2>3. ring[d] \in Arrays /\ unread[d] \in Seq(0 .. MaxEvents) /\ Contents(ring[d]) = unread[d]
    BY <2>0, <2>2 DEF IInv, RingExact
  <2>4. Len(unread[d]) = BUF_SIZE - 1
    <3>1. 0 \in 0 .. MaxEvents
      BY Numbers
    <3> QED
      BY <2>1, <2>3, <3>1, RingPush
  <2>5. Len(unread[d]) <= events[d]
    BY <2>1 DEF IInv, UnreadIsRecent
  <2>6. events'[d] = events[d] + 1 /\ events[d] \in Nat
    BY <2>0, <2>1, <2>2, Numbers DEF DeviceGenerateEvent
  <2> QED
    BY <2>4, <2>5, <2>6, Numbers
<1> QED
  BY <1>1, Invariant, PTL DEF Spec, LossOnlyOnOverrun

=============================================================================
