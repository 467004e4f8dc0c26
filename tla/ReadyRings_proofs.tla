-------------------------- MODULE ReadyRings_proofs --------------------------
(***************************************************************************)
(* Proofs about the ready queues as rings, for every MAX_THREADS and       *)
(* MAX_PRIORITY: the rings stay exact, and they implement sequences.       *)
(***************************************************************************)
EXTENDS ReadyRings, FiniteSetTheorems, SequenceTheorems, WellFoundedInduction, TLAPS

----------------------------------------------------------------------------
(* Places in a ring of n slots *)

(* Past the last slot a place wraps around once. *)
LEMMA Wraps ==
  ASSUME NEW n \in Nat \ {0}, NEW x \in 0..(2 * n - 1)
  PROVE  x % n = IF x < n THEN x ELSE x - n
<1> DEFINE q == x \div n
           r == x % n
<1>1. q \in Int /\ r \in 0..(n - 1) /\ x = n * q + r
  OBVIOUS
<1> HIDE DEF q, r
<1>2. q < 2
  <2> SUFFICES ASSUME q >= 2 PROVE FALSE
    BY <1>1
  <2>1. n * q >= n * 2
    BY <1>1
  <2> QED
    BY <1>1, <2>1
<1>3. q >= 0
  <2> SUFFICES ASSUME q <= -1 PROVE FALSE
    BY <1>1
  <2>1. n * q <= n * (-1)
    BY <1>1
  <2> QED
    BY <1>1, <2>1
<1>4. CASE q = 0
  <2>1. x = r
    BY <1>1, <1>4
  <2> QED
    BY <1>1, <2>1 DEF r
<1>5. CASE q = 1
  <2>1. x = n + r
    BY <1>1, <1>5
  <2> QED
    BY <1>1, <2>1 DEF r
<1> QED
  BY <1>1, <1>2, <1>3, <1>4, <1>5

(* The i-th place from h on. *)
LEMMA PlaceInRing ==
  ASSUME NEW h \in Slots, NEW i \in 0..MAX_THREADS
  PROVE  /\ (h + i) % MAX_THREADS \in Slots
         /\ (h + i) % MAX_THREADS
              = IF h + i < MAX_THREADS THEN h + i ELSE h + i - MAX_THREADS
<1> DEFINE x == h + i
<1>1. MAX_THREADS \in Nat \ {0} /\ x \in 0..(2 * MAX_THREADS - 1)
  BY RingAssumption DEF Slots
<1>2. x % MAX_THREADS = IF x < MAX_THREADS THEN x ELSE x - MAX_THREADS
  <2> HIDE DEF x
  <2> QED
    BY <1>1, Wraps
<1> QED
  BY <1>1, <1>2 DEF Slots

(* Different places, as long as they are not a whole round apart. *)
LEMMA PlacesDiffer ==
  ASSUME NEW h \in Slots, NEW i \in 0..MAX_THREADS, NEW j \in 0..MAX_THREADS,
         i < j, j - i < MAX_THREADS
  PROVE  (h + i) % MAX_THREADS # (h + j) % MAX_THREADS
<1> DEFINE a == (h + i) % MAX_THREADS
           b == (h + j) % MAX_THREADS
<1>1. /\ a = IF h + i < MAX_THREADS THEN h + i ELSE h + i - MAX_THREADS
      /\ b = IF h + j < MAX_THREADS THEN h + j ELSE h + j - MAX_THREADS
  BY PlaceInRing
<1> HIDE DEF a, b
<1>2. a # b
  BY <1>1, RingAssumption DEF Slots
<1> QED
  BY <1>2 DEF a, b

(* The place after place i, and the places counted from the next slot.     *)
LEMMA PlaceAfter ==
  ASSUME NEW h \in Slots, NEW i \in 0..(MAX_THREADS - 1)
  PROVE  /\ (((h + i) % MAX_THREADS) + 1) % MAX_THREADS = (h + (i + 1)) % MAX_THREADS
         /\ (((h + 1) % MAX_THREADS) + i) % MAX_THREADS = (h + (i + 1)) % MAX_THREADS
<1>1. /\ MAX_THREADS \in Nat \ {0}
      /\ i \in 0..MAX_THREADS /\ i + 1 \in 0..MAX_THREADS /\ 1 \in 0..MAX_THREADS
  BY RingAssumption
<1> DEFINE a == (h + i) % MAX_THREADS
           b == (h + (i + 1)) % MAX_THREADS
           d == (h + 1) % MAX_THREADS
<1>2. /\ a \in Slots /\ a = IF h + i < MAX_THREADS THEN h + i ELSE h + i - MAX_THREADS
      /\ b \in Slots /\ b = IF h + (i + 1) < MAX_THREADS THEN h + (i + 1) ELSE h + (i + 1) - MAX_THREADS
      /\ d \in Slots /\ d = IF h + 1 < MAX_THREADS THEN h + 1 ELSE h + 1 - MAX_THREADS
  BY <1>1, PlaceInRing
<1> HIDE DEF a, b, d
<1>3. (a + 1) % MAX_THREADS = IF a + 1 < MAX_THREADS THEN a + 1 ELSE a + 1 - MAX_THREADS
  BY <1>1, <1>2, PlaceInRing
<1>4. (d + i) % MAX_THREADS = IF d + i < MAX_THREADS THEN d + i ELSE d + i - MAX_THREADS
  BY <1>1, <1>2, PlaceInRing
<1>5. (a + 1) % MAX_THREADS = b /\ (d + i) % MAX_THREADS = b
  BY <1>1, <1>2, <1>3, <1>4 DEF Slots
<1> QED
  BY <1>5 DEF a, b, d

(* The place before the end of i of them. *)
LEMMA PlaceBack ==
  ASSUME NEW h \in Slots, NEW i \in 1..MAX_THREADS
  PROVE  (((h + i) % MAX_THREADS) - 1 + MAX_THREADS) % MAX_THREADS = (h + (i - 1)) % MAX_THREADS
<1>1. /\ MAX_THREADS \in Nat \ {0}
      /\ i \in 0..MAX_THREADS /\ i - 1 \in 0..MAX_THREADS
  BY RingAssumption
<1> DEFINE a == (h + i) % MAX_THREADS
           b == (h + (i - 1)) % MAX_THREADS
<1>2. /\ a \in Slots /\ a = IF h + i < MAX_THREADS THEN h + i ELSE h + i - MAX_THREADS
      /\ b \in Slots /\ b = IF h + (i - 1) < MAX_THREADS THEN h + (i - 1) ELSE h + (i - 1) - MAX_THREADS
  BY <1>1, PlaceInRing
<1> HIDE DEF a, b
<1> DEFINE x == a - 1 + MAX_THREADS
<1>3. x \in 0..(2 * MAX_THREADS - 1)
  BY <1>1, <1>2 DEF Slots
<1>4. x % MAX_THREADS = IF x < MAX_THREADS THEN x ELSE x - MAX_THREADS
  <2> HIDE DEF x
  <2> QED
    BY <1>1, <1>3, Wraps
<1>5. (a - 1 + MAX_THREADS) % MAX_THREADS = b
  BY <1>1, <1>2, <1>4 DEF Slots
<1> QED
  BY <1>5 DEF a, b

----------------------------------------------------------------------------
(* One ring, with its head, its tail and its number of threads, and the    *)
(* i-th thread of it                                                       *)

Elem(ring, h, i) == ring[(h + i) % MAX_THREADS]

RingOk(ring, h, end, n) ==
  /\ ring \in [Slots -> Threads \cup {NULL}]
  /\ h \in Slots /\ n \in 0..MAX_THREADS
  /\ end = (h + n) % MAX_THREADS
  /\ \A i \in 0..(n - 1) : Elem(ring, h, i) \in Threads

(* A thread is put at the tail. *)
LEMMA RingInsert ==
  ASSUME NEW ring, NEW h, NEW end, NEW n, RingOk(ring, h, end, n),
         n < MAX_THREADS, NEW t \in Threads
  PROVE  LET after == [ring EXCEPT ![end] = t]
         IN  /\ RingOk(after, h, (end + 1) % MAX_THREADS, n + 1)
             /\ \A i \in 0..(n - 1) : Elem(after, h, i) = Elem(ring, h, i)
             /\ Elem(after, h, n) = t
<1> DEFINE after == [ring EXCEPT ![end] = t]
<1>1. /\ MAX_THREADS \in Nat \ {0} /\ n \in 0..(MAX_THREADS - 1)
      /\ n \in 0..MAX_THREADS /\ n + 1 \in 0..MAX_THREADS
  BY RingAssumption DEF RingOk
<1>2. /\ end \in Slots /\ end = (h + n) % MAX_THREADS
      /\ (end + 1) % MAX_THREADS = (h + (n + 1)) % MAX_THREADS
  BY <1>1, PlaceInRing, PlaceAfter DEF RingOk
<1>3. after \in [Slots -> Threads \cup {NULL}]
  BY DEF RingOk
<1>4. \A i \in 0..(n - 1) : Elem(after, h, i) = Elem(ring, h, i)
  <2> TAKE i \in 0..(n - 1)
  <2>1. i \in 0..MAX_THREADS /\ i < n /\ n - i < MAX_THREADS /\ h \in Slots
    BY <1>1 DEF RingOk
  <2>2. (h + i) % MAX_THREADS \in Slots /\ (h + i) % MAX_THREADS # end
    BY <1>1, <1>2, <2>1, PlaceInRing, PlacesDiffer
  <2> QED
    BY <2>2 DEF Elem, RingOk
<1>5. Elem(after, h, n) = t
  BY <1>2 DEF Elem, RingOk
<1>6. \A i \in 0..((n + 1) - 1) : Elem(after, h, i) \in Threads
  <2> TAKE i \in 0..((n + 1) - 1)
  <2>1. CASE i = n
    BY <1>5, <2>1
  <2>2. CASE i # n
    <3>1. i \in 0..(n - 1)
      BY <1>1, <2>2
    <3> QED
      BY <1>4, <3>1 DEF RingOk
  <2> QED
    BY <2>1, <2>2
<1>7. RingOk(after, h, (end + 1) % MAX_THREADS, n + 1)
  <2> HIDE DEF after
  <2> QED
    BY <1>1, <1>2, <1>3, <1>6 DEF RingOk
<1> QED
  BY <1>4, <1>5, <1>7

(* The thread at the head is taken. *)
LEMMA RingTake ==
  ASSUME NEW ring, NEW h, NEW end, NEW n, RingOk(ring, h, end, n), n > 0
  PROVE  LET after == [ring EXCEPT ![h] = NULL]
         IN  /\ RingOk(after, (h + 1) % MAX_THREADS, end, n - 1)
             /\ \A i \in 0..(n - 2) :
                  Elem(after, (h + 1) % MAX_THREADS, i) = Elem(ring, h, i + 1)
<1> DEFINE after == [ring EXCEPT ![h] = NULL]
           next == (h + 1) % MAX_THREADS
<1>1. /\ MAX_THREADS \in Nat \ {0} /\ n \in 1..MAX_THREADS /\ h \in Slots
      /\ n - 1 \in 0..(MAX_THREADS - 1) /\ n - 1 \in 0..MAX_THREADS
      /\ 0 \in 0..MAX_THREADS /\ 1 \in 0..MAX_THREADS
  BY RingAssumption DEF RingOk
<1>2. /\ next \in Slots
      /\ (next + (n - 1)) % MAX_THREADS = (h + ((n - 1) + 1)) % MAX_THREADS
  BY <1>1, PlaceInRing, PlaceAfter
<1>3. (n - 1) + 1 = n
  BY <1>1
<1>4. after \in [Slots -> Threads \cup {NULL}]
  BY DEF RingOk
<1>5. \A i \in 0..(n - 2) : Elem(after, next, i) = Elem(ring, h, i + 1)
  <2> TAKE i \in 0..(n - 2)
  <2>1. /\ i \in 0..(MAX_THREADS - 1) /\ i + 1 \in 0..MAX_THREADS /\ 0 < i + 1
        /\ (i + 1) - 0 < MAX_THREADS
    BY <1>1
  <2>2. /\ (next + i) % MAX_THREADS = (h + (i + 1)) % MAX_THREADS
        /\ (h + (i + 1)) % MAX_THREADS \in Slots
        /\ (h + 0) % MAX_THREADS # (h + (i + 1)) % MAX_THREADS
    BY <1>1, <2>1, PlaceInRing, PlaceAfter, PlacesDiffer
  <2>3. (h + 0) % MAX_THREADS = h
    <3>1. (h + 0) % MAX_THREADS = IF h + 0 < MAX_THREADS THEN h + 0 ELSE h + 0 - MAX_THREADS
      BY <1>1, PlaceInRing
    <3>2. h + 0 = h /\ h < MAX_THREADS
      BY <1>1 DEF Slots
    <3> QED
      BY <3>1, <3>2
  <2> QED
    BY <2>2, <2>3 DEF Elem, RingOk
<1>6. \A i \in 0..((n - 1) - 1) : Elem(after, next, i) \in Threads
  <2> TAKE i \in 0..((n - 1) - 1)
  <2>1. i \in 0..(n - 2) /\ i + 1 \in 0..(n - 1)
    BY <1>1
  <2> QED
    BY <1>5, <2>1 DEF RingOk
<1>7. end = (next + (n - 1)) % MAX_THREADS
  BY <1>2, <1>3 DEF RingOk
<1>8. RingOk(after, next, end, n - 1)
  <2> HIDE DEF after, next
  <2> QED
    BY <1>1, <1>2, <1>4, <1>6, <1>7 DEF RingOk
<1> QED
  BY <1>5, <1>8

(* The k-th thread is taken out and the later ones move down a slot. *)
ShiftedRing(ring, h, n, k) ==
  [s \in Slots |-> IF \E j \in k..(n - 2) : s = (h + j) % MAX_THREADS
                   THEN ring[(s + 1) % MAX_THREADS] ELSE ring[s]]

(* The ring without its k-th thread is right, with its end a slot back. *)
LEMMA RingRemove ==
  ASSUME NEW ring, NEW h, NEW end, NEW n, RingOk(ring, h, end, n),
         NEW k \in 0..(n - 1)
  PROVE  LET after == ShiftedRing(ring, h, n, k)
         IN  /\ RingOk(after, h, (end - 1 + MAX_THREADS) % MAX_THREADS, n - 1)
             /\ \A i \in 0..(n - 2) :
                  Elem(after, h, i) = Elem(ring, h, IF i < k THEN i ELSE i + 1)
<1> DEFINE after == ShiftedRing(ring, h, n, k)
<1>1. /\ MAX_THREADS \in Nat \ {0} /\ n \in 1..MAX_THREADS /\ h \in Slots
      /\ n - 1 \in 0..MAX_THREADS /\ n \in 0..MAX_THREADS
  BY RingAssumption DEF RingOk
<1>2. (end - 1 + MAX_THREADS) % MAX_THREADS = (h + (n - 1)) % MAX_THREADS
  BY <1>1, PlaceBack DEF RingOk
<1>3. \A i \in 0..(n - 2) :
        /\ (h + i) % MAX_THREADS \in Slots
        /\ (((h + i) % MAX_THREADS) + 1) % MAX_THREADS = (h + (i + 1)) % MAX_THREADS
        /\ (h + (i + 1)) % MAX_THREADS \in Slots
  <2> TAKE i \in 0..(n - 2)
  <2>1. i \in 0..(MAX_THREADS - 1) /\ i \in 0..MAX_THREADS /\ i + 1 \in 0..MAX_THREADS
    BY <1>1
  <2> QED
    BY <1>1, <2>1, PlaceInRing, PlaceAfter
<1>4. after \in [Slots -> Threads \cup {NULL}]
  <2> SUFFICES ASSUME NEW s \in Slots PROVE after[s] \in Threads \cup {NULL}
    BY DEF ShiftedRing
  <2>1. CASE \E j \in k..(n - 2) : s = (h + j) % MAX_THREADS
    <3>1. PICK j \in k..(n - 2) : s = (h + j) % MAX_THREADS
      BY <2>1
    <3>2. j \in 0..(n - 2)
      BY <1>1
    <3>3. (s + 1) % MAX_THREADS \in Slots
      BY <1>3, <3>1, <3>2
    <3> QED
      BY <2>1, <3>3 DEF ShiftedRing, RingOk
  <2>2. CASE ~ \E j \in k..(n - 2) : s = (h + j) % MAX_THREADS
    BY <2>2 DEF ShiftedRing, RingOk
  <2> QED
    BY <2>1, <2>2
<1>5. \A i \in 0..(n - 2) : Elem(after, h, i) = Elem(ring, h, IF i < k THEN i ELSE i + 1)
  <2> TAKE i \in 0..(n - 2)
  <2>1. CASE i < k
    <3>1. \A j \in k..(n - 2) : (h + i) % MAX_THREADS # (h + j) % MAX_THREADS
      <4> TAKE j \in k..(n - 2)
      <4>1. i \in 0..MAX_THREADS /\ j \in 0..MAX_THREADS /\ i < j /\ j - i < MAX_THREADS
        BY <1>1, <2>1
      <4> QED
        BY <1>1, <4>1, PlacesDiffer
    <3> QED
      BY <1>3, <2>1, <3>1 DEF ShiftedRing, Elem
  <2>2. CASE ~(i < k)
    <3>1. i \in k..(n - 2)
      BY <1>1, <2>2
    <3> QED
      BY <1>3, <2>2, <3>1 DEF ShiftedRing, Elem
  <2> QED
    BY <2>1, <2>2
<1>6. \A i \in 0..((n - 1) - 1) : Elem(after, h, i) \in Threads
  <2> TAKE i \in 0..((n - 1) - 1)
  <2>1. i \in 0..(n - 2) /\ i \in 0..(n - 1) /\ i + 1 \in 0..(n - 1)
    BY <1>1
  <2>2. (IF i < k THEN i ELSE i + 1) \in 0..(n - 1)
    BY <2>1
  <2> QED
    BY <1>5, <2>1, <2>2 DEF RingOk
<1>7. RingOk(after, h, (end - 1 + MAX_THREADS) % MAX_THREADS, n - 1)
  <2> HIDE DEF after
  <2> QED
    BY <1>1, <1>2, <1>4, <1>6 DEF RingOk
<1> QED
  BY <1>5, <1>7

(* A ring of different threads without t has a slot left. *)
LEMMA RoomForOther ==
  ASSUME NEW ring, NEW h, NEW end, NEW n, RingOk(ring, h, end, n),
         \A i, j \in 0..(n - 1) : Elem(ring, h, i) = Elem(ring, h, j) => i = j,
         NEW t \in Threads, \A i \in 0..(n - 1) : Elem(ring, h, i) # t
  PROVE  n < MAX_THREADS
<1> DEFINE f == [i \in 0..(n - 1) |-> Elem(ring, h, i)]
           Others == Threads \ {t}
<1>1. MAX_THREADS \in Nat \ {0} /\ n \in Nat
  BY RingAssumption DEF RingOk
<1>2. f \in Injection(0..(n - 1), Others)
  BY DEF Injection, IsInjective, RingOk
<1>3. IsFiniteSet(Threads) /\ Cardinality(Threads) = MAX_THREADS
  <2>1. IsFiniteSet(1..MAX_THREADS)
        /\ Cardinality(1..MAX_THREADS) = IF 1 > MAX_THREADS THEN 0 ELSE MAX_THREADS - 1 + 1
    BY <1>1, FS_Interval
  <2> QED
    BY <1>1, <2>1 DEF Threads
<1>4. IsFiniteSet(Others) /\ Cardinality(Others) = MAX_THREADS - 1
  BY <1>3, FS_RemoveElement
<1> HIDE DEF f, Others
<1>5. Cardinality(0..(n - 1)) <= MAX_THREADS - 1
  BY <1>2, <1>4, FS_Injection
<1>6. Cardinality(0..(n - 1)) = n
  <2>1. Cardinality(0..(n - 1)) = IF 0 > n - 1 THEN 0 ELSE (n - 1) - 0 + 1
    BY <1>1, FS_Interval
  <2> QED
    BY <1>1, <2>1
<1> QED
  BY <1>1, <1>5, <1>6

----------------------------------------------------------------------------
(* All rings *)

(* What one thread in one place needs: rings that are each right, no       *)
(* thread in two places, and a bitmap that tells which are not empty.      *)
RingsOk == \A p \in Priorities : RingOk(slots[p], head[p], tail[p], count[p])
EachOnce ==
  \A p, q \in Priorities : \A i \in 0..(count[p] - 1), j \in 0..(count[q] - 1) :
    Elem(slots[p], head[p], i) = Elem(slots[q], head[q], j) => p = q /\ i = j
BitsExact == \A p \in Priorities : count[p] > 0 <=> p \in bitmap

IInv == TypeOK /\ RingsOk /\ EachOnce /\ BitsExact

(* The invariant is RingsExact with its parts named. *)
LEMMA IInvIsRingsExact == IInv <=> RingsExact
<1>1. \A p \in Priorities : \A i : slots[p][At(p, i)] = Elem(slots[p], head[p], i)
  BY DEF At, Elem
<1>2. ASSUME IInv PROVE RingsExact
  <2>1. ASSUME NEW p \in Priorities
        PROVE  /\ tail[p] = (head[p] + count[p]) % MAX_THREADS
               /\ count[p] <= MAX_THREADS
               /\ \A i \in 0..(count[p] - 1) : slots[p][At(p, i)] \in Threads
    BY <1>1, <1>2 DEF IInv, RingsOk, RingOk
  <2>2. \A p \in Priorities : \A q \in Priorities :
          \A i \in 0..(count[p] - 1), j \in 0..(count[q] - 1) :
            slots[p][At(p, i)] = slots[q][At(q, j)] => p = q /\ i = j
    BY <1>1, <1>2 DEF IInv, EachOnce
  <2> QED
    BY <1>2, <2>1, <2>2 DEF IInv, BitsExact, RingsExact
<1>3. ASSUME RingsExact PROVE IInv
  <2>1. RingsOk
    <3> SUFFICES ASSUME NEW p \in Priorities
                 PROVE  RingOk(slots[p], head[p], tail[p], count[p])
      BY DEF RingsOk
    <3>1. /\ slots[p] \in [Slots -> Threads \cup {NULL}] /\ head[p] \in Slots
          /\ count[p] \in Nat /\ count[p] <= MAX_THREADS
          /\ tail[p] = (head[p] + count[p]) % MAX_THREADS
      BY <1>3 DEF RingsExact, TypeOK
    <3>2. \A i \in 0..(count[p] - 1) : Elem(slots[p], head[p], i) \in Threads
      BY <1>1, <1>3 DEF RingsExact
    <3> QED
      BY <3>1, <3>2, RingAssumption DEF RingOk
  <2>2. EachOnce
    BY <1>1, <1>3 DEF RingsExact, EachOnce
  <2> QED
    BY <1>3, <2>1, <2>2 DEF IInv, BitsExact, RingsExact
<1> QED
  BY <1>2, <1>3

(* What a step leaves alone. *)
Untouched(p) ==
  /\ slots'[p] = slots[p] /\ head'[p] = head[p]
  /\ tail'[p] = tail[p] /\ count'[p] = count[p]

(* Ring p after t was put at its end. *)
Grown(p, t) ==
  /\ RingOk(slots'[p], head'[p], tail'[p], count'[p])
  /\ count'[p] = count[p] + 1
  /\ \A i \in 0..(count[p] - 1) : Elem(slots'[p], head'[p], i) = Elem(slots[p], head[p], i)
  /\ Elem(slots'[p], head'[p], count[p]) = t

(* Ring p after its k-th thread has left it. *)
Shrunk(p, k) ==
  /\ RingOk(slots'[p], head'[p], tail'[p], count'[p])
  /\ count'[p] = count[p] - 1
  /\ \A i \in 0..(count[p] - 2) :
       Elem(slots'[p], head'[p], i) = Elem(slots[p], head[p], IF i < k THEN i ELSE i + 1)

(* A thread that is in no ring finds room in each. *)
LEMMA RoomInRing ==
  ASSUME IInv, NEW p \in Priorities, NEW t \in Threads,
         \A i \in 0..(count[p] - 1) : Elem(slots[p], head[p], i) # t
  PROVE  count[p] < MAX_THREADS
<1>1. RingOk(slots[p], head[p], tail[p], count[p])
  BY DEF IInv, RingsOk
<1>2. \A i, j \in 0..(count[p] - 1) :
        Elem(slots[p], head[p], i) = Elem(slots[p], head[p], j) => i = j
  BY DEF IInv, EachOnce
<1> QED
  BY <1>1, <1>2, RoomForOther

(* ReadyThread lets one ring grow. *)
LEMMA ReadyThreadGrows ==
  ASSUME IInv, NEW t \in Threads, NEW p \in Priorities, ReadyThread(t, p)
  PROVE  /\ TypeOK'
         /\ Grown(p, t) /\ \A q \in Priorities \ {p} : Untouched(q)
         /\ \A q \in Priorities : \A i \in 0..(count[q] - 1) : Elem(slots[q], head[q], i) # t
<1>1. \A q \in Priorities : \A i \in 0..(count[q] - 1) : Elem(slots[q], head[q], i) # t
  BY DEF ReadyThread, Queued, At, Elem
<1>2. RingOk(slots[p], head[p], tail[p], count[p]) /\ count[p] < MAX_THREADS
  BY <1>1, RoomInRing DEF IInv, RingsOk
<1>3. /\ slots'[p] = [slots[p] EXCEPT ![tail[p]] = t] /\ head'[p] = head[p]
      /\ tail'[p] = (tail[p] + 1) % MAX_THREADS /\ count'[p] = count[p] + 1
      /\ \A q \in Priorities \ {p} : Untouched(q)
  BY DEF ReadyThread, IInv, TypeOK, Untouched
<1>4. Grown(p, t)
  BY <1>2, <1>3, RingInsert DEF Grown
<1>5. TypeOK'
  <2>1. (tail[p] + 1) % MAX_THREADS \in Slots
    <3>1. tail[p] \in Slots /\ 1 \in 0..MAX_THREADS
      BY RingAssumption DEF IInv, TypeOK
    <3> QED
      BY <3>1, PlaceInRing
  <2>2. slots' \in [Priorities -> [Slots -> Threads \cup {NULL}]]
    BY DEF ReadyThread, IInv, TypeOK
  <2>3. tail' \in [Priorities -> Slots] /\ head' \in [Priorities -> Slots]
    BY <2>1 DEF ReadyThread, IInv, TypeOK
  <2>4. count' \in [Priorities -> Nat] /\ bitmap' \subseteq Priorities
    BY DEF ReadyThread, IInv, TypeOK
  <2> QED
    BY <2>2, <2>3, <2>4 DEF TypeOK
<1> QED
  BY <1>1, <1>3, <1>4, <1>5

(* RemoveReadyThread takes the first of one ring. *)
LEMMA RemoveReadyThreadShrinks ==
  ASSUME IInv, NEW p \in Priorities, RemoveReadyThread(p)
  PROVE  /\ TypeOK'
         /\ count[p] > 0
         /\ Shrunk(p, 0) /\ \A q \in Priorities \ {p} : Untouched(q)
<1>1. RingOk(slots[p], head[p], tail[p], count[p]) /\ count[p] > 0
  BY DEF IInv, RingsOk, RemoveReadyThread
<1>2. /\ slots'[p] = [slots[p] EXCEPT ![head[p]] = NULL] /\ tail'[p] = tail[p]
      /\ head'[p] = (head[p] + 1) % MAX_THREADS /\ count'[p] = count[p] - 1
      /\ \A q \in Priorities \ {p} : Untouched(q)
  BY DEF RemoveReadyThread, IInv, TypeOK, Untouched
<1>3. /\ RingOk(slots'[p], head'[p], tail'[p], count'[p])
      /\ \A i \in 0..(count[p] - 2) :
           Elem(slots'[p], head'[p], i) = Elem(slots[p], head[p], i + 1)
  <2> DEFINE after == [slots[p] EXCEPT ![head[p]] = NULL]
             next == (head[p] + 1) % MAX_THREADS
  <2>1. /\ RingOk(after, next, tail[p], count[p] - 1)
        /\ \A i \in 0..(count[p] - 2) : Elem(after, next, i) = Elem(slots[p], head[p], i + 1)
    BY <1>1, RingTake
  <2>2. slots'[p] = after /\ head'[p] = next
    BY <1>2
  <2> HIDE DEF after, next
  <2> QED
    BY <1>2, <2>1, <2>2
<1>4. \A i \in 0..(count[p] - 2) : (IF i < 0 THEN i ELSE i + 1) = i + 1
  BY <1>1 DEF RingOk
<1>5. Shrunk(p, 0)
  BY <1>2, <1>3, <1>4 DEF Shrunk
<1>6. TypeOK'
  <2>1. (head[p] + 1) % MAX_THREADS \in Slots
    <3>1. head[p] \in Slots /\ 1 \in 0..MAX_THREADS
      BY RingAssumption DEF IInv, TypeOK
    <3> QED
      BY <3>1, PlaceInRing
  <2>2. slots' \in [Priorities -> [Slots -> Threads \cup {NULL}]]
    BY DEF RemoveReadyThread, IInv, TypeOK
  <2>3. tail' \in [Priorities -> Slots] /\ head' \in [Priorities -> Slots]
    BY <2>1 DEF RemoveReadyThread, IInv, TypeOK
  <2>4. count' \in [Priorities -> Nat]
    BY <1>1 DEF RemoveReadyThread, IInv, TypeOK
  <2>5. bitmap' \subseteq Priorities
    BY DEF RemoveReadyThread, BitAfterRemoval, IInv, TypeOK
  <2> QED
    BY <2>2, <2>3, <2>4, <2>5 DEF TypeOK
<1> QED
  BY <1>1, <1>2, <1>5, <1>6

(* ReinsertReadyThread lets one ring shrink and another grow. *)
LEMMA ReinsertReadyThreadMoves ==
  ASSUME IInv, NEW p \in Priorities, NEW n \in Priorities, NEW k \in Slots,
         ReinsertReadyThread(p, k, n)
  PROVE  /\ TypeOK'
         /\ p # n /\ k \in 0..(count[p] - 1)
         /\ Shrunk(p, k) /\ Grown(n, Elem(slots[p], head[p], k))
         /\ \A q \in Priorities \ {p, n} : Untouched(q)
<1> DEFINE t == Elem(slots[p], head[p], k)
<1>1. /\ RingOk(slots[p], head[p], tail[p], count[p])
      /\ RingOk(slots[n], head[n], tail[n], count[n])
  BY DEF IInv, RingsOk
<1>2. p # n /\ k \in 0..(count[p] - 1)
  BY <1>1 DEF ReinsertReadyThread, Slots, RingOk, Priorities
<1>3. t \in Threads /\ \A i \in 0..(count[n] - 1) : Elem(slots[n], head[n], i) # t
  <2>1. t \in Threads
    BY <1>1, <1>2 DEF RingOk
  <2>2. \A i \in 0..(count[n] - 1) : Elem(slots[n], head[n], i) # t
    BY <1>2 DEF IInv, EachOnce
  <2> QED
    BY <2>1, <2>2
<1>4. count[n] < MAX_THREADS
  BY <1>3, RoomInRing
<1>5. /\ slots'[p] = ShiftedRing(slots[p], head[p], count[p], k) /\ head' = head
      /\ tail'[p] = (tail[p] - 1 + MAX_THREADS) % MAX_THREADS /\ count'[p] = count[p] - 1
  BY <1>2 DEF ReinsertReadyThread, IInv, TypeOK, Shifted, ShiftedRing, At, TailBack
<1>6. /\ slots'[n] = [slots[n] EXCEPT ![tail[n]] = t]
      /\ tail'[n] = (tail[n] + 1) % MAX_THREADS /\ count'[n] = count[n] + 1
  BY <1>2 DEF ReinsertReadyThread, IInv, TypeOK, At, Elem
<1>7. \A q \in Priorities \ {p, n} : Untouched(q)
  BY <1>2 DEF ReinsertReadyThread, IInv, TypeOK, Untouched
<1>8. Shrunk(p, k)
  BY <1>1, <1>2, <1>5, RingRemove DEF Shrunk
<1>9. Grown(n, t)
  <2> HIDE DEF t
  <2> QED
    BY <1>1, <1>3, <1>4, <1>5, <1>6, RingInsert DEF Grown
<1>10. TypeOK'
  <2>1. slots' \in [Priorities -> [Slots -> Threads \cup {NULL}]]
    <3>1. DOMAIN slots' = Priorities /\ slots' = [q \in Priorities |-> slots'[q]]
      BY DEF ReinsertReadyThread, IInv, TypeOK
    <3>2. \A q \in Priorities : slots'[q] \in [Slots -> Threads \cup {NULL}]
      BY <1>7, <1>8, <1>9 DEF Untouched, Shrunk, Grown, RingOk, IInv, TypeOK
    <3> QED
      BY <3>1, <3>2
  <2>2. tail' \in [Priorities -> Slots] /\ head' \in [Priorities -> Slots]
    <3>1. \A q \in Priorities : tail'[q] \in Slots
      <4>1. ASSUME NEW q \in Priorities, RingOk(slots'[q], head'[q], tail'[q], count'[q])
            PROVE  tail'[q] \in Slots
        BY <4>1, PlaceInRing DEF RingOk
      <4> QED
        BY <1>7, <1>8, <1>9, <4>1 DEF Untouched, Shrunk, Grown, IInv, TypeOK
    <3>2. tail' = [q \in Priorities |-> tail'[q]]
      BY DEF ReinsertReadyThread, IInv, TypeOK
    <3> QED
      BY <1>5, <3>1, <3>2 DEF IInv, TypeOK
  <2>3. count' \in [Priorities -> Nat]
    <3>1. \A q \in Priorities : count'[q] \in Nat
      BY <1>7, <1>8, <1>9 DEF Untouched, Shrunk, Grown, RingOk, IInv, TypeOK
    <3>2. count' = [q \in Priorities |-> count'[q]]
      BY DEF ReinsertReadyThread, IInv, TypeOK
    <3> QED
      BY <3>1, <3>2
  <2>4. bitmap' \subseteq Priorities
    BY DEF ReinsertReadyThread, BitAfterRemoval, IInv, TypeOK
  <2> QED
    BY <2>1, <2>2, <2>3, <2>4 DEF TypeOK
<1> QED
  BY <1>2, <1>7, <1>8, <1>9, <1>10

(* With t new, growing keeps each thread in one place. *)
LEMMA GrownEachOnce ==
  ASSUME IInv, NEW p \in Priorities, NEW t, Grown(p, t),
         \A q \in Priorities \ {p} : Untouched(q),
         \A q \in Priorities : \A i \in 0..(count[q] - 1) : Elem(slots[q], head[q], i) # t
  PROVE  EachOnce'
<1> SUFFICES ASSUME NEW a \in Priorities, NEW b \in Priorities,
                    NEW i \in 0..(count'[a] - 1), NEW j \in 0..(count'[b] - 1),
                    Elem(slots'[a], head'[a], i) = Elem(slots'[b], head'[b], j)
             PROVE  a = b /\ i = j
  BY DEF EachOnce, Elem
<1>1. count[p] \in Nat /\ count'[p] = count[p] + 1
  BY DEF Grown, IInv, TypeOK
<1>2. ASSUME NEW q \in Priorities, NEW k \in 0..(count'[q] - 1)
      PROVE  IF q = p /\ k = count[p] THEN Elem(slots'[q], head'[q], k) = t
             ELSE /\ k \in 0..(count[q] - 1)
                  /\ Elem(slots'[q], head'[q], k) = Elem(slots[q], head[q], k)
  <2>1. CASE q = p /\ k = count[p]
    BY <2>1 DEF Grown
  <2>2. CASE q = p /\ k # count[p]
    <3>1. k \in 0..(count[p] - 1)
      BY <1>1, <2>2
    <3> QED
      BY <2>2, <3>1 DEF Grown
  <2>3. CASE q # p
    BY <2>3 DEF Untouched
  <2> QED
    BY <2>1, <2>2, <2>3
<1>3. CASE a = p /\ i = count[p]
  BY <1>2, <1>3
<1>4. CASE ~(a = p /\ i = count[p]) /\ b = p /\ j = count[p]
  BY <1>2, <1>4
<1>5. CASE ~(a = p /\ i = count[p]) /\ ~(b = p /\ j = count[p])
  <2>1. /\ i \in 0..(count[a] - 1) /\ j \in 0..(count[b] - 1)
        /\ Elem(slots[a], head[a], i) = Elem(slots[b], head[b], j)
    BY <1>2, <1>5
  <2> QED
    BY <2>1 DEF IInv, EachOnce
<1> QED
  BY <1>3, <1>4, <1>5

(* The place a thread had before ring p lost its k-th one. *)
OldPlace(p, k, q, i) == IF q = p /\ i >= k THEN i + 1 ELSE i

(* So does shrinking: every thread that is left had a place of its own.    *)
LEMMA ShrunkEachOnce ==
  ASSUME IInv, NEW p \in Priorities, NEW k \in 0..(count[p] - 1), Shrunk(p, k),
         \A q \in Priorities \ {p} : Untouched(q)
  PROVE  EachOnce'
<1> SUFFICES ASSUME NEW a \in Priorities, NEW b \in Priorities,
                    NEW i \in 0..(count'[a] - 1), NEW j \in 0..(count'[b] - 1),
                    Elem(slots'[a], head'[a], i) = Elem(slots'[b], head'[b], j)
             PROVE  a = b /\ i = j
  BY DEF EachOnce, Elem
<1>1. ASSUME NEW q \in Priorities, NEW m \in 0..(count'[q] - 1)
      PROVE  /\ OldPlace(p, k, q, m) \in 0..(count[q] - 1)
             /\ Elem(slots'[q], head'[q], m) = Elem(slots[q], head[q], OldPlace(p, k, q, m))
  <2>1. CASE q = p
    <3>1. count[p] \in Nat /\ count'[p] = count[p] - 1
      BY DEF Shrunk, IInv, TypeOK
    <3>2. /\ m \in 0..(count[p] - 2) /\ OldPlace(p, k, q, m) \in 0..(count[p] - 1)
          /\ OldPlace(p, k, q, m) = IF m < k THEN m ELSE m + 1
      BY <2>1, <3>1 DEF OldPlace
    <3> QED
      BY <2>1, <3>2 DEF Shrunk
  <2>2. CASE q # p
    BY <2>2 DEF Untouched, OldPlace
  <2> QED
    BY <2>1, <2>2
<1>2. a = b /\ OldPlace(p, k, a, i) = OldPlace(p, k, b, j)
  BY <1>1 DEF IInv, EachOnce
<1>3. i \in Int /\ j \in Int /\ k \in Int
  OBVIOUS
<1> QED
  BY <1>2, <1>3 DEF OldPlace

(* And so does moving a thread from one ring to another. *)
LEMMA MovedEachOnce ==
  ASSUME IInv, NEW p \in Priorities, NEW n \in Priorities, p # n,
         NEW k \in 0..(count[p] - 1), Shrunk(p, k),
         Grown(n, Elem(slots[p], head[p], k)),
         \A q \in Priorities \ {p, n} : Untouched(q)
  PROVE  EachOnce'
<1> DEFINE t == Elem(slots[p], head[p], k)
<1> SUFFICES ASSUME NEW a \in Priorities, NEW b \in Priorities,
                    NEW i \in 0..(count'[a] - 1), NEW j \in 0..(count'[b] - 1),
                    Elem(slots'[a], head'[a], i) = Elem(slots'[b], head'[b], j)
             PROVE  a = b /\ i = j
  BY DEF EachOnce, Elem
<1>1. /\ count[p] \in Nat /\ count'[p] = count[p] - 1
      /\ count[n] \in Nat /\ count'[n] = count[n] + 1
  BY DEF Grown, Shrunk, IInv, TypeOK
<1>2. ASSUME NEW q \in Priorities, NEW m \in 0..(count'[q] - 1)
      PROVE  IF q = n /\ m = count[n] THEN Elem(slots'[q], head'[q], m) = t
             ELSE /\ OldPlace(p, k, q, m) \in 0..(count[q] - 1)
                  /\ q = p => OldPlace(p, k, q, m) # k
                  /\ Elem(slots'[q], head'[q], m) = Elem(slots[q], head[q], OldPlace(p, k, q, m))
  <2>1. CASE q = n /\ m = count[n]
    BY <2>1 DEF Grown
  <2>2. CASE q = n /\ m # count[n]
    <3>1. m \in 0..(count[n] - 1) /\ OldPlace(p, k, q, m) = m
      BY <1>1, <2>2 DEF OldPlace
    <3> QED
      BY <2>2, <3>1 DEF Grown
  <2>3. CASE q = p
    <3>1. /\ m \in 0..(count[p] - 2) /\ OldPlace(p, k, q, m) \in 0..(count[p] - 1)
          /\ OldPlace(p, k, q, m) = IF m < k THEN m ELSE m + 1
          /\ OldPlace(p, k, q, m) # k
      BY <1>1, <2>3 DEF OldPlace
    <3> QED
      BY <2>3, <3>1 DEF Shrunk
  <2>4. CASE q \notin {p, n}
    BY <2>4 DEF Untouched, OldPlace
  <2> QED
    BY <2>1, <2>2, <2>3, <2>4
<1>3. ASSUME NEW q \in Priorities, NEW m \in 0..(count'[q] - 1), ~(q = n /\ m = count[n])
      PROVE  Elem(slots'[q], head'[q], m) # t
  <2>1. /\ OldPlace(p, k, q, m) \in 0..(count[q] - 1)
        /\ q = p => OldPlace(p, k, q, m) # k
        /\ Elem(slots'[q], head'[q], m) = Elem(slots[q], head[q], OldPlace(p, k, q, m))
    BY <1>2, <1>3
  <2> QED
    BY <2>1 DEF IInv, EachOnce
<1>4. CASE a = n /\ i = count[n]
  <2>1. Elem(slots'[b], head'[b], j) = t
    BY <1>2, <1>4
  <2>2. b = n /\ j = count[n]
    BY <1>3, <2>1
  <2> QED
    BY <1>4, <2>2
<1>5. CASE b = n /\ j = count[n]
  <2>1. Elem(slots'[a], head'[a], i) = t
    BY <1>2, <1>5
  <2>2. a = n /\ i = count[n]
    BY <1>3, <2>1
  <2> QED
    BY <1>5, <2>2
<1>6. CASE ~(a = n /\ i = count[n]) /\ ~(b = n /\ j = count[n])
  <2>1. /\ OldPlace(p, k, a, i) \in 0..(count[a] - 1)
        /\ Elem(slots'[a], head'[a], i) = Elem(slots[a], head[a], OldPlace(p, k, a, i))
    BY <1>2, <1>6
  <2>2. /\ OldPlace(p, k, b, j) \in 0..(count[b] - 1)
        /\ Elem(slots'[b], head'[b], j) = Elem(slots[b], head[b], OldPlace(p, k, b, j))
    BY <1>2, <1>6
  <2>3. a = b /\ OldPlace(p, k, a, i) = OldPlace(p, k, b, j)
    <3> DEFINE x == OldPlace(p, k, a, i)
               y == OldPlace(p, k, b, j)
    <3>1. /\ x \in 0..(count[a] - 1) /\ y \in 0..(count[b] - 1)
          /\ Elem(slots[a], head[a], x) = Elem(slots[b], head[b], y)
      BY <2>1, <2>2
    <3>2. EachOnce
      BY DEF IInv
    <3>3. a = b /\ x = y
      <4> HIDE DEF x, y
      <4> QED
        BY <3>1, <3>2 DEF EachOnce
    <3> QED
      BY <3>3
  <2>4. i \in Int /\ j \in Int /\ k \in Int
    OBVIOUS
  <2> QED
    BY <2>3, <2>4 DEF OldPlace
<1> QED
  BY <1>4, <1>5, <1>6

(* All rings are empty at first. *)
LEMMA InitInvariant == Init => IInv
<1> SUFFICES ASSUME Init PROVE IInv
  OBVIOUS
<1>1. 0 \in Slots /\ MAX_THREADS \in Nat \ {0}
  BY RingAssumption DEF Slots
<1>2. TypeOK
  BY <1>1 DEF Init, TypeOK
<1>3. \A p \in Priorities : /\ slots[p] \in [Slots -> Threads \cup {NULL}]
                            /\ head[p] = 0 /\ tail[p] = 0 /\ count[p] = 0
  BY DEF Init
<1>4. (0 + 0) % MAX_THREADS = 0
  BY <1>1
<1>5. RingsOk
  BY <1>1, <1>3, <1>4 DEF RingsOk, RingOk
<1>6. EachOnce /\ BitsExact
  BY <1>3 DEF EachOnce, BitsExact, Init
<1> QED
  BY <1>2, <1>5, <1>6 DEF IInv

(* Every step keeps the rings right. *)
LEMMA NextInvariant == IInv /\ [Next]_vars => IInv'
<1> SUFFICES ASSUME IInv, [Next]_vars PROVE IInv'
  OBVIOUS
<1>1. CASE UNCHANGED vars
  BY <1>1 DEF vars, IInv, TypeOK, RingsOk, EachOnce, BitsExact, Elem, RingOk
<1>2. ASSUME NEW t \in Threads, NEW p \in Priorities, ReadyThread(t, p)
      PROVE  IInv'
  <2>1. /\ TypeOK' /\ Grown(p, t) /\ \A q \in Priorities \ {p} : Untouched(q)
        /\ \A q \in Priorities : \A i \in 0..(count[q] - 1) : Elem(slots[q], head[q], i) # t
    BY <1>2, ReadyThreadGrows
  <2>2. EachOnce'
    BY <2>1, GrownEachOnce
  <2>3. RingsOk'
    BY <2>1 DEF RingsOk, RingOk, Elem, Grown, Untouched, IInv
  <2>4. BitsExact'
    BY <1>2, <2>1 DEF BitsExact, ReadyThread, Grown, Untouched, IInv, TypeOK
  <2> QED
    BY <2>1, <2>2, <2>3, <2>4 DEF IInv
<1>3. ASSUME NEW p \in Priorities, RemoveReadyThread(p)
      PROVE  IInv'
  <2>1. /\ TypeOK' /\ count[p] > 0 /\ Shrunk(p, 0)
        /\ \A q \in Priorities \ {p} : Untouched(q)
    BY <1>3, RemoveReadyThreadShrinks
  <2>2. 0 \in 0..(count[p] - 1)
    BY <2>1 DEF IInv, TypeOK
  <2>3. EachOnce'
    BY <2>1, <2>2, ShrunkEachOnce
  <2>4. RingsOk'
    BY <2>1 DEF RingsOk, RingOk, Elem, Shrunk, Untouched, IInv
  <2>5. BitsExact'
    BY <1>3, <2>1 DEF BitsExact, RemoveReadyThread, BitAfterRemoval, Shrunk, Untouched, IInv, TypeOK
  <2> QED
    BY <2>1, <2>3, <2>4, <2>5 DEF IInv
<1>4. ASSUME NEW p \in Priorities, NEW n \in Priorities, NEW k \in Slots,
             ReinsertReadyThread(p, k, n)
      PROVE  IInv'
  <2>1. /\ TypeOK' /\ p # n /\ k \in 0..(count[p] - 1)
        /\ Shrunk(p, k) /\ Grown(n, Elem(slots[p], head[p], k))
        /\ \A q \in Priorities \ {p, n} : Untouched(q)
    BY <1>4, ReinsertReadyThreadMoves
  <2>2. EachOnce'
    BY <2>1, MovedEachOnce
  <2>3. RingsOk'
    BY <2>1 DEF RingsOk, RingOk, Elem, Shrunk, Grown, Untouched, IInv
  <2>4. BitsExact'
    BY <1>4, <2>1 DEF BitsExact, ReinsertReadyThread, BitAfterRemoval, Shrunk, Grown, Untouched, IInv, TypeOK
  <2> QED
    BY <2>1, <2>2, <2>3, <2>4 DEF IInv
<1> QED
  BY <1>1, <1>2, <1>3, <1>4 DEF Next

(* Head, tail, count and bitmap of every ring agree with what it holds, no *)
(* thread is in two places, and no insertion overwrites a queued thread.   *)
THEOREM RingsCorrect == Spec => []RingsExact
<1>1. IInv => RingsExact
  BY IInvIsRingsExact
<1> QED
  BY <1>1, InitInvariant, NextInvariant, PTL DEF Spec

----------------------------------------------------------------------------
(* The rings implement queues that are sequences *)

(* A ring as the sequence of its threads. *)
Window(ring, h, n) == [i \in 1..n |-> Elem(ring, h, i - 1)]

(* It is a sequence of threads, as long as the count says. *)
LEMMA RingIsSequence ==
  ASSUME NEW ring, NEW h, NEW end, NEW n, RingOk(ring, h, end, n)
  PROVE  /\ Window(ring, h, n) \in Seq(Threads)
         /\ Len(Window(ring, h, n)) = n
         /\ \A i \in 1..n : Window(ring, h, n)[i] = Elem(ring, h, i - 1)
<1>1. n \in Nat /\ \A i \in 1..n : i - 1 \in 0..(n - 1)
  BY DEF RingOk
<1>2. \A i \in 1..n : Elem(ring, h, i - 1) \in Threads
  BY <1>1 DEF RingOk
<1>3. Window(ring, h, n) \in [1..n -> Threads]
  BY <1>2 DEF Window
<1>4. Window(ring, h, n) \in Seq(Threads) /\ DOMAIN Window(ring, h, n) = 1..n
  BY <1>1, <1>3, SeqDef
<1>5. Len(Window(ring, h, n)) = n
  BY <1>1, <1>4, LenProperties
<1> QED
  BY <1>4, <1>5 DEF Window

(* Removal from a sequence, element by element. *)
LEMMA RemoveAtElements ==
  ASSUME NEW S, NEW s \in Seq(S), NEW i \in 1..Len(s)
  PROVE  /\ Queues!RemoveAt(s, i) \in Seq(S)
         /\ Len(Queues!RemoveAt(s, i)) = Len(s) - 1
         /\ \A j \in 1..(Len(s) - 1) :
              Queues!RemoveAt(s, i)[j] = IF j < i THEN s[j] ELSE s[j + 1]
<1> DEFINE a == SubSeq(s, 1, i - 1)
           b == SubSeq(s, i + 1, Len(s))
<1>1. a \in Seq(S) /\ Len(a) = i - 1 /\ \A j \in 1..(i - 1) : a[j] = s[j]
  BY SubSeqProperties
<1>2. b \in Seq(S) /\ Len(b) = Len(s) - i
      /\ \A j \in 1..(Len(s) - i) : b[j] = s[i + j]
  BY SubSeqProperties
<1>3. Queues!RemoveAt(s, i) = a \o b
  BY DEF Queues!RemoveAt
<1> HIDE DEF a, b
<1>4. /\ a \o b \in Seq(S)
      /\ Len(a \o b) = Len(a) + Len(b)
      /\ \A j \in 1..(Len(a) + Len(b)) :
           (a \o b)[j] = IF j <= Len(a) THEN a[j] ELSE b[j - Len(a)]
  BY <1>1, <1>2, ConcatProperties
<1> QED
  BY <1>1, <1>2, <1>3, <1>4

SeqIn(p) == Window(slots[p], head[p], count[p])
SeqAfter(p) == Window(slots'[p], head'[p], count'[p])

(* Growing appends to the sequence. *)
LEMMA GrownSequence ==
  ASSUME IInv, NEW p \in Priorities, NEW t \in Threads, Grown(p, t)
  PROVE  SeqAfter(p) = Append(SeqIn(p), t)
<1> DEFINE s == SeqIn(p)
           r == SeqAfter(p)
<1>1. /\ s \in Seq(Threads) /\ Len(s) = count[p] /\ count[p] \in Nat
      /\ \A i \in 1..count[p] : s[i] = Elem(slots[p], head[p], i - 1)
  BY RingIsSequence DEF SeqIn, IInv, RingsOk, TypeOK
<1>2. count'[p] = count[p] + 1 /\ RingOk(slots'[p], head'[p], tail'[p], count'[p])
  BY DEF Grown
<1>3. /\ r \in Seq(Threads) /\ Len(r) = count[p] + 1
      /\ \A i \in 1..(count[p] + 1) : r[i] = Elem(slots'[p], head'[p], i - 1)
  BY <1>2, RingIsSequence DEF SeqAfter
<1> HIDE DEF s, r
<1>4. /\ Append(s, t) \in Seq(Threads) /\ Len(Append(s, t)) = count[p] + 1
      /\ \A i \in 1..count[p] : Append(s, t)[i] = s[i]
      /\ Append(s, t)[count[p] + 1] = t
  BY <1>1, AppendProperties
<1>5. \A i \in 1..(count[p] + 1) : r[i] = Append(s, t)[i]
  <2> TAKE i \in 1..(count[p] + 1)
  <2>1. CASE i = count[p] + 1
    <3>1. i - 1 = count[p]
      BY <1>1, <2>1
    <3> QED
      BY <1>3, <1>4, <2>1, <3>1 DEF Grown
  <2>2. CASE i # count[p] + 1
    <3>1. i \in 1..count[p] /\ i - 1 \in 0..(count[p] - 1)
      BY <1>1, <2>2
    <3>2. Elem(slots'[p], head'[p], i - 1) = Elem(slots[p], head[p], i - 1)
      BY <3>1 DEF Grown
    <3> QED
      BY <1>1, <1>3, <1>4, <3>1, <3>2
  <2> QED
    BY <2>1, <2>2
<1>6. r = Append(s, t)
  <2> DEFINE a == Append(s, t)
  <2> HIDE DEF a
  <2>1. a \in Seq(Threads) /\ Len(a) = Len(r) /\ \A i \in 1..Len(r) : r[i] = a[i]
    BY <1>3, <1>4, <1>5 DEF a
  <2>2. r = a
    BY <1>3, <2>1, SeqEqual
  <2> QED
    BY <2>2 DEF a
<1> QED
  BY <1>6 DEF s, r

(* Shrinking removes from it. *)
LEMMA ShrunkSequence ==
  ASSUME IInv, NEW p \in Priorities, NEW k \in 0..(count[p] - 1), Shrunk(p, k)
  PROVE  SeqAfter(p) = Queues!RemoveAt(SeqIn(p), k + 1)
<1> DEFINE s == SeqIn(p)
           r == SeqAfter(p)
           a == Queues!RemoveAt(s, k + 1)
<1>1. /\ s \in Seq(Threads) /\ Len(s) = count[p] /\ count[p] \in Nat
      /\ \A i \in 1..count[p] : s[i] = Elem(slots[p], head[p], i - 1)
  BY RingIsSequence DEF SeqIn, IInv, RingsOk, TypeOK
<1>2. count'[p] = count[p] - 1 /\ RingOk(slots'[p], head'[p], tail'[p], count'[p])
  BY DEF Shrunk
<1>3. /\ r \in Seq(Threads) /\ Len(r) = count[p] - 1
      /\ \A i \in 1..(count[p] - 1) : r[i] = Elem(slots'[p], head'[p], i - 1)
  BY <1>2, RingIsSequence DEF SeqAfter
<1> HIDE DEF s, r
<1>4. /\ a \in Seq(Threads) /\ Len(a) = count[p] - 1
      /\ \A j \in 1..(count[p] - 1) : a[j] = IF j < k + 1 THEN s[j] ELSE s[j + 1]
  <2>1. k + 1 \in 1..Len(s)
    BY <1>1
  <2> QED
    BY <1>1, <2>1, RemoveAtElements
<1> HIDE DEF a
<1>5. \A i \in 1..(count[p] - 1) : r[i] = a[i]
  <2> TAKE i \in 1..(count[p] - 1)
  <2>1. i - 1 \in 0..(count[p] - 2) /\ i \in 1..count[p] /\ i + 1 \in 1..count[p]
        /\ (i + 1) - 1 = (i - 1) + 1
    BY <1>1
  <2>2. Elem(slots'[p], head'[p], i - 1)
          = Elem(slots[p], head[p], IF i - 1 < k THEN i - 1 ELSE (i - 1) + 1)
    BY <2>1 DEF Shrunk
  <2>3. CASE i - 1 < k
    <3>1. a[i] = s[i]
      BY <1>1, <1>4, <2>3
    <3> QED
      BY <1>1, <1>3, <2>1, <2>2, <2>3, <3>1
  <2>4. CASE ~(i - 1 < k)
    <3>1. a[i] = s[i + 1]
      BY <1>1, <1>4, <2>4
    <3> QED
      BY <1>1, <1>3, <2>1, <2>2, <2>4, <3>1
  <2> QED
    BY <2>3, <2>4
<1>6. r = a
  <2>1. Len(a) = Len(r) /\ \A i \in 1..Len(r) : r[i] = a[i]
    BY <1>3, <1>4, <1>5
  <2> QED
    BY <1>3, <1>4, <2>1, SeqEqual
<1> QED
  BY <1>6 DEF s, r, a

(* The queues the rings stand for. *)
LEMMA ContentsAre ==
  IInv => /\ Contents = [queues |-> [p \in Priorities |-> SeqIn(p)], bitmap |-> bitmap]
          /\ Contents' = [queues |-> [p \in Priorities |-> SeqAfter(p)], bitmap |-> bitmap']
BY DEF Contents, SeqIn, SeqAfter, Window, Elem, At

(* A thread that becomes READY enters a queue. *)
LEMMA ReadyThreadInserts ==
  ASSUME IInv, NEW t \in Threads, NEW p \in Priorities, ReadyThread(t, p)
  PROVE  Queues!Insert(t, p)
<1>1. /\ Grown(p, t) /\ \A q \in Priorities \ {p} : Untouched(q)
      /\ \A q \in Priorities : \A i \in 0..(count[q] - 1) : Elem(slots[q], head[q], i) # t
  BY ReadyThreadGrows
<1>2. SeqAfter(p) = Append(SeqIn(p), t) /\ \A q \in Priorities \ {p} : SeqAfter(q) = SeqIn(q)
  BY <1>1, GrownSequence DEF SeqAfter, SeqIn, Untouched
<1>3. bitmap' = bitmap \cup {p}
  BY DEF ReadyThread
<1>4. Contents' = Queues!ReadyThread(Contents, t, p)
  BY <1>2, <1>3, ContentsAre DEF Queues!ReadyThread
<1>5. t \notin Queues!InQueue(Contents)
  <2>1. Contents.queues = [q \in Priorities |-> SeqIn(q)] /\ Queues!Priorities = Priorities
    BY ContentsAre DEF Queues!Priorities, Priorities
  <2>2. \A q \in Priorities : Contents.queues[q] = SeqIn(q)
    BY <2>1
  <2> SUFFICES ASSUME NEW q \in Priorities, t \in Queues!ToSet(SeqIn(q)) PROVE FALSE
    BY <2>1, <2>2 DEF Queues!InQueue
  <2>3. PICK i \in DOMAIN SeqIn(q) : t = SeqIn(q)[i]
    BY DEF Queues!ToSet
  <2>4. /\ i \in 1..count[q] /\ SeqIn(q)[i] = Elem(slots[q], head[q], i - 1)
    BY <2>3 DEF SeqIn, Window
  <2>5. i - 1 \in 0..(count[q] - 1)
    BY <2>4 DEF IInv, TypeOK
  <2> QED
    BY <1>1, <2>3, <2>4, <2>5
<1> QED
  BY <1>4, <1>5 DEF Queues!Insert

(* RemoveFromReadyQueue of the abstract queues, as a ring that shrinks     *)
(* does it.                                                                *)
LEMMA ShrunkRemoves ==
  ASSUME IInv, NEW p \in Priorities, NEW k \in 0..(count[p] - 1), Shrunk(p, k)
  PROVE  Queues!RemoveFromReadyQueue(Contents, p, k + 1) =
           [queues |-> [q \in Priorities |-> IF q = p THEN SeqAfter(p) ELSE SeqIn(q)],
            bitmap |-> BitAfterRemoval(p)]
<1> DEFINE s == Queues!RemoveAt(SeqIn(p), k + 1)
<1>1. Contents = [queues |-> [q \in Priorities |-> SeqIn(q)], bitmap |-> bitmap]
  BY ContentsAre
<1>2. s = SeqAfter(p)
  BY ShrunkSequence
<1>3. s = <<>> <=> count[p] = 1
  <2>1. SeqAfter(p) \in Seq(Threads) /\ Len(SeqAfter(p)) = count'[p]
    BY RingIsSequence DEF Shrunk, SeqAfter
  <2>2. count'[p] = count[p] - 1 /\ count[p] \in Nat
    BY DEF Shrunk, IInv, TypeOK
  <2>3. SeqAfter(p) = <<>> <=> count'[p] = 0
    BY <2>1, EmptySeq
  <2> QED
    BY <1>2, <2>2, <2>3
<1>4. Queues!RemoveFromReadyQueue(Contents, p, k + 1) =
        [queues |-> [Contents.queues EXCEPT ![p] = s],
         bitmap |-> IF s = <<>> THEN bitmap \ {p} ELSE bitmap]
  BY <1>1 DEF Queues!RemoveFromReadyQueue
<1>5. [Contents.queues EXCEPT ![p] = s]
        = [q \in Priorities |-> IF q = p THEN SeqAfter(p) ELSE SeqIn(q)]
  BY <1>1, <1>2
<1> QED
  BY <1>3, <1>4, <1>5 DEF BitAfterRemoval

(* The thread the dispatcher takes leaves at the head. *)
LEMMA RemoveReadyThreadTakesFirst ==
  ASSUME IInv, NEW p \in Priorities, RemoveReadyThread(p)
  PROVE  Queues!TakeFirst(p)
<1>1. count[p] > 0 /\ Shrunk(p, 0) /\ \A q \in Priorities \ {p} : Untouched(q)
  BY RemoveReadyThreadShrinks
<1>2. 0 \in 0..(count[p] - 1) /\ 0 + 1 = 1
  BY <1>1 DEF IInv, TypeOK
<1>3. Queues!RemoveFromReadyQueue(Contents, p, 1) =
        [queues |-> [q \in Priorities |-> IF q = p THEN SeqAfter(p) ELSE SeqIn(q)],
         bitmap |-> BitAfterRemoval(p)]
  BY <1>1, <1>2, ShrunkRemoves
<1>4. bitmap' = BitAfterRemoval(p) /\ \A q \in Priorities \ {p} : SeqAfter(q) = SeqIn(q)
  BY <1>1 DEF RemoveReadyThread, SeqAfter, SeqIn, Untouched
<1>5. Contents' = Queues!RemoveFromReadyQueue(Contents, p, 1)
  BY <1>3, <1>4, ContentsAre
<1>6. Contents.queues[p] # <<>>
  <2>1. SeqIn(p) \in Seq(Threads) /\ Len(SeqIn(p)) = count[p]
    BY RingIsSequence DEF SeqIn, IInv, RingsOk
  <2> QED
    BY <1>1, <2>1, EmptySeq, ContentsAre
<1> QED
  BY <1>5, <1>6 DEF Queues!TakeFirst

(* A boosted thread moves to the tail of another queue. *)
LEMMA ReinsertReadyThreadIsMove ==
  ASSUME IInv, NEW p \in Priorities, NEW n \in Priorities, NEW k \in Slots,
         ReinsertReadyThread(p, k, n)
  PROVE  k + 1 \in DOMAIN Contents.queues[p] /\ Queues!Move(p, k + 1, n)
<1> DEFINE t == Elem(slots[p], head[p], k)
<1>1. /\ p # n /\ k \in 0..(count[p] - 1) /\ Shrunk(p, k) /\ Grown(n, t)
      /\ \A q \in Priorities \ {p, n} : Untouched(q)
  BY ReinsertReadyThreadMoves
<1>2. /\ SeqIn(p) = Contents.queues[p] /\ k + 1 \in DOMAIN SeqIn(p)
      /\ SeqIn(p)[k + 1] = t /\ t \in Threads
  <2>1. RingOk(slots[p], head[p], tail[p], count[p]) /\ (k + 1) - 1 = k /\ k + 1 \in 1..count[p]
    BY <1>1 DEF IInv, RingsOk, TypeOK
  <2>2. t \in Threads
    BY <1>1, <2>1 DEF RingOk
  <2>3. SeqIn(p) = Contents.queues[p]
    BY ContentsAre
  <2>4. DOMAIN SeqIn(p) = 1..count[p] /\ SeqIn(p)[k + 1] = Elem(slots[p], head[p], (k + 1) - 1)
    BY <2>1 DEF SeqIn, Window
  <2> QED
    BY <2>1, <2>2, <2>3, <2>4
<1>3. Queues!RemoveFromReadyQueue(Contents, p, k + 1) =
        [queues |-> [q \in Priorities |-> IF q = p THEN SeqAfter(p) ELSE SeqIn(q)],
         bitmap |-> BitAfterRemoval(p)]
  BY <1>1, ShrunkRemoves
<1>4. SeqAfter(n) = Append(SeqIn(n), t)
      /\ \A q \in Priorities \ {p, n} : SeqAfter(q) = SeqIn(q)
  BY <1>1, <1>2, GrownSequence DEF SeqAfter, SeqIn, Untouched
<1>5. bitmap' = BitAfterRemoval(p) \cup {n}
  BY DEF ReinsertReadyThread
<1> HIDE DEF t
<1>6. Contents' = Queues!ReadyThread(Queues!RemoveFromReadyQueue(Contents, p, k + 1), t, n)
  BY <1>1, <1>3, <1>4, <1>5, ContentsAre DEF Queues!ReadyThread
<1> QED
  BY <1>2, <1>6 DEF Queues!Move

(* The ring buffers of the code are queues: a thread enters at the tail of *)
(* the queue of its priority, leaves at the head or is moved to the tail   *)
(* of another one, and nothing else happens to them, whatever wraps around.*)
THEOREM RingsImplementQueues == Spec => ImplementsQueues
<1>1. Init => Queues!Init
  <2> SUFFICES ASSUME Init PROVE Contents = Queues!EmptyReady
    BY DEF Queues!Init
  <2>1. \A p \in Priorities : [i \in 1..count[p] |-> slots[p][At(p, i - 1)]] = <<>>
    BY DEF Init
  <2> QED
    BY <2>1 DEF Contents, Init, Queues!EmptyReady, Queues!Priorities, Priorities
<1>2. IInv /\ [Next]_vars => [Queues!Next]_Contents
  <2> SUFFICES ASSUME IInv, [Next]_vars PROVE [Queues!Next]_Contents
    OBVIOUS
  <2>1. CASE UNCHANGED vars
    BY <2>1 DEF vars, Contents, At
  <2>2. ASSUME NEW t \in Threads, NEW p \in Priorities, ReadyThread(t, p)
        PROVE  Queues!Next
    BY <2>2, ReadyThreadInserts DEF Queues!Next, Queues!Threads, Queues!Priorities, Threads, Priorities
  <2>3. ASSUME NEW p \in Priorities, RemoveReadyThread(p)
        PROVE  Queues!Next
    BY <2>3, RemoveReadyThreadTakesFirst DEF Queues!Next, Queues!Priorities, Priorities
  <2>4. ASSUME NEW p \in Priorities, NEW n \in Priorities, NEW k \in Slots,
               ReinsertReadyThread(p, k, n)
        PROVE  Queues!Next
    BY <2>4, ReinsertReadyThreadIsMove DEF Queues!Next, Queues!Priorities, Priorities
  <2> QED
    BY <2>1, <2>2, <2>3, <2>4 DEF Next
<1> QED
  BY <1>1, <1>2, InitInvariant, NextInvariant, PTL DEF Spec, ImplementsQueues, Queues!Spec
----------------------------------------------------------------------------
(* The scan of the bitmap *)

\* The first n + 1 bits that reach down from bit n, as far as there are bits.
Run(n, k) == {b \in Bits : n - k < b /\ b <= n}

(* The greatest element of a set of bits, where there is one. *)
LEMMA MaxIs ==
  ASSUME NEW S \in SUBSET Int, NEW n \in S, \A b \in S : b <= n
  PROVE  Max(S) = n
<1> DEFINE greatest == CHOOSE x \in S : \A y \in S : x >= y
<1>1. \A y \in S : n >= y
  OBVIOUS
<1>2. greatest \in S /\ \A y \in S : greatest >= y
  BY <1>1
<1> HIDE DEF greatest
<1>3. greatest = n
  BY <1>2
<1> QED
  BY <1>3 DEF Max, greatest

(* The same for the least element. *)
LEMMA MinIs ==
  ASSUME NEW S \in SUBSET Int, NEW n \in S, \A b \in S : n <= b
  PROVE  Min(S) = n
<1> DEFINE least == CHOOSE x \in S : \A y \in S : x =< y
<1>1. \A y \in S : n =< y
  OBVIOUS
<1>2. least \in S /\ \A y \in S : least =< y
  BY <1>1
<1> HIDE DEF least
<1>3. least = n
  BY <1>2
<1> QED
  BY <1>3 DEF Min, least

(* x |= x >> k doubles a run of k 1 bits below the highest one. *)
LEMMA SmearDoubles ==
  ASSUME NEW n \in Bits, NEW k \in 1..16, NEW x, Run(n, k) \subseteq x, x \subseteq 0..n
  PROVE  Run(n, 2 * k) \subseteq Smear(x, k) /\ Smear(x, k) \subseteq 0..n
<1>1. ASSUME NEW b \in Run(n, 2 * k), b \notin x PROVE b \in ShiftRight(x, k)
  BY <1>1 DEF Run, ShiftRight, Bits, WIDTH
<1>2. ShiftRight(x, k) \subseteq 0..n
  BY DEF ShiftRight, Bits, WIDTH
<1> QED
  BY <1>1, <1>2 DEF Smear

(* The five shifts fill every place below the highest 1 bit. *)
LEMMA SmearedFills ==
  ASSUME NEW n \in Bits, NEW x, n \in x, x \subseteq 0..n
  PROVE  Smeared(x) = 0..n
<1> DEFINE a == Smear(x, 1)
           b == Smear(a, 2)
           c == Smear(b, 4)
           d == Smear(c, 8)
           e == Smear(d, 16)
<1>0. \A k \in 1..16 : \A w : Run(n, k) \subseteq w /\ w \subseteq 0..n =>
        Run(n, 2 * k) \subseteq Smear(w, k) /\ Smear(w, k) \subseteq 0..n
  BY SmearDoubles
<1>1. Run(n, 1) \subseteq x
  BY DEF Run, Bits, WIDTH
<1>2. Run(n, 2) \subseteq a /\ a \subseteq 0..n
  <2>1. 1 \in 1..16 /\ 2 * 1 = 2
    OBVIOUS
  <2> QED
    BY <1>0, <1>1, <2>1
<1> HIDE DEF a
<1>3. Run(n, 4) \subseteq b /\ b \subseteq 0..n
  <2>1. 2 \in 1..16 /\ 2 * 2 = 4
    OBVIOUS
  <2> QED
    BY <1>0, <1>2, <2>1
<1> HIDE DEF b
<1>4. Run(n, 8) \subseteq c /\ c \subseteq 0..n
  <2>1. 4 \in 1..16 /\ 2 * 4 = 8
    OBVIOUS
  <2> QED
    BY <1>0, <1>3, <2>1
<1> HIDE DEF c
<1>5. Run(n, 16) \subseteq d /\ d \subseteq 0..n
  <2>1. 8 \in 1..16 /\ 2 * 8 = 16
    OBVIOUS
  <2> QED
    BY <1>0, <1>4, <2>1
<1> HIDE DEF d
<1>6. Run(n, 32) \subseteq e /\ e \subseteq 0..n
  <2>1. 16 \in 1..16 /\ 2 * 16 = 32
    OBVIOUS
  <2> QED
    BY <1>0, <1>5, <2>1
<1>7. Run(n, 32) = 0..n
  BY DEF Run, Bits, WIDTH
<1>8. Smeared(x) = e
  BY DEF a, b, c, d, e, Smeared
<1> QED
  BY <1>6, <1>7, <1>8

(* x + 1 carries through the smeared bits, and the shift leaves the highest. *)
LEMMA HighestIsolated ==
  ASSUME NEW n \in 0..30
  PROVE  ShiftRight(Successor(0..n), 1) = {n}
<1> DEFINE S == Bits \ (0..n)
<1>1. n + 1 \in S /\ S \subseteq Int /\ (\A b \in S : n + 1 <= b)
  BY DEF Bits, WIDTH
<1>2. Min(S) = n + 1
  BY <1>1, MinIs
<1>3. 0..n # Bits
  BY <1>1
<1> HIDE DEF S
<1>4. Successor(0..n) = {n + 1} \cup {b \in 0..n : b > n + 1}
  BY <1>2, <1>3 DEF Successor, S
<1>5. Successor(0..n) = {n + 1}
  BY <1>4
<1>6. \A b : b \in ShiftRight({n + 1}, 1) <=> b \in Bits /\ b + 1 = n + 1
  BY DEF ShiftRight
<1>7. \A b : b \in Bits /\ b + 1 = n + 1 <=> b = n
  BY DEF Bits, WIDTH
<1> QED
  BY <1>5, <1>6, <1>7

\* Bits b to b + 4 of the constant, as a number: what the multiplication by the
\* power of two of n leaves in the upper five bits.
Code(n) ==
  Digit(DEBURIJN32, 27 - n) + 2 * Digit(DEBURIJN32, 28 - n) + 4 * Digit(DEBURIJN32, 29 - n)
    + 8 * Digit(DEBURIJN32, 30 - n) + 16 * Digit(DEBURIJN32, 31 - n)

(* The multiplication moves the bits of the constant up by n. *)
LEMMA IndexIsCode ==
  ASSUME NEW n \in Bits
  PROVE  Index({n}) = Code(n)
<1> DEFINE top == ShiftRight(ShiftLeft(DEBURIJN32, n), 27)
<1>1. Min({n}) = n
  BY MinIs DEF Bits, WIDTH
<1>2. ASSUME NEW k \in 0..4
      PROVE  k \in top <=> 27 + k - n \in DEBURIJN32
  BY <1>2 DEF ShiftRight, ShiftLeft, Bits, WIDTH, DEBURIJN32
<1>3. \A k \in 0..4 : Digit(top, k) = Digit(DEBURIJN32, 27 + k - n)
  BY <1>2 DEF Digit
<1> HIDE DEF top
<1>4. Index({n}) = Digit(top, 0) + 2 * Digit(top, 1) + 4 * Digit(top, 2)
                     + 8 * Digit(top, 3) + 16 * Digit(top, 4)
  BY <1>1 DEF Index, top
<1> QED
  BY <1>3, <1>4 DEF Code, Bits, WIDTH

(* The constant is a de Bruijn sequence: its windows of five bits differ. *)
LEMMA CodesDiffer == \A m, n \in Bits : Code(m) = Code(n) => m = n
BY DEF Code, Digit, DEBURIJN32, Bits, WIDTH

(* Each is a place of the table. *)
LEMMA CodesInTable == \A n \in Bits : Code(n) \in Bits
BY DEF Code, Digit, DEBURIJN32, Bits, WIDTH

(* The table gives back the number of a bit from its index. *)
LEMMA TableInverts ==
  ASSUME NEW n \in Bits
  PROVE  PriorityTable[Index({n})] = n
<1> DEFINE entries == {b \in Bits : Index({b}) = Index({n})}
<1>1. entries = {n}
  BY IndexIsCode, CodesDiffer
<1>2. Max({n}) = n
  BY MaxIs DEF Bits, WIDTH
<1>3. Index({n}) \in Bits
  BY IndexIsCode, CodesInTable
<1> QED
  BY <1>1, <1>2, <1>3 DEF PriorityTable

(* The scan is right for every bitmap without the top bit, by whatever bits  *)
(* are below the highest one.                                                *)
LEMMA ScanFindsHighest ==
  ASSUME NEW n \in 0..30, NEW x, n \in x, x \subseteq 0..n
  PROVE  FindHighestSetBit(x) = n
<1>1. n \in Bits
  BY DEF Bits, WIDTH
<1>2. ShiftRight(Successor(Smeared(x)), 1) = {n}
  BY <1>1, SmearedFills, HighestIsolated
<1> QED
  BY <1>1, <1>2, TableInverts DEF FindHighestSetBit

(* With the top bit x + 1 wraps to 0, and the answer is 0 (divergence 1).    *)
LEMMA ScanMissesTop ==
  ASSUME NEW x \in SUBSET Bits, 31 \in x
  PROVE  FindHighestSetBit(x) = 0
<1>1. Smeared(x) = Bits
  <2>1. 31 \in Bits /\ Bits = 0..31
    BY DEF Bits, WIDTH
  <2> QED
    BY <2>1, SmearedFills
<1>2. ShiftRight(Successor(Smeared(x)), 1) = {}
  BY <1>1 DEF Successor, ShiftRight
<1>3. Index({}) = 0
  BY DEF Index, ShiftRight, Digit
<1>4. Index({0}) = 0
  BY IndexIsCode DEF Bits, WIDTH, Code, Digit, DEBURIJN32
<1>5. PriorityTable[Index({0})] = 0
  BY TableInverts DEF Bits, WIDTH
<1> QED
  BY <1>2, <1>3, <1>4, <1>5 DEF FindHighestSetBit

(* Whatever becomes of the queues, PickNextThread finds the highest one that *)
(* is not empty, where no priority uses the top bit: the code's table of 32  *)
(* queues has one that it cannot serve.                                      *)
THEOREM ScanCorrect ==
  ASSUME MAX_PRIORITY < WIDTH
  PROVE  Spec => []HighestFound
<1>1. ASSUME NEW w \in SUBSET (0..30), w # {}
      PROVE  FindHighestSetBit(w) = Max(w)
  <2>1. PICK n \in w : \A b \in w : b <= n
    <3> DEFINE T == {30 - b : b \in w}
           less == OpToRel(<, Nat)
    <3>0. \A b \in w : b \in 0..30 /\ 30 - b \in Nat
      BY <1>1
    <3>1. T \subseteq Nat /\ T # {}
      BY <1>1, <3>0, Zenon
    <3>2. IsWellFoundedOn(less, Nat)
      BY NatLessThanWellFounded
    <3>3. \A x, y \in Nat : x < y => <<x, y>> \in less
      BY DEF OpToRel
    <3> HIDE DEF T, less
    <3>4. PICK x \in T : \A y \in T : ~ (<<y, x>> \in less)
      BY <3>1, <3>2, WFMin
    <3>5. \A y \in T : x <= y
      <4> SUFFICES ASSUME NEW y \in T PROVE x <= y
        OBVIOUS
      <4>1. x \in Nat /\ y \in Nat /\ ~(y < x)
        BY <3>1, <3>3, <3>4, Zenon
      <4> QED
        BY <4>1
    <3>6. PICK n \in w : x = 30 - n
      BY <3>4 DEF T
    <3>7. \A b \in w : x <= 30 - b
      BY <3>5 DEF T
    <3> QED
      BY <1>1, <3>6, <3>7
  <2>2. Max(w) = n
    BY <2>1, MaxIs
  <2>3. n \in 0..30 /\ w \subseteq 0..n
    BY <1>1, <2>1
  <2> QED
    BY <2>1, <2>2, <2>3, ScanFindsHighest
<1>2. \A w \in SUBSET (0..30) : Finds(w)
  BY <1>1 DEF Finds, FindHighestSetBit
<1>3. ScanExact
  <2>1. \A a, b, c \in 0..30 : {a, b, c} \in SUBSET (0..30) /\ a..b \in SUBSET (0..30)
    OBVIOUS
  <2> QED
    BY <1>2, <2>1 DEF ScanExact
<1>4. TypeOK => bitmap \in SUBSET (0..30)
  BY RingAssumption DEF TypeOK, Priorities, WIDTH
<1>5. TypeOK => HighestFound
  BY <1>2, <1>3, <1>4 DEF HighestFound
<1>6. RingsExact => TypeOK
  BY DEF RingsExact
<1> QED
  BY <1>5, <1>6, RingsCorrect, PTL

=============================================================================
