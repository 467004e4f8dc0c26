----------------------------- MODULE ReadyRings -----------------------------
(***************************************************************************)
(* The ready queues of BlueKernel_lvl3.c as they are stored: per priority  *)
(* a ring of MAX_THREADS slots with head, tail and count, and one bitmap   *)
(* for all.  An action is one call of the code's queue functions.          *)
(***************************************************************************)
EXTENDS PriorityBits, Sequences

CONSTANTS MAX_THREADS, MAX_PRIORITY, NULL

Threads == 1..MAX_THREADS
Priorities == 0..(MAX_PRIORITY - 1)
Slots == 0..(MAX_THREADS - 1)

ASSUME RingAssumption ==
  MAX_THREADS \in Nat \ {0} /\ MAX_PRIORITY \in Nat /\ NULL \notin Threads

VARIABLES
  slots,      \* READY_QUEUE.threads, per priority
  head, tail, count,
  bitmap      \* g_ready_bitmap (the set of its 1 bits)

vars == <<slots, head, tail, count, bitmap>>

(* The slot of the i-th queued thread of priority p, from 0. *)
At(p, i) == (head[p] + i) % MAX_THREADS
Queued(p) == {slots[p][At(p, i)] : i \in 0..(count[p] - 1)}

(* InitDispatcher *)
Init ==
  /\ slots = [p \in Priorities |-> [s \in Slots |-> NULL]]
  /\ head = [p \in Priorities |-> 0]
  /\ tail = [p \in Priorities |-> 0]
  /\ count = [p \in Priorities |-> 0]
  /\ bitmap = {}

(* A thread becomes READY with priority p: it is in no queue yet. *)
ReadyThread(t, p) ==
  /\ \A q \in Priorities : t \notin Queued(q)
  /\ slots' = [slots EXCEPT ![p][tail[p]] = t]
  /\ tail' = [tail EXCEPT ![p] = (@ + 1) % MAX_THREADS]
  /\ count' = [count EXCEPT ![p] = @ + 1]
  /\ bitmap' = bitmap \cup {p}
  /\ UNCHANGED head

(* Mutant: the count is tested before it is decremented. *)
BitTestedEarly(p) == IF count[p] = 0 THEN bitmap \ {p} ELSE bitmap

(* The bitmap after a thread has left queue p. *)
BitAfterRemoval(p) == IF count[p] = 1 THEN bitmap \ {p} ELSE bitmap

(* PickNextThread takes from the queue of the highest bit. *)
RemoveReadyThread(p) ==
  /\ bitmap # {} /\ p = FindHighestSetBit(bitmap)
  /\ count[p] > 0
  /\ slots' = [slots EXCEPT ![p][head[p]] = NULL]
  /\ head' = [head EXCEPT ![p] = (@ + 1) % MAX_THREADS]
  /\ count' = [count EXCEPT ![p] = @ - 1]
  /\ bitmap' = BitAfterRemoval(p)
  /\ UNCHANGED tail

(* Mutant: the last thread is put into the gap. *)
FilledWithLast(p, i) == [slots[p] EXCEPT ![At(p, i)] = slots[p][At(p, count[p] - 1)]]

(* RemoveFromReadyQueue at place i: every later thread moves down one slot; *)
(* the last slot keeps its pointer.                                         *)
Shifted(p, i) ==
  [s \in Slots |-> IF \E j \in i..(count[p] - 2) : s = At(p, j)
                   THEN slots[p][(s + 1) % MAX_THREADS] ELSE slots[p][s]]
TailBack(p) == (tail[p] - 1 + MAX_THREADS) % MAX_THREADS

(* ReinsertReadyThread of the i-th thread of queue p, boosted to n > p: out *)
(* of the queue of its old priority, to the tail of the new one.            *)
ReinsertReadyThread(p, i, n) ==
  /\ i < count[p] /\ n > p
  /\ slots' = [slots EXCEPT ![p] = Shifted(p, i), ![n][tail[n]] = slots[p][At(p, i)]]
  /\ tail' = [tail EXCEPT ![p] = TailBack(p), ![n] = (@ + 1) % MAX_THREADS]
  /\ count' = [count EXCEPT ![p] = @ - 1, ![n] = @ + 1]
  /\ bitmap' = BitAfterRemoval(p) \cup {n}
  /\ UNCHANGED head

Next ==
  \/ \E t \in Threads, p \in Priorities : ReadyThread(t, p)
  \/ \E p \in Priorities : RemoveReadyThread(p)
  \/ \E p, n \in Priorities : \E i \in Slots : ReinsertReadyThread(p, i, n)

Spec == Init /\ [][Next]_vars

----------------------------------------------------------------------------
TypeOK ==
  /\ slots \in [Priorities -> [Slots -> Threads \cup {NULL}]]
  /\ head \in [Priorities -> Slots] /\ tail \in [Priorities -> Slots]
  /\ count \in [Priorities -> Nat]
  /\ bitmap \subseteq Priorities

(* Head, tail and count agree, a queued slot holds a thread, no thread is  *)
(* queued twice, no insertion finds its ring full, and the bitmap has the  *)
(* bits of the non-empty ones (the invariant stated at READY_QUEUE;        *)
(* ValidateReadyQueueInvariant bugchecks otherwise).                       *)
RingsExact ==
  /\ TypeOK
  /\ \A p \in Priorities :
       /\ tail[p] = (head[p] + count[p]) % MAX_THREADS
       /\ count[p] <= MAX_THREADS
       /\ \A i \in 0..(count[p] - 1) : slots[p][At(p, i)] \in Threads
       /\ \A q \in Priorities :
            \A i \in 0..(count[p] - 1), j \in 0..(count[q] - 1) :
              slots[p][At(p, i)] = slots[q][At(q, j)] => p = q /\ i = j
       /\ count[p] > 0 <=> p \in bitmap

(* The rings implement queues that are sequences. *)
Contents == [queues |-> [p \in Priorities |->
                           [i \in 1..count[p] |-> slots[p][At(p, i - 1)]]],
             bitmap |-> bitmap]
Queues == INSTANCE ReadyQueues WITH ready <- Contents
ImplementsQueues == Queues!Spec

Finds(w) == FindHighestSetBit(w) = IF w = {} THEN -1 ELSE Max(w)

(* Bitmaps of up to three non-empty queues, and of every unbroken run of   *)
(* them, below the top one.                                                *)
ScanExact ==
  \A a, b, c \in 0..30 : a <= b /\ b <= c => Finds({a, b, c}) /\ Finds(a..b)

(* The scan returns the position of the highest 1 bit, in every bitmap the *)
(* rings come to and in the larger ones of MAX_PRIORITY 32, so that        *)
(* PickNextThread takes the highest non-empty queue (comment of            *)
(* FindHighestSetBit: "This function is checked (working perfectly)").     *)
HighestFound == Finds(bitmap) /\ ScanExact

=============================================================================
