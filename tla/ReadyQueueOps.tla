--------------------------- MODULE ReadyQueueOps ---------------------------
(***************************************************************************)
(* The ready queues of BlueKernel_lvl3.c as values: one sequence of        *)
(* threads per priority, and the bitmap as the set of its 1 bits.  Module  *)
(* ReadyRings shows that the ring buffers of the code implement them.      *)
(***************************************************************************)
EXTENDS Naturals, Sequences, SequencesExt

CONSTANTS
  MAX_THREADS,       \* size of the thread table and of each queue
  MAX_PRIORITY       \* number of ready queues

Threads == 1..MAX_THREADS       \* a thread is its id, counted from 1
Priorities == 0..(MAX_PRIORITY - 1)

EmptyReady == [queues |-> [p \in Priorities |-> <<>>], bitmap |-> {}]

(* ReadyThread: append at the tail, set the bit. *)
ReadyThread(rq, t, p) ==
  [queues |-> [rq.queues EXCEPT ![p] = Append(@, t)],
   bitmap |-> rq.bitmap \cup {p}]

(* Mutant: the bit of an emptied queue stays set. *)
RemoveLeavingBit(rq, p, i) ==
  [rq EXCEPT !.queues[p] = RemoveAt(@, i)]

(* RemoveFromReadyQueue: close the gap, clear the bit of an emptied queue. *)
RemoveFromReadyQueue(rq, p, i) ==
  LET q == RemoveAt(rq.queues[p], i)
  IN  [queues |-> [rq.queues EXCEPT ![p] = q],
       bitmap |-> IF q = <<>> THEN rq.bitmap \ {p} ELSE rq.bitmap]

(* The threads in some queue. *)
InQueue(rq) == UNION {ToSet(rq.queues[p]) : p \in Priorities}

=============================================================================
