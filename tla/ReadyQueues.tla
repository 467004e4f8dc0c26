---------------------------- MODULE ReadyQueues ----------------------------
(***************************************************************************)
(* What the ready queues promise their users: a thread enters at the tail  *)
(* of the queue of its priority, leaves at the head, or is moved to the    *)
(* tail of another queue when it is boosted.                               *)
(***************************************************************************)
EXTENDS ReadyQueueOps

VARIABLE ready

Init == ready = EmptyReady

Insert(t, p) ==
  /\ t \notin InQueue(ready)
  /\ ready' = ReadyThread(ready, t, p)

TakeFirst(p) ==
  /\ ready.queues[p] # <<>>
  /\ ready' = RemoveFromReadyQueue(ready, p, 1)

Move(p, i, q) ==
  LET t == ready.queues[p][i]
  IN  ready' = ReadyThread(RemoveFromReadyQueue(ready, p, i), t, q)

Next ==
  \/ \E t \in Threads, p \in Priorities : Insert(t, p)
  \/ \E p \in Priorities : TakeFirst(p)
  \/ \E p, q \in Priorities : \E i \in DOMAIN ready.queues[p] : Move(p, i, q)

Spec == Init /\ [][Next]_ready

=============================================================================
