----------------------- MODULE KernelDispatcher_proofs -----------------------
(* Proofs about the dispatcher, for every number of threads, priorities and *)
(* mutexes.  The first part is about threads and queues, for every set of   *)
(* routines.  The second is about what AcquireMutex, ReleaseMutex,          *)
(* TerminateThread and the events of BlueKernel_lvl3.c guarantee to every   *)
(* set of routines, or to those that keep the discipline of                 *)
(* DispatcherProperties: priority inheritance, no circle of waiting         *)
(* threads, reference counts, and MutexService.                             *)
EXTENDS BootOrders, SequenceTheorems, FiniteSetTheorems, TLAPS

----------------------------------------------------------------------------
(* Queues as sequences without duplicates *)

(* A sequence is empty iff it has no place and no element. *)
LEMMA EmptySequence ==
  ASSUME NEW S, NEW s \in Seq(S)
  PROVE  /\ s = <<>> <=> DOMAIN s = {}
         /\ s = <<>> <=> ToSet(s) = {}
         /\ s # <<>> => 1 \in DOMAIN s
<1>1. Len(s) \in Nat /\ DOMAIN s = 1..Len(s) /\ (s = <<>> <=> Len(s) = 0)
  BY EmptySeq, LenProperties
<1>2. s # <<>> => 1 \in DOMAIN s
  BY <1>1
<1>3. s = <<>> => DOMAIN s = {} /\ ToSet(s) = {}
  BY <1>1 DEF ToSet
<1> QED
  BY <1>2, <1>3 DEF ToSet

(* Appending a new element adds it and nothing else. *)
LEMMA AppendKeeps ==
  ASSUME NEW S, NEW s \in Seq(S), NEW e \in S
  PROVE  /\ Append(s, e) \in Seq(S)
         /\ Append(s, e) # <<>>
         /\ ToSet(Append(s, e)) = ToSet(s) \cup {e}
         /\ IsInjective(s) /\ e \notin ToSet(s) => IsInjective(Append(s, e))
<1> DEFINE a == Append(s, e)
<1>1. /\ a \in Seq(S) /\ a # <<>>
      /\ DOMAIN s = 1..Len(s) /\ DOMAIN a = 1..(Len(s) + 1) /\ Len(s) \in Nat
      /\ \A i \in 1..Len(s) : a[i] = s[i]
      /\ a[Len(s) + 1] = e
  OBVIOUS
<1> HIDE DEF a
<1>2. ToSet(a) = ToSet(s) \cup {e}
  <2>1. ASSUME NEW i \in DOMAIN a PROVE a[i] \in ToSet(s) \cup {e}
    BY <1>1 DEF ToSet
  <2>2. ASSUME NEW i \in DOMAIN s PROVE s[i] \in ToSet(a)
    BY <1>1 DEF ToSet
  <2>3. e \in ToSet(a)
    BY <1>1 DEF ToSet
  <2> QED
    BY <2>1, <2>2, <2>3 DEF ToSet
<1>3. ASSUME IsInjective(s), e \notin ToSet(s) PROVE IsInjective(a)
  <2>1. \A i \in 1..Len(s) : s[i] # e
    BY <1>1, <1>3 DEF ToSet
  <2> QED
    BY <1>1, <1>3, <2>1 DEF IsInjective
<1> QED
  BY <1>1, <1>2, <1>3 DEF a

(* RemoveAt drops the i-th element and closes the gap. *)
LEMMA RemoveAtElements ==
  ASSUME NEW S, NEW s \in Seq(S), NEW i \in 1..Len(s)
  PROVE  /\ RemoveAt(s, i) \in Seq(S)
         /\ Len(RemoveAt(s, i)) = Len(s) - 1
         /\ \A j \in 1..(Len(s) - 1) :
              RemoveAt(s, i)[j] = IF j < i THEN s[j] ELSE s[j + 1]
<1> DEFINE a == SubSeq(s, 1, i - 1)
           b == SubSeq(s, i + 1, Len(s))
<1>1. a \in Seq(S) /\ Len(a) = i - 1 /\ \A j \in 1..(i - 1) : a[j] = s[j]
  BY SubSeqProperties, SMT
<1>2. b \in Seq(S) /\ Len(b) = Len(s) - i /\ \A j \in 1..(Len(s) - i) : b[j] = s[i + j]
  BY SubSeqProperties, SMT
<1>3. RemoveAt(s, i) = a \o b
  BY DEF RemoveAt
<1> HIDE DEF a, b
<1>4. /\ a \o b \in Seq(S)
      /\ Len(a \o b) = Len(a) + Len(b)
      /\ \A j \in 1..(Len(a) + Len(b)) :
           (a \o b)[j] = IF j <= Len(a) THEN a[j] ELSE b[j - Len(a)]
  BY <1>1, <1>2, ConcatProperties
<1> QED
  BY <1>1, <1>2, <1>3, <1>4, SMT

(* From a sequence without duplicates it removes that element for good. *)
LEMMA RemoveAtKeeps ==
  ASSUME NEW S, NEW s \in Seq(S), NEW i \in DOMAIN s, IsInjective(s)
  PROVE  /\ RemoveAt(s, i) \in Seq(S)
         /\ ToSet(RemoveAt(s, i)) = ToSet(s) \ {s[i]}
         /\ IsInjective(RemoveAt(s, i))
<1> DEFINE c == RemoveAt(s, i)
           old(j) == IF j < i THEN j ELSE j + 1
<1>1. DOMAIN s = 1..Len(s) /\ Len(s) \in Nat /\ i \in 1..Len(s)
  OBVIOUS
<1>2. c \in Seq(S) /\ Len(c) = Len(s) - 1 /\ \A j \in 1..(Len(s) - 1) : c[j] = s[old(j)]
  BY <1>1, RemoveAtElements
<1> HIDE DEF c
<1>3. DOMAIN c = 1..(Len(s) - 1)
  BY <1>1, <1>2
<1>4. \A j \in DOMAIN c : old(j) \in DOMAIN s /\ old(j) # i
  BY <1>1, <1>3
<1>5. ToSet(c) = ToSet(s) \ {s[i]}
  <2>1. ASSUME NEW j \in DOMAIN c PROVE c[j] \in ToSet(s) \ {s[i]}
    <3>1. c[j] = s[old(j)] /\ old(j) \in DOMAIN s /\ old(j) # i
      BY <1>2, <1>3, <1>4
    <3> HIDE DEF old
    <3> QED
      BY <3>1 DEF ToSet, IsInjective
  <2>2. ASSUME NEW k \in DOMAIN s, s[k] # s[i] PROVE s[k] \in ToSet(c)
    <3> DEFINE j == IF k < i THEN k ELSE k - 1
    <3>1. j \in DOMAIN c /\ old(j) = k
      BY <1>1, <1>3, <2>2
    <3>2. c[j] = s[k]
      BY <1>2, <1>3, <3>1
    <3> QED
      BY <3>1, <3>2 DEF ToSet
  <2> QED
    BY <2>1, <2>2 DEF ToSet
<1>6. ASSUME NEW j \in DOMAIN c, NEW k \in DOMAIN c, c[j] = c[k] PROVE j = k
  <2>1. old(j) = old(k)
    BY <1>2, <1>3, <1>4, <1>6 DEF IsInjective
  <2> QED
    BY <1>1, <1>3, <2>1
<1> QED
  BY <1>2, <1>5, <1>6 DEF c, IsInjective

----------------------------------------------------------------------------
(* Ready queues *)

(* ReadyThread queues the thread; well formed if it was not queued yet. *)
LEMMA ReadyThreadKeeps ==
  ASSUME NEW rq \in ReadyQueueType, NEW prio \in [Threads -> Priorities],
         NEW t \in Threads, WellFormed(rq, prio), t \notin InQueue(rq)
  PROVE  /\ ReadyThread(rq, t, prio[t]) \in ReadyQueueType
         /\ WellFormed(ReadyThread(rq, t, prio[t]), prio)
         /\ InQueue(ReadyThread(rq, t, prio[t])) = InQueue(rq) \cup {t}
<1> DEFINE p == prio[t]
           q == rq.queues[p]
           r == ReadyThread(rq, t, p)
<1>1. p \in Priorities /\ q \in Seq(Threads) /\ t \notin ToSet(q) /\ IsInjective(q)
  BY DEF ReadyQueueType, WellFormed, InQueue
<1>2. /\ Append(q, t) \in Seq(Threads) /\ Append(q, t) # <<>>
      /\ ToSet(Append(q, t)) = ToSet(q) \cup {t} /\ IsInjective(Append(q, t))
  BY <1>1, AppendKeeps
<1>3. /\ r.bitmap = rq.bitmap \cup {p}
      /\ r.queues[p] = Append(q, t)
      /\ \A o \in Priorities \ {p} : r.queues[o] = rq.queues[o]
  BY <1>1 DEF ReadyThread, ReadyQueueType
<1>4. r \in ReadyQueueType
  BY <1>1, <1>2 DEF ReadyThread, ReadyQueueType
<1> HIDE DEF r
<1>5. WellFormed(r, prio)
  BY <1>1, <1>2, <1>3 DEF WellFormed
<1>6. InQueue(r) = InQueue(rq) \cup {t}
  <2>1. InQueue(r) = (UNION {ToSet(r.queues[o]) : o \in Priorities \ {p}}) \cup ToSet(r.queues[p])
    BY <1>1 DEF InQueue
  <2>2. InQueue(rq) = (UNION {ToSet(rq.queues[o]) : o \in Priorities \ {p}}) \cup ToSet(q)
    BY <1>1 DEF InQueue
  <2> QED
    BY <1>2, <1>3, <2>1, <2>2
<1> QED
  BY <1>4, <1>5, <1>6 DEF r

(* RemoveFromReadyQueue takes out exactly the thread at the given place. *)
LEMMA RemoveFromReadyQueueKeeps ==
  ASSUME NEW rq \in ReadyQueueType, NEW prio \in [Threads -> Priorities],
         NEW p \in Priorities, NEW i \in DOMAIN rq.queues[p],
         WellFormed(rq, prio)
  PROVE  LET r == RemoveFromReadyQueue(rq, p, i)
         IN  /\ r \in ReadyQueueType
             /\ WellFormed(r, prio)
             /\ InQueue(r) = InQueue(rq) \ {rq.queues[p][i]}
<1> DEFINE q == rq.queues[p]
           c == RemoveAt(q, i)
           r == RemoveFromReadyQueue(rq, p, i)
<1>1. q \in Seq(Threads) /\ IsInjective(q) /\ q[i] \in ToSet(q) /\ q # <<>>
  BY DEF ReadyQueueType, WellFormed, ToSet
<1>2. c \in Seq(Threads) /\ ToSet(c) = ToSet(q) \ {q[i]} /\ IsInjective(c)
  BY <1>1, RemoveAtKeeps
<1> HIDE DEF c
<1>3. /\ r.queues[p] = c
      /\ \A o \in Priorities \ {p} : r.queues[o] = rq.queues[o]
      /\ r.bitmap = IF c = <<>> THEN rq.bitmap \ {p} ELSE rq.bitmap
  BY DEF RemoveFromReadyQueue, ReadyQueueType, c
<1>4. r \in ReadyQueueType
  BY <1>2 DEF RemoveFromReadyQueue, ReadyQueueType, c
<1> HIDE DEF r
<1>5. WellFormed(r, prio)
  BY <1>1, <1>2, <1>3 DEF WellFormed
<1>6. \A o \in Priorities \ {p} : q[i] \notin ToSet(rq.queues[o])
  BY <1>1 DEF WellFormed
<1>7. InQueue(r) = InQueue(rq) \ {q[i]}
  BY <1>2, <1>3, <1>6 DEF InQueue
<1> QED
  BY <1>4, <1>5, <1>7 DEF r

(* Only the priorities of queued threads matter to the queues. *)
LEMMA WellFormedDependsOnQueued ==
  ASSUME NEW rq, NEW prio, NEW prio2, WellFormed(rq, prio),
         \A t \in InQueue(rq) : prio2[t] = prio[t]
  PROVE  WellFormed(rq, prio2)
BY DEF WellFormed, InQueue

(* PickNextThread removes the thread it returns, and no other: as long as  *)
(* no terminated thread is queued there is nothing to skip.                *)
LEMMA PickTakesOne ==
  ASSUME ready \in ReadyQueueType, priority \in [Threads -> Priorities],
         MAX_PRIORITY \in Nat,
         WellFormed(ready, priority),
         \A t \in InQueue(ready) : state[t] # "TERMINATED",
         NEW p \in Priorities, NEW i \in DOMAIN ready.queues[p], Picks(p, i)
  PROVE  /\ AfterPick(p, i) \in ReadyQueueType
         /\ WellFormed(AfterPick(p, i), priority)
         /\ InQueue(AfterPick(p, i)) = InQueue(ready) \ {ready.queues[p][i]}
<1> DEFINE q == ready.queues[p]
           rest == SubSeq(q, i + 1, Len(q))
<1>1. \A o \in Priorities : /\ Live(o) = DOMAIN ready.queues[o]
                            /\ ready.queues[o] \in Seq(Threads)
                            /\ o \in LivePriorities <=> ready.queues[o] # <<>>
                            /\ o \in ready.bitmap <=> ready.queues[o] # <<>>
  <2>1. \A o \in Priorities : /\ ready.queues[o] \in Seq(Threads)
                              /\ o \in ready.bitmap <=> ready.queues[o] # <<>>
    BY DEF ReadyQueueType, WellFormed
  <2>2. \A o \in Priorities : Live(o) = DOMAIN ready.queues[o]
    BY DEF Live, InQueue, ToSet
  <2>3. \A o \in Priorities : ready.queues[o] # <<>> <=> DOMAIN ready.queues[o] # {}
    BY <2>1, EmptySequence
  <2> QED
    BY <2>1, <2>2, <2>3 DEF LivePriorities
<1>2. i = 1 /\ q \in Seq(Threads) /\ q # <<>>
  <2>1. q \in Seq(Threads) /\ q # <<>> /\ Live(p) = DOMAIN q
    BY <1>1 DEF Picks
  <2>2. 1 \in DOMAIN q /\ DOMAIN q = 1..Len(q) /\ Len(q) \in Nat
    BY <2>1, EmptySequence, LenProperties
  <2>3. i <= 1
    BY <2>1, <2>2 DEF Picks
  <2> QED
    BY <2>1, <2>2, <2>3
<1>3. \A o \in Priorities : o > p => ready.queues[o] = <<>>
  BY <1>1 DEF Picks, Priorities
<1>4. rest = RemoveAt(q, i) /\ rest \in Seq(Threads)
  <2>1. SubSeq(q, 1, 0) = <<>> /\ rest \in Seq(Threads)
    BY <1>2, SubSeqProperties
  <2> QED
    BY <1>2, <2>1, ConcatEmptySeq DEF RemoveAt
<1>5. AfterPick(p, i) = RemoveFromReadyQueue(ready, p, i)
  <2> DEFINE f == [o \in Priorities |-> IF o > p THEN <<>>
                                        ELSE IF o = p THEN rest ELSE ready.queues[o]]
             g == {o \in ready.bitmap : o < p \/ (o = p /\ rest # <<>>)}
  <2> HIDE DEF rest
  <2>1. ready.queues \in [Priorities -> Seq(Threads)] /\ ready.bitmap \in SUBSET Priorities
    BY DEF ReadyQueueType
  <2>2. f = [ready.queues EXCEPT ![p] = rest]
    <3>1. ASSUME NEW o \in Priorities PROVE f[o] = [ready.queues EXCEPT ![p] = rest][o]
      BY <1>3, <2>1 DEF Priorities
    <3> QED
      BY <2>1, <3>1
  <2>3. g = IF rest = <<>> THEN ready.bitmap \ {p} ELSE ready.bitmap
    <3>1. \A o \in ready.bitmap : o \in Nat /\ p \in Nat /\ ~(o > p)
      BY <1>1, <1>3, <2>1 DEF Priorities
    <3>2. p \in ready.bitmap
      BY <1>1, <1>2
    <3> QED
      BY <3>1, <3>2
  <2>4. AfterPick(p, i) = [queues |-> f, bitmap |-> g]
    BY DEF AfterPick, rest
  <2>5. RemoveFromReadyQueue(ready, p, i)
          = [queues |-> [ready.queues EXCEPT ![p] = rest],
             bitmap |-> IF rest = <<>> THEN ready.bitmap \ {p} ELSE ready.bitmap]
    BY <1>4 DEF RemoveFromReadyQueue
  <2> QED
    BY <2>2, <2>3, <2>4, <2>5
<1> QED
  BY <1>5, RemoveFromReadyQueueKeeps

(* PickNextThread falls back on the idle thread only with empty queues. *)
LEMMA PickIdleWhenEmpty ==
  ASSUME ready \in ReadyQueueType, WellFormed(ready, priority),
         \A t \in InQueue(ready) : state[t] # "TERMINATED", LivePriorities = {}
  PROVE  EmptyReady = ready
<1>1. \A o \in Priorities : Live(o) = DOMAIN ready.queues[o]
  BY DEF Live, InQueue, ToSet
<1>2. \A o \in Priorities : ready.queues[o] \in Seq(Threads)
                            /\ (o \in ready.bitmap <=> ready.queues[o] # <<>>)
  BY DEF ReadyQueueType, WellFormed
<1>3. \A o \in Priorities : ready.queues[o] = <<>>
  BY <1>1, <1>2, EmptySequence DEF LivePriorities
<1> QED
  BY <1>2, <1>3 DEF EmptyReady, ReadyQueueType

----------------------------------------------------------------------------
(* What single updates of the state preserve *)

(* The thread priorities are indices of ready queues. *)
LEMMA PriorityTypes ==
  ASSUME TypeOK
  PROVE  /\ priority \in [Threads -> Priorities]
         /\ ready \in ReadyQueueType
         /\ Idle \in Created /\ Created \subseteq Threads
         /\ MAX_PRIORITY \in Nat /\ threadCount \in Nat
BY SizeAssumption DEF TypeOK, Priorities, Threads, Created, Idle

(* Making one thread READY and queueing it. *)
LEMMA ReadyOneKeeps ==
  ASSUME TypeOK, ReadyQueuesExact,
         priority' \in [Threads -> Priorities], threadCount' \in Threads,
         NEW t \in Created', t \in Threads, t \notin InQueue(ready),
         Created \subseteq Created', Created' \subseteq Created \cup {t},
         \A u \in InQueue(ready) : priority'[u] = priority[u],
         ready' = ReadyThread(ready, t, priority'[t]),
         state'[t] = "READY",
         \A u \in Created \ {t} : state'[u] = "READY" <=> state[u] = "READY"
  PROVE  /\ ready' \in ReadyQueueType
         /\ ReadyQueuesExact'
         /\ InQueue(ready)' = InQueue(ready) \cup {t}
<1>1. ready \in ReadyQueueType /\ Idle \in Created
  BY PriorityTypes
<1>2. WellFormed(ready, priority')
  BY WellFormedDependsOnQueued DEF ReadyQueuesExact
<1>3. /\ ready' \in ReadyQueueType
      /\ WellFormed(ready', priority')
      /\ InQueue(ready') = InQueue(ready) \cup {t}
  BY <1>1, <1>2, ReadyThreadKeeps
<1>4. \A u \in UserThreads' : u \in InQueue(ready') <=> state'[u] = "READY"
  BY <1>3 DEF ReadyQueuesExact, UserThreads
<1>5. InQueue(ready') \subseteq Created'
  BY <1>3 DEF ReadyQueuesExact
<1>6. Idle \in InQueue(ready') => state'[Idle] = "READY"
  BY <1>1, <1>3 DEF ReadyQueuesExact
<1> QED
  BY <1>3, <1>4, <1>5, <1>6 DEF ReadyQueuesExact

(* Leaving the ready queues alone. *)
LEMMA ReadySameKeeps ==
  ASSUME TypeOK, ReadyQueuesExact, ready' = ready, threadCount' = threadCount,
         \A u \in InQueue(ready) : priority'[u] = priority[u],
         \A u \in Created : state'[u] = "READY" <=> state[u] = "READY"
  PROVE  /\ ReadyQueuesExact'
         /\ InQueue(ready)' = InQueue(ready)
<1>1. Idle \in Created /\ Created' = Created /\ UserThreads' = UserThreads
  BY PriorityTypes DEF Created, UserThreads
<1>2. WellFormed(ready', priority')
  BY WellFormedDependsOnQueued DEF ReadyQueuesExact
<1>3. InQueue(ready)' = InQueue(ready)
  OBVIOUS
<1> QED
  BY <1>1, <1>2, <1>3 DEF ReadyQueuesExact, UserThreads

(* Leaving the wait queues alone. *)
LEMMA WaitSameKeeps ==
  ASSUME WaitQueuesExact, UNCHANGED <<waitingMutex, owner, waiters, ioWaiters>>,
         \A u \in Threads : state'[u] = "BLOCKED" <=> state[u] = "BLOCKED"
  PROVE  WaitQueuesExact'
BY DEF WaitQueuesExact

(* A queued thread is READY and waits for nothing. *)
LEMMA QueuedIsReady ==
  ASSUME TypeOK, ReadyQueuesExact, NEW t \in InQueue(ready)
  PROVE  t \in Created /\ t \in Threads /\ state[t] = "READY"
BY PriorityTypes DEF ReadyQueuesExact, UserThreads

(* A thread that is BLOCKED or RUNNING is not queued, a BLOCKED one is not *)
(* the current thread while that runs.                                     *)
LEMMA UnqueuedStates ==
  ASSUME IInv, NEW t \in Threads, state[t] # "READY"
  PROVE  t \in Created /\ t \notin InQueue(ready)
BY QueuedIsReady DEF IInv, ControlExact

----------------------------------------------------------------------------
(* Schedule *)

(* What a dispatch leaves behind, whatever it switched to. *)
Dispatched ==
  /\ ready' \in ReadyQueueType
  /\ state' \in [Threads -> ThreadStates]
  /\ current' \in Created /\ state'[current'] = "RUNNING"
  /\ ReadyQueuesExact' /\ CurrentThreadExact' /\ WaitQueuesExact'
  /\ \A t \in Threads \ Created : state'[t] = "READY"
  /\ state'[Idle] \in {"READY", "RUNNING"}
  /\ current' = Idle => state'[Idle] = "RUNNING"

ScheduleUnchanged ==
  UNCHANGED <<threadCount, priority, waitingMutex, owner, waiters, ioWaiters>>

(* The switch to a thread taken off the ready queues, or to the idle one. *)
LEMMA SwitchKeeps ==
  ASSUME IInv, ScheduleUnchanged,
         NEW next \in Created, next \in InQueue(ready) \/ next = Idle,
         NEW rq \in ReadyQueueType, WellFormed(rq, priority),
         InQueue(rq) = InQueue(ready) \ {next},
         SwitchTo(next, rq)
  PROVE  Dispatched
<1> USE DEF ScheduleUnchanged
<1>1. /\ priority \in [Threads -> Priorities] /\ Created \subseteq Threads
      /\ Created' = Created /\ UserThreads' = UserThreads
      /\ Idle \in Threads /\ Idle \in Created
      /\ state \in [Threads -> ThreadStates] /\ current \in Created \cup {NULL}
      /\ NULL \notin Threads
      /\ WellFormed(rq, priority')
  BY PriorityTypes, NullAssumption
     DEF IInv, TypeOK, ControlExact, Created, UserThreads
<1>2. next \in InQueue(ready) => state[next] = "READY"
  BY QueuedIsReady DEF IInv
<1>3. CASE next = current
  <2>1. ready' = rq /\ state' = state /\ current' = current
    BY <1>3 DEF SwitchTo
  <2>2. next = Idle /\ state[Idle] = "RUNNING" /\ Idle \notin InQueue(ready)
    BY <1>1, <1>3 DEF IInv, CurrentThreadExact, ControlExact
  <2>3. InQueue(ready') = InQueue(ready)
    BY <2>1, <2>2
  <2>4. ReadyQueuesExact'
    BY <1>1, <2>1, <2>3 DEF IInv, ReadyQueuesExact
  <2>5. CurrentThreadExact'
    BY <2>1, <2>3 DEF IInv, CurrentThreadExact
  <2>6. WaitQueuesExact'
    BY <2>1, WaitSameKeeps DEF IInv
  <2> QED
    BY <1>1, <1>3, <2>1, <2>2, <2>4, <2>5, <2>6 DEF Dispatched, IInv, ControlExact
<1>4. CASE next # current
  <2> DEFINE preempted == current # NULL /\ state[current] = "RUNNING"
  <2>1. /\ current' = next
        /\ state' = [t \in Threads |->
                       IF t = next THEN "RUNNING"
                       ELSE IF preempted /\ t = current THEN "READY"
                       ELSE state[t]]
        /\ ready' = IF preempted
                    THEN ReadyThread(rq, current, priority[current])
                    ELSE rq
    BY <1>4 DEF SwitchTo
  <2>2. preempted => current \in Created /\ current \notin InQueue(ready)
    BY <1>1 DEF IInv, CurrentThreadExact
  <2>3. /\ ready' \in ReadyQueueType
        /\ WellFormed(ready', priority')
        /\ InQueue(ready') = IF preempted THEN InQueue(rq) \cup {current} ELSE InQueue(rq)
    <3>1. CASE preempted
      BY <1>1, <2>1, <2>2, <3>1, ReadyThreadKeeps
    <3>2. CASE ~preempted
      BY <1>1, <2>1, <3>2
    <3> QED
      BY <3>1, <3>2
  <2>4. \A t \in Threads : t # next /\ ~(preempted /\ t = current)
                             => state'[t] = state[t] /\ state[t] # "RUNNING"
    BY <1>1, <2>1 DEF IInv, CurrentThreadExact
  <2>5. state'[next] = "RUNNING" /\ (preempted => state'[current] = "READY")
    BY <1>1, <1>4, <2>1, <2>2
  <2>6. \A t \in UserThreads : t \in InQueue(ready') <=> state'[t] = "READY"
    BY <1>1, <1>4, <2>2, <2>3, <2>4, <2>5
       DEF IInv, ReadyQueuesExact, UserThreads
  <2>7. /\ InQueue(ready') \subseteq Created
        /\ Idle \in InQueue(ready') => state'[Idle] = "READY"
    BY <1>1, <1>4, <2>2, <2>3, <2>4, <2>5 DEF IInv, ReadyQueuesExact
  <2>8. ReadyQueuesExact'
    BY <1>1, <2>3, <2>6, <2>7 DEF ReadyQueuesExact
  <2>9. next \notin InQueue(ready')
    BY <1>4, <2>3
  <2>10. \A t \in Threads : state'[t] = "RUNNING" => t = next
    BY <2>4, <2>5
  <2>11. CurrentThreadExact'
    BY <2>1, <2>9, <2>10 DEF CurrentThreadExact
  <2>12. state[next] # "BLOCKED"
    BY <1>2 DEF IInv, ControlExact
  <2>13. \A t \in Threads : state'[t] = "BLOCKED" <=> state[t] = "BLOCKED"
    BY <2>4, <2>5, <2>12
  <2>14. WaitQueuesExact'
    BY <2>13, WaitSameKeeps DEF IInv
  <2>15. /\ state' \in [Threads -> ThreadStates]
         /\ \A t \in Threads \ Created : state'[t] = "READY"
         /\ state'[Idle] \in {"READY", "RUNNING"}
         /\ current' = Idle => state'[Idle] = "RUNNING"
    BY <1>1, <2>1, <2>2 DEF IInv, ControlExact, ThreadStates
  <2> QED
    BY <2>1, <2>3, <2>5, <2>8, <2>11, <2>14, <2>15 DEF Dispatched
<1> QED
  BY <1>3, <1>4

(* Schedule loses no thread and leaves the chosen one RUNNING. *)
LEMMA ScheduleKeeps ==
  ASSUME IInv, Schedule, ScheduleUnchanged
  PROVE  Dispatched
<1>1. /\ priority \in [Threads -> Priorities] /\ ready \in ReadyQueueType
      /\ Idle \in Created /\ MAX_PRIORITY \in Nat
      /\ WellFormed(ready, priority)
      /\ \A t \in InQueue(ready) : state[t] # "TERMINATED"
  BY PriorityTypes, QueuedIsReady DEF IInv, ReadyQueuesExact
<1>2. CASE \E p \in Priorities : \E i \in DOMAIN ready.queues[p] :
             Picks(p, i) /\ SwitchTo(ready.queues[p][i], AfterPick(p, i))
  <2>1. PICK p \in Priorities :
          \E i \in DOMAIN ready.queues[p] :
            Picks(p, i) /\ SwitchTo(ready.queues[p][i], AfterPick(p, i))
    BY <1>2
  <2>2. PICK i \in DOMAIN ready.queues[p] :
          Picks(p, i) /\ SwitchTo(ready.queues[p][i], AfterPick(p, i))
    BY <2>1
  <2>3. /\ AfterPick(p, i) \in ReadyQueueType
        /\ WellFormed(AfterPick(p, i), priority)
        /\ InQueue(AfterPick(p, i)) = InQueue(ready) \ {ready.queues[p][i]}
    BY <1>1, <2>2, PickTakesOne
  <2>4. ready.queues[p][i] \in InQueue(ready)
    BY DEF InQueue, ToSet
  <2>5. ready.queues[p][i] \in Created
    BY <2>4, QueuedIsReady DEF IInv
  <2> QED
    BY <2>2, <2>3, <2>4, <2>5, SwitchKeeps
<1>3. CASE LivePriorities = {} /\ SwitchTo(Idle, EmptyReady)
  <2>1. EmptyReady = ready /\ InQueue(EmptyReady) = {}
    <3>1. \A p \in Priorities : ToSet(EmptyReady.queues[p]) = {}
      BY DEF EmptyReady, ToSet
    <3> QED
      BY <1>1, <1>3, <3>1, PickIdleWhenEmpty DEF InQueue
  <2> QED
    BY <1>1, <1>3, <2>1, SwitchKeeps
<1> QED
  BY <1>2, <1>3 DEF Schedule

----------------------------------------------------------------------------
(* Priority inheritance *)

(* The boosted threads are the least set closed under the chain. *)
LEMMA BoostedLeast ==
  ASSUME TypeOK, NEW t \in Threads, NEW n
  PROVE  /\ ChainClosed(Boosted(t, n), t, n)
         /\ \A S \in SUBSET Threads : ChainClosed(S, t, n) => Boosted(t, n) \subseteq S
<1>1. \A u \in Threads : NextOwner(u) # NULL => NextOwner(u) \in Threads
  BY DEF TypeOK, NextOwner
<1>2. \A S \in SUBSET Threads : ChainClosed(S, t, n) => Boosted(t, n) \subseteq S
  BY DEF Boosted
<1>3. priority[t] < n => t \in Boosted(t, n)
  BY DEF Boosted, ChainClosed
<1>4. ASSUME NEW u \in Boosted(t, n),
             NextOwner(u) # NULL /\ priority[NextOwner(u)] < n
      PROVE  NextOwner(u) \in Boosted(t, n)
  BY <1>1, <1>4 DEF Boosted, ChainClosed
<1> QED
  BY <1>2, <1>3, <1>4 DEF ChainClosed

(* A chain has at most one READY thread: its end. *)
LEMMA BoostedOneReady ==
  ASSUME TypeOK, WaitQueuesExact, NEW t \in Threads, NEW n,
         NEW u \in Boosted(t, n), NEW v \in Boosted(t, n),
         state[u] = "READY", state[v] = "READY"
  PROVE  u = v
<1> SUFFICES ASSUME u # v PROVE FALSE
  OBVIOUS
<1> DEFINE G == {w \in Threads : u \in Boosted(w, n) /\ v \in Boosted(w, n)}
           Goes(w) == NextOwner(w) # NULL /\ priority[NextOwner(w)] < n
<1>1. \A w \in Threads : state[w] = "READY" => NextOwner(w) = NULL
  BY DEF WaitQueuesExact, NextOwner
<1>2. \A w \in Threads : NextOwner(w) # NULL => NextOwner(w) \in Threads
  BY DEF TypeOK, NextOwner
<1>3. ASSUME NEW w \in Threads, ~Goes(w) PROVE Boosted(w, n) \subseteq {w}
  <2>1. ChainClosed({w}, w, n)
    BY <1>3 DEF ChainClosed
  <2> QED
    BY <2>1, BoostedLeast
<1>4. ASSUME NEW w \in Threads, Goes(w)
      PROVE  Boosted(w, n) \subseteq {w} \cup Boosted(NextOwner(w), n)
  <2> DEFINE S == {w} \cup Boosted(NextOwner(w), n)
  <2>1. ChainClosed(Boosted(NextOwner(w), n), NextOwner(w), n)
    BY <1>2, <1>4, BoostedLeast
  <2>2. ChainClosed(S, w, n) /\ S \in SUBSET Threads
    BY <1>4, <2>1 DEF ChainClosed, Boosted
  <2> QED
    BY <2>2, BoostedLeast
<1>5. t \in G
  OBVIOUS
<1>6. ASSUME NEW w \in G PROVE Goes(w) /\ NextOwner(w) \in G
  <2>1. Goes(w)
    BY <1>3
  <2>2. u # w /\ v # w
    BY <1>1, <2>1
  <2> QED
    BY <1>2, <1>4, <2>1, <2>2
<1>7. ChainClosed(G, t, n) /\ G \in SUBSET Threads
  BY <1>5, <1>6 DEF ChainClosed
<1>8. u \in G
  BY <1>7, BoostedLeast
<1>9. ~Goes(u)
  BY <1>1, <1>8
<1> QED
  BY <1>6, <1>8, <1>9

(* Boosting moves at most one thread to another queue and loses none. *)
LEMMA BoostKeeps ==
  ASSUME IInv, NEW t \in Threads, NEW n \in 0..(MAX_PRIORITY - 2),
         BoostPriorityChain(t, n)
  PROVE  /\ priority' \in [Threads -> 0..(MAX_PRIORITY - 2)]
         /\ ready' \in ReadyQueueType
         /\ WellFormed(ready', priority')
         /\ InQueue(ready') = InQueue(ready)
<1> DEFINE B == Boosted(t, n)
           movers == {u \in B : state[u] = "READY"}
<1>1. /\ priority \in [Threads -> 0..(MAX_PRIORITY - 2)]
      /\ priority \in [Threads -> Priorities] /\ ready \in ReadyQueueType
      /\ n \in Priorities /\ WellFormed(ready, priority)
  <2>1. /\ priority \in [Threads -> Priorities] /\ ready \in ReadyQueueType
        /\ MAX_PRIORITY \in Nat
    BY PriorityTypes DEF IInv
  <2>2. n \in Priorities
    BY <2>1 DEF Priorities
  <2> QED
    BY <2>1, <2>2 DEF IInv, TypeOK, ReadyQueuesExact
<1>2. priority' = [u \in Threads |-> IF u \in B THEN n ELSE priority[u]]
  BY DEF BoostPriorityChain
<1>3. /\ priority' \in [Threads -> 0..(MAX_PRIORITY - 2)]
      /\ priority' \in [Threads -> Priorities]
  BY <1>1, <1>2
<1>4. \A u \in InQueue(ready) : u \in Threads /\ state[u] = "READY"
  BY QueuedIsReady DEF IInv
<1>5. CASE movers = {}
  <2>1. ready' = ready
    BY <1>5 DEF BoostPriorityChain
  <2>2. \A u \in InQueue(ready) : priority'[u] = priority[u]
    BY <1>2, <1>4, <1>5
  <2> QED
    BY <1>1, <1>3, <2>1, <2>2, WellFormedDependsOnQueued
<1>6. CASE movers # {}
  <2>1. PICK u \in movers : \E i \in DOMAIN ready.queues[priority[u]] :
          /\ ready.queues[priority[u]][i] = u
          /\ ready' = ReadyThread(RemoveFromReadyQueue(ready, priority[u], i), u, n)
    BY <1>6 DEF BoostPriorityChain
  <2>2. PICK i \in DOMAIN ready.queues[priority[u]] :
          /\ ready.queues[priority[u]][i] = u
          /\ ready' = ReadyThread(RemoveFromReadyQueue(ready, priority[u], i), u, n)
    BY <2>1
  <2> DEFINE r == RemoveFromReadyQueue(ready, priority[u], i)
  <2>3. u \in Threads /\ u \in B /\ state[u] = "READY" /\ priority[u] \in Priorities
    BY <1>1 DEF Boosted
  <2>4. r \in ReadyQueueType /\ WellFormed(r, priority) /\ InQueue(r) = InQueue(ready) \ {u}
    BY <1>1, <2>2, <2>3, RemoveFromReadyQueueKeeps
  <2>5. u \in InQueue(ready)
    BY <2>2, <2>3 DEF InQueue, ToSet
  <2>6. \A w \in InQueue(r) : priority'[w] = priority[w]
    <3>1. ASSUME NEW w \in InQueue(r) PROVE w \notin B
      BY <1>4, <2>3, <2>4, BoostedOneReady DEF IInv
    <3> QED
      BY <1>2, <1>4, <2>4, <3>1
  <2> HIDE DEF r
  <2>7. WellFormed(r, priority')
    BY <2>4, <2>6, WellFormedDependsOnQueued
  <2>8. priority'[u] = n
    BY <1>2, <2>3
  <2>9. ready' = ReadyThread(r, u, priority'[u])
    BY <2>2, <2>8 DEF r
  <2>10. /\ ready' \in ReadyQueueType /\ WellFormed(ready', priority')
         /\ InQueue(ready') = InQueue(r) \cup {u}
    <3>1. r \in ReadyQueueType /\ u \in Threads /\ u \notin InQueue(r)
      BY <2>3, <2>4 DEF r
    <3> QED
      BY <1>3, <2>7, <2>9, <3>1, ReadyThreadKeeps
  <2> QED
    BY <1>3, <2>4, <2>5, <2>10 DEF r
<1> QED
  BY <1>5, <1>6

----------------------------------------------------------------------------
(* One call of the running thread's routine *)

(* The part of the invariant a service called by the thread can disturb. *)
RunTypes ==
  /\ state' \in [Threads -> ThreadStates]
  /\ priority' \in [Threads -> 0..(MAX_PRIORITY - 2)]
  /\ ownedMutex' \in [Threads -> Mutexes \cup {NULL}]
  /\ waitingMutex' \in [Threads -> Mutexes \cup {NULL}]
  /\ ready' \in ReadyQueueType
  /\ owner' \in [Mutexes -> Threads \cup {NULL}]
  /\ waiters' \in [Mutexes -> Seq(Threads)]
  /\ refCount' \in [Mutexes -> Int]
  /\ ioWaiters' \in Seq(Threads)
  /\ reschedule' \in BOOLEAN
RunControl ==
  /\ \A t \in Threads \ Created : state'[t] = "READY"
  /\ state'[Idle] \in {"READY", "RUNNING"}
  /\ current = Idle => state'[Idle] = "RUNNING"
  /\ state'[current] # "RUNNING" => reschedule'
RunKept ==
  RunTypes /\ RunControl /\ ReadyQueuesExact' /\ CurrentThreadExact' /\ WaitQueuesExact'

(* What holds of the thread that makes the call. *)
LEMMA RunningThread ==
  ASSUME IInv, Running
  PROVE  /\ current \in Threads /\ current \in Created /\ current \notin InQueue(ready)
         /\ state[current] = "RUNNING"
         /\ waitingMutex[current] = NULL /\ current \notin ToSet(ioWaiters)
         /\ \A t \in Threads : state[t] = "RUNNING" <=> t = current
<1>1. current \in Threads /\ current \in Created /\ state[current] = "RUNNING"
  BY PriorityTypes DEF IInv, ControlExact, Running
<1> QED
  BY <1>1, NullAssumption DEF IInv, CurrentThreadExact, WaitQueuesExact

(* A service that leaves the queues and the thread states alone. *)
LEMMA QuietKeeps ==
  ASSUME IInv, Running,
         UNCHANGED <<threadCount, current, state, priority, waitingMutex, reschedule,
                     ready, waiters, ioWaiters>>,
         ownedMutex' \in [Threads -> Mutexes \cup {NULL}],
         owner' \in [Mutexes -> Threads \cup {NULL}],
         refCount' \in [Mutexes -> Int],
         \A m \in Mutexes : owner'[m] = NULL => owner[m] = NULL
  PROVE  RunKept
<1>1. RunTypes
  BY DEF IInv, TypeOK, RunTypes
<1>2. ReadyQueuesExact' /\ InQueue(ready)' = InQueue(ready)
  BY ReadySameKeeps DEF IInv
<1>3. CurrentThreadExact'
  BY <1>2 DEF IInv, CurrentThreadExact
<1>4. WaitQueuesExact'
  BY DEF IInv, WaitQueuesExact
<1>5. RunControl
  BY RunningThread DEF IInv, ControlExact, RunControl
<1> QED
  BY <1>1, <1>2, <1>3, <1>4, <1>5 DEF RunKept

(* The running thread terminates. *)
LEMMA ExitKeeps ==
  ASSUME IInv, Running, current # Idle,
         state' = [state EXCEPT ![current] = "TERMINATED"],
         reschedule' = TRUE,
         UNCHANGED <<threadCount, current, priority, ownedMutex, waitingMutex,
                     ready, mutexVars, ioWaiters>>
  PROVE  RunKept
<1> USE DEF mutexVars
<1>1. RunTypes
  BY DEF IInv, TypeOK, RunTypes, ThreadStates
<1>2. /\ state'[current] = "TERMINATED"
      /\ \A t \in Threads \ {current} : state'[t] = state[t]
  BY RunningThread DEF IInv, TypeOK
<1>3. ReadyQueuesExact' /\ InQueue(ready)' = InQueue(ready)
  <2>1. \A u \in Created : state'[u] = "READY" <=> state[u] = "READY"
    BY <1>2, RunningThread, PriorityTypes DEF IInv
  <2> QED
    BY <2>1, ReadySameKeeps DEF IInv
<1>4. CurrentThreadExact'
  BY <1>2, <1>3, RunningThread DEF IInv, CurrentThreadExact
<1>5. WaitQueuesExact'
  <2>1. \A u \in Threads : state'[u] = "BLOCKED" <=> state[u] = "BLOCKED"
    BY <1>2, RunningThread
  <2> QED
    BY <2>1, WaitSameKeeps DEF IInv
<1>6. RunControl
  BY <1>2, RunningThread, PriorityTypes DEF IInv, ControlExact, RunControl
<1> QED
  BY <1>1, <1>3, <1>4, <1>5, <1>6 DEF RunKept

(* The running thread blocks on a locked mutex. *)
LEMMA AcquireBlockedKeeps ==
  ASSUME IInv, Running, current # Idle, NEW m \in Mutexes, owner[m] # NULL,
         waitingMutex' = [waitingMutex EXCEPT ![current] = m],
         BoostPriorityChain(owner[m], priority[current]),
         refCount' = [refCount EXCEPT ![m] = @ + 1],
         state' = [state EXCEPT ![current] = "BLOCKED"],
         waiters' = [waiters EXCEPT ![m] = Append(@, current)],
         reschedule' = TRUE,
         UNCHANGED <<threadCount, current, ownedMutex, owner, ioWaiters>>
  PROVE  RunKept
<1>1. /\ owner[m] \in Threads /\ waiters[m] \in Seq(Threads)
      /\ priority[current] \in 0..(MAX_PRIORITY - 2)
  BY RunningThread DEF IInv, TypeOK
<1>2. /\ priority' \in [Threads -> 0..(MAX_PRIORITY - 2)]
      /\ ready' \in ReadyQueueType
      /\ WellFormed(ready', priority')
      /\ InQueue(ready') = InQueue(ready)
  BY <1>1, BoostKeeps
<1>3. /\ state'[current] = "BLOCKED" /\ waitingMutex'[current] = m
      /\ \A t \in Threads \ {current} : /\ state'[t] = state[t]
                                        /\ waitingMutex'[t] = waitingMutex[t]
  BY RunningThread DEF IInv, TypeOK
<1>4. /\ waiters'[m] \in Seq(Threads)
      /\ ToSet(waiters'[m]) = ToSet(waiters[m]) \cup {current}
      /\ IsInjective(waiters'[m])
      /\ \A o \in Mutexes \ {m} : waiters'[o] = waiters[o]
  <2>1. waiters'[m] = Append(waiters[m], current)
    BY DEF IInv, TypeOK
  <2>2. IsInjective(waiters[m]) /\ current \notin ToSet(waiters[m])
    BY RunningThread, NullAssumption DEF IInv, WaitQueuesExact
  <2>3. \A o \in Mutexes \ {m} : waiters'[o] = waiters[o]
    BY DEF IInv, TypeOK
  <2> QED
    BY <1>1, <2>1, <2>2, <2>3, RunningThread, AppendKeeps
<1>5. RunTypes
  <2>1. state' \in [Threads -> ThreadStates]
    BY DEF IInv, TypeOK, ThreadStates
  <2>2. waitingMutex' \in [Threads -> Mutexes \cup {NULL}]
    BY DEF IInv, TypeOK
  <2>3. refCount' \in [Mutexes -> Int]
    BY DEF IInv, TypeOK
  <2>4. waiters' \in [Mutexes -> Seq(Threads)]
    BY <1>1, <1>4, RunningThread, AppendKeeps DEF IInv, TypeOK
  <2> QED
    BY <1>2, <2>1, <2>2, <2>3, <2>4 DEF IInv, TypeOK, RunTypes
<1>6. ReadyQueuesExact' /\ CurrentThreadExact'
  <2>1. Created' = Created /\ UserThreads' = UserThreads /\ InQueue(ready)' = InQueue(ready)
    BY <1>2 DEF Created, UserThreads
  <2>2. \A u \in Threads : state'[u] = "READY" <=> state[u] = "READY"
    BY <1>3, RunningThread
  <2>3. Created \subseteq Threads /\ Idle \in Threads
    BY PriorityTypes DEF IInv
  <2>4. ReadyQueuesExact'
    BY <1>2, <2>1, <2>2, <2>3 DEF IInv, ReadyQueuesExact, UserThreads
  <2>5. CurrentThreadExact'
    BY <1>3, <2>1, RunningThread DEF IInv, CurrentThreadExact
  <2> QED
    BY <2>4, <2>5
<1>7. WaitQueuesExact'
  <2>1. \A o \in Mutexes :
          /\ ToSet(waiters'[o]) = {t \in Threads : waitingMutex'[t] = o}
          /\ IsInjective(waiters'[o])
          /\ owner'[o] = NULL => waiters'[o] = <<>>
    BY <1>3, <1>4, RunningThread, NullAssumption DEF IInv, WaitQueuesExact
  <2>2. \A t \in Threads :
          /\ state'[t] = "BLOCKED" <=> waitingMutex'[t] # NULL \/ t \in ToSet(ioWaiters')
          /\ ~(waitingMutex'[t] # NULL /\ t \in ToSet(ioWaiters'))
    BY <1>3, RunningThread, NullAssumption DEF IInv, WaitQueuesExact
  <2> QED
    BY <2>1, <2>2 DEF IInv, WaitQueuesExact
<1>8. RunControl
  BY <1>3, RunningThread, PriorityTypes DEF IInv, ControlExact, RunControl
<1> QED
  BY <1>5, <1>6, <1>7, <1>8 DEF RunKept

(* A thread in a wait queue is BLOCKED, created and not queued elsewhere. *)
LEMMA WaitingThread ==
  ASSUME IInv, NEW t \in Threads, state[t] = "BLOCKED"
  PROVE  /\ t \in Created /\ t # Idle /\ t \notin InQueue(ready)
         /\ Running => t # current
BY UnqueuedStates DEF IInv, ControlExact, Running

(* The owner gives the mutex up and goes on in state s: nobody waits and   *)
(* the mutex becomes free.                                                 *)
LEMMA ReleaseFreeKeeps ==
  ASSUME IInv, Running, current # Idle, NEW m \in Mutexes,
         NEW s \in {"RUNNING", "TERMINATED"},
         waiters[m] = <<>>,
         priority' = [priority EXCEPT ![current] = basePriority[current]],
         owner' = [owner EXCEPT ![m] = NULL],
         ownedMutex' = [ownedMutex EXCEPT ![current] = NULL],
         state' = [state EXCEPT ![current] = s],
         reschedule' = (reschedule \/ s = "TERMINATED"),
         UNCHANGED <<threadCount, current, waiters, waitingMutex, refCount, ready,
                     ioWaiters>>
  PROVE  RunKept
<1>1. /\ current \in Threads /\ state'[current] = s
      /\ \A t \in Threads \ {current} : /\ state'[t] = state[t]
                                        /\ priority'[t] = priority[t]
  BY RunningThread DEF IInv, TypeOK
<1>2. RunTypes
  <2>1. /\ state' \in [Threads -> ThreadStates]
        /\ priority' \in [Threads -> 0..(MAX_PRIORITY - 2)]
    BY <1>1 DEF IInv, TypeOK, ThreadStates
  <2>2. /\ owner' \in [Mutexes -> Threads \cup {NULL}]
        /\ ownedMutex' \in [Threads -> Mutexes \cup {NULL}]
        /\ reschedule' \in BOOLEAN
    BY DEF IInv, TypeOK
  <2> QED
    BY <2>1, <2>2 DEF IInv, TypeOK, RunTypes
<1>3. ReadyQueuesExact' /\ InQueue(ready)' = InQueue(ready)
  <2>1. \A u \in InQueue(ready) : priority'[u] = priority[u]
    BY <1>1, RunningThread, QueuedIsReady DEF IInv
  <2>2. \A u \in Created : state'[u] = "READY" <=> state[u] = "READY"
    BY <1>1, RunningThread, PriorityTypes DEF IInv
  <2> QED
    BY <2>1, <2>2, ReadySameKeeps DEF IInv
<1>4. CurrentThreadExact'
  BY <1>1, <1>3, RunningThread DEF IInv, CurrentThreadExact
<1>5. WaitQueuesExact'
  <2>1. \A u \in Threads : state'[u] = "BLOCKED" <=> state[u] = "BLOCKED"
    BY <1>1, RunningThread
  <2>2. \A o \in Mutexes : owner'[o] = NULL => waiters[o] = <<>>
    BY DEF IInv, TypeOK, WaitQueuesExact
  <2> QED
    BY <2>1, <2>2 DEF IInv, WaitQueuesExact
<1>6. RunControl
  BY <1>1, RunningThread, PriorityTypes DEF IInv, ControlExact, RunControl
<1> QED
  BY <1>2, <1>3, <1>4, <1>5, <1>6 DEF RunKept

(* Or its i-th waiter gets it and becomes READY. *)
LEMMA ReleaseHandOffKeeps ==
  ASSUME IInv, Running, current # Idle, NEW m \in Mutexes,
         NEW s \in {"RUNNING", "TERMINATED"},
         NEW i \in DOMAIN waiters[m], NEW next, next = waiters[m][i],
         priority' = [priority EXCEPT ![current] = basePriority[current]],
         waiters' = [waiters EXCEPT ![m] = RemoveAt(@, i)],
         waitingMutex' = [waitingMutex EXCEPT ![next] = NULL],
         refCount' = [refCount EXCEPT ![m] = @ - 1],
         owner' = [owner EXCEPT ![m] = next],
         ownedMutex' = [ownedMutex EXCEPT ![current] = NULL, ![next] = m],
         state' = [state EXCEPT ![current] = s, ![next] = "READY"],
         ready' = ReadyThread(ready, next, priority[next]),
         reschedule' = (Preempts(priority[next], basePriority[current])
                          \/ s = "TERMINATED"),
         UNCHANGED <<threadCount, current, ioWaiters>>
  PROVE  RunKept
<1>1. /\ current \in Threads /\ next \in Threads /\ waitingMutex[next] = m
      /\ state[next] = "BLOCKED" /\ next \in Created /\ next # Idle
      /\ next # current /\ next \notin InQueue(ready)
      /\ waiters[m] \in Seq(Threads) /\ IsInjective(waiters[m])
  <2>1. waiters[m] \in Seq(Threads) /\ IsInjective(waiters[m])
    BY DEF IInv, TypeOK, WaitQueuesExact
  <2>2. next \in Threads /\ next \in ToSet(waiters[m])
    BY <2>1 DEF ToSet
  <2>3. waitingMutex[next] = m /\ state[next] = "BLOCKED"
    BY <2>2, NullAssumption DEF IInv, WaitQueuesExact
  <2> QED
    BY <2>1, <2>2, <2>3, RunningThread, WaitingThread
<1>2. /\ state'[current] = s /\ state'[next] = "READY"
      /\ waitingMutex'[next] = NULL
      /\ \A t \in Threads \ {current, next} : state'[t] = state[t]
      /\ \A t \in Threads \ {next} : waitingMutex'[t] = waitingMutex[t]
      /\ \A t \in Threads \ {current} : priority'[t] = priority[t]
  BY <1>1 DEF IInv, TypeOK
<1>3. /\ waiters'[m] \in Seq(Threads)
      /\ ToSet(waiters'[m]) = ToSet(waiters[m]) \ {next}
      /\ IsInjective(waiters'[m])
      /\ \A o \in Mutexes \ {m} : waiters'[o] = waiters[o] /\ owner'[o] = owner[o]
      /\ owner'[m] = next
  <2>1. waiters'[m] = RemoveAt(waiters[m], i) /\ owner'[m] = next
    BY DEF IInv, TypeOK
  <2>2. \A o \in Mutexes \ {m} : waiters'[o] = waiters[o] /\ owner'[o] = owner[o]
    BY DEF IInv, TypeOK
  <2> QED
    BY <1>1, <2>1, <2>2, RemoveAtKeeps
<1>4. priority' \in [Threads -> 0..(MAX_PRIORITY - 2)]
  BY DEF IInv, TypeOK
<1>5. /\ ready' \in ReadyQueueType /\ ReadyQueuesExact'
      /\ InQueue(ready)' = InQueue(ready) \cup {next}
  <2>1. priority' \in [Threads -> Priorities]
    BY <1>4, PriorityTypes DEF Priorities, IInv
  <2>2. \A u \in InQueue(ready) : priority'[u] = priority[u]
    BY <1>2, RunningThread, QueuedIsReady DEF IInv
  <2>3. ready' = ReadyThread(ready, next, priority'[next])
    BY <1>1, <1>2
  <2>4. \A u \in Created \ {next} : state'[u] = "READY" <=> state[u] = "READY"
    BY <1>2, RunningThread, PriorityTypes DEF IInv
  <2>5. Created' = Created /\ threadCount' \in Threads
    BY DEF Created, IInv, TypeOK
  <2> QED
    BY <1>1, <1>2, <2>1, <2>2, <2>3, <2>4, <2>5, ReadyOneKeeps DEF IInv
<1>6. RunTypes
  <2>1. state' \in [Threads -> ThreadStates]
    BY DEF IInv, TypeOK, ThreadStates
  <2>2. /\ waitingMutex' \in [Threads -> Mutexes \cup {NULL}]
        /\ ownedMutex' \in [Threads -> Mutexes \cup {NULL}]
    BY DEF IInv, TypeOK
  <2>3. refCount' \in [Mutexes -> Int]
    <3>1. refCount \in [Mutexes -> Int] /\ refCount[m] \in Int
      BY DEF IInv, TypeOK
    <3>2. refCount[m] - 1 \in Int
      BY <3>1
    <3> QED
      BY <3>1, <3>2
  <2>4. waiters' \in [Mutexes -> Seq(Threads)]
    BY <1>3 DEF IInv, TypeOK
  <2>5. owner' \in [Mutexes -> Threads \cup {NULL}]
    BY <1>1 DEF IInv, TypeOK
  <2>6. reschedule' \in BOOLEAN
    BY DEF IInv, TypeOK, Preempts
  <2> QED
    BY <1>4, <1>5, <2>1, <2>2, <2>3, <2>4, <2>5, <2>6 DEF IInv, TypeOK, RunTypes
<1>7. CurrentThreadExact'
  BY <1>1, <1>2, <1>5, RunningThread DEF IInv, CurrentThreadExact
<1>8. WaitQueuesExact'
  <2>1. \A o \in Mutexes :
          /\ ToSet(waiters'[o]) = {t \in Threads : waitingMutex'[t] = o}
          /\ IsInjective(waiters'[o])
          /\ owner'[o] = NULL => waiters'[o] = <<>>
    BY <1>1, <1>2, <1>3, NullAssumption DEF IInv, WaitQueuesExact
  <2>2. \A t \in Threads :
          /\ state'[t] = "BLOCKED" <=> waitingMutex'[t] # NULL \/ t \in ToSet(ioWaiters')
          /\ ~(waitingMutex'[t] # NULL /\ t \in ToSet(ioWaiters'))
    BY <1>1, <1>2, RunningThread, NullAssumption, ZenonT(40) DEF IInv, WaitQueuesExact
  <2> QED
    BY <2>1, <2>2 DEF IInv, WaitQueuesExact
<1>9. RunControl
  BY <1>1, <1>2, RunningThread, PriorityTypes DEF IInv, ControlExact, RunControl
<1> QED
  BY <1>5, <1>6, <1>7, <1>8, <1>9 DEF RunKept

(* ReleaseMutex as a whole. *)
LEMMA ReleaseKeeps ==
  ASSUME IInv, Running, current # Idle, NEW m \in Mutexes,
         NEW s \in {"RUNNING", "TERMINATED"}, ReleaseMutex(m, s),
         UNCHANGED <<threadCount, current, ioWaiters>>
  PROVE  RunKept
<1>1. CASE waiters[m] = <<>>
  <2>1. DOMAIN waiters[m] = {}
    BY <1>1
  <2> QED
    BY <1>1, <2>1, ReleaseFreeKeeps DEF ReleaseMutex, RestorePriority, Free
<1>2. CASE waiters[m] # <<>>
  <2>1. PICK i \in DOMAIN waiters[m] : HandOff(m, i, s)
    BY <1>2 DEF ReleaseMutex, Free
  <2>2. priority' = [priority EXCEPT ![current] = basePriority[current]]
    BY DEF ReleaseMutex, RestorePriority
  <2> QED
    BY <2>1, <2>2, ReleaseHandOffKeeps DEF HandOff
<1> QED
  BY <1>1, <1>2

(* The running thread waits for the event, which is not signaled. *)
LEMMA WaitEventKeeps ==
  ASSUME IInv, Running, current # Idle,
         state' = [state EXCEPT ![current] = "BLOCKED"],
         ioWaiters' = Append(ioWaiters, current),
         reschedule' = TRUE,
         UNCHANGED <<threadCount, current, priority, ownedMutex, waitingMutex,
                     ready, mutexVars>>
  PROVE  RunKept
<1> USE DEF mutexVars
<1>1. /\ current \in Threads /\ state'[current] = "BLOCKED"
      /\ \A t \in Threads \ {current} : state'[t] = state[t]
  BY RunningThread DEF IInv, TypeOK
<1>2. /\ ioWaiters' \in Seq(Threads) /\ IsInjective(ioWaiters')
      /\ ToSet(ioWaiters') = ToSet(ioWaiters) \cup {current}
  <2>1. ioWaiters \in Seq(Threads) /\ IsInjective(ioWaiters)
    BY DEF IInv, TypeOK, WaitQueuesExact
  <2> QED
    BY <2>1, RunningThread, AppendKeeps
<1>3. RunTypes
  <2>1. state' \in [Threads -> ThreadStates]
    BY DEF IInv, TypeOK, ThreadStates
  <2> QED
    BY <1>2, <2>1 DEF IInv, TypeOK, RunTypes
<1>4. ReadyQueuesExact' /\ InQueue(ready)' = InQueue(ready)
  <2>1. \A u \in Created : state'[u] = "READY" <=> state[u] = "READY"
    BY <1>1, RunningThread, PriorityTypes DEF IInv
  <2> QED
    BY <2>1, ReadySameKeeps DEF IInv
<1>5. CurrentThreadExact'
  BY <1>1, <1>4, RunningThread DEF IInv, CurrentThreadExact
<1>6. WaitQueuesExact'
  <2>1. \A t \in Threads :
          /\ state'[t] = "BLOCKED" <=> waitingMutex'[t] # NULL \/ t \in ToSet(ioWaiters')
          /\ ~(waitingMutex'[t] # NULL /\ t \in ToSet(ioWaiters'))
    BY <1>1, <1>2, RunningThread DEF IInv, WaitQueuesExact
  <2> QED
    BY <1>2, <2>1 DEF IInv, WaitQueuesExact
<1>7. RunControl
  BY <1>1, RunningThread, PriorityTypes DEF IInv, ControlExact, RunControl
<1> QED
  BY <1>3, <1>4, <1>5, <1>6, <1>7 DEF RunKept

(* The I/O completion wakes the i-th waiter of the event; the thread that  *)
(* started the I/O goes on, or waits for the event in its turn.            *)
LEMMA WakeKeeps ==
  ASSUME IInv, Running, current # Idle,
         NEW i \in DOMAIN ioWaiters, NEW t, t = ioWaiters[i],
         NEW s \in {"RUNNING", "BLOCKED"},
         ioWaiters' = IF s = "BLOCKED" THEN Append(RemoveAt(ioWaiters, i), current)
                      ELSE RemoveAt(ioWaiters, i),
         state' = [state EXCEPT ![t] = "READY", ![current] = s],
         ready' = ReadyThread(ready, t, priority[t]),
         reschedule' \in BOOLEAN, s = "BLOCKED" => reschedule',
         UNCHANGED <<threadCount, current, priority, ownedMutex, waitingMutex,
                     mutexVars>>
  PROVE  RunKept
<1> USE DEF mutexVars
<1>1. /\ ioWaiters \in Seq(Threads) /\ IsInjective(ioWaiters)
      /\ current \in Threads /\ current \notin ToSet(ioWaiters)
      /\ t \in Threads /\ t \in ToSet(ioWaiters) /\ waitingMutex[t] = NULL
      /\ state[t] = "BLOCKED" /\ t \in Created /\ t # Idle
      /\ t # current /\ t \notin InQueue(ready)
  <2>1. ioWaiters \in Seq(Threads) /\ IsInjective(ioWaiters)
    BY DEF IInv, TypeOK, WaitQueuesExact
  <2>2. t \in Threads /\ t \in ToSet(ioWaiters)
    BY <2>1 DEF ToSet
  <2>3. waitingMutex[t] = NULL /\ state[t] = "BLOCKED"
    BY <2>2 DEF IInv, WaitQueuesExact
  <2> QED
    BY <2>1, <2>2, <2>3, RunningThread, WaitingThread
<1>2. /\ state'[t] = "READY" /\ state'[current] = s
      /\ \A u \in Threads \ {t, current} : state'[u] = state[u]
  BY <1>1 DEF IInv, TypeOK
<1>3. /\ ioWaiters' \in Seq(Threads) /\ IsInjective(ioWaiters')
      /\ ToSet(ioWaiters') = (ToSet(ioWaiters) \ {t})
                               \cup (IF s = "BLOCKED" THEN {current} ELSE {})
  <2> DEFINE w == RemoveAt(ioWaiters, i)
  <2>1. w \in Seq(Threads) /\ IsInjective(w) /\ ToSet(w) = ToSet(ioWaiters) \ {t}
    BY <1>1, RemoveAtKeeps
  <2>2. /\ Append(w, current) \in Seq(Threads) /\ IsInjective(Append(w, current))
        /\ ToSet(Append(w, current)) = ToSet(w) \cup {current}
    BY <1>1, <2>1, AppendKeeps
  <2> QED
    BY <2>1, <2>2
<1>4. /\ ready' \in ReadyQueueType /\ ReadyQueuesExact'
      /\ InQueue(ready)' = InQueue(ready) \cup {t}
  <2>1. priority' \in [Threads -> Priorities]
    BY PriorityTypes DEF IInv
  <2>2. \A u \in Created \ {t} : state'[u] = "READY" <=> state[u] = "READY"
    BY <1>2, RunningThread, PriorityTypes DEF IInv
  <2>3. Created' = Created /\ threadCount' \in Threads
    BY DEF Created, IInv, TypeOK
  <2> QED
    BY <1>1, <1>2, <2>1, <2>2, <2>3, ReadyOneKeeps DEF IInv
<1>5. RunTypes
  <2>1. state' \in [Threads -> ThreadStates]
    BY DEF IInv, TypeOK, ThreadStates
  <2> QED
    BY <1>3, <1>4, <2>1 DEF IInv, TypeOK, RunTypes
<1>6. CurrentThreadExact'
  BY <1>1, <1>2, <1>4, RunningThread DEF IInv, CurrentThreadExact
<1>7. WaitQueuesExact'
  <2>1. \A u \in Threads :
          /\ state'[u] = "BLOCKED" <=> waitingMutex'[u] # NULL \/ u \in ToSet(ioWaiters')
          /\ ~(waitingMutex'[u] # NULL /\ u \in ToSet(ioWaiters'))
    BY <1>1, <1>2, <1>3, RunningThread, ZenonT(40) DEF IInv, WaitQueuesExact
  <2> QED
    BY <1>3, <2>1 DEF IInv, WaitQueuesExact
<1>8. RunControl
  BY <1>1, <1>2, RunningThread, PriorityTypes DEF IInv, ControlExact, RunControl
<1> QED
  BY <1>4, <1>5, <1>6, <1>7, <1>8 DEF RunKept

(* A call of a routine that keeps its part of the invariant keeps it all. *)
LEMMA RunStep ==
  ASSUME IInv, Running, RunKept, AfterRun, RunUnchanged, current' = current,
         pc' \in [Threads -> Nat \ {0}], signaled' \in BOOLEAN
  PROVE  IInv'
<1>1. phase' \in {"boot", "reap"}
  BY DEF AfterRun
<1>2. threadCount' = threadCount /\ Created' = Created
  BY DEF RunUnchanged, tableVars, Created
<1>3. TypeOK'
  BY <1>1 DEF IInv, TypeOK, RunKept, RunTypes, RunUnchanged, tableVars, Phases
<1>4. ControlExact'
  BY <1>1, <1>2, RunningThread, NullAssumption DEF RunKept, RunControl, ControlExact
<1> QED
  BY <1>3, <1>4 DEF IInv, RunKept

(* Every call of the current thread's routine preserves the invariant. *)
LEMMA RunThreadKeeps ==
  ASSUME IInv, RunThread
  PROVE  IInv'
<1>1. Running
  BY DEF RunThread, IdleThread, Work, Exit, StartIo, WaitEvent, StartIoAndWait,
         Hold, AcquireFree, AcquireBlocked, Release, ReleaseAndExit, Calls
<1>2. /\ current \in Threads /\ pc \in [Threads -> Nat \ {0}]
      /\ Advance => pc' \in [Threads -> Nat \ {0}]
  <2>1. current \in Threads /\ pc \in [Threads -> Nat \ {0}]
    BY <1>1, RunningThread DEF IInv, TypeOK
  <2>2. pc[current] + 1 \in Nat \ {0}
    BY <2>1
  <2> QED
    BY <2>1, <2>2 DEF Advance
<1>3. /\ signaled \in BOOLEAN
      /\ ownedMutex \in [Threads -> Mutexes \cup {NULL}]
      /\ owner \in [Mutexes -> Threads \cup {NULL}]
      /\ refCount \in [Mutexes -> Int]
  BY DEF IInv, TypeOK
<1>4. CASE IdleThread
  <2>1. RunKept
    BY <1>1, <1>3, <1>4, QuietKeeps
       DEF IdleThread, RunUnchanged, tableVars, mutexVars, eventVars
  <2> QED
    BY <1>1, <1>2, <1>3, <1>4, <2>1, RunStep DEF IdleThread, eventVars
<1>5. CASE Work
  <2>1. RunKept
    BY <1>1, <1>3, <1>5, QuietKeeps
       DEF Work, RunUnchanged, tableVars, mutexVars, eventVars
  <2> QED
    BY <1>1, <1>2, <1>3, <1>5, <2>1, RunStep DEF Work, eventVars
<1>6. ASSUME NEW m \in Mutexes, Hold(m) PROVE IInv'
  <2>1. refCount' \in [Mutexes -> Int]
    <3>1. refCount[m] + 1 \in Int
      BY <1>3
    <3> QED
      BY <1>3, <1>6, <3>1 DEF Hold
  <2>2. RunKept
    BY <1>1, <1>3, <1>6, <2>1, QuietKeeps
       DEF Hold, RunUnchanged, tableVars, eventVars
  <2> QED
    BY <1>1, <1>2, <1>3, <1>6, <2>2, RunStep DEF Hold, eventVars
<1>7. ASSUME NEW m \in Mutexes, AcquireFree(m) PROVE IInv'
  <2>1. /\ ownedMutex' \in [Threads -> Mutexes \cup {NULL}]
        /\ owner' \in [Mutexes -> Threads \cup {NULL}]
        /\ \A o \in Mutexes : owner'[o] = NULL => owner[o] = NULL
    BY <1>2, <1>3, <1>7 DEF AcquireFree
  <2>2. RunKept
    BY <1>1, <1>3, <1>7, <2>1, QuietKeeps
       DEF AcquireFree, RunUnchanged, tableVars, eventVars
  <2> QED
    BY <1>1, <1>2, <1>3, <1>7, <2>2, RunStep DEF AcquireFree, eventVars
<1>8. ASSUME NEW m \in Mutexes, AcquireBlocked(m) PROVE IInv'
  <2>1. RunKept
    BY <1>1, <1>8, AcquireBlockedKeeps
       DEF AcquireBlocked, Calls, RunUnchanged, tableVars, eventVars
  <2> QED
    BY <1>1, <1>2, <1>3, <1>8, <2>1, RunStep DEF AcquireBlocked, eventVars
<1>9. ASSUME NEW m \in Mutexes, Release(m) PROVE IInv'
  <2>1. RunKept
    BY <1>1, <1>9, ReleaseKeeps
       DEF Release, Calls, RunUnchanged, tableVars, eventVars
  <2> QED
    BY <1>1, <1>2, <1>3, <1>9, <2>1, RunStep DEF Release, eventVars
<1>10. ASSUME NEW m \in Mutexes, ReleaseAndExit(m) PROVE IInv'
  <2>1. RunKept
    BY <1>1, <1>10, ReleaseKeeps
       DEF ReleaseAndExit, Calls, RunUnchanged, tableVars, eventVars
  <2> QED
    BY <1>1, <1>2, <1>3, <1>10, <2>1, RunStep DEF ReleaseAndExit, eventVars
<1>11. CASE Exit
  <2>1. CASE ownedMutex[current] # NULL
    <3>1. RunKept
      BY <1>1, <1>2, <1>3, <1>11, <2>1, ReleaseKeeps
         DEF Exit, Calls, RunUnchanged, tableVars, eventVars
    <3> QED
      BY <1>1, <1>2, <1>3, <1>11, <3>1, RunStep DEF Exit, eventVars
  <2>2. CASE ownedMutex[current] = NULL
    <3>1. RunKept
      BY <1>1, <1>11, <2>2, ExitKeeps
         DEF Exit, Calls, RunUnchanged, tableVars, eventVars
    <3> QED
      BY <1>1, <1>2, <1>3, <1>11, <3>1, RunStep DEF Exit, eventVars
  <2> QED
    BY <2>1, <2>2
<1>12. CASE StartIo
  <2> USE DEF EventUnchanged
  <2>1. CASE /\ ioWaiters = <<>> /\ signaled' = TRUE
             /\ UNCHANGED <<state, reschedule, ready, ioWaiters>>
    <3>1. RunKept
      BY <1>1, <1>3, <1>12, <2>1, QuietKeeps
         DEF StartIo, RunUnchanged, tableVars, mutexVars
    <3> QED
      BY <1>1, <1>2, <1>12, <2>1, <3>1, RunStep DEF StartIo
  <2>2. ASSUME NEW i \in DOMAIN ioWaiters,
               ioWaiters' = RemoveAt(ioWaiters, i),
               state' = [state EXCEPT ![ioWaiters[i]] = "READY"],
               ready' = ReadyThread(ready, ioWaiters[i], priority[ioWaiters[i]]),
               reschedule' = Preempts(priority[ioWaiters[i]], priority[current]),
               signaled' = FALSE
        PROVE  IInv'
    <3>1. reschedule' \in BOOLEAN
      BY <2>2 DEF Preempts, IInv, TypeOK
    <3>2. state' = [state EXCEPT ![ioWaiters[i]] = "READY", ![current] = "RUNNING"]
      <4>1. state \in [Threads -> ThreadStates] /\ state[current] = "RUNNING"
        BY <1>1, RunningThread DEF IInv, TypeOK
      <4>2. ioWaiters[i] # current
        BY <1>1, RunningThread DEF ToSet
      <4> QED
        BY <2>2, <4>1, <4>2
    <3>3. RunKept
      BY <1>1, <1>12, <2>2, <3>1, <3>2, WakeKeeps
         DEF StartIo, Calls, RunUnchanged, tableVars
    <3> QED
      BY <1>1, <1>2, <1>12, <2>2, <3>3, RunStep DEF StartIo
  <2> QED
    BY <1>12, <2>1, <2>2 DEF StartIo
<1>13. CASE WaitEvent
  <2> USE DEF EventUnchanged
  <2>1. RunKept
    <3>1. CASE signaled
      BY <1>1, <1>3, <1>13, <3>1, QuietKeeps
         DEF WaitEvent, RunUnchanged, tableVars, mutexVars
    <3>2. CASE ~signaled
      BY <1>1, <1>13, <3>2, WaitEventKeeps
         DEF WaitEvent, Calls, RunUnchanged, tableVars
    <3> QED
      BY <3>1, <3>2
  <2> QED
    BY <1>1, <1>2, <1>13, <2>1, RunStep DEF WaitEvent
<1>14. CASE StartIoAndWait
  <2> USE DEF EventUnchanged
  <2>1. CASE ioWaiters = <<>> /\ UNCHANGED <<state, reschedule, ready, ioWaiters>>
    <3>1. RunKept
      BY <1>1, <1>3, <1>14, <2>1, QuietKeeps
         DEF StartIoAndWait, RunUnchanged, tableVars, mutexVars
    <3> QED
      BY <1>1, <1>2, <1>14, <3>1, RunStep DEF StartIoAndWait
  <2>2. ASSUME NEW i \in DOMAIN ioWaiters,
               ioWaiters' = Append(RemoveAt(ioWaiters, i), current),
               state' = [state EXCEPT ![ioWaiters[i]] = "READY", ![current] = "BLOCKED"],
               ready' = ReadyThread(ready, ioWaiters[i], priority[ioWaiters[i]]),
               reschedule' = TRUE
        PROVE  IInv'
    <3>1. RunKept
      BY <1>1, <1>14, <2>2, WakeKeeps
         DEF StartIoAndWait, Calls, RunUnchanged, tableVars
    <3> QED
      BY <1>1, <1>2, <1>14, <3>1, RunStep DEF StartIoAndWait
  <2> QED
    BY <1>14, <2>1, <2>2 DEF StartIoAndWait
<1> QED
  BY <1>4, <1>5, <1>6, <1>7, <1>8, <1>9, <1>10, <1>11, <1>12, <1>13, <1>14
     DEF RunThread

----------------------------------------------------------------------------
(* The other steps of main *)

(* The invariant holds when main has created the idle thread. *)
LEMMA InitInvariant == Init => IInv
<1> SUFFICES ASSUME Init PROVE IInv
  OBVIOUS
<1>1. /\ 1 \in Threads /\ QUANTUM \in 1..QUANTUM /\ IdlePriority \in 0..(MAX_PRIORITY - 2)
      /\ NULL \notin Threads /\ Created = {Idle} /\ UserThreads = {}
  BY SizeAssumption, PriorityAssumption, NullAssumption
     DEF Init, Threads, Created, UserThreads, Idle
<1>2. \A S : <<>> \in Seq(S)
  OBVIOUS
<1>3. EmptyReady \in ReadyQueueType
  BY <1>2 DEF EmptyReady, ReadyQueueType
<1>4. /\ InQueue(ready) = {}
      /\ \A p \in Priorities : ready.queues[p] = <<>>
  <2>1. \A p \in Priorities : ready.queues[p] = <<>>
    BY DEF Init, EmptyReady
  <2> QED
    BY <2>1 DEF InQueue, ToSet
<1>5. WellFormed(ready, priority)
  BY <1>4 DEF Init, EmptyReady, WellFormed, ToSet, IsInjective
<1>6. TypeOK
  <2>1. /\ phase \in Phases /\ bootRuns \in Nat /\ threadCount \in Threads
        /\ current \in Threads \cup {NULL} /\ reschedule \in BOOLEAN
        /\ signaled \in BOOLEAN /\ exist \in BOOLEAN
    BY <1>1 DEF Init, Phases
  <2>2. /\ priority \in [Threads -> 0..(MAX_PRIORITY - 2)]
        /\ basePriority \in [Threads -> 0..(MAX_PRIORITY - 2)]
        /\ quantum \in [Threads -> 1..QUANTUM]
        /\ ownedMutex \in [Threads -> Mutexes \cup {NULL}]
        /\ waitingMutex \in [Threads -> Mutexes \cup {NULL}]
    BY <1>1 DEF Init
  <2>3. routine \in [Threads -> Routines \cup {<<>>}]
    BY DEF Init
  <2>4. pc \in [Threads -> Nat \ {0}] /\ state \in [Threads -> ThreadStates]
    BY DEF Init, ThreadStates
  <2>5. owner \in [Mutexes -> Threads \cup {NULL}] /\ refCount \in [Mutexes -> Int]
    BY DEF Init
  <2>6. waiters \in [Mutexes -> Seq(Threads)] /\ ioWaiters \in Seq(Threads)
    BY <1>2 DEF Init
  <2> QED
    BY <1>3, <2>1, <2>2, <2>3, <2>4, <2>5, <2>6 DEF Init, TypeOK
<1>7. ReadyQueuesExact
  BY <1>1, <1>4, <1>5 DEF ReadyQueuesExact
<1>8. CurrentThreadExact
  BY DEF Init, CurrentThreadExact
<1>9. WaitQueuesExact
  BY NullAssumption DEF Init, WaitQueuesExact, ToSet, IsInjective
<1>10. ControlExact
  BY <1>1, NullAssumption DEF Init, ControlExact, Idle
<1> QED
  BY <1>6, <1>7, <1>8, <1>9, <1>10 DEF IInv

(* CreateThread queues the new thread. *)
LEMMA CreateThreadKeeps ==
  ASSUME IInv, NEW r \in Routines, NEW p \in UserPriorities, CreateThread(r, p)
  PROVE  IInv'
<1> DEFINE t == threadCount + 1
<1>1. /\ t \in Threads /\ threadCount' = t /\ p \in 0..(MAX_PRIORITY - 2)
      /\ threadCount \in Nat /\ 1 \in Created
  BY PriorityTypes, PriorityAssumption DEF CreateThread, IInv, Idle
<1>2. Created' = Created \cup {t} /\ t \notin Created /\ t # Idle
  BY <1>1 DEF Created, Idle
<1>3. /\ priority' \in [Threads -> 0..(MAX_PRIORITY - 2)] /\ priority'[t] = p
      /\ \A u \in Threads \ {t} : priority'[u] = priority[u]
  BY <1>1 DEF CreateThread, IInv, TypeOK
<1>4. state[t] = "READY" /\ t \notin InQueue(ready)
  BY <1>1, <1>2, QueuedIsReady DEF IInv, ControlExact
<1>5. ready' \in ReadyQueueType /\ ReadyQueuesExact' /\ InQueue(ready)' = InQueue(ready) \cup {t}
  <2>1. priority' \in [Threads -> Priorities]
    BY <1>3, SizeAssumption DEF Priorities
  <2>2. \A u \in InQueue(ready) : priority'[u] = priority[u]
    BY <1>3, <1>4, QueuedIsReady DEF IInv
  <2>3. ready' = ReadyThread(ready, t, priority'[t]) /\ state' = state
    BY <1>3 DEF CreateThread
  <2> HIDE DEF t
  <2> QED
    BY <1>1, <1>2, <1>4, <2>1, <2>2, <2>3, ReadyOneKeeps DEF IInv
<1>6. TypeOK'
  <2>1. reschedule' \in BOOLEAN
    BY DEF CreateThread, IInv, TypeOK, Preempts
  <2>2. basePriority' \in [Threads -> 0..(MAX_PRIORITY - 2)]
    BY <1>1 DEF CreateThread, IInv, TypeOK
  <2>3. routine' \in [Threads -> Routines \cup {<<>>}]
    BY <1>1 DEF CreateThread, IInv, TypeOK
  <2> QED
    BY <1>1, <1>3, <1>5, <2>1, <2>2, <2>3
       DEF CreateThread, IInv, TypeOK, mutexVars, eventVars
<1>7. CurrentThreadExact'
  BY <1>2, <1>5 DEF CreateThread, IInv, CurrentThreadExact, ControlExact
<1>8. WaitQueuesExact'
  BY WaitSameKeeps DEF CreateThread, IInv, mutexVars, eventVars
<1>9. ControlExact'
  BY <1>2 DEF CreateThread, IInv, ControlExact, Preempts
<1> QED
  BY <1>5, <1>6, <1>7, <1>8, <1>9 DEF IInv

(* A step of main that changes no thread state and no queue. *)
LEMMA MainStepKeeps ==
  ASSUME IInv, TypeOK', phase' \notin {"bootRun", "run"},
         phase' = "boot" \/ current # NULL \/ reschedule,
         UNCHANGED <<threadCount, state, priority, waitingMutex, current, reschedule,
                     ready, owner, waiters, ioWaiters>>
  PROVE  IInv'
<1>1. Created' = Created
  BY DEF Created
<1>2. ReadyQueuesExact' /\ InQueue(ready)' = InQueue(ready)
  BY ReadySameKeeps DEF IInv
<1>3. CurrentThreadExact' /\ WaitQueuesExact'
  BY <1>2 DEF IInv, CurrentThreadExact, WaitQueuesExact
<1>4. ControlExact'
  BY <1>1 DEF IInv, ControlExact
<1> QED
  BY <1>2, <1>3, <1>4 DEF IInv

(* The expiry of the quantum queues the current thread again. *)
LEMMA QuantumExpiredKeeps ==
  ASSUME IInv, QuantumExpired
  PROVE  IInv'
<1>1. /\ current \in Threads /\ current \in Created /\ current # Idle
      /\ state[current] = "RUNNING" /\ current \notin InQueue(ready)
      /\ QUANTUM \in 1..QUANTUM
  <2>1. current \in Threads /\ current # Idle /\ state[current] = "RUNNING"
    BY DEF QuantumExpired, Charged, IInv, TypeOK
  <2>2. QUANTUM \in 1..QUANTUM
    BY SizeAssumption
  <2> QED
    BY <2>1, <2>2, UnqueuedStates
<1>2. /\ state'[current] = "READY" /\ current' = NULL
      /\ \A t \in Threads \ {current} : state'[t] = state[t] /\ state[t] # "RUNNING"
  BY <1>1 DEF QuantumExpired, IInv, TypeOK, CurrentThreadExact
<1>3. Created' = Created /\ threadCount' \in Threads /\ priority' = priority
  BY DEF QuantumExpired, TimerUnchanged, tableVars, Created, IInv, TypeOK
<1>4. ready' \in ReadyQueueType /\ ReadyQueuesExact'
  <2>1. /\ priority' \in [Threads -> Priorities]
        /\ \A u \in Created \ {current} : state'[u] = "READY" <=> state[u] = "READY"
        /\ ready' = ReadyThread(ready, current, priority'[current])
    BY <1>2, <1>3, PriorityTypes DEF IInv, QuantumExpired
  <2> QED
    BY <1>1, <1>2, <1>3, <2>1, ReadyOneKeeps DEF IInv
<1>5. TypeOK'
  <2>1. state' \in [Threads -> ThreadStates]
    BY DEF QuantumExpired, IInv, TypeOK, ThreadStates
  <2>2. quantum' \in [Threads -> 1..QUANTUM]
    BY <1>1 DEF QuantumExpired, IInv, TypeOK
  <2> QED
    BY <1>4, <2>1, <2>2 DEF QuantumExpired, TimerUnchanged, IInv, TypeOK, Phases,
                            tableVars, mutexVars, eventVars
<1>6. CurrentThreadExact'
  BY <1>1, <1>2 DEF CurrentThreadExact
<1>7. WaitQueuesExact'
  <2>1. \A u \in Threads : state'[u] = "BLOCKED" <=> state[u] = "BLOCKED"
    BY <1>1, <1>2
  <2> QED
    BY <2>1, WaitSameKeeps DEF IInv, QuantumExpired, TimerUnchanged, mutexVars, eventVars
<1>8. ControlExact'
  <2>1. phase' = "dispatch" /\ reschedule' = TRUE /\ Idle \in Threads
    BY PriorityTypes DEF QuantumExpired, IInv
  <2> QED
    BY <1>1, <1>2, <1>3, <2>1, NullAssumption DEF IInv, ControlExact
<1> QED
  BY <1>4, <1>5, <1>6, <1>7, <1>8 DEF IInv

(* A dispatch: main runs the thread Schedule has switched to. *)
LEMMA DispatchKeeps ==
  ASSUME IInv, Schedule, phase' \in {"bootRun", "run"}, bootRuns' \in Nat,
         reschedule' \in BOOLEAN,
         UNCHANGED <<tableVars, pc, priority, quantum, ownedMutex, waitingMutex,
                     mutexVars, eventVars, exist>>
  PROVE  IInv'
<1> USE DEF tableVars, mutexVars, eventVars
<1>1. Dispatched
  BY ScheduleKeeps DEF ScheduleUnchanged
<1>2. Created' = Created /\ Created \subseteq Threads
  BY PriorityTypes DEF Created, IInv
<1>3. TypeOK'
  BY <1>1, <1>2 DEF Dispatched, IInv, TypeOK, Phases
<1>4. ControlExact'
  BY <1>1, <1>2, NullAssumption DEF Dispatched, ControlExact
<1> QED
  BY <1>1, <1>3, <1>4 DEF Dispatched, IInv

----------------------------------------------------------------------------
(* The theorems *)

(* The invariant is inductive: every step of main preserves it. *)
LEMMA NextInvariant == IInv /\ [Next]_vars => IInv'
<1> SUFFICES ASSUME IInv, [Next]_vars PROVE IInv'
  OBVIOUS
<1> USE DEF tableVars, threadVars, mutexVars, eventVars
<1>1. CASE BootSchedule
  <2>1. phase' = "bootRun" /\ bootRuns' \in Nat
    BY <1>1 DEF BootSchedule, IInv, TypeOK
  <2> QED
    BY <1>1, <2>1, DispatchKeeps DEF BootSchedule, IInv, TypeOK
<1>2. CASE StartLoop
  <2>1. TypeOK'
    BY <1>2 DEF StartLoop, IInv, TypeOK, Phases
  <2> QED
    BY <1>2, <2>1, MainStepKeeps DEF StartLoop
<1>3. CASE \E r \in Routines, p \in UserPriorities : CreateThread(r, p)
  BY <1>3, CreateThreadKeeps
<1>4. CASE TimerIgnored
  <2>1. TypeOK'
    BY <1>4 DEF TimerIgnored, TimerUnchanged, IInv, TypeOK, Phases
  <2> QED
    BY <1>4, <2>1, MainStepKeeps DEF TimerIgnored, TimerUnchanged, IInv, ControlExact, Charged
<1>5. CASE TimerCharged
  <2>1. quantum' \in [Threads -> 1..QUANTUM]
    <3>1. current \in Threads /\ quantum[current] - 1 \in 1..QUANTUM
      BY <1>5, SizeAssumption DEF TimerCharged, Charged, IInv, TypeOK
    <3> QED
      BY <1>5, <3>1 DEF TimerCharged, IInv, TypeOK
  <2>2. TypeOK'
    BY <1>5, <2>1 DEF TimerCharged, TimerUnchanged, IInv, TypeOK, Phases
  <2> QED
    BY <1>5, <2>2, MainStepKeeps DEF TimerCharged, Charged, TimerUnchanged
<1>6. CASE QuantumExpired
  BY <1>6, QuantumExpiredKeeps
<1>7. CASE DispatchNothing
  <2>1. phase' = "run" /\ ~reschedule
    BY <1>7 DEF DispatchNothing
  <2>2. TypeOK'
    BY <1>7 DEF DispatchNothing, DispatchUnchanged, IInv, TypeOK, Phases
  <2>3. ReadyQueuesExact' /\ InQueue(ready)' = InQueue(ready)
    BY <1>7, ReadySameKeeps DEF DispatchNothing, DispatchUnchanged, IInv
  <2>4. CurrentThreadExact' /\ WaitQueuesExact'
    BY <1>7, <2>3 DEF DispatchNothing, DispatchUnchanged, IInv, CurrentThreadExact,
                      WaitQueuesExact
  <2>5. ControlExact'
    BY <1>7, <2>1 DEF DispatchNothing, DispatchUnchanged, IInv, ControlExact, Created
  <2> QED
    BY <2>2, <2>3, <2>4, <2>5 DEF IInv
<1>8. CASE Dispatch
  BY <1>8, DispatchKeeps DEF Dispatch, DispatchUnchanged, IInv, TypeOK
<1>9. CASE RunThread
  BY <1>9, RunThreadKeeps
<1>10. CASE Reap
  <2>1. refCount' \in [Mutexes -> Int] /\ exist' \in BOOLEAN
    <3>1. refCount \in [Mutexes -> Int] /\ exist \in BOOLEAN
      BY DEF IInv, TypeOK
    <3>2. \A m \in Mutexes : refCount[m] - 1 \in Int
      BY <3>1
    <3> QED
      BY <1>10, <3>1, <3>2 DEF Reap
  <2>2. TypeOK'
    BY <1>10, <2>1 DEF Reap, IInv, TypeOK, Phases
  <2>3. current # NULL \/ reschedule
    BY <1>10 DEF Reap, IInv, ControlExact
  <2> QED
    BY <1>10, <2>2, <2>3, MainStepKeeps DEF Reap
<1>11. CASE UNCHANGED vars
  BY <1>11 DEF vars, IInv, TypeOK, ReadyQueuesExact, CurrentThreadExact,
               WaitQueuesExact, ControlExact, Created, UserThreads
<1> QED
  BY <1>1, <1>2, <1>3, <1>4, <1>5, <1>6, <1>7, <1>8, <1>9, <1>10, <1>11
     DEF Next, Boot, Timer

(* The inductive invariant holds in every state of every execution of main.*)
THEOREM Invariant == Spec => []IInv
BY InitInvariant, NextInvariant, PTL DEF Spec

(* Types: a priority always names a ready queue below the top one, however *)
(* threads are boosted, and the time slice of a thread is never used up.   *)
THEOREM TypeCorrect == Spec => []TypeOK
<1>1. IInv => TypeOK
  BY DEF IInv
<1> QED
  BY <1>1, Invariant, PTL

(* Schedule, CheckPreemption, boosts, hand-offs, wake-ups and terminations *)
(* keep the ready queues and their bitmap exact: they hold the READY user  *)
(* threads, each once and under its current priority, and nothing else.    *)
THEOREM ReadyQueuesCorrect == Spec => []ReadyQueuesExact
<1>1. IInv => ReadyQueuesExact
  BY DEF IInv
<1> QED
  BY <1>1, Invariant, PTL

(* At most one thread is RUNNING, it is current_thread, and it is never    *)
(* queued, so the early return of Schedule loses no thread.                *)
THEOREM CurrentThreadCorrect == Spec => []CurrentThreadExact
<1>1. IInv => CurrentThreadExact
  BY DEF IInv
<1> QED
  BY <1>1, Invariant, PTL

(* BLOCKED threads, waiting_mutex and the wait queues agree, and only a    *)
(* locked mutex has waiters.                                               *)
THEOREM WaitQueuesCorrect == Spec => []WaitQueuesExact
<1>1. IInv => WaitQueuesExact
  BY DEF IInv
<1> QED
  BY <1>1, Invariant, PTL

(* A reschedule is pending whenever the current thread cannot run, so main *)
(* never goes round its loop with a blocked or dead current thread.        *)
THEOREM RescheduleCorrect == Spec => []NoLostReschedule
<1>1. IInv => NoLostReschedule
  BY DEF IInv, ControlExact, NoLostReschedule
<1> QED
  BY <1>1, Invariant, PTL

----------------------------------------------------------------------------
(* What a step may never do *)

(* Ownership changes in AcquireFree and in the services that release. *)
LEMMA OwnerChanges ==
  ASSUME [Next]_vars, NEW m \in Mutexes, owner[m] # NULL, owner \in [Mutexes -> Threads \cup {NULL}],
         owner'[m] # owner[m]
  PROVE  \E n \in Mutexes, s \in {"RUNNING", "TERMINATED"} : ReleaseMutex(n, s) /\ Running
<1> USE DEF mutexVars, vars
<1>1. RunThread
  BY DEF Next, Boot, Timer, BootSchedule, StartLoop, CreateThread, TimerIgnored,
         TimerCharged, QuantumExpired, TimerUnchanged, DispatchNothing, Dispatch,
         DispatchUnchanged, Reap
<1>2. ~IdleThread /\ ~Work /\ ~StartIo /\ ~WaitEvent /\ ~StartIoAndWait
  BY DEF IdleThread, Work, StartIo, WaitEvent, StartIoAndWait, EventUnchanged
<1>3. \A n \in Mutexes : ~Hold(n) /\ ~AcquireFree(n) /\ ~AcquireBlocked(n)
  BY DEF Hold, AcquireFree, AcquireBlocked
<1>4. CASE Exit
  <2>1. ownedMutex[current] # NULL /\ ReleaseMutex(ownedMutex[current], "TERMINATED")
    BY <1>4 DEF Exit
  <2>2. ownedMutex[current] \in Mutexes
    BY <2>1 DEF ReleaseMutex, Free, HandOff
  <2> QED
    BY <1>4, <2>1, <2>2 DEF Exit, Calls
<1> QED
  BY <1>1, <1>2, <1>3, <1>4 DEF RunThread, Release, ReleaseAndExit, Calls

(* A mutex changes hands only by hand-off to a waiter of top priority, and *)
(* becomes free only when nobody waits: no thread can slip in between.     *)
THEOREM HandOffCorrect == Spec => HandOffToWaiter
<1> DEFINE A == \A m \in Mutexes : owner[m] # NULL /\ owner'[m] # owner[m] =>
                  IF owner'[m] = NULL THEN waiters[m] = <<>>
                  ELSE /\ owner'[m] \in ToSet(waiters[m])
                       /\ \A t \in ToSet(waiters[m]) : priority[t] <= priority[owner'[m]]
<1>1. ASSUME IInv, [Next]_vars PROVE A
  <2> SUFFICES ASSUME NEW m \in Mutexes, owner[m] # NULL, owner'[m] # owner[m]
               PROVE  IF owner'[m] = NULL THEN waiters[m] = <<>>
                      ELSE /\ owner'[m] \in ToSet(waiters[m])
                           /\ \A t \in ToSet(waiters[m]) :
                                priority[t] <= priority[owner'[m]]
    OBVIOUS
  <2>1. owner \in [Mutexes -> Threads \cup {NULL}]
    BY <1>1 DEF IInv, TypeOK
  <2>2. PICK n \in Mutexes, s \in {"RUNNING", "TERMINATED"} : ReleaseMutex(n, s)
    BY <1>1, <2>1, OwnerChanges
  <2>3. n = m
    BY <2>1, <2>2 DEF ReleaseMutex, Free, HandOff
  <2>4. \/ waiters[m] = <<>> /\ owner'[m] = NULL
        \/ \E i \in DOMAIN waiters[m] :
             IsBest(waiters[m], i) /\ owner'[m] = waiters[m][i]
    BY <2>1, <2>2, <2>3 DEF ReleaseMutex, Free, HandOff
  <2>5. ASSUME NEW i \in DOMAIN waiters[m], IsBest(waiters[m], i),
               owner'[m] = waiters[m][i]
        PROVE  /\ owner'[m] \in ToSet(waiters[m]) /\ owner'[m] # NULL
               /\ \A t \in ToSet(waiters[m]) : priority[t] <= priority[owner'[m]]
    <3>1. waiters[m] \in Seq(Threads)
      BY <1>1 DEF IInv, TypeOK
    <3>2. owner'[m] \in Threads /\ owner'[m] # NULL
      BY <2>5, <3>1, NullAssumption
    <3> QED
      BY <2>5, <3>2 DEF IsBest, ToSet
  <2> QED
    BY <2>4, <2>5
<1>2. IInv /\ [Next]_vars => [A]_vars
  BY <1>1
<1> QED
  BY <1>2, Invariant, PTL DEF Spec, HandOffToWaiter

(* BoostPriorityChain raises priorities: it reaches only threads below the *)
(* new one.                                                                *)
LEMMA BoostRaises ==
  ASSUME TypeOK, NEW t \in Threads, NEW n \in Nat, BoostPriorityChain(t, n),
         NEW u \in Threads
  PROVE  priority'[u] >= priority[u]
<1>1. priority \in [Threads -> Nat]
  BY SizeAssumption DEF TypeOK
<1> DEFINE S == {v \in Threads : v \in Boosted(t, n) /\ priority[v] < n}
<1>2. ChainClosed(Boosted(t, n), t, n)
  BY BoostedLeast
<1>3. \A v \in Threads : NextOwner(v) # NULL => NextOwner(v) \in Threads
  BY DEF TypeOK, NextOwner
<1>4. ChainClosed(S, t, n) /\ S \in SUBSET Threads
  BY <1>2, <1>3 DEF ChainClosed
<1>5. Boosted(t, n) \subseteq S
  BY <1>4, BoostedLeast
<1>6. priority'[u] = IF u \in Boosted(t, n) THEN n ELSE priority[u]
  BY DEF BoostPriorityChain
<1> QED
  BY <1>1, <1>5, <1>6

(* No service lowers the priority of a thread but the one in which that    *)
(* thread itself gives up a mutex, and then to its base priority.          *)
THEOREM PriorityFallCorrect == Spec => PriorityFallsOnRelease
<1> DEFINE A == \A t \in Created : priority'[t] < priority[t] =>
                  /\ t = current /\ priority'[t] = basePriority[t]
                  /\ \E m \in Mutexes : owner[m] = t /\ owner'[m] # t
<1>1. ASSUME IInv, [Next]_vars PROVE A
  <2> SUFFICES ASSUME NEW t \in Created, priority'[t] < priority[t]
               PROVE  /\ t = current /\ priority'[t] = basePriority[t]
                      /\ \E m \in Mutexes : owner[m] = t /\ owner'[m] # t
    OBVIOUS
  <2> USE DEF mutexVars, tableVars, threadVars, vars
  <2>1. /\ t \in Threads /\ priority[t] \in Nat /\ priority \in [Threads -> Nat]
        /\ threadCount \in Nat
    BY <1>1, PriorityTypes, SizeAssumption DEF IInv, TypeOK
  <2>2. priority' # priority
    BY <2>1
  <2>3. CASE \E r \in Routines, p \in UserPriorities : CreateThread(r, p)
    <3>1. t # threadCount + 1
      BY <2>1 DEF Created
    <3> QED
      BY <2>1, <2>3, <3>1 DEF CreateThread
  <2>4. ASSUME NEW m \in Mutexes, AcquireBlocked(m) PROVE FALSE
    <3>1. /\ owner[m] \in Threads /\ priority[current] \in Nat
          /\ BoostPriorityChain(owner[m], priority[current])
      BY <1>1, <2>1, <2>4, RunningThread DEF AcquireBlocked, Calls, IInv, TypeOK
    <3>2. priority'[t] >= priority[t]
      BY <1>1, <2>1, <3>1, BoostRaises DEF IInv
    <3>3. priority'[t] \in Nat
      BY <2>1, <3>1 DEF BoostPriorityChain
    <3> QED
      BY <2>1, <3>2, <3>3
  <2>5. ASSUME NEW m, NEW s, ReleaseMutex(m, s), Running, m \in Mutexes
        PROVE  /\ t = current /\ priority'[t] = basePriority[t]
               /\ \E o \in Mutexes : owner[o] = t /\ owner'[o] # t
    <3>1. current \in Threads
      BY <1>1, <2>5, RunningThread
    <3>2. priority' = [priority EXCEPT ![current] = basePriority[current]]
      BY <2>5 DEF ReleaseMutex, RestorePriority
    <3>3. t = current /\ priority'[t] = basePriority[t]
      BY <2>1, <3>1, <3>2
    <3>4. owner[m] = current /\ owner'[m] # current
      <4>1. owner \in [Mutexes -> Threads \cup {NULL}]
        BY <1>1 DEF IInv, TypeOK
      <4>2. \A next \in ToSet(waiters[m]) : next # current
        BY <1>1, <2>5, RunningThread, NullAssumption DEF IInv, WaitQueuesExact
      <4> QED
        BY <2>5, <3>1, <4>1, <4>2, NullAssumption DEF ReleaseMutex, Free, HandOff, ToSet
    <3> QED
      BY <2>5, <3>3, <3>4
  <2>6. CASE Exit
    <3>1. ownedMutex[current] # NULL /\ ReleaseMutex(ownedMutex[current], "TERMINATED")
      BY <2>2, <2>6 DEF Exit
    <3>2. Running /\ ownedMutex[current] \in Mutexes
      BY <1>1, <2>6, <3>1, RunningThread DEF Exit, Calls, IInv, TypeOK
    <3> QED
      BY <2>5, <3>1, <3>2
  <2>7. RunThread \/ \E r \in Routines, p \in UserPriorities : CreateThread(r, p)
    BY <1>1, <2>2
       DEF Next, Boot, Timer, BootSchedule, StartLoop, TimerIgnored, TimerCharged,
           QuantumExpired, TimerUnchanged, DispatchNothing, Dispatch,
           DispatchUnchanged, Reap
  <2>8. /\ ~IdleThread /\ ~Work /\ ~StartIo /\ ~WaitEvent /\ ~StartIoAndWait
        /\ \A m \in Mutexes : ~Hold(m) /\ ~AcquireFree(m)
    BY <2>2 DEF IdleThread, Work, StartIo, WaitEvent, StartIoAndWait, EventUnchanged,
                Hold, AcquireFree
  <2>9. ASSUME NEW m \in Mutexes, Release(m) \/ ReleaseAndExit(m)
        PROVE  Running /\ \E s \in {"RUNNING", "TERMINATED"} : ReleaseMutex(m, s)
    BY <2>9 DEF Release, ReleaseAndExit, Calls
  <2> QED
    BY <2>3, <2>4, <2>5, <2>6, <2>7, <2>8, <2>9 DEF RunThread
<1>2. IInv /\ [Next]_vars => [A]_vars
  BY <1>1
<1> QED
  BY <1>2, Invariant, PTL DEF Spec, PriorityFallsOnRelease

----------------------------------------------------------------------------
(* The kinds of steps, as the mutexes see them *)

DeadSame == \A t \in Threads : state'[t] = "TERMINATED" <=> state[t] = "TERMINATED"

MutexSame == UNCHANGED <<tableVars, priority, ownedMutex, waitingMutex, owner, waiters>>

(* Nothing of it moves. *)
Quiet == MutexSame /\ pc' = pc /\ DeadSame

(* A thread that owns no mutex that it knows of dies. *)
Dies ==
  /\ Calls("exit", NULL) /\ ownedMutex[current] = NULL
  /\ state' = [state EXCEPT ![current] = "TERMINATED"]
  /\ MutexSame /\ pc' = pc

(* The current thread passes a step that is about no mutex. *)
Passes ==
  /\ Running /\ current # Idle
  /\ pc[current] \in DOMAIN routine[current]
  /\ routine[current][pc[current]].op
       \in {"work", "hold", "startIo", "wait", "startIoAndWait"}
  /\ Advance /\ MutexSame /\ DeadSame

(* The current thread gives up m, and goes on or dies. *)
GivesUp(m, s) ==
  /\ Running /\ current # Idle
  /\ ReleaseMutex(m, s)
  /\ UNCHANGED <<tableVars, current>>
  /\ IF s = "RUNNING" THEN Calls("release", m) /\ Advance ELSE pc' = pc

(* Schedule neither kills nor revives a thread. *)
LEMMA ScheduleKillsNone ==
  ASSUME IInv, Schedule
  PROVE  DeadSame
<1>1. /\ state \in [Threads -> ThreadStates] /\ Idle \in Threads
      /\ current \in Threads \cup {NULL}
      /\ state[Idle] # "TERMINATED"
  BY PriorityTypes DEF IInv, TypeOK, ControlExact
<1>2. ASSUME NEW next \in Threads, state[next] # "TERMINATED", NEW rq, SwitchTo(next, rq)
      PROVE  DeadSame
  BY <1>1, <1>2 DEF SwitchTo, DeadSame
<1>3. ASSUME NEW p \in Priorities, NEW i \in DOMAIN ready.queues[p]
      PROVE  ready.queues[p][i] \in Threads /\ state[ready.queues[p][i]] # "TERMINATED"
  <2>1. ready.queues[p][i] \in InQueue(ready)
    BY DEF InQueue, ToSet
  <2> QED
    BY <2>1, QueuedIsReady DEF IInv
<1> QED
  BY <1>1, <1>2, <1>3 DEF Schedule

(* A thread woken from the event was BLOCKED. *)
LEMMA EventWaiter ==
  ASSUME IInv, NEW i \in DOMAIN ioWaiters
  PROVE  ioWaiters[i] \in Threads /\ state[ioWaiters[i]] = "BLOCKED"
<1>1. ioWaiters[i] \in ToSet(ioWaiters) /\ ioWaiters[i] \in Threads
  BY DEF ToSet, IInv, TypeOK
<1> QED
  BY <1>1 DEF IInv, WaitQueuesExact

(* The services that involve no mutex pass one step. *)
LEMMA EventServicesPass ==
  ASSUME IInv, Work \/ StartIo \/ WaitEvent \/ StartIoAndWait
               \/ \E m \in Mutexes : Hold(m)
  PROVE  Passes
<1> USE DEF RunUnchanged, tableVars, mutexVars, eventVars, EventUnchanged
<1>1. state \in [Threads -> ThreadStates]
  BY DEF IInv, TypeOK
<1>2. ASSUME Running PROVE current \in Threads /\ state[current] = "RUNNING"
  BY <1>2, RunningThread
<1>3. CASE Work
  BY <1>3 DEF Work, Calls, Step, Passes, MutexSame, DeadSame
<1>4. CASE \E m \in Mutexes : Hold(m)
  BY <1>4 DEF Hold, Calls, Step, Passes, MutexSame, DeadSame
<1>5. CASE WaitEvent
  <2>1. DeadSame
    BY <1>1, <1>2, <1>5 DEF WaitEvent, Calls, DeadSame
  <2> QED
    BY <1>5, <2>1 DEF WaitEvent, Calls, Step, Passes, MutexSame
<1>6. CASE StartIo
  <2>1. DeadSame
    BY <1>1, <1>2, <1>6, EventWaiter DEF StartIo, DeadSame
  <2> QED
    BY <1>6, <2>1 DEF StartIo, Calls, Step, Passes, MutexSame
<1>7. CASE StartIoAndWait
  <2>1. DeadSame
    BY <1>1, <1>2, <1>7, EventWaiter DEF StartIoAndWait, Calls, DeadSame
  <2> QED
    BY <1>7, <2>1 DEF StartIoAndWait, Calls, Step, Passes, MutexSame
<1> QED
  BY <1>3, <1>4, <1>5, <1>6, <1>7

(* Every step of main is of one of the kinds. *)
LEMMA StepKinds ==
  ASSUME IInv, [Next]_vars
  PROVE  \/ Quiet \/ Dies \/ Passes
         \/ \E r \in Routines, p \in UserPriorities : CreateThread(r, p)
         \/ \E m \in Mutexes : AcquireFree(m) \/ AcquireBlocked(m)
         \/ \E m \in Mutexes, s \in {"RUNNING", "TERMINATED"} : GivesUp(m, s)
<1> USE DEF tableVars, threadVars, mutexVars, eventVars, RunUnchanged
<1>1. CASE BootSchedule \/ Dispatch
  BY <1>1, ScheduleKillsNone DEF BootSchedule, Dispatch, DispatchUnchanged, Quiet, MutexSame
<1>2. CASE StartLoop \/ TimerIgnored \/ TimerCharged \/ DispatchNothing \/ IdleThread
           \/ Reap \/ UNCHANGED vars
  BY <1>2 DEF StartLoop, TimerIgnored, TimerCharged, TimerUnchanged, DispatchNothing,
              DispatchUnchanged, IdleThread, Reap, vars, Quiet, MutexSame, DeadSame
<1>3. CASE QuantumExpired
  <2>1. state \in [Threads -> ThreadStates]
    BY DEF IInv, TypeOK
  <2>2. DeadSame
    BY <1>3, <2>1 DEF QuantumExpired, Charged, DeadSame
  <2> QED
    BY <1>3, <2>2 DEF QuantumExpired, TimerUnchanged, Quiet, MutexSame
<1>4. CASE Work \/ StartIo \/ WaitEvent \/ StartIoAndWait \/ \E m \in Mutexes : Hold(m)
  BY <1>4, EventServicesPass
<1>5. ASSUME NEW m \in Mutexes, Release(m)
      PROVE  GivesUp(m, "RUNNING")
  BY <1>5 DEF Release, GivesUp, Calls
<1>6. ASSUME NEW m \in Mutexes, ReleaseAndExit(m)
      PROVE  GivesUp(m, "TERMINATED")
  BY <1>6 DEF ReleaseAndExit, GivesUp, Calls
<1>7. CASE Exit
  <2>1. CASE ownedMutex[current] = NULL
    BY <1>7, <2>1 DEF Exit, Dies, MutexSame
  <2>2. CASE ownedMutex[current] # NULL
    <3>1. Running /\ current # Idle
      BY <1>7 DEF Exit, Calls
    <3>2. ownedMutex[current] \in Mutexes
      BY <2>2, <3>1, RunningThread DEF IInv, TypeOK
    <3>3. GivesUp(ownedMutex[current], "TERMINATED")
      BY <1>7, <2>2, <3>1 DEF Exit, GivesUp
    <3> QED
      BY <3>2, <3>3
  <2> QED
    BY <2>1, <2>2
<1> QED
  BY <1>1, <1>2, <1>3, <1>4, <1>5, <1>6, <1>7 DEF Next, Boot, Timer, RunThread

----------------------------------------------------------------------------
(* The event *)

(* A completion that SignalEvent remembers has no waiter, and a waiter     *)
(* that comes later takes it instead of blocking.                          *)
THEOREM EventCorrect == Spec => []EventNotMissed
<1> USE DEF EventNotMissed
<1>1. Init => EventNotMissed
  BY DEF Init
<1>2. EventNotMissed /\ [Next]_vars => EventNotMissed'
  <2> SUFFICES ASSUME EventNotMissed, [Next]_vars PROVE EventNotMissed'
    OBVIOUS
  <2> USE DEF eventVars, vars
  <2>1. CASE StartIo \/ WaitEvent \/ StartIoAndWait
    BY <2>1 DEF StartIo, WaitEvent, StartIoAndWait
  <2>2. CASE Boot \/ Timer \/ DispatchNothing \/ Dispatch \/ Reap \/ UNCHANGED vars
    BY <2>2 DEF Boot, BootSchedule, StartLoop, CreateThread, Timer, TimerIgnored,
                TimerCharged, QuantumExpired, TimerUnchanged, DispatchNothing, Dispatch,
                DispatchUnchanged, Reap
  <2>3. CASE IdleThread \/ Work \/ Exit
             \/ \E m \in Mutexes : \/ Hold(m) \/ AcquireFree(m) \/ AcquireBlocked(m)
                                   \/ Release(m) \/ ReleaseAndExit(m)
    BY <2>3 DEF IdleThread, Work, Exit, Hold, AcquireFree, AcquireBlocked, Release,
                ReleaseAndExit
  <2> QED
    BY <2>1, <2>2, <2>3 DEF Next, RunThread
<1> QED
  BY <1>1, <1>2, PTL DEF Spec

----------------------------------------------------------------------------
(* Priority inheritance *)

(* BoostPriorityChain raises owners only. *)
LEMMA BoostedOwners ==
  ASSUME TypeOK, NEW m \in Mutexes, owner[m] # NULL, NEW n, NEW u \in Boosted(owner[m], n)
  PROVE  \E o \in Mutexes : owner[o] = u
<1> DEFINE S == {v \in Threads : v \in Boosted(owner[m], n) /\ \E o \in Mutexes : owner[o] = v}
<1>1. owner[m] \in Threads /\ \A v \in Threads : NextOwner(v) # NULL => NextOwner(v) \in Threads
  BY DEF TypeOK, NextOwner
<1>2. ChainClosed(Boosted(owner[m], n), owner[m], n)
  BY <1>1, BoostedLeast
<1>3. \A v \in Threads : NextOwner(v) # NULL => \E o \in Mutexes : owner[o] = NextOwner(v)
  BY DEF TypeOK, NextOwner
<1>4. ChainClosed(S, owner[m], n) /\ S \in SUBSET Threads
  BY <1>1, <1>2, <1>3 DEF ChainClosed
<1> QED
  BY <1>1, <1>4, BoostedLeast

(* Giving up m: who owns it next, and what becomes of the giver.           *)
LEMMA GivesUpEffect ==
  ASSUME IInv, NEW m \in Mutexes, NEW s \in {"RUNNING", "TERMINATED"}, GivesUp(m, s)
  PROVE  /\ owner[m] = current /\ current \in Threads
         /\ priority' = [priority EXCEPT ![current] = basePriority[current]]
         /\ state'[current] = s
         /\ \A o \in Mutexes : o # m => owner'[o] = owner[o] /\ waiters'[o] = waiters[o]
         /\ \/ /\ waiters[m] = <<>> /\ owner'[m] = NULL
               /\ waiters' = waiters
               /\ ownedMutex' = [ownedMutex EXCEPT ![current] = NULL]
               /\ waitingMutex' = waitingMutex /\ refCount' = refCount
               /\ \A t \in Threads \ {current} : state'[t] = state[t]
            \/ \E i \in DOMAIN waiters[m] :
                 LET next == waiters[m][i]
                 IN  /\ IsBest(waiters[m], i)
                     /\ next \in Threads /\ next # current /\ waitingMutex[next] = m
                     /\ state[next] = "BLOCKED"
                     /\ owner'[m] = next
                     /\ waiters'[m] = RemoveAt(waiters[m], i)
                     /\ waitingMutex' = [waitingMutex EXCEPT ![next] = NULL]
                     /\ refCount' = [refCount EXCEPT ![m] = @ - 1]
                     /\ ownedMutex' = [ownedMutex EXCEPT ![current] = NULL, ![next] = m]
                     /\ state'[next] = "READY"
                     /\ \A t \in Threads \ {current, next} : state'[t] = state[t]
<1>1. /\ owner \in [Mutexes -> Threads \cup {NULL}] /\ waiters \in [Mutexes -> Seq(Threads)]
      /\ state \in [Threads -> ThreadStates]
  BY DEF IInv, TypeOK
<1>2. /\ current \in Threads /\ waitingMutex[current] = NULL
      /\ owner[m] = current
      /\ priority' = [priority EXCEPT ![current] = basePriority[current]]
  BY RunningThread DEF GivesUp, ReleaseMutex, RestorePriority
<1>3. CASE Free(m, s)
  BY <1>1, <1>2, <1>3 DEF Free
<1>4. ASSUME NEW i \in DOMAIN waiters[m], HandOff(m, i, s)
      PROVE  LET next == waiters[m][i]
             IN  /\ IsBest(waiters[m], i)
                 /\ next \in Threads /\ next # current /\ waitingMutex[next] = m
                 /\ state[next] = "BLOCKED"
                 /\ owner'[m] = next
                 /\ waiters'[m] = RemoveAt(waiters[m], i)
                 /\ waitingMutex' = [waitingMutex EXCEPT ![next] = NULL]
                 /\ refCount' = [refCount EXCEPT ![m] = @ - 1]
                 /\ ownedMutex' = [ownedMutex EXCEPT ![current] = NULL, ![next] = m]
                 /\ state'[next] = "READY" /\ state'[current] = s
                 /\ \A t \in Threads \ {current, next} : state'[t] = state[t]
                 /\ \A o \in Mutexes : o # m => owner'[o] = owner[o] /\ waiters'[o] = waiters[o]
  <2> DEFINE next == waiters[m][i]
  <2>1. next \in ToSet(waiters[m])
    BY DEF ToSet
  <2>2. next \in Threads /\ waitingMutex[next] = m
    BY <2>1 DEF IInv, WaitQueuesExact
  <2>3. next # current /\ state[next] = "BLOCKED"
    BY <1>2, <2>2, NullAssumption DEF IInv, WaitQueuesExact
  <2> HIDE DEF next
  <2>4. state' = [state EXCEPT ![current] = s, ![next] = "READY"]
    BY <1>4 DEF HandOff, next
  <2>5. state'[next] = "READY" /\ state'[current] = s
        /\ \A t \in Threads \ {current, next} : state'[t] = state[t]
    BY <1>1, <1>2, <2>2, <2>3, <2>4
  <2>6. /\ owner' = [owner EXCEPT ![m] = next]
        /\ waiters' = [waiters EXCEPT ![m] = RemoveAt(@, i)]
        /\ waitingMutex' = [waitingMutex EXCEPT ![next] = NULL]
        /\ refCount' = [refCount EXCEPT ![m] = @ - 1]
        /\ ownedMutex' = [ownedMutex EXCEPT ![current] = NULL, ![next] = m]
        /\ IsBest(waiters[m], i)
    BY <1>4 DEF HandOff, next
  <2>7. /\ owner'[m] = next /\ waiters'[m] = RemoveAt(waiters[m], i)
        /\ \A o \in Mutexes : o # m => owner'[o] = owner[o] /\ waiters'[o] = waiters[o]
    BY <1>1, <2>6
  <2> QED
    BY <2>2, <2>3, <2>5, <2>6, <2>7 DEF next
<1> QED
  BY <1>2, <1>3, <1>4, <1>1 DEF GivesUp, ReleaseMutex

(* A thread that owns no mutex runs at its base priority: a boost lasts no *)
(* longer than the ownership that was its reason.                          *)
THEOREM NoStaleBoostCorrect == Spec => []NoStaleBoost
<1>1. Init => NoStaleBoost
  BY DEF Init, NoStaleBoost, UserThreads, Created, Threads
<1>2. ASSUME IInv, NoStaleBoost, [Next]_vars
      PROVE  NoStaleBoost'
  <2> SUFFICES ASSUME NEW t \in UserThreads', \A m \in Mutexes : owner'[m] # t
               PROVE  priority'[t] = basePriority'[t]
    BY DEF NoStaleBoost
  <2>1. /\ owner \in [Mutexes -> Threads \cup {NULL}]
        /\ priority \in [Threads -> 0..(MAX_PRIORITY - 2)]
        /\ basePriority \in [Threads -> 0..(MAX_PRIORITY - 2)]
        /\ threadCount \in Nat /\ Created \subseteq Threads
        /\ ownedMutex \in [Threads -> Mutexes \cup {NULL}]
    BY <1>2, PriorityTypes DEF IInv, TypeOK
  <2>2. CASE Quiet \/ Dies \/ Passes
    BY <1>2, <2>2 DEF Quiet, Dies, Passes, MutexSame, tableVars, NoStaleBoost, UserThreads, Created
  <2>3. ASSUME NEW r \in Routines, NEW p \in UserPriorities, CreateThread(r, p)
        PROVE  priority'[t] = basePriority'[t]
    <3>1. /\ threadCount' = threadCount + 1 /\ threadCount + 1 \in Threads
          /\ owner' = owner
          /\ priority' = [priority EXCEPT ![threadCount + 1] = p]
          /\ basePriority' = [basePriority EXCEPT ![threadCount + 1] = p]
      BY <2>3 DEF CreateThread, mutexVars
    <3>2. CASE t = threadCount + 1
      BY <2>1, <3>1, <3>2
    <3>3. CASE t # threadCount + 1
      <4>1. t \in UserThreads
        BY <2>1, <3>1, <3>3 DEF UserThreads, Created
      <4>2. priority[t] = basePriority[t]
        BY <1>2, <3>1, <4>1 DEF NoStaleBoost
      <4> QED
        BY <2>1, <3>1, <3>3, <4>1, <4>2 DEF UserThreads
    <3> QED
      BY <3>2, <3>3
  <2>4. ASSUME NEW m \in Mutexes, AcquireFree(m)
        PROVE  priority'[t] = basePriority'[t]
    <3>1. /\ threadCount' = threadCount /\ priority' = priority /\ basePriority' = basePriority
          /\ owner' = [owner EXCEPT ![m] = current] /\ owner[m] = NULL
      BY <2>4 DEF AcquireFree, RunUnchanged, tableVars
    <3>2. t \in UserThreads /\ t \in Threads /\ \A o \in Mutexes : owner[o] # t
      BY <2>1, <3>1, NullAssumption DEF UserThreads, Created
    <3> QED
      BY <1>2, <3>1, <3>2 DEF NoStaleBoost
  <2>5. ASSUME NEW m \in Mutexes, AcquireBlocked(m)
        PROVE  priority'[t] = basePriority'[t]
    <3>1. /\ threadCount' = threadCount /\ basePriority' = basePriority
          /\ owner' = owner /\ owner[m] # NULL
          /\ BoostPriorityChain(owner[m], priority[current])
      BY <2>5 DEF AcquireBlocked, RunUnchanged, tableVars
    <3>2. t \in UserThreads /\ t \in Threads
      BY <2>1, <3>1 DEF UserThreads, Created
    <3>3. t \notin Boosted(owner[m], priority[current])
      BY <1>2, <3>1, BoostedOwners DEF IInv
    <3>4. priority'[t] = priority[t]
      BY <3>1, <3>2, <3>3 DEF BoostPriorityChain
    <3> QED
      BY <1>2, <3>1, <3>2, <3>4 DEF NoStaleBoost
  <2>6. ASSUME NEW m \in Mutexes, NEW s \in {"RUNNING", "TERMINATED"}, GivesUp(m, s)
        PROVE  priority'[t] = basePriority'[t]
    <3>1. /\ threadCount' = threadCount /\ basePriority' = basePriority
          /\ priority' = [priority EXCEPT ![current] = basePriority[current]]
          /\ current \in Threads /\ owner[m] = current
          /\ \A o \in Mutexes : o # m => owner'[o] = owner[o]
      BY <1>2, <2>6, GivesUpEffect DEF GivesUp, tableVars
    <3>2. t \in UserThreads /\ t \in Threads
      BY <2>1, <3>1 DEF UserThreads, Created
    <3>3. CASE t = current
      BY <2>1, <3>1, <3>2, <3>3
    <3>4. CASE t # current
      <4>1. \A o \in Mutexes : owner[o] # t
        BY <3>1, <3>4
      <4> QED
        BY <1>2, <2>1, <3>1, <3>2, <3>4, <4>1 DEF NoStaleBoost
    <3> QED
      BY <3>3, <3>4
  <2> QED
    BY <1>2, <2>2, <2>3, <2>4, <2>5, <2>6, StepKinds
<1>3. IInv /\ NoStaleBoost /\ [Next]_vars => NoStaleBoost'
  BY <1>2
<1> QED
  BY <1>1, <1>3, Invariant, PTL DEF Spec

----------------------------------------------------------------------------
(* Owners and waiters in their routines *)

(* The steps of a routine are counted from 1, and so is THREAD.pc here.    *)
LEMMA Places ==
  ASSUME TypeOK, NEW t \in Threads
  PROVE  /\ pc[t] \in Nat \ {0}
         /\ DOMAIN routine[t] \subseteq Nat \ {0}
         /\ routine[t] \in Routines \/ routine[t] = <<>>
<1>1. pc[t] \in Nat \ {0} /\ (routine[t] \in Routines \/ routine[t] = <<>>)
  BY DEF TypeOK
<1>2. routine[t] \in Seq(Steps)
  <2>1. Routines \subseteq Seq(Steps)
    BY RoutineAssumption
  <2>2. <<>> \in Seq(Steps)
    OBVIOUS
  <2> QED
    BY <1>1, <2>1, <2>2
<1>3. DOMAIN routine[t] = 1..Len(routine[t]) /\ Len(routine[t]) \in Nat
  BY <1>2
<1> QED
  BY <1>1, <1>3

(* What a thread holds before its first step, after its next step, and     *)
(* after it took a mutex.                                                  *)
LEMMA HeldSteps ==
  ASSUME NEW r, DOMAIN r \subseteq Nat \ {0}, NEW k \in Nat, NEW m
  PROVE  /\ ~HeldAt(r, 1, m)
         /\ HeldAt(r, k, m) /\ r[k] # Step("release", m) => HeldAt(r, k + 1, m)
         /\ k \in DOMAIN r /\ r[k] = Step("acquire", m) => HeldAt(r, k + 1, m)
<1>1. \A i \in DOMAIN r : ~(i < 1)
  OBVIOUS
<1>2. \A j \in DOMAIN r : j < k + 1 <=> j < k \/ j = k
  OBVIOUS
<1>3. ASSUME HeldAt(r, k, m), r[k] # Step("release", m) PROVE HeldAt(r, k + 1, m)
  <2>1. PICK i \in DOMAIN r : /\ i < k /\ r[i] = Step("acquire", m)
                              /\ \A j \in DOMAIN r : i < j /\ j < k => r[j] # Step("release", m)
    BY <1>3 DEF HeldAt
  <2>2. i < k + 1
    BY <1>2, <2>1
  <2>3. \A j \in DOMAIN r : i < j /\ j < k + 1 => r[j] # Step("release", m)
    BY <1>2, <1>3, <2>1
  <2> QED
    BY <2>1, <2>2, <2>3 DEF HeldAt
<1>4. ASSUME k \in DOMAIN r, r[k] = Step("acquire", m) PROVE HeldAt(r, k + 1, m)
  <2>1. k < k + 1 /\ \A j \in DOMAIN r : ~(k < j /\ j < k + 1)
    OBVIOUS
  <2> QED
    BY <1>4, <2>1 DEF HeldAt
<1> QED
  BY <1>1, <1>3, <1>4 DEF HeldAt

(* The parts of OwnersExact. *)
NewAtFirstStep == \A t \in Threads \ Created : pc[t] = 1
OwnersHold == \A t \in Threads, m \in Mutexes : owner[m] = t => HeldAt(routine[t], pc[t], m)
WaitersTook ==
  \A t \in Threads : waitingMutex[t] # NULL =>
    \E k \in DOMAIN routine[t] :
      pc[t] = k + 1 /\ routine[t][k] = Step("acquire", waitingMutex[t])
OnlyOwned ==
  \A t \in Threads, m \in Mutexes : owner[m] = t /\ Takes(t) \subseteq {m} =>
    ownedMutex[t] = m /\ state[t] # "TERMINATED"

(* OwnersExact is these four parts, before and after a step. *)
LEMMA OwnersParts ==
  /\ OwnersExact <=> NewAtFirstStep /\ OwnersHold /\ WaitersTook /\ OnlyOwned
  /\ OwnersExact' <=> NewAtFirstStep' /\ OwnersHold' /\ WaitersTook' /\ OnlyOwned'
BY DEF OwnersExact, NewAtFirstStep, OwnersHold, WaitersTook, OnlyOwned

(* An owner's routine takes what it owns. *)
LEMMA OwnerTakes ==
  ASSUME OwnersExact, NEW t \in Threads, NEW m \in Mutexes, owner[m] = t
  PROVE  m \in Takes(t)
BY DEF OwnersExact, HeldAt, Takes

(* A thread that does not exist yet owns nothing and waits for nothing. *)
LEMMA NewThreadFree ==
  ASSUME IInv, OwnersExact, NEW t \in Threads \ Created
  PROVE  pc[t] = 1 /\ waitingMutex[t] = NULL /\ \A m \in Mutexes : owner[m] # t
<1>1. pc[t] = 1 /\ state[t] = "READY"
  BY DEF OwnersExact, IInv, ControlExact
<1>2. waitingMutex[t] = NULL
  BY <1>1 DEF IInv, WaitQueuesExact
<1>3. \A m \in Mutexes : ~HeldAt(routine[t], 1, m)
  BY Places, HeldSteps DEF IInv
<1> QED
  BY <1>1, <1>2, <1>3 DEF OwnersExact

(* At the boot nobody owns a mutex or has run a step. *)
LEMMA OwnersInit == Init => OwnersExact
<1> SUFFICES ASSUME Init PROVE OwnersExact
  OBVIOUS
<1>1. /\ \A t \in Threads : pc[t] = 1 /\ waitingMutex[t] = NULL
      /\ \A m \in Mutexes : owner[m] = NULL
  BY DEF Init
<1> QED
  BY <1>1, NullAssumption DEF OwnersExact

(* Steps that leave the mutexes alone. *)
LEMMA OwnersUnmoved ==
  ASSUME IInv, OwnersExact, Quiet \/ Dies
  PROVE  OwnersExact'
<1> USE DEF Quiet, Dies, MutexSame, tableVars
<1>1. NewAtFirstStep' /\ OwnersHold' /\ WaitersTook'
  BY DEF OwnersExact, NewAtFirstStep, OwnersHold, WaitersTook, Created
<1>2. OnlyOwned'
  <2> SUFFICES ASSUME NEW t \in Threads, NEW m \in Mutexes, owner[m] = t, Takes(t) \subseteq {m}
               PROVE  ownedMutex[t] = m /\ state'[t] # "TERMINATED"
    BY DEF OnlyOwned, Takes
  <2>1. ownedMutex[t] = m /\ state[t] # "TERMINATED" /\ m # NULL
    BY NullAssumption DEF OwnersExact
  <2>2. CASE Quiet
    BY <2>1, <2>2 DEF DeadSame
  <2>3. CASE Dies
    <3>1. t # current /\ state \in [Threads -> ThreadStates]
      BY <2>1, <2>3 DEF IInv, TypeOK
    <3> QED
      BY <2>1, <2>3, <3>1
  <2> QED
    BY <2>2, <2>3
<1> QED
  BY <1>1, <1>2, OwnersParts

(* A step that is about no mutex. *)
LEMMA OwnersPass ==
  ASSUME IInv, OwnersExact, Passes
  PROVE  OwnersExact'
<1> USE DEF Passes, MutexSame, tableVars
<1>1. /\ current \in Threads /\ current \in Created /\ waitingMutex[current] = NULL
      /\ pc \in [Threads -> Nat \ {0}]
  BY RunningThread DEF IInv, TypeOK
<1>2. pc'[current] = pc[current] + 1 /\ \A t \in Threads \ {current} : pc'[t] = pc[t]
  BY <1>1 DEF Advance
<1>3. NewAtFirstStep'
  BY <1>1, <1>2 DEF OwnersExact, NewAtFirstStep, Created
<1>4. OwnersHold'
  <2> SUFFICES ASSUME NEW t \in Threads, NEW m \in Mutexes, owner[m] = t
               PROVE  HeldAt(routine[t], pc'[t], m)
    BY DEF OwnersHold
  <2>1. HeldAt(routine[t], pc[t], m)
    BY DEF OwnersExact
  <2>2. routine[current][pc[current]] # Step("release", m)
    BY DEF Step
  <2>3. t = current => HeldAt(routine[t], pc[t] + 1, m)
    BY <1>1, <2>1, <2>2, Places, HeldSteps DEF IInv
  <2> QED
    BY <1>2, <2>1, <2>3
<1>5. WaitersTook'
  BY <1>1, <1>2 DEF OwnersExact, WaitersTook
<1>6. OnlyOwned'
  BY DEF OwnersExact, OnlyOwned, Takes, DeadSame
<1> QED
  BY <1>3, <1>4, <1>5, <1>6, OwnersParts

(* A new thread. *)
LEMMA OwnersCreate ==
  ASSUME IInv, OwnersExact, NEW r \in Routines, NEW p \in UserPriorities, CreateThread(r, p)
  PROVE  OwnersExact'
<1> DEFINE n == threadCount + 1
<1>1. /\ n \in Threads \ Created /\ Created' = Created \cup {n}
      /\ routine' = [routine EXCEPT ![n] = r] /\ routine \in [Threads -> Routines \cup {<<>>}]
      /\ UNCHANGED <<pc, state, ownedMutex, waitingMutex, owner>>
  BY DEF CreateThread, Created, mutexVars, IInv, TypeOK, Threads
<1>2. waitingMutex[n] = NULL /\ \A m \in Mutexes : owner[m] # n
  BY <1>1, NewThreadFree
<1> HIDE DEF n
<1>3. \A t \in Threads \ {n} : routine'[t] = routine[t] /\ Takes(t)' = Takes(t)
  BY <1>1 DEF Takes
<1>4. NewAtFirstStep' /\ OwnersHold' /\ WaitersTook' /\ OnlyOwned'
  BY <1>1, <1>2, <1>3 DEF OwnersExact, NewAtFirstStep, OwnersHold, WaitersTook, OnlyOwned
<1> QED
  BY <1>4, OwnersParts

(* The caller of AcquireMutex gets the mutex. *)
LEMMA OwnersAcquire ==
  ASSUME IInv, OwnersExact, NEW m \in Mutexes, AcquireFree(m)
  PROVE  OwnersExact'
<1> USE DEF AcquireFree, Calls, RunUnchanged, tableVars
<1>1. /\ current \in Threads /\ current \in Created /\ waitingMutex[current] = NULL
      /\ state[current] = "RUNNING"
      /\ pc \in [Threads -> Nat \ {0}]
      /\ owner \in [Mutexes -> Threads \cup {NULL}]
      /\ ownedMutex \in [Threads -> Mutexes \cup {NULL}]
  BY RunningThread DEF IInv, TypeOK
<1>2. pc'[current] = pc[current] + 1 /\ \A t \in Threads \ {current} : pc'[t] = pc[t]
  BY <1>1 DEF Advance
<1>3. NewAtFirstStep' /\ WaitersTook'
  BY <1>1, <1>2 DEF OwnersExact, NewAtFirstStep, WaitersTook, Created
<1>4. OwnersHold'
  <2> SUFFICES ASSUME NEW t \in Threads, NEW o \in Mutexes, owner'[o] = t
               PROVE  HeldAt(routine[t], pc'[t], o)
    BY DEF OwnersHold
  <2>1. CASE o = m
    <3>1. t = current
      BY <1>1, <2>1
    <3>2. HeldAt(routine[current], pc[current] + 1, m)
      BY <1>1, Places, HeldSteps DEF IInv
    <3> QED
      BY <1>2, <2>1, <3>1, <3>2
  <2>2. CASE o # m
    <3>1. owner[o] = t
      BY <1>1, <2>2
    <3>2. HeldAt(routine[t], pc[t], o)
      BY <3>1 DEF OwnersExact
    <3>3. routine[current][pc[current]] # Step("release", o)
      BY DEF Step
    <3>4. t = current => HeldAt(routine[t], pc[t] + 1, o)
      BY <1>1, <3>2, <3>3, Places, HeldSteps DEF IInv
    <3> QED
      BY <1>2, <3>2, <3>4
  <2> QED
    BY <2>1, <2>2
<1>5. OnlyOwned'
  <2> SUFFICES ASSUME NEW t \in Threads, NEW o \in Mutexes, owner'[o] = t,
                      Takes(t) \subseteq {o}
               PROVE  ownedMutex'[t] = o /\ state[t] # "TERMINATED"
    BY DEF OnlyOwned, Takes
  <2>1. m \in Takes(current)
    BY DEF Takes
  <2> QED
    BY <1>1, <2>1 DEF OwnersExact
<1> QED
  BY <1>3, <1>4, <1>5, OwnersParts

(* The caller of AcquireMutex waits. *)
LEMMA OwnersBlock ==
  ASSUME IInv, OwnersExact, NEW m \in Mutexes, AcquireBlocked(m)
  PROVE  OwnersExact'
<1> USE DEF AcquireBlocked, Calls, RunUnchanged, tableVars
<1>1. /\ current \in Threads /\ current \in Created
      /\ state \in [Threads -> ThreadStates]
      /\ pc \in [Threads -> Nat \ {0}]
      /\ waitingMutex \in [Threads -> Mutexes \cup {NULL}]
  BY RunningThread DEF IInv, TypeOK
<1>2. pc'[current] = pc[current] + 1 /\ \A t \in Threads \ {current} : pc'[t] = pc[t]
  BY <1>1 DEF Advance
<1>3. NewAtFirstStep'
  BY <1>1, <1>2 DEF OwnersExact, NewAtFirstStep, Created
<1>4. WaitersTook'
  BY <1>1, <1>2 DEF OwnersExact, WaitersTook
<1>5. OwnersHold'
  <2> SUFFICES ASSUME NEW t \in Threads, NEW o \in Mutexes, owner[o] = t
               PROVE  HeldAt(routine[t], pc'[t], o)
    BY DEF OwnersHold
  <2>1. HeldAt(routine[t], pc[t], o)
    BY DEF OwnersExact
  <2>2. routine[current][pc[current]] # Step("release", o)
    BY DEF Step
  <2>3. t = current => HeldAt(routine[t], pc[t] + 1, o)
    BY <1>1, <2>1, <2>2, Places, HeldSteps DEF IInv
  <2> QED
    BY <1>2, <2>1, <2>3
<1>6. OnlyOwned'
  BY <1>1 DEF OwnersExact, OnlyOwned, Takes
<1> QED
  BY <1>3, <1>4, <1>5, <1>6, OwnersParts

(* ReleaseMutex, by a thread that goes on or dies. *)
LEMMA OwnersGiveUp ==
  ASSUME IInv, OwnersExact, NEW m \in Mutexes, NEW s \in {"RUNNING", "TERMINATED"},
         GivesUp(m, s)
  PROVE  OwnersExact'
<1>1. /\ current \in Threads /\ current \in Created /\ owner[m] = current
      /\ waitingMutex[current] = NULL
      /\ pc \in [Threads -> Nat \ {0}]
      /\ waitingMutex \in [Threads -> Mutexes \cup {NULL}]
      /\ ownedMutex \in [Threads -> Mutexes \cup {NULL}]
      /\ UNCHANGED <<threadCount, routine>>
      /\ \A o \in Mutexes : o # m => owner'[o] = owner[o]
      /\ \A t \in Threads : Takes(t)' = Takes(t)
  <2>1. /\ current \in Created /\ waitingMutex[current] = NULL
        /\ UNCHANGED <<threadCount, routine>>
    BY RunningThread DEF GivesUp, tableVars
  <2>2. /\ pc \in [Threads -> Nat \ {0}]
        /\ waitingMutex \in [Threads -> Mutexes \cup {NULL}]
        /\ ownedMutex \in [Threads -> Mutexes \cup {NULL}]
    BY DEF IInv, TypeOK
  <2>3. /\ current \in Threads /\ owner[m] = current
        /\ \A o \in Mutexes : o # m => owner'[o] = owner[o]
    BY GivesUpEffect
  <2> QED
    BY <2>1, <2>2, <2>3 DEF Takes
<1>2. /\ \A t \in Threads \ {current} : pc'[t] = pc[t]
      /\ pc'[current] = pc[current]
           \/ /\ pc'[current] = pc[current] + 1
              /\ routine[current][pc[current]] = Step("release", m)
  BY <1>1 DEF GivesUp, Advance, Calls
<1>3. \/ /\ owner'[m] = NULL /\ waitingMutex' = waitingMutex
         /\ ownedMutex' = [ownedMutex EXCEPT ![current] = NULL]
         /\ \A t \in Threads \ {current} : state'[t] = state[t]
      \/ \E next \in Threads \ {current} :
           /\ waitingMutex[next] = m /\ state[next] = "BLOCKED" /\ owner'[m] = next
           /\ waitingMutex' = [waitingMutex EXCEPT ![next] = NULL]
           /\ ownedMutex' = [ownedMutex EXCEPT ![current] = NULL, ![next] = m]
           /\ state'[next] = "READY"
           /\ \A t \in Threads \ {current, next} : state'[t] = state[t]
  BY GivesUpEffect
<1>4. NewAtFirstStep'
  BY <1>1, <1>2 DEF OwnersExact, NewAtFirstStep, Created
<1>5. WaitersTook'
  <2> SUFFICES ASSUME NEW t \in Threads, waitingMutex'[t] # NULL
               PROVE  \E k \in DOMAIN routine[t] :
                        pc'[t] = k + 1 /\ routine[t][k] = Step("acquire", waitingMutex'[t])
    BY <1>1 DEF WaitersTook
  <2>1. waitingMutex'[t] = waitingMutex[t]
    BY <1>1, <1>3
  <2>2. t # current
    BY <1>1, <2>1
  <2> QED
    BY <1>2, <2>1, <2>2 DEF OwnersExact
<1>6. OwnersHold'
  <2> SUFFICES ASSUME NEW t \in Threads, NEW o \in Mutexes, owner'[o] = t
               PROVE  HeldAt(routine[t], pc'[t], o)
    BY <1>1 DEF OwnersHold
  <2>1. CASE o = m
    <3>1. t # current /\ waitingMutex[t] = m
      BY <1>1, <1>3, <2>1, NullAssumption
    <3>2. PICK k \in DOMAIN routine[t] : pc[t] = k + 1 /\ routine[t][k] = Step("acquire", m)
      BY <3>1, NullAssumption DEF OwnersExact
    <3>3. HeldAt(routine[t], k + 1, m)
      BY <3>2, Places, HeldSteps DEF IInv
    <3> QED
      BY <1>2, <2>1, <3>1, <3>2, <3>3
  <2>2. CASE o # m
    <3>1. owner[o] = t
      BY <1>1, <2>2
    <3>2. HeldAt(routine[t], pc[t], o)
      BY <3>1 DEF OwnersExact
    <3>3. ASSUME t = current, routine[current][pc[current]] = Step("release", m)
          PROVE  HeldAt(routine[t], pc[t] + 1, o)
      <4>1. routine[t][pc[t]] # Step("release", o)
        BY <2>2, <3>3 DEF Step
      <4> QED
        BY <3>2, <4>1, Places, HeldSteps DEF IInv
    <3> QED
      BY <1>2, <3>2, <3>3
  <2> QED
    BY <2>1, <2>2
<1>7. OnlyOwned'
  <2> SUFFICES ASSUME NEW t \in Threads, NEW o \in Mutexes, owner'[o] = t,
                      Takes(t) \subseteq {o}
               PROVE  ownedMutex'[t] = o /\ state'[t] # "TERMINATED"
    BY <1>1 DEF OnlyOwned
  <2>1. CASE o = m
    BY <1>1, <1>3, <2>1, NullAssumption
  <2>2. CASE o # m
    <3>1. owner[o] = t
      BY <1>1, <2>2
    <3>2. ownedMutex[t] = o /\ state[t] # "TERMINATED"
      BY <3>1 DEF OwnersExact
    <3>3. t # current
      <4>1. m \in Takes(current)
        BY <1>1, OwnerTakes
      <4> QED
        BY <2>2, <4>1
    <3>4. CASE owner'[m] = t
      <4>1. m \in Takes(t)
        <5>1. waitingMutex[t] = m
          BY <1>3, <3>4, NullAssumption
        <5> QED
          BY <5>1, NullAssumption DEF OwnersExact, Takes
      <4> QED
        BY <2>2, <4>1
    <3>5. CASE owner'[m] # t
      BY <1>1, <1>3, <3>2, <3>3, <3>5
    <3> QED
      BY <3>4, <3>5
  <2> QED
    BY <2>1, <2>2
<1> QED
  BY <1>4, <1>5, <1>6, <1>7, OwnersParts

(* Owners hold their mutexes in their routines, and waiters have just      *)
(* asked for theirs.                                                       *)
LEMMA OwnersNext == IInv /\ OwnersExact /\ [Next]_vars => OwnersExact'
<1> SUFFICES ASSUME IInv, OwnersExact, [Next]_vars PROVE OwnersExact'
  OBVIOUS
<1> QED
  BY StepKinds, OwnersUnmoved, OwnersPass, OwnersCreate, OwnersAcquire, OwnersBlock,
     OwnersGiveUp

(* They do in every state of every execution of main. *)
THEOREM OwnersCorrect == Spec => []OwnersExact
BY OwnersInit, OwnersNext, Invariant, PTL DEF Spec

----------------------------------------------------------------------------
(* Routines end through their last step *)

(* A routine is never left but through its last step: a thread that lives  *)
(* has a step to run, so main never calls a routine that is over.          *)
StepsLeft == \A t \in UserThreads : state[t] # "TERMINATED" => pc[t] \in DOMAIN routine[t]

(* A step that does not end the routine is followed by another.            *)
LEMMA AdvanceStays ==
  ASSUME IInv, Running, pc[current] \in DOMAIN routine[current],
         routine[current][pc[current]].op \notin {"exit", "releaseAndExit"}
  PROVE  pc[current] + 1 \in DOMAIN routine[current]
<1> DEFINE r == routine[current]
           k == pc[current]
           n == Len(routine[current])
<1>1. current \in Threads
  BY RunningThread
<1>2. r \in Routines
  BY <1>1, Places DEF IInv
<1>3. r \in Seq(Steps) /\ r[Len(r)].op \in {"exit", "releaseAndExit"}
  BY <1>2, RoutineAssumption
<1>4. DOMAIN r = 1..n /\ n \in Nat
  BY <1>3
<1>5. k \in 1..n /\ k # n
  BY <1>3, <1>4
<1> HIDE DEF r, k, n
<1>6. k + 1 \in DOMAIN r
  BY <1>4, <1>5
<1> QED
  BY <1>6 DEF r, k

(* Every live thread has a step to run.                                    *)
THEOREM StepsLeftCorrect == Spec => []StepsLeft
<1>1. Init => StepsLeft
  BY DEF Init, StepsLeft, UserThreads, Created, Idle
<1>2. ASSUME IInv, OwnersExact, StepsLeft, [Next]_vars
      PROVE  StepsLeft'
  <2> SUFFICES ASSUME NEW t \in UserThreads', state'[t] # "TERMINATED"
               PROVE  pc'[t] \in DOMAIN routine'[t]
    BY DEF StepsLeft
  <2>1. /\ pc \in [Threads -> Nat \ {0}] /\ state \in [Threads -> ThreadStates]
        /\ Created \subseteq Threads
    BY <1>2, PriorityTypes DEF IInv, TypeOK
  <2>2. ASSUME threadCount' = threadCount, routine' = routine,
               state[t] # "TERMINATED",
               \/ pc'[t] = pc[t]
               \/ /\ t = current /\ pc'[t] = pc[t] + 1 /\ Running
                  /\ routine[t][pc[t]].op \notin {"exit", "releaseAndExit"}
        PROVE  pc'[t] \in DOMAIN routine'[t]
    <3>1. pc[t] \in DOMAIN routine[t]
      BY <1>2, <2>2 DEF StepsLeft, UserThreads, Created
    <3> QED
      BY <1>2, <2>2, <3>1, AdvanceStays
  <2>3. CASE Quiet
    BY <2>1, <2>2, <2>3 DEF Quiet, MutexSame, DeadSame, tableVars, UserThreads, Created
  <2>4. CASE Dies
    <3>1. t \in Threads /\ UNCHANGED <<threadCount, routine, pc>>
      BY <2>1, <2>4 DEF Dies, MutexSame, tableVars, UserThreads, Created
    <3>2. state[t] # "TERMINATED"
      BY <2>1, <2>4, <3>1 DEF Dies
    <3> QED
      BY <2>2, <3>1, <3>2
  <2>5. CASE Passes
    <3>1. t \in Threads /\ UNCHANGED <<threadCount, routine>>
      BY <2>1, <2>5 DEF Passes, MutexSame, tableVars, UserThreads, Created
    <3>2. state[t] # "TERMINATED"
      BY <2>5, <3>1 DEF Passes, DeadSame
    <3> QED
      BY <2>1, <2>2, <2>5, <3>1, <3>2 DEF Passes, Advance
  <2>6. ASSUME NEW r \in Routines, NEW p \in UserPriorities, CreateThread(r, p)
        PROVE  pc'[t] \in DOMAIN routine'[t]
    <3>1. /\ threadCount' = threadCount + 1 /\ pc' = pc /\ state' = state
          /\ routine' = [routine EXCEPT ![threadCount + 1] = r]
          /\ threadCount + 1 \in Threads \ Created
          /\ threadCount \in Nat /\ routine \in [Threads -> Routines \cup {<<>>}]
      BY <1>2, <2>6 DEF CreateThread, IInv, TypeOK, Threads, Created
    <3>2. CASE t = threadCount + 1
      <4>1. r \in Seq(Steps) /\ r # <<>>
        BY RoutineAssumption
      <4>2. 1 \in DOMAIN r
        BY <4>1, EmptySequence
      <4> QED
        BY <1>2, <3>1, <3>2, <4>2, NewThreadFree
    <3>3. CASE t # threadCount + 1
      <4>1. t \in UserThreads
        BY <3>1, <3>3 DEF UserThreads, Created
      <4> QED
        BY <1>2, <2>1, <2>6, <3>1, <3>3, <4>1 DEF StepsLeft, UserThreads
    <3> QED
      BY <3>2, <3>3
  <2>7. ASSUME NEW m \in Mutexes, AcquireFree(m) \/ AcquireBlocked(m)
        PROVE  pc'[t] \in DOMAIN routine'[t]
    <3>1. /\ Running /\ Advance /\ UNCHANGED <<threadCount, routine>>
          /\ routine[current][pc[current]] = Step("acquire", m)
      BY <2>7 DEF AcquireFree, AcquireBlocked, RunUnchanged, tableVars, Calls
    <3>2. t \in Threads /\ routine[current][pc[current]].op = "acquire"
      BY <2>1, <3>1 DEF UserThreads, Created, Step
    <3>3. state[current] = "RUNNING" /\ \A u \in Threads \ {current} : state'[u] = state[u]
      BY <2>1, <2>7, <3>1, RunningThread, <1>2 DEF AcquireFree, AcquireBlocked
    <3>4. state[t] # "TERMINATED"
      BY <3>2, <3>3
    <3> QED
      BY <2>1, <2>2, <3>1, <3>2, <3>4 DEF Advance
  <2>8. ASSUME NEW m \in Mutexes, NEW s \in {"RUNNING", "TERMINATED"}, GivesUp(m, s)
        PROVE  pc'[t] \in DOMAIN routine'[t]
    <3>1. /\ Running /\ UNCHANGED <<threadCount, routine>>
          /\ \/ pc' = pc
             \/ Advance /\ routine[current][pc[current]] = Step("release", m)
      BY <2>8 DEF GivesUp, tableVars, Calls
    <3>2. t \in Threads /\ Step("release", m).op = "release"
      BY <2>1, <3>1 DEF UserThreads, Created, Step
    <3>3. state[t] # "TERMINATED"
      <4>1. state[current] = "RUNNING"
        BY <1>2, <3>1, RunningThread
      <4>2. t # current => state'[t] = state[t] \/ state[t] = "BLOCKED"
        BY <1>2, <2>8, <3>2, GivesUpEffect
      <4> QED
        BY <4>1, <4>2
    <3> QED
      BY <2>1, <2>2, <3>1, <3>2, <3>3 DEF Advance
  <2> QED
    BY <1>2, <2>3, <2>4, <2>5, <2>6, <2>7, <2>8, StepKinds
<1>3. IInv /\ OwnersExact /\ StepsLeft /\ [Next]_vars => StepsLeft'
  BY <1>2
<1> QED
  BY <1>1, <1>3, OwnersCorrect, Invariant, PTL DEF Spec

----------------------------------------------------------------------------
(* Priority inheritance *)

(* The waiters of a mutex, seen from the threads. *)
LEMMA WaiterFields ==
  ASSUME IInv, NEW m \in Mutexes, NEW t \in ToSet(waiters[m])
  PROVE  /\ t \in Threads /\ waitingMutex[t] = m /\ state[t] = "BLOCKED"
         /\ owner[m] \in Threads /\ NextOwner(t) = owner[m]
         /\ t \in Created
<1>1. t \in Threads /\ waitingMutex[t] = m /\ m # NULL
  BY NullAssumption DEF IInv, WaitQueuesExact
<1>2. state[t] = "BLOCKED"
  BY <1>1 DEF IInv, WaitQueuesExact
<1>3. waiters[m] # <<>>
  BY EmptySequence DEF IInv, TypeOK
<1>4. owner[m] \in Threads
  BY <1>3 DEF IInv, TypeOK, WaitQueuesExact
<1> QED
  BY <1>1, <1>2, <1>4, WaitingThread DEF NextOwner

(* Steps that move no thread into or out of a wait queue and lower no
   priority: nobody comes to wait for a lower owner. *)
LEMMA InheritedUnmoved ==
  ASSUME IInv, PriorityInherited, Quiet \/ Dies \/ Passes
  PROVE  PriorityInherited'
<1> USE DEF MutexSame, tableVars
<1> SUFFICES ASSUME NEW m \in Mutexes, NEW t \in ToSet(waiters[m]),
                    state'[owner[m]] # "TERMINATED"
             PROVE  priority[t] <= priority[owner[m]]
  BY DEF PriorityInherited, Quiet, Dies, Passes
<1>1. owner[m] \in Threads /\ state \in [Threads -> ThreadStates]
  BY WaiterFields DEF IInv, TypeOK
<1>2. state[owner[m]] # "TERMINATED"
  BY <1>1 DEF Quiet, Dies, Passes, DeadSame
<1> QED
  BY <1>2 DEF PriorityInherited

(* CreateThread: the new thread owns no mutex and waits for none. *)
LEMMA InheritedCreate ==
  ASSUME IInv, OwnersExact, PriorityInherited,
         NEW r \in Routines, NEW p \in UserPriorities, CreateThread(r, p)
  PROVE  PriorityInherited'
<1> DEFINE n == threadCount + 1
<1>1. /\ n \in Threads \ Created /\ UNCHANGED <<state, owner, waiters>>
      /\ priority' = [priority EXCEPT ![n] = p]
      /\ priority \in [Threads -> 0..(MAX_PRIORITY - 2)]
  BY DEF CreateThread, Created, mutexVars, IInv, TypeOK, Threads
<1>2. \A m \in Mutexes : owner[m] # n
  BY <1>1, NewThreadFree
<1> HIDE DEF n
<1>3. \A m \in Mutexes : \A t \in ToSet(waiters[m]) :
        /\ t \in Threads /\ owner[m] \in Threads /\ t # n /\ owner[m] # n
  BY <1>1, <1>2, WaiterFields
<1> QED
  BY <1>1, <1>3 DEF PriorityInherited

(* AcquireMutex of a free mutex: it has no waiters. *)
LEMMA InheritedAcquire ==
  ASSUME IInv, PriorityInherited, NEW m \in Mutexes, AcquireFree(m)
  PROVE  PriorityInherited'
<1>1. /\ UNCHANGED <<state, priority, waiters>>
      /\ owner' = [owner EXCEPT ![m] = current] /\ owner[m] = NULL
      /\ owner \in [Mutexes -> Threads \cup {NULL}]
  BY DEF AcquireFree, IInv, TypeOK
<1>2. ToSet(waiters[m]) = {}
  BY <1>1, WaiterFields, NullAssumption
<1> QED
  BY <1>1, <1>2 DEF PriorityInherited

(* The boost of the chain restores what the new waiter disturbed. *)
LEMMA InheritedBlock ==
  ASSUME IInv, PriorityInherited, NEW m \in Mutexes, AcquireBlocked(m)
  PROVE  PriorityInherited'
<1> DEFINE new == priority[current]
           B == Boosted(owner[m], new)
<1>1. /\ Running /\ current \in Threads /\ state[current] = "RUNNING"
      /\ owner[m] \in Threads /\ new \in Nat
      /\ priority \in [Threads -> Nat]
      /\ state \in [Threads -> ThreadStates]
      /\ waiters \in [Mutexes -> Seq(Threads)]
  <2>1. /\ priority \in [Threads -> Nat] /\ state \in [Threads -> ThreadStates]
        /\ waiters \in [Mutexes -> Seq(Threads)]
        /\ owner \in [Mutexes -> Threads \cup {NULL}]
    BY SizeAssumption DEF IInv, TypeOK
  <2>2. Running /\ current \in Threads /\ state[current] = "RUNNING" /\ owner[m] # NULL
    BY RunningThread DEF AcquireBlocked, Calls
  <2> QED
    BY <2>1, <2>2
<1>2. /\ BoostPriorityChain(owner[m], new) /\ owner' = owner
      /\ state' = [state EXCEPT ![current] = "BLOCKED"]
      /\ waiters' = [waiters EXCEPT ![m] = Append(@, current)]
  BY DEF AcquireBlocked
<1>3. /\ ChainClosed(B, owner[m], new)
      /\ \A u \in Threads : priority'[u] = IF u \in B THEN new ELSE priority[u]
      /\ \A u \in Threads : priority'[u] >= priority[u]
  <2>1. TypeOK
    BY DEF IInv
  <2>2. ChainClosed(B, owner[m], new)
    BY <1>1, <2>1, BoostedLeast
  <2>3. \A u \in Threads : priority'[u] = IF u \in B THEN new ELSE priority[u]
    BY <1>2 DEF BoostPriorityChain
  <2>4. \A u \in Threads : priority'[u] >= priority[u]
    BY <1>1, <1>2, <2>1, BoostRaises
  <2> QED
    BY <2>2, <2>3, <2>4
<1> HIDE DEF new, B
<1>4. ASSUME NEW o \in Mutexes, NEW t \in ToSet(waiters[o]), state'[owner[o]] # "TERMINATED"
      PROVE  priority'[t] <= priority'[owner[o]]
  <2>1. t \in Threads /\ owner[o] \in Threads /\ NextOwner(t) = owner[o]
    BY <1>4, WaiterFields
  <2>2. priority[t] <= priority[owner[o]]
    <3>1. state[owner[o]] # "TERMINATED"
      BY <1>1, <1>2, <1>4, <2>1
    <3> QED
      BY <3>1 DEF PriorityInherited
  <2>3. t \in B /\ priority[owner[o]] < new => owner[o] \in B
    BY <1>3, <2>1, NullAssumption DEF ChainClosed
  <2> QED
    BY <1>1, <1>3, <2>1, <2>2, <2>3
<1>5. priority'[current] <= priority'[owner[m]]
  <2>1. priority'[current] = new
    BY <1>1, <1>3 DEF new
  <2>2. priority[owner[m]] < new => owner[m] \in B
    BY <1>3 DEF ChainClosed
  <2> QED
    BY <1>1, <1>3, <2>1, <2>2
<1>6. /\ ToSet(waiters'[m]) = ToSet(waiters[m]) \cup {current}
      /\ \A o \in Mutexes : o # m => waiters'[o] = waiters[o]
  BY <1>1, <1>2, AppendKeeps
<1> QED
  BY <1>2, <1>4, <1>5, <1>6 DEF PriorityInherited

(* A thread that gives up a mutex and goes on leaves no waiter behind. *)
LEMMA InheritedGiveUp ==
  ASSUME ReleasesLast, IInv, OwnersExact, PriorityInherited,
         NEW m \in Mutexes, NEW s \in {"RUNNING", "TERMINATED"}, GivesUp(m, s)
  PROVE  PriorityInherited'
<1>1. /\ current \in Threads /\ owner[m] = current /\ state'[current] = s
      /\ priority' = [priority EXCEPT ![current] = basePriority[current]]
      /\ \A o \in Mutexes : o # m => owner'[o] = owner[o] /\ waiters'[o] = waiters[o]
      /\ waitingMutex[current] = NULL
      /\ priority \in [Threads -> 0..(MAX_PRIORITY - 2)]
  <2>1. waitingMutex[current] = NULL
    BY RunningThread DEF GivesUp
  <2>2. priority \in [Threads -> 0..(MAX_PRIORITY - 2)]
    BY DEF IInv, TypeOK
  <2> QED
    BY <2>1, <2>2, GivesUpEffect
<1>2. ASSUME NEW o \in Mutexes, o # m, owner[o] = current PROVE s = "TERMINATED"
  <2> SUFFICES ASSUME s = "RUNNING" PROVE FALSE
    OBVIOUS
  <2>1. /\ pc[current] \in DOMAIN routine[current]
        /\ routine[current][pc[current]] = Step("release", m)
    BY DEF GivesUp, Calls
  <2>2. routine[current] \in Routines
    BY <1>1, <2>1, Places DEF IInv
  <2>3. HeldAt(routine[current], pc[current], o)
    BY <1>1, <1>2 DEF OwnersExact
  <2> QED
    BY <1>2, <2>1, <2>2, <2>3 DEF ReleasesLast
<1>3. ASSUME NEW o \in Mutexes, o # m, NEW t \in ToSet(waiters[o]),
             state'[owner[o]] # "TERMINATED"
      PROVE  priority'[t] <= priority'[owner[o]]
  <2>1. t \in Threads /\ waitingMutex[t] = o /\ owner[o] \in Threads
    BY <1>3, WaiterFields
  <2>2. t # current /\ owner[o] # current
    BY <1>1, <1>2, <1>3, <2>1, NullAssumption
  <2>3. state[owner[o]] # "TERMINATED"
    BY <1>3, <2>1, <2>2, GivesUpEffect
  <2> QED
    BY <1>1, <2>1, <2>2, <2>3 DEF PriorityInherited
<1>4. ASSUME NEW t \in ToSet(waiters'[m]) PROVE priority'[t] <= priority'[owner'[m]]
  <2>1. waiters[m] \in Seq(Threads) /\ IsInjective(waiters[m])
    BY DEF IInv, TypeOK, WaitQueuesExact
  <2>2. CASE waiters' = waiters /\ waiters[m] = <<>>
    BY <1>4, <2>1, <2>2, EmptySequence
  <2>3. ASSUME NEW i \in DOMAIN waiters[m], IsBest(waiters[m], i),
               owner'[m] = waiters[m][i], waiters[m][i] # current,
               waiters[m][i] \in Threads,
               waiters'[m] = RemoveAt(waiters[m], i)
        PROVE  priority'[t] <= priority'[owner'[m]]
    <3>1. t \in ToSet(waiters[m])
      BY <1>4, <2>1, <2>3, RemoveAtKeeps
    <3>2. t \in Threads /\ t # current
      BY <1>1, <3>1, WaiterFields, NullAssumption
    <3>3. priority[t] <= priority[waiters[m][i]]
      BY <2>3, <3>1 DEF IsBest, ToSet
    <3> QED
      BY <1>1, <2>3, <3>2, <3>3
  <2> QED
    BY <2>2, <2>3, GivesUpEffect
<1> QED
  BY <1>1, <1>3, <1>4 DEF PriorityInherited

(* Every step keeps the inherited priorities, if a routine that releases a
   mutex owns no other one. *)
LEMMA InheritedNext ==
  ASSUME ReleasesLast
  PROVE  IInv /\ OwnersExact /\ PriorityInherited /\ [Next]_vars => PriorityInherited'
<1> SUFFICES ASSUME IInv, OwnersExact, PriorityInherited, [Next]_vars
             PROVE  PriorityInherited'
  OBVIOUS
<1> QED
  BY StepKinds, InheritedUnmoved, InheritedCreate, InheritedAcquire, InheritedBlock,
     InheritedGiveUp

(* With inheritance, what DetectPriorityInversion can report is no waiter  *)
(* of the mutex of a live owner.                                           *)
LEMMA NoInversionLeft == IInv /\ PriorityInherited => InversionAlarmsFalse
<1> SUFFICES ASSUME IInv, PriorityInherited,
                    NEW m \in Mutexes, NEW b \in DetectPriorityInversion(m),
                    waitingMutex[b] = m, state[owner[m]] # "TERMINATED"
             PROVE  FALSE
  BY DEF InversionAlarmsFalse
<1>1. b \in Threads /\ InversionSeen(m, b)
  BY PriorityTypes DEF DetectPriorityInversion, IInv
<1>2. b \in ToSet(waiters[m])
  BY <1>1 DEF IInv, WaitQueuesExact
<1>3. priority[b] \in Nat /\ priority[owner[m]] \in Nat
  BY <1>1, <1>2, WaiterFields, SizeAssumption, SMTT(20) DEF IInv, TypeOK
<1>4. priority[b] <= priority[owner[m]]
  BY <1>2 DEF PriorityInherited
<1> QED
  BY <1>1, <1>3, <1>4 DEF InversionSeen

----------------------------------------------------------------------------
(* Every boost has its reason *)

(* A boosted priority comes from a waiter of a mutex of the boosted thread, *)
(* through every step.                                                      *)
LEMMA GroundedUnmoved ==
  ASSUME BoostGrounded, Quiet \/ Dies \/ Passes, IInv
  PROVE  BoostGrounded'
<1> USE DEF MutexSame, tableVars
<1> SUFFICES ASSUME NEW t \in UserThreads, priority[t] # basePriority[t],
                    state'[t] # "TERMINATED"
             PROVE  \E m \in Mutexes : owner[m] = t
                      /\ \E w \in ToSet(waiters[m]) : priority[t] <= priority[w]
  BY DEF BoostGrounded, Quiet, Dies, Passes, UserThreads, Created
<1>1. t \in Threads /\ state \in [Threads -> ThreadStates]
  BY PriorityTypes DEF IInv, TypeOK, UserThreads
<1>2. state[t] # "TERMINATED"
  BY <1>1 DEF Quiet, Dies, Passes, DeadSame
<1> QED
  BY <1>2 DEF BoostGrounded

(* CreateThread starts the new thread at its base priority. *)
LEMMA GroundedCreate ==
  ASSUME IInv, BoostGrounded, NEW r \in Routines, NEW p \in UserPriorities,
         CreateThread(r, p)
  PROVE  BoostGrounded'
<1> DEFINE n == threadCount + 1
<1>1. /\ n \in Threads \ Created /\ UNCHANGED <<state, owner, waiters>>
      /\ priority' = [priority EXCEPT ![n] = p]
      /\ basePriority' = [basePriority EXCEPT ![n] = p]
      /\ priority \in [Threads -> 0..(MAX_PRIORITY - 2)]
      /\ basePriority \in [Threads -> 0..(MAX_PRIORITY - 2)]
      /\ threadCount \in Nat /\ threadCount' = n
  BY DEF CreateThread, Created, mutexVars, IInv, TypeOK, Threads
<1> SUFFICES ASSUME NEW t \in UserThreads', priority'[t] # basePriority'[t],
                    state'[t] # "TERMINATED"
             PROVE  \E m \in Mutexes : owner[m] = t
                      /\ \E w \in ToSet(waiters[m]) : priority'[t] <= priority'[w]
  BY <1>1 DEF BoostGrounded
<1> HIDE DEF n
<1>2. t # n
  BY <1>1
<1>3. t \in UserThreads /\ t \in Threads
  BY <1>1, <1>2, PriorityTypes DEF UserThreads, Created, IInv, n
<1>4. PICK m \in Mutexes : owner[m] = t /\ \E w \in ToSet(waiters[m]) : priority[t] <= priority[w]
  BY <1>1, <1>2, <1>3 DEF BoostGrounded
<1>5. PICK w \in ToSet(waiters[m]) : priority[t] <= priority[w]
  BY <1>4
<1>6. w \in Threads /\ w # n
  BY <1>1, <1>5, WaiterFields
<1> QED
  BY <1>1, <1>2, <1>3, <1>4, <1>5, <1>6

(* AcquireMutex of a free mutex boosts nobody and takes no mutex away. *)
LEMMA GroundedAcquire ==
  ASSUME IInv, BoostGrounded, NEW m \in Mutexes, AcquireFree(m)
  PROVE  BoostGrounded'
<1>1. /\ UNCHANGED <<state, priority, waiters, basePriority, threadCount>>
      /\ owner' = [owner EXCEPT ![m] = current] /\ owner[m] = NULL
      /\ owner \in [Mutexes -> Threads \cup {NULL}]
  BY DEF AcquireFree, IInv, TypeOK, RunUnchanged, tableVars
<1>2. UserThreads' = UserThreads /\ UserThreads \subseteq Threads /\ NULL \notin Threads
  BY <1>1, PriorityTypes, NullAssumption DEF UserThreads, Created, IInv
<1>3. \A o \in Mutexes : owner[o] # NULL => owner'[o] = owner[o]
  BY <1>1
<1> QED
  BY <1>1, <1>2, <1>3 DEF BoostGrounded

(* AcquireMutex of an owned mutex: BoostPriorityChain raises its owner to    *)
(* the priority of the thread that now waits for it.                        *)
LEMMA GroundedBlock ==
  ASSUME IInv, BoostGrounded, NEW m \in Mutexes, AcquireBlocked(m)
  PROVE  BoostGrounded'
<1> DEFINE new == priority[current]
           B == Boosted(owner[m], new)
           For(u, x) == \E o \in Mutexes : owner[o] = u
                          /\ \E w \in ToSet(waiters'[o]) : x <= priority'[w]
<1>1. /\ Running /\ current \in Threads /\ state[current] = "RUNNING"
      /\ owner[m] \in Threads /\ new \in Nat
      /\ priority \in [Threads -> Nat]
      /\ state \in [Threads -> ThreadStates]
      /\ waiters \in [Mutexes -> Seq(Threads)]
  <2>1. /\ priority \in [Threads -> Nat] /\ state \in [Threads -> ThreadStates]
        /\ waiters \in [Mutexes -> Seq(Threads)]
        /\ owner \in [Mutexes -> Threads \cup {NULL}]
    BY SizeAssumption DEF IInv, TypeOK
  <2>2. Running /\ current \in Threads /\ state[current] = "RUNNING" /\ owner[m] # NULL
    BY RunningThread DEF AcquireBlocked, Calls
  <2> QED
    BY <2>1, <2>2
<1>2. /\ BoostPriorityChain(owner[m], new) /\ owner' = owner
      /\ state' = [state EXCEPT ![current] = "BLOCKED"]
      /\ waiters' = [waiters EXCEPT ![m] = Append(@, current)]
      /\ UNCHANGED <<threadCount, basePriority>>
  BY DEF AcquireBlocked, RunUnchanged, tableVars
<1>3. /\ ChainClosed(B, owner[m], new)
      /\ \A S \in SUBSET Threads : ChainClosed(S, owner[m], new) => B \subseteq S
      /\ \A u \in Threads : priority'[u] = IF u \in B THEN new ELSE priority[u]
      /\ \A u \in Threads : priority'[u] >= priority[u]
  <2>1. TypeOK
    BY DEF IInv
  <2>2. ChainClosed(B, owner[m], new)
        /\ \A S \in SUBSET Threads : ChainClosed(S, owner[m], new) => B \subseteq S
    BY <1>1, <2>1, BoostedLeast
  <2>3. \A u \in Threads : priority'[u] = IF u \in B THEN new ELSE priority[u]
    BY <1>2 DEF BoostPriorityChain
  <2>4. \A u \in Threads : priority'[u] >= priority[u]
    BY <1>1, <1>2, <2>1, BoostRaises
  <2> QED
    BY <2>2, <2>3, <2>4
<1>4. /\ ToSet(waiters'[m]) = ToSet(waiters[m]) \cup {current}
      /\ \A o \in Mutexes : o # m => waiters'[o] = waiters[o]
  BY <1>1, <1>2, AppendKeeps
<1>5. priority'[current] >= new
  BY <1>1, <1>3 DEF new
<1> HIDE DEF new, B, For
<1>6. \A u \in B : For(u, new)
  <2> DEFINE S == {u \in Threads : u \in B /\ For(u, new)}
  <2>1. owner[m] \in B => owner[m] \in S
    <3>1. For(owner[m], new)
      BY <1>1, <1>3, <1>4, <1>5 DEF For
    <3> QED
      BY <1>1, <3>1
  <2>2. ASSUME NEW u \in S, NextOwner(u) # NULL, priority[NextOwner(u)] < new
        PROVE  NextOwner(u) \in S
    <3>1. NextOwner(u) \in B /\ NextOwner(u) \in Threads
      BY <1>3, <2>2 DEF ChainClosed, NextOwner, IInv, TypeOK
    <3>2. waitingMutex[u] \in Mutexes /\ owner[waitingMutex[u]] = NextOwner(u)
      BY <2>2 DEF NextOwner, IInv, TypeOK
    <3>3. u \in ToSet(waiters[waitingMutex[u]])
      BY <3>2 DEF IInv, WaitQueuesExact
    <3>4. u \in ToSet(waiters'[waitingMutex[u]])
      BY <1>4, <3>2, <3>3
    <3>5. priority'[u] = new
      BY <1>3
    <3>6. For(NextOwner(u), new)
      BY <1>1, <3>2, <3>4, <3>5 DEF For
    <3> QED
      BY <3>1, <3>6
  <2>3. ChainClosed(S, owner[m], new) /\ S \in SUBSET Threads
    <3> HIDE DEF S
    <3>1. ChainClosed(B, owner[m], new)
      BY <1>3
    <3>2. priority[owner[m]] < new => owner[m] \in S
      BY <2>1, <3>1 DEF ChainClosed
    <3>3. S \in SUBSET Threads
      BY DEF S
    <3> QED
      BY <2>2, <3>2, <3>3 DEF ChainClosed
  <2> QED
    BY <1>3, <2>3
<1>7. ASSUME NEW t \in UserThreads, priority'[t] # basePriority[t], state'[t] # "TERMINATED"
      PROVE  For(t, priority'[t])
  <2>1. t \in Threads
    BY PriorityTypes DEF IInv, UserThreads
  <2>2. CASE t \in B
    BY <1>3, <1>6, <2>1, <2>2
  <2>3. CASE t \notin B
    <3>1. priority'[t] = priority[t] /\ state[t] # "TERMINATED"
      BY <1>1, <1>2, <1>3, <1>7, <2>1, <2>3
    <3>2. PICK o \in Mutexes : owner[o] = t /\ \E w \in ToSet(waiters[o]) : priority[t] <= priority[w]
      BY <1>7, <3>1 DEF BoostGrounded
    <3>3. PICK w \in ToSet(waiters[o]) : priority[t] <= priority[w]
      BY <3>2
    <3>4. w \in Threads /\ w \in ToSet(waiters'[o])
      BY <1>4, <3>3, WaiterFields
    <3>5. priority[t] <= priority'[w]
      <4>1. priority[t] \in Nat /\ priority[w] \in Nat /\ priority'[w] \in Nat
        BY <1>1, <1>3, <2>1, <3>4
      <4> QED
        BY <1>3, <3>3, <3>4, <4>1
    <3> QED
      BY <3>1, <3>2, <3>4, <3>5 DEF For
  <2> QED
    BY <2>2, <2>3
<1>8. UserThreads' = UserThreads
  BY <1>2 DEF UserThreads, Created
<1> QED
  BY <1>2, <1>7, <1>8 DEF BoostGrounded, For

(* ReleaseMutex puts its caller back at its base priority; the thread that   *)
(* gets the mutex keeps the waiters behind it.                              *)
LEMMA GroundedGiveUp ==
  ASSUME IInv, BoostGrounded, NEW m \in Mutexes, NEW s \in {"RUNNING", "TERMINATED"},
         GivesUp(m, s)
  PROVE  BoostGrounded'
<1>1. /\ current \in Threads /\ owner[m] = current
      /\ priority' = [priority EXCEPT ![current] = basePriority[current]]
      /\ \A o \in Mutexes : o # m => owner'[o] = owner[o] /\ waiters'[o] = waiters[o]
      /\ UNCHANGED <<threadCount, basePriority>>
      /\ waitingMutex[current] = NULL
      /\ priority \in [Threads -> 0..(MAX_PRIORITY - 2)]
  <2>1. waitingMutex[current] = NULL
    BY RunningThread DEF GivesUp
  <2>2. priority \in [Threads -> 0..(MAX_PRIORITY - 2)]
    BY DEF IInv, TypeOK
  <2> QED
    BY <2>1, <2>2, GivesUpEffect DEF GivesUp, tableVars
<1>2. UserThreads' = UserThreads /\ UserThreads \subseteq Threads
  BY <1>1, PriorityTypes DEF UserThreads, Created, IInv
<1> SUFFICES ASSUME NEW t \in UserThreads, priority'[t] # basePriority[t],
                    state'[t] # "TERMINATED"
             PROVE  \E o \in Mutexes : owner'[o] = t
                      /\ \E w \in ToSet(waiters'[o]) : priority'[t] <= priority'[w]
  BY <1>1, <1>2 DEF BoostGrounded
<1>3. t \in Threads /\ t # current /\ priority'[t] = priority[t]
  BY <1>1, <1>2
<1>4. state[t] # "TERMINATED"
  BY <1>3, GivesUpEffect
<1>5. PICK o \in Mutexes : owner[o] = t /\ \E w \in ToSet(waiters[o]) : priority[t] <= priority[w]
  BY <1>3, <1>4 DEF BoostGrounded
<1>6. PICK w \in ToSet(waiters[o]) : priority[t] <= priority[w]
  BY <1>5
<1>7. o # m /\ owner'[o] = t /\ w \in ToSet(waiters'[o])
  BY <1>1, <1>3, <1>5, <1>6
<1>8. w \in Threads /\ w # current
  BY <1>1, <1>6, WaiterFields, NullAssumption
<1> QED
  BY <1>1, <1>3, <1>6, <1>7, <1>8

(* Every boost has its reason: a live thread above its base priority owns a *)
(* mutex somebody of that priority waits for (BoostPriorityChain,           *)
(* ReleaseMutex).  The converse is PriorityInherited.                       *)
LEMMA GroundedNext == IInv /\ BoostGrounded /\ [Next]_vars => BoostGrounded'
<1> SUFFICES ASSUME IInv, BoostGrounded, [Next]_vars PROVE BoostGrounded'
  OBVIOUS
<1> QED
  BY StepKinds, GroundedUnmoved, GroundedCreate, GroundedAcquire, GroundedBlock, GroundedGiveUp

(* For all routines: a live thread above its base priority owns a mutex     *)
(* that a thread of at least that priority waits for, so BoostPriorityChain  *)
(* raises nobody without a waiter and ReleaseMutex takes every boost back.   *)
THEOREM BoostsGrounded == Spec => []BoostGrounded
<1>1. Init => BoostGrounded
  BY DEF Init, BoostGrounded, UserThreads, Created, Threads
<1> QED
  BY <1>1, GroundedNext, Invariant, PTL DEF Spec

(* If no routine goes on after a ReleaseMutex while it holds another mutex,*)
(* a priority is above its base exactly as far and as long as waiters need *)
(* it: ReleaseMutex may then restore the base priority without looking at  *)
(* the other mutexes of its caller.                                        *)
THEOREM InheritanceCorrect ==
  ASSUME ReleasesLast
  PROVE  Spec => []InheritanceExact
<1>1. Init => PriorityInherited
  BY DEF Init, PriorityInherited, ToSet
<1>2. Spec => []PriorityInherited
  BY <1>1, InheritedNext, OwnersCorrect, Invariant, PTL DEF Spec
<1>3. PriorityInherited /\ BoostGrounded /\ NoStaleBoost /\ InversionAlarmsFalse
        => InheritanceExact
  BY DEF InheritanceExact
<1> QED
  BY <1>2, <1>3, NoInversionLeft, BoostsGrounded, NoStaleBoostCorrect, Invariant, PTL

----------------------------------------------------------------------------
(* No circle of waiting threads, and no dead owner *)

(* A set of naturals has a least element. *)
LEMMA LeastNatural ==
  ASSUME NEW T, T \subseteq Nat, T # {}
  PROVE  \E x \in T : \A y \in T : x <= y
<1>1. PICK x \in T : \A y \in T : <<y, x>> \notin OpToRel(<, Nat)
  BY WFMin, NatLessThanWellFounded, Zenon
<1>2. \A y \in T : ~(y < x)
  BY <1>1, Zenon DEF OpToRel
<1> QED
  BY <1>2

(* A thread asks only for mutexes of lower rank than those it owns. *)
LEMMA AsksBelow ==
  ASSUME NEW rank \in [Mutexes -> Nat], LocksNest(rank), IInv, OwnersExact,
         NEW m \in Mutexes, Calls("acquire", m), NEW o \in Mutexes, owner[o] = current
  PROVE  rank[m] < rank[o]
<1>1. current \in Threads
  BY RunningThread DEF Calls
<1>2. /\ pc[current] \in DOMAIN routine[current]
      /\ routine[current][pc[current]] = Step("acquire", m)
  BY DEF Calls
<1>3. routine[current] \in Routines
  BY <1>1, <1>2, Places DEF IInv
<1>4. HeldAt(routine[current], pc[current], o)
  BY <1>1 DEF OwnersExact
<1> QED
  BY <1>2, <1>3, <1>4 DEF LocksNest

(* At the boot nobody waits. *)
LEMMA NestInit ==
  ASSUME NEW rank
  PROVE  Init => WaitsNest(rank)
BY DEF Init, WaitsNest

(* Waiting goes down the ranks. *)
LEMMA NestNext ==
  ASSUME NEW rank \in [Mutexes -> Nat], LocksNest(rank)
  PROVE  IInv /\ OwnersExact /\ WaitsNest(rank) /\ [Next]_vars => WaitsNest(rank)'
<1> SUFFICES ASSUME IInv, OwnersExact, WaitsNest(rank), [Next]_vars,
                    NEW t \in Threads, NEW o \in Mutexes,
                    owner'[o] = t, waitingMutex'[t] # NULL
             PROVE  rank[waitingMutex'[t]] < rank[o]
  BY DEF WaitsNest
<1>1. /\ owner \in [Mutexes -> Threads \cup {NULL}]
      /\ waitingMutex \in [Threads -> Mutexes \cup {NULL}]
  BY DEF IInv, TypeOK
<1>2. CASE owner' = owner /\ waitingMutex' = waitingMutex
  BY <1>2 DEF WaitsNest
<1>3. ASSUME NEW m \in Mutexes, AcquireFree(m)
      PROVE  rank[waitingMutex'[t]] < rank[o]
  <2>1. /\ owner' = [owner EXCEPT ![m] = current] /\ waitingMutex' = waitingMutex
        /\ waitingMutex[current] = NULL
    BY <1>3, RunningThread DEF AcquireFree, Calls
  <2>2. owner[o] = t
    BY <1>1, <2>1
  <2> QED
    BY <2>1, <2>2 DEF WaitsNest
<1>4. ASSUME NEW m \in Mutexes, AcquireBlocked(m)
      PROVE  rank[waitingMutex'[t]] < rank[o]
  <2>1. /\ owner' = owner /\ waitingMutex' = [waitingMutex EXCEPT ![current] = m]
        /\ Calls("acquire", m)
    BY <1>4 DEF AcquireBlocked
  <2>2. CASE t = current
    BY <1>1, <2>1, <2>2, AsksBelow
  <2>3. CASE t # current
    BY <1>1, <2>1, <2>3 DEF WaitsNest
  <2> QED
    BY <2>2, <2>3
<1>5. ASSUME NEW m \in Mutexes, NEW s \in {"RUNNING", "TERMINATED"}, GivesUp(m, s)
      PROVE  rank[waitingMutex'[t]] < rank[o]
  <2>1. /\ \A n \in Mutexes : n # m => owner'[n] = owner[n]
        /\ \/ owner'[m] = NULL /\ waitingMutex' = waitingMutex
           \/ \E next \in Threads : /\ owner'[m] = next
                                    /\ waitingMutex' = [waitingMutex EXCEPT ![next] = NULL]
    BY <1>5, GivesUpEffect
  <2>2. owner[o] = t /\ waitingMutex'[t] = waitingMutex[t]
    BY <1>1, <2>1, NullAssumption
  <2> QED
    BY <2>2 DEF WaitsNest
<1> QED
  BY <1>2, <1>3, <1>4, <1>5, StepKinds
     DEF Quiet, Dies, Passes, MutexSame, CreateThread, mutexVars

(* Waiting that goes down the ranks ends. *)
LEMMA NestNoCycle ==
  ASSUME NEW rank \in [Mutexes -> Nat]
  PROVE  IInv /\ WaitsNest(rank) => NoWaitCycle
<1> SUFFICES ASSUME IInv, WaitsNest(rank), NEW S \in SUBSET Threads, S # {},
                    \A t \in S : NextOwner(t) \in S
             PROVE  FALSE
  BY DEF NoWaitCycle
<1> DEFINE T == {rank[waitingMutex[t]] : t \in S}
<1>1. \A t \in S : waitingMutex[t] # NULL /\ waitingMutex[t] \in Mutexes
                     /\ owner[waitingMutex[t]] \in S
  BY NullAssumption DEF NextOwner, IInv, TypeOK
<1>2. T \subseteq Nat /\ T # {}
  BY <1>1
<1>3. PICK x \in T : \A y \in T : x <= y
  <2> HIDE DEF T
  <2> QED
    BY <1>2, LeastNatural
<1>4. PICK t \in S : x = rank[waitingMutex[t]]
  BY <1>3
<1> DEFINE u == owner[waitingMutex[t]]
<1>5. u \in S /\ u \in Threads /\ waitingMutex[u] # NULL
  BY <1>1
<1>6. rank[waitingMutex[u]] < rank[waitingMutex[t]]
  BY <1>1, <1>5 DEF WaitsNest
<1>7. rank[waitingMutex[u]] \in T /\ rank[waitingMutex[u]] \in Nat
  BY <1>1, <1>5
<1>8. x <= rank[waitingMutex[u]]
  BY <1>3, <1>7
<1> HIDE DEF u, T
<1> QED
  BY <1>1, <1>4, <1>6, <1>7, <1>8

(* A routine takes finitely many mutexes. *)
LEMMA TakesFinite ==
  ASSUME TypeOK, NEW t \in Threads
  PROVE  IsFiniteSet(Takes(t))
<1> DEFINE I == {i \in DOMAIN routine[t] : \E m \in Mutexes : routine[t][i] = Step("acquire", m)}
           f == [i \in I |-> routine[t][i].mutex]
<1>1. routine[t] \in Seq(Steps)
  <2>1. routine[t] \in Routines \/ routine[t] = <<>>
    BY Places
  <2>2. Routines \subseteq Seq(Steps) /\ <<>> \in Seq(Steps)
    BY RoutineAssumption
  <2> QED
    BY <2>1, <2>2
<1>2. IsFiniteSet(I)
  <2>1. DOMAIN routine[t] = 1..Len(routine[t]) /\ Len(routine[t]) \in Nat
    BY <1>1
  <2>2. IsFiniteSet(1..Len(routine[t]))
    BY <2>1, FS_Interval
  <2> QED
    BY <2>1, <2>2, FS_Subset
<1>3. f \in Surjection(I, Takes(t))
  <2>1. ASSUME NEW i \in I PROVE f[i] \in Takes(t)
    <3>1. PICK m \in Mutexes : routine[t][i] = Step("acquire", m)
      OBVIOUS
    <3>2. routine[t][i].mutex = m
      BY <3>1 DEF Step
    <3>3. m \in Takes(t)
      BY <3>1 DEF Takes
    <3> QED
      BY <3>2, <3>3
  <2>2. ASSUME NEW m \in Takes(t) PROVE \E i \in I : f[i] = m
    <3>1. PICK i \in DOMAIN routine[t] : routine[t][i] = Step("acquire", m)
      BY DEF Takes
    <3>2. i \in I /\ routine[t][i].mutex = m
      BY <3>1 DEF Takes, Step
    <3> QED
      BY <3>2
  <2>3. f \in [I -> Takes(t)]
    BY <2>1
  <2> HIDE DEF f, I
  <2> QED
    BY <2>2, <2>3 DEF Surjection
<1> HIDE DEF f, I
<1> QED
  BY <1>2, <1>3, FS_Surjection

(* A dead owner took another mutex as well. *)
LEMMA DeadOwnerTookTwo == IInv /\ OwnersExact => NoDeadOwner
<1> SUFFICES ASSUME IInv, OwnersExact, NEW m \in Mutexes, owner[m] # NULL,
                    state[owner[m]] = "TERMINATED"
             PROVE  Cardinality(Takes(owner[m])) > 1
  BY DEF NoDeadOwner
<1> DEFINE S == Takes(owner[m])
<1>1. owner[m] \in Threads
  BY DEF IInv, TypeOK
<1>2. m \in S
  BY <1>1, OwnerTakes
<1>3. PICK n \in S : n # m
  BY <1>1 DEF OwnersExact
<1>4. IsFiniteSet(S)
  BY <1>1, TakesFinite DEF IInv
<1> HIDE DEF S
<1>5. Cardinality({m}) = 1 /\ IsFiniteSet({m})
  BY FS_Singleton
<1> DEFINE M == {m}
<1>6. Cardinality(M \cup {n}) = 2
  <2>1. n \notin M
    BY <1>3
  <2>2. IsFiniteSet(M) /\ Cardinality(M) = 1
    BY <1>5
  <2> HIDE DEF M
  <2>3. Cardinality(M \cup {n}) = Cardinality(M) + 1
    BY <2>1, <2>2, FS_AddElement
  <2> QED
    BY <2>2, <2>3
<1>7. Cardinality({m} \cup {n}) <= Cardinality(S) /\ Cardinality(S) \in Nat
  BY <1>2, <1>4, FS_Subset, FS_CardinalityType
<1> QED
  BY <1>6, <1>7 DEF S

(* If the routines take the mutexes in one order, whatever the order,      *)
(* every chain of waiting ends, and it ends at a live thread unless that   *)
(* thread's routine takes two mutexes: AcquireMutex needs no test for a    *)
(* circle.                                                                 *)
THEOREM WaitChainsCorrect ==
  ASSUME NEW rank \in [Mutexes -> Nat], LocksNest(rank)
  PROVE  Spec => []WaitChainsEnd
<1>1. Init => WaitsNest(rank)
  BY NestInit
<1>2. IInv /\ OwnersExact /\ WaitsNest(rank) /\ [Next]_vars => WaitsNest(rank)'
  BY NestNext
<1>3. IInv /\ OwnersExact /\ WaitsNest(rank) => WaitChainsEnd
  BY NestNoCycle, DeadOwnerTookTwo DEF WaitChainsEnd
<1> QED
  BY <1>1, <1>2, <1>3, OwnersCorrect, Invariant, PTL DEF Spec

----------------------------------------------------------------------------
(* Every mutex implements MutexService *)

(* With LocksNest no thread asks for a mutex it owns. *)
LEMMA MutexStep ==
  ASSUME NEW rank \in [Mutexes -> Nat], LocksNest(rank), IInv, OwnersExact, [Next]_vars,
         NEW m \in Mutexes
  PROVE  [Mutex(m)!Next]_(Mutex(m)!vars)
<1> USE DEF Mutex!vars
<1>1. /\ owner \in [Mutexes -> Threads \cup {NULL}]
      /\ waiters \in [Mutexes -> Seq(Threads)]
      /\ rank \in [Mutexes -> Nat]
  BY DEF IInv, TypeOK
<1>2. ToSet(waiters[m]) = {t \in Threads : waitingMutex[t] = m}
      /\ (waiters[m] = <<>> <=> ToSet(waiters[m]) = {})
  BY <1>1, EmptySequence DEF IInv, WaitQueuesExact
<1>3. CASE owner'[m] = owner[m] /\ waiters'[m] = waiters[m]
  BY <1>3
<1>4. ASSUME NEW o \in Mutexes, AcquireFree(o)
      PROVE  [Mutex(m)!Next]_(Mutex(m)!vars)
  <2>1. /\ owner' = [owner EXCEPT ![o] = current] /\ owner[o] = NULL /\ waiters' = waiters
        /\ current \in Threads
    BY <1>4, RunningThread DEF AcquireFree, Calls
  <2>2. CASE o = m
    <3>1. Mutex(m)!Acquire(current)
      BY <1>1, <2>1, <2>2 DEF Mutex!Acquire
    <3> QED
      BY <2>1, <3>1 DEF Mutex!Next
  <2>3. CASE o # m
    BY <1>1, <1>3, <2>1, <2>3
  <2> QED
    BY <2>2, <2>3
<1>5. ASSUME NEW o \in Mutexes, AcquireBlocked(o)
      PROVE  [Mutex(m)!Next]_(Mutex(m)!vars)
  <2>1. /\ owner' = owner /\ owner[o] # NULL /\ current \in Threads
        /\ waiters' = [waiters EXCEPT ![o] = Append(@, current)]
        /\ waitingMutex[current] = NULL /\ Calls("acquire", o)
    BY <1>5, RunningThread DEF AcquireBlocked, Calls
  <2>2. CASE o = m
    <3>1. owner[m] # current
      <4>1. ~(rank[m] < rank[m])
        BY <1>1
      <4> QED
        BY <2>1, <2>2, <4>1, AsksBelow
    <3>2. current \notin ToSet(waiters[m])
      BY <1>2, <2>1, NullAssumption
    <3>3. ToSet(waiters'[m]) = ToSet(waiters[m]) \cup {current}
      BY <1>1, <2>1, <2>2, AppendKeeps
    <3>4. Mutex(m)!Wait(current)
      BY <2>1, <2>2, <3>1, <3>2, <3>3 DEF Mutex!Wait
    <3> QED
      BY <2>1, <3>4 DEF Mutex!Next
  <2>3. CASE o # m
    BY <1>1, <1>3, <2>1, <2>3
  <2> QED
    BY <2>2, <2>3
<1>6. ASSUME NEW o \in Mutexes, NEW s \in {"RUNNING", "TERMINATED"}, GivesUp(o, s)
      PROVE  [Mutex(m)!Next]_(Mutex(m)!vars)
  <2>1. CASE o # m
    BY <1>3, <1>6, <2>1, GivesUpEffect
  <2>2. CASE o = m
    <3>1. owner[m] \in Threads /\ owner[m] # NULL
      BY <1>6, <2>2, GivesUpEffect, NullAssumption
    <3>2. CASE waiters[m] = <<>> /\ owner'[m] = NULL /\ waiters' = waiters
      <4>1. Mutex(m)!Free
        BY <1>2, <3>1, <3>2 DEF Mutex!Free
      <4> QED
        BY <4>1 DEF Mutex!Next
    <3>3. ASSUME NEW i \in DOMAIN waiters[m], owner'[m] = waiters[m][i],
                 waiters[m][i] \in Threads, waiters'[m] = RemoveAt(waiters[m], i)
          PROVE  [Mutex(m)!Next]_(Mutex(m)!vars)
      <4>1. waiters[m][i] \in ToSet(waiters[m])
        BY DEF ToSet
      <4>2. ToSet(waiters'[m]) = ToSet(waiters[m]) \ {waiters[m][i]}
        BY <1>1, <3>3, RemoveAtKeeps DEF IInv, WaitQueuesExact
      <4>3. Mutex(m)!HandOff(waiters[m][i])
        BY <3>1, <3>3, <4>1, <4>2 DEF Mutex!HandOff
      <4> QED
        BY <3>3, <4>3 DEF Mutex!Next
    <3> QED
      BY <1>6, <2>2, <3>2, <3>3, GivesUpEffect
  <2> QED
    BY <2>1, <2>2
<1> QED
  BY <1>3, <1>4, <1>5, <1>6, StepKinds
     DEF Quiet, Dies, Passes, MutexSame, CreateThread, mutexVars

(* At the boot every mutex is free, without waiters. *)
LEMMA MutexInit ==
  ASSUME NEW m \in Mutexes
  PROVE  Init => Mutex(m)!Init
BY DEF Init, Mutex!Init, ToSet

(* If the routines take the mutexes in one order, every mutex gives its    *)
(* callers exclusive ownership and hand-off, whatever the scheduler does.  *)
THEOREM MutexImplemented ==
  ASSUME NEW rank \in [Mutexes -> Nat], LocksNest(rank), NEW m \in Mutexes
  PROVE  Spec => Mutex(m)!Spec
<1>1. IInv /\ OwnersExact /\ [Next]_vars => [Mutex(m)!Next]_(Mutex(m)!vars)
  BY MutexStep
<1> QED
  BY <1>1, MutexInit, OwnersCorrect, Invariant, PTL DEF Spec, Mutex!Spec

(* All of them do so at once. *)
THEOREM MutexesImplemented ==
  ASSUME NEW rank \in [Mutexes -> Nat], LocksNest(rank)
  PROVE  Spec => ImplementsMutex
<1> DEFINE A == \A m \in Mutexes : [Mutex(m)!Next]_(Mutex(m)!vars)
           B == \A m \in Mutexes : Mutex(m)!Init
<1>1. Init => B
  BY MutexInit
<1>2. IInv /\ OwnersExact /\ [Next]_vars => A
  BY MutexStep
<1>3. ImplementsMutex <=> B /\ [][A]_vars
  BY DEF ImplementsMutex
<1> HIDE DEF A, B
<1> QED
  BY <1>1, <1>2, <1>3, OwnersCorrect, Invariant, PTL DEF Spec

----------------------------------------------------------------------------
(* References *)

(* The current thread passes a step that keeps no reference. *)
PassesOwing ==
  /\ Running
  /\ routine[current][pc[current]].op # "hold"
  /\ Advance /\ UNCHANGED <<tableVars, waiters, refCount, exist>>

(* The steps, as the reference counts see them. *)
LEMMA ReferenceKinds ==
  ASSUME IInv, [Next]_vars
  PROVE  \/ UNCHANGED <<tableVars, pc, waiters, refCount, exist>>
         \/ PassesOwing \/ Reap
         \/ \E r \in Routines, p \in UserPriorities : CreateThread(r, p)
         \/ \E m \in Mutexes : Hold(m) \/ AcquireBlocked(m)
         \/ \E m \in Mutexes, s \in {"RUNNING", "TERMINATED"} : GivesUp(m, s) /\ exist' = exist
<1> USE DEF tableVars, threadVars, mutexVars, eventVars, RunUnchanged
<1>1. CASE BootSchedule \/ StartLoop \/ Timer \/ DispatchNothing \/ Dispatch \/ IdleThread
           \/ UNCHANGED vars
  BY <1>1 DEF BootSchedule, StartLoop, Timer, TimerIgnored, TimerCharged, QuantumExpired,
              TimerUnchanged, DispatchNothing, Dispatch, DispatchUnchanged, IdleThread, vars
<1>2. CASE Work \/ StartIo \/ WaitEvent \/ StartIoAndWait
  BY <1>2 DEF Work, StartIo, WaitEvent, StartIoAndWait, EventUnchanged, Calls, Step, PassesOwing
<1>3. ASSUME NEW m \in Mutexes, AcquireFree(m) PROVE PassesOwing
  BY <1>3 DEF AcquireFree, Calls, Step, PassesOwing
<1>4. ASSUME NEW m \in Mutexes, Release(m)
      PROVE  GivesUp(m, "RUNNING") /\ exist' = exist
  BY <1>4 DEF Release, GivesUp, Calls
<1>5. ASSUME NEW m \in Mutexes, ReleaseAndExit(m)
      PROVE  GivesUp(m, "TERMINATED") /\ exist' = exist
  BY <1>5 DEF ReleaseAndExit, GivesUp, Calls
<1>6. CASE Exit /\ ownedMutex[current] = NULL
  BY <1>6 DEF Exit
<1>7. CASE Exit /\ ownedMutex[current] # NULL
  <2>1. Running /\ current # Idle
    BY <1>7 DEF Exit, Calls
  <2>2. ownedMutex[current] \in Mutexes
    BY <1>7, <2>1, RunningThread DEF IInv, TypeOK
  <2>3. GivesUp(ownedMutex[current], "TERMINATED") /\ exist' = exist
    BY <1>7, <2>1 DEF Exit, GivesUp
  <2> QED
    BY <2>2, <2>3
<1> QED
  BY <1>1, <1>2, <1>3, <1>4, <1>5, <1>6, <1>7 DEF Next, Boot, RunThread

(* The threads that leaked a reference are finitely many. *)
LEMMA LeaksFinite ==
  ASSUME TypeOK, NEW m
  PROVE  IsFiniteSet(Leaks(m)) /\ Cardinality(Leaks(m)) \in Nat
<1>1. IsFiniteSet(1..threadCount)
  BY PriorityTypes, FS_Interval
<1>2. Leaks(m) \subseteq 1..threadCount
  BY DEF Leaks, UserThreads, Created
<1> QED
  BY <1>1, <1>2, FS_Subset, FS_CardinalityType

(* They are the same after a step that keeps no reference on m. *)
LEMMA LeaksSame ==
  ASSUME IInv, Running, UNCHANGED tableVars, NEW m \in Mutexes,
         \/ pc' = pc
         \/ Advance /\ routine[current][pc[current]] # Step("hold", m)
  PROVE  Leaks(m)' = Leaks(m)
<1>1. /\ current \in Threads /\ pc \in [Threads -> Nat \ {0}] /\ Created \subseteq Threads
      /\ UserThreads' = UserThreads /\ routine' = routine
  BY RunningThread, PriorityTypes DEF IInv, TypeOK, tableVars, UserThreads, Created
<1>2. CASE pc' = pc
  BY <1>1, <1>2 DEF Leaks
<1>3. CASE Advance /\ routine[current][pc[current]] # Step("hold", m)
  <2>1. pc'[current] = pc[current] + 1 /\ \A t \in Threads \ {current} : pc'[t] = pc[t]
    BY <1>1, <1>3 DEF Advance
  <2>2. \A i \in DOMAIN routine[current] : i \in Nat
    BY <1>1, Places DEF IInv
  <2>3. \A i \in DOMAIN routine[current] :
          i < pc'[current] /\ routine[current][i] = Step("hold", m)
            <=> i < pc[current] /\ routine[current][i] = Step("hold", m)
    BY <1>1, <1>3, <2>1, <2>2
  <2>4. \A t \in UserThreads :
          (\E i \in DOMAIN routine[t] : i < pc'[t] /\ routine[t][i] = Step("hold", m))
            <=> (\E i \in DOMAIN routine[t] : i < pc[t] /\ routine[t][i] = Step("hold", m))
    BY <1>1, <2>1, <2>3 DEF UserThreads
  <2> QED
    BY <1>1, <2>4 DEF Leaks
<1> QED
  BY <1>2, <1>3

(* A new thread leaked nothing yet. *)
LEMMA LeaksCreate ==
  ASSUME IInv, OwnersExact, NEW r \in Routines, NEW p \in UserPriorities, CreateThread(r, p),
         NEW m \in Mutexes
  PROVE  Leaks(m)' = Leaks(m)
<1> DEFINE n == threadCount + 1
<1>1. /\ n \in Threads \ Created /\ Created' = Created \cup {n} /\ pc' = pc
      /\ routine' = [routine EXCEPT ![n] = r] /\ routine \in [Threads -> Routines \cup {<<>>}]
  BY DEF CreateThread, Created, IInv, TypeOK, Threads
<1>2. pc'[n] = 1
  BY <1>1, NewThreadFree
<1>3. \A i \in DOMAIN routine'[n] : i \in Nat \ {0}
  <2>1. routine'[n] = r /\ r \in Seq(Steps)
    BY <1>1, RoutineAssumption
  <2> QED
    BY <2>1
<1> HIDE DEF n
<1>4. \A t \in UserThreads : t # n /\ routine'[t] = routine[t]
  BY <1>1 DEF UserThreads
<1>5. UserThreads \subseteq UserThreads' /\ UserThreads' \subseteq UserThreads \cup {n}
  BY <1>1 DEF UserThreads
<1>6. \A i \in DOMAIN routine'[n] : ~(i < pc'[n])
  BY <1>2, <1>3
<1>7. \A t : t \in Leaks(m)' <=> t \in Leaks(m)
  BY <1>1, <1>4, <1>5, <1>6 DEF Leaks
<1> QED
  BY <1>7

(* Thread_L's work adds its thread to those that leaked a reference on m. *)
LEMMA LeaksHold ==
  ASSUME HoldsOnce, IInv, NEW m \in Mutexes, Hold(m)
  PROVE  /\ Leaks(m)' = Leaks(m) \cup {current} /\ current \notin Leaks(m)
         /\ \A o \in Mutexes : o # m => Leaks(o)' = Leaks(o)
<1>1. /\ current \in Threads /\ pc \in [Threads -> Nat \ {0}] /\ Created \subseteq Threads
      /\ UserThreads' = UserThreads /\ routine' = routine /\ Running
      /\ current \in UserThreads
      /\ pc[current] \in DOMAIN routine[current]
      /\ routine[current][pc[current]] = Step("hold", m)
      /\ Advance /\ UNCHANGED tableVars
  BY RunningThread, PriorityTypes
     DEF Hold, Calls, RunUnchanged, IInv, TypeOK, tableVars, UserThreads, Created
<1>2. pc'[current] = pc[current] + 1 /\ \A t \in Threads \ {current} : pc'[t] = pc[t]
  BY <1>1 DEF Advance
<1>3. ASSUME NEW o \in Mutexes, o # m PROVE Leaks(o)' = Leaks(o)
  <2>1. routine[current][pc[current]] # Step("hold", o)
    BY <1>1, <1>3 DEF Step
  <2> QED
    BY <1>1, <2>1, LeaksSame
<1>4. current \notin Leaks(m)
  <2> SUFFICES ASSUME NEW i \in DOMAIN routine[current], i < pc[current],
                      routine[current][i] = Step("hold", m)
               PROVE  FALSE
    BY DEF Leaks
  <2>1. routine[current] \in Routines
    BY <1>1, Places DEF IInv
  <2>2. i = pc[current]
    BY <1>1, <2>1 DEF HoldsOnce, Step
  <2> QED
    BY <1>1, <2>2
<1>5. current \in Leaks(m)'
  <2>1. pc[current] < pc'[current]
    BY <1>1, <1>2
  <2> QED
    BY <1>1, <2>1 DEF Leaks
<1>6. \A t \in UserThreads \ {current} : t \in Leaks(m)' <=> t \in Leaks(m)
  BY <1>1, <1>2 DEF Leaks, UserThreads
<1>7. Leaks(m)' \subseteq UserThreads /\ Leaks(m) \subseteq UserThreads
  BY <1>1 DEF Leaks
<1> QED
  BY <1>3, <1>4, <1>5, <1>6, <1>7

(* The references that main, the handle table and the waiters have. *)
Reachable(m) == 1 + (IF exist THEN 1 ELSE 0) + Len(waiters[m])

(* Every step moves the count of a mutex by the references that come and go. *)
LEMMA ReferencesNext ==
  ASSUME HoldsOnce
  PROVE  IInv /\ OwnersExact /\ ReferencesAccounted /\ [Next]_vars => ReferencesAccounted'
<1> SUFFICES ASSUME IInv, OwnersExact, ReferencesAccounted, [Next]_vars, NEW m \in Mutexes
             PROVE  refCount'[m] = Reachable(m)' + Cardinality(Leaks(m)')
  BY DEF ReferencesAccounted, Reachable
<1> DEFINE K == Cardinality(Leaks(m))
<1>1. /\ refCount \in [Mutexes -> Int] /\ waiters \in [Mutexes -> Seq(Threads)]
      /\ exist \in BOOLEAN
      /\ K \in Nat /\ Len(waiters[m]) \in Nat
  BY LeaksFinite DEF IInv, TypeOK
<1>2. refCount[m] = Reachable(m) + K /\ Reachable(m) \in Nat
  BY <1>1 DEF ReferencesAccounted, Reachable
<1> HIDE DEF K
<1> DEFINE K2 == Cardinality(Leaks(m)')
<1>3. Leaks(m)' = Leaks(m) => K2 = K
  BY DEF K
<1>4. waiters'[m] = waiters[m] /\ exist' = exist => Reachable(m)' = Reachable(m)
  BY DEF Reachable
<1> HIDE DEF K2
<1> SUFFICES refCount'[m] = Reachable(m)' + K2
  BY DEF K2
<1>5. CASE UNCHANGED <<tableVars, pc, waiters, refCount, exist>>
  <2>1. Leaks(m)' = Leaks(m)
    BY <1>5 DEF Leaks, UserThreads, Created, tableVars
  <2> QED
    BY <1>2, <1>5, <1>3, <1>4, <2>1
<1>6. CASE PassesOwing
  <2>1. Leaks(m)' = Leaks(m)
    <3>1. routine[current][pc[current]] # Step("hold", m)
      BY <1>6 DEF PassesOwing, Step
    <3> QED
      BY <1>6, <3>1, LeaksSame DEF PassesOwing
  <2> QED
    BY <1>2, <1>6, <1>3, <1>4, <2>1 DEF PassesOwing
<1>7. CASE Reap
  <2>1. Leaks(m)' = Leaks(m) /\ waiters' = waiters
    BY <1>7 DEF Reap, tableVars, threadVars, Leaks, UserThreads, Created
  <2>2. CASE exist' = exist /\ refCount' = refCount
    BY <1>2, <1>3, <1>4, <2>1, <2>2
  <2>3. CASE exist /\ exist' = FALSE /\ refCount'[m] = refCount[m] - 1
    <3>1. Reachable(m) = Reachable(m)' + 1 /\ Reachable(m)' \in Nat
      BY <1>1, <2>1, <2>3 DEF Reachable
    <3> QED
      BY <1>1, <1>2, <1>3, <2>1, <2>3, <3>1
  <2> QED
    BY <1>7, <2>2, <2>3 DEF Reap
<1>8. ASSUME NEW r \in Routines, NEW p \in UserPriorities, CreateThread(r, p)
      PROVE  refCount'[m] = Reachable(m)' + K2
  <2>1. Leaks(m)' = Leaks(m) /\ UNCHANGED <<waiters, refCount, exist>>
    BY <1>8, LeaksCreate DEF CreateThread, mutexVars
  <2> QED
    BY <1>2, <1>3, <1>4, <2>1
<1>9. ASSUME NEW o \in Mutexes, Hold(o)
      PROVE  refCount'[m] = Reachable(m)' + K2
  <2>1. waiters' = waiters /\ exist' = exist /\ refCount' = [refCount EXCEPT ![o] = @ + 1]
    BY <1>9 DEF Hold, RunUnchanged
  <2>2. CASE o = m
    <3>1. K2 = K + 1
      BY <1>9, <2>2, LeaksHold, LeaksFinite, FS_AddElement DEF IInv, K, K2
    <3>2. refCount'[m] = refCount[m] + 1
      BY <1>1, <2>1, <2>2
    <3> QED
      BY <1>1, <1>2, <1>4, <2>1, <3>1, <3>2
  <2>3. CASE o # m
    <3>1. Leaks(m)' = Leaks(m) /\ refCount'[m] = refCount[m]
      BY <1>1, <1>9, <2>1, <2>3, LeaksHold
    <3> QED
      BY <1>2, <1>3, <1>4, <2>1, <3>1
  <2> QED
    BY <2>2, <2>3
<1>10. ASSUME NEW o \in Mutexes, AcquireBlocked(o)
      PROVE  refCount'[m] = Reachable(m)' + K2
  <2>1. /\ waiters' = [waiters EXCEPT ![o] = Append(@, current)] /\ exist' = exist
        /\ refCount' = [refCount EXCEPT ![o] = @ + 1] /\ Running
        /\ routine[current][pc[current]] # Step("hold", m)
        /\ Advance /\ UNCHANGED tableVars
    BY <1>10 DEF AcquireBlocked, RunUnchanged, Calls, Step
  <2>2. Leaks(m)' = Leaks(m)
    BY <2>1, LeaksSame
  <2>3. CASE o = m
    <3>1. waiters'[m] = Append(waiters[m], current) /\ refCount'[m] = refCount[m] + 1
      BY <1>1, <2>1, <2>3
    <3>2. Len(waiters'[m]) = Len(waiters[m]) + 1
      BY <1>1, <3>1
    <3>3. exist' = exist
      BY <2>1
    <3>4. Reachable(m)' = Reachable(m) + 1
      BY <1>1, <3>2, <3>3 DEF Reachable
    <3> QED
      BY <1>1, <1>2, <1>3, <2>2, <3>1, <3>4
  <2>4. CASE o # m
    <3>1. waiters'[m] = waiters[m] /\ refCount'[m] = refCount[m]
      BY <1>1, <2>1, <2>4
    <3> QED
      BY <1>2, <1>3, <1>4, <2>1, <2>2, <3>1
  <2> QED
    BY <2>3, <2>4
<1>11. ASSUME NEW o \in Mutexes, NEW s \in {"RUNNING", "TERMINATED"}, GivesUp(o, s), exist' = exist
      PROVE  refCount'[m] = Reachable(m)' + K2
  <2>1. Leaks(m)' = Leaks(m)
    <3>1. Running /\ UNCHANGED tableVars
      BY <1>11 DEF GivesUp
    <3>2. \/ pc' = pc
          \/ Advance /\ routine[current][pc[current]] = Step("release", o)
      BY <1>11 DEF GivesUp, Calls
    <3>3. Step("release", o) # Step("hold", m)
      BY DEF Step
    <3> QED
      BY <3>1, <3>2, <3>3, LeaksSame
  <2>2. CASE refCount' = refCount /\ waiters' = waiters
    BY <1>2, <1>11, <1>3, <1>4, <2>1, <2>2
  <2>3. ASSUME NEW i \in DOMAIN waiters[o], waiters'[o] = RemoveAt(waiters[o], i),
               refCount' = [refCount EXCEPT ![o] = @ - 1],
               o # m => waiters'[m] = waiters[m]
        PROVE  refCount'[m] = Reachable(m)' + K2
    <3>1. CASE o = m
      <4>1. DOMAIN waiters[m] = 1..Len(waiters[m])
        BY <1>1
      <4>2. waiters'[m] = RemoveAt(waiters[m], i) /\ refCount'[m] = refCount[m] - 1
        BY <1>1, <2>3, <3>1
      <4>3. i \in 1..Len(waiters[m])
        BY <3>1, <4>1
      <4>4. Len(RemoveAt(waiters[m], i)) = Len(waiters[m]) - 1
        BY <1>1, <4>3, RemoveAtElements
      <4>5. Reachable(m)' = Reachable(m) - 1
        BY <1>1, <1>11, <4>2, <4>4 DEF Reachable
      <4> QED
        BY <1>1, <1>2, <1>3, <2>1, <4>2, <4>5
    <3>2. CASE o # m
      <4>1. waiters'[m] = waiters[m] /\ refCount'[m] = refCount[m]
        BY <1>1, <2>3, <3>2
      <4> QED
        BY <1>2, <1>11, <1>3, <1>4, <2>1, <4>1
    <3> QED
      BY <3>1, <3>2
  <2> QED
    BY <1>11, <2>2, <2>3, GivesUpEffect
<1> QED
  BY <1>5, <1>6, <1>7, <1>8, <1>9, <1>10, <1>11, ReferenceKinds

(* A mutex has one reference from main, one from the handle table while    *)
(* the process exists, one per waiter and those its clients leaked: no     *)
(* AcquireMutex, hand-off or termination loses or forgets one.             *)
THEOREM ReferencesCorrect ==
  ASSUME HoldsOnce
  PROVE  Spec => []ReferencesAccounted
<1>1. Init => ReferencesAccounted
  <2> SUFFICES ASSUME Init, NEW m \in Mutexes
               PROVE  refCount[m] = 1 + (IF exist THEN 1 ELSE 0) + Len(waiters[m])
                                      + Cardinality(Leaks(m))
    BY DEF ReferencesAccounted
  <2>1. refCount[m] = 2 /\ exist = TRUE /\ Len(waiters[m]) = 0
    BY DEF Init
  <2>2. Leaks(m) = {}
    <3>1. UserThreads = {}
      BY DEF Init, UserThreads, Created, Idle
    <3> QED
      BY <3>1 DEF Leaks
  <2> QED
    BY <2>1, <2>2, FS_EmptySet
<1>2. IInv /\ OwnersExact /\ ReferencesAccounted /\ [Next]_vars => ReferencesAccounted'
  BY ReferencesNext
<1> QED
  BY <1>1, <1>2, OwnersCorrect, Invariant, PTL DEF Spec

----------------------------------------------------------------------------
(* The highest thread runs *)

Booting == phase \in {"boot", "bootRun"}

\* No READY user thread has more priority than x; one has at least x.
NoneReadyAbove(x) == \A t \in UserThreads : state[t] = "READY" => priority[t] <= x
SomeReady == \E t \in UserThreads : state[t] = "READY"
SomeReadyAt(x) == \E t \in UserThreads : state[t] = "READY" /\ x <= priority[t]

\* While main boots, the thread created last has the highest priority; until main
\* schedules it is READY.
LastIsHighest ==
  Booting =>
    /\ bootRuns \in {0, 1} /\ (phase = "bootRun" => bootRuns = 1)
    /\ threadCount = MAX_THREADS => bootRuns = 0
    /\ current # Idle
    /\ \A t \in UserThreads : /\ basePriority[t] <= basePriority[threadCount]
                              /\ priority[t] <= basePriority[threadCount]
    /\ bootRuns = 0 /\ UserThreads # {} =>
         state[threadCount] = "READY" /\ priority[threadCount] = basePriority[threadCount]

\* Unless a reschedule is requested no READY thread is above the one that runs;
\* where main dispatches on request, one is that the request can be for.
HighestOrAsked ==
  current # NULL /\ state[current] = "RUNNING" =>
    /\ ~reschedule => NoneReadyAbove(priority[current])
    /\ reschedule /\ ~(Booting /\ bootRuns = 1) => SomeReadyAt(priority[current])

\* The idle thread is never queued and runs only while nobody is READY.
IdleExact ==
  /\ Idle \notin InQueue(ready)
  /\ current = Idle => ~reschedule /\ \A t \in UserThreads : state[t] # "READY"

HighestInv ==
  /\ BoostGrounded /\ LastIsHighest /\ HighestOrAsked /\ IdleExact
  /\ phase = "run" => ~reschedule

(* A READY user thread is found by the scan of the queues. *)
LEMMA ReadyIsLive ==
  ASSUME IInv, NEW t \in UserThreads, state[t] = "READY"
  PROVE  priority[t] \in LivePriorities /\ priority[t] \in Nat
<1>1. /\ t \in InQueue(ready) /\ t \in Threads
      /\ ready \in ReadyQueueType /\ WellFormed(ready, priority)
      /\ priority \in [Threads -> Priorities]
  BY PriorityTypes DEF IInv, ReadyQueuesExact, UserThreads
<1>2. PICK q \in Priorities : t \in ToSet(ready.queues[q])
  BY <1>1 DEF InQueue
<1>3. PICK i \in DOMAIN ready.queues[q] : ready.queues[q][i] = t
  BY <1>2 DEF ToSet
<1>4. priority[t] = q /\ q \in Nat
  BY <1>1, <1>2 DEF WellFormed, Priorities
<1>5. i \in Live(q)
  BY <1>3 DEF Live
<1>6. ready.queues[q] # <<>>
  BY <1>1, <1>3, EmptySequence DEF ReadyQueueType
<1> QED
  BY <1>1, <1>4, <1>5, <1>6 DEF WellFormed, LivePriorities

(* Schedule takes a READY thread of highest priority, which is above the   *)
(* preempted one if the request was justified; it falls back on the idle   *)
(* thread only while no thread is READY, and never queues it.              *)
LEMMA SchedulePicks ==
  ASSUME IInv, Schedule, Idle \notin InQueue(ready), current # Idle,
         current # NULL /\ state[current] = "RUNNING" => SomeReady
  PROVE  /\ (current # NULL /\ state[current] = "RUNNING" => SomeReadyAt(priority[current]))
              => \A t \in UserThreads : state'[t] = "READY" => priority[t] <= priority[current']
         /\ Idle \notin InQueue(ready')
         /\ current' = Idle => \A t \in UserThreads : state'[t] # "READY"
         /\ SomeReady => current' # Idle
<1> DEFINE preempted == current # NULL /\ state[current] = "RUNNING"
           justified == preempted => SomeReadyAt(priority[current])
<1>1. /\ ready \in ReadyQueueType /\ WellFormed(ready, priority)
      /\ priority \in [Threads -> Priorities] /\ MAX_PRIORITY \in Nat
      /\ UserThreads \subseteq Threads /\ Idle \notin UserThreads
      /\ state \in [Threads -> ThreadStates]
      /\ Idle \in Threads
  BY PriorityTypes DEF IInv, ReadyQueuesExact, UserThreads, TypeOK
<1>2. current # NULL => current \in UserThreads /\ current \notin InQueue(ready)
  BY DEF IInv, CurrentThreadExact, ControlExact, UserThreads
<1>3. \A t \in InQueue(ready) : t \in UserThreads /\ state[t] = "READY"
  BY QueuedIsReady DEF IInv, UserThreads
<1>4. \A x \in UserThreads : priority[x] \in Nat
  BY <1>1 DEF Priorities
<1>5. ASSUME NEW p \in Priorities, NEW i \in DOMAIN ready.queues[p], Picks(p, i),
             SwitchTo(ready.queues[p][i], AfterPick(p, i))
      PROVE  /\ justified =>
                  \A t \in UserThreads : state'[t] = "READY" => priority[t] <= priority[current']
             /\ Idle \notin InQueue(ready') /\ current' # Idle
  <2> DEFINE next == ready.queues[p][i]
             rq == AfterPick(p, i)
  <2>1. next \in ToSet(ready.queues[p])
    BY DEF ToSet
  <2>2. /\ next \in InQueue(ready) /\ priority[next] = p
        /\ next \in UserThreads /\ next # current
    BY <1>1, <1>2, <1>3, <2>1, NullAssumption DEF InQueue, WellFormed
  <2>3. /\ rq \in ReadyQueueType /\ WellFormed(rq, priority)
        /\ InQueue(rq) = InQueue(ready) \ {next}
    <3>1. \A t \in InQueue(ready) : state[t] # "TERMINATED"
      BY <1>3
    <3> QED
      BY <1>1, <1>5, <3>1, PickTakesOne
  <2>4. /\ current' = next
        /\ state' = [t \in Threads |->
                       IF t = next THEN "RUNNING"
                       ELSE IF preempted /\ t = current THEN "READY"
                       ELSE state[t]]
        /\ ready' = IF preempted
                    THEN ReadyThread(rq, current, priority[current])
                    ELSE rq
    BY <1>5, <2>2 DEF SwitchTo
  <2> HIDE DEF next, rq
  <2>5. \A t \in UserThreads : state[t] = "READY" => priority[t] <= p
    BY <1>5, ReadyIsLive DEF Picks
  <2>6. justified /\ preempted => priority[current] <= p
    <3> SUFFICES ASSUME justified, preempted PROVE priority[current] <= p
      OBVIOUS
    <3>1. PICK u \in UserThreads : state[u] = "READY" /\ priority[current] <= priority[u]
      BY DEF SomeReadyAt
    <3>2. priority[u] <= p /\ priority[u] \in Nat /\ priority[current] \in Nat /\ p \in Nat
      BY <1>2, <1>4, <2>5, <3>1 DEF Priorities
    <3> QED
      BY <3>1, <3>2
  <2>7. justified =>
          \A t \in UserThreads : state'[t] = "READY" => priority[t] <= priority[current']
    BY <1>1, <2>2, <2>4, <2>5, <2>6
  <2>8. Idle \notin InQueue(ready')
    <3>1. CASE preempted
      <4>1. current \in Threads /\ current \notin InQueue(rq)
        BY <1>1, <1>2, <2>3, <3>1
      <4>2. InQueue(ReadyThread(rq, current, priority[current])) = InQueue(rq) \cup {current}
        BY <1>1, <2>3, <4>1, ReadyThreadKeeps
      <4> QED
        BY <2>3, <2>4, <3>1, <4>2
    <3>2. CASE ~preempted
      BY <2>3, <2>4, <3>2
    <3> QED
      BY <3>1, <3>2
  <2> QED
    BY <1>1, <2>2, <2>4, <2>7, <2>8
<1>6. ASSUME LivePriorities = {}, SwitchTo(Idle, EmptyReady)
      PROVE  /\ \A t \in UserThreads : state[t] # "READY" /\ state'[t] # "READY"
             /\ Idle \notin InQueue(ready')
  <2>1. \A t \in UserThreads : state[t] # "READY"
    BY <1>6, ReadyIsLive
  <2>2. ~preempted
    BY <2>1 DEF SomeReady
  <2>3. /\ state' = [t \in Threads |-> IF t = Idle THEN "RUNNING"
                                       ELSE IF preempted /\ t = current THEN "READY"
                                       ELSE state[t]]
        /\ ready' = IF preempted THEN ReadyThread(EmptyReady, current, priority[current])
                    ELSE EmptyReady
    BY <1>6 DEF SwitchTo
  <2>4. \A t \in UserThreads : state'[t] # "READY"
    BY <1>1, <2>1, <2>2, <2>3
  <2>5. InQueue(EmptyReady) = {}
    <3>1. \A q \in Priorities : ToSet(EmptyReady.queues[q]) = {}
      BY DEF EmptyReady, ToSet
    <3> QED
      BY <3>1 DEF InQueue
  <2> QED
    BY <2>1, <2>2, <2>3, <2>4, <2>5
<1> QED
  BY <1>5, <1>6 DEF Schedule, SomeReady

----------------------------------------------------------------------------
(* What the services do to the running thread and to the queues *)

UserRuns ==
  /\ Running /\ current \in UserThreads
  /\ AfterRun /\ UNCHANGED <<bootRuns, tableVars, current>>

(* The scheduler sees nothing of it; a BLOCKED thread becomes READY; the   *)
(* thread blocks or dies.                                                  *)
Stays == UNCHANGED <<state, priority, reschedule, ready>>
Wakes ==
  \E t \in UserThreads : /\ state[t] = "BLOCKED"
                         /\ state' = [state EXCEPT ![t] = "READY"]
                         /\ priority' = priority
                         /\ reschedule' = Preempts(priority[t], priority[current])
Stops == state'[current] # "RUNNING"

(* A thread taken off a wait queue is queued, and is not the idle thread.  *)
LEMMA WokenQueued ==
  ASSUME IInv, NEW t \in Threads, state[t] = "BLOCKED",
         ready' = ReadyThread(ready, t, priority[t])
  PROVE  t \in UserThreads /\ InQueue(ready') = InQueue(ready) \cup {t}
<1>1. t \in UserThreads /\ t \notin InQueue(ready)
  BY WaitingThread DEF UserThreads
<1>2. priority \in [Threads -> Priorities] /\ ready \in ReadyQueueType /\ WellFormed(ready, priority)
  BY PriorityTypes DEF IInv, ReadyQueuesExact
<1> QED
  BY <1>1, <1>2, ReadyThreadKeeps

(* ReleaseMutex queues nobody but a user thread. *)
LEMMA ReleaseQueues ==
  ASSUME IInv, NEW m \in Mutexes, NEW s, ReleaseMutex(m, s)
  PROVE  InQueue(ready') \subseteq InQueue(ready) \cup UserThreads
<1>1. CASE Free(m, s)
  BY <1>1 DEF Free
<1>2. ASSUME NEW i \in DOMAIN waiters[m], HandOff(m, i, s)
      PROVE  InQueue(ready') \subseteq InQueue(ready) \cup UserThreads
  <2> DEFINE next == waiters[m][i]
  <2>1. next \in ToSet(waiters[m])
    BY DEF ToSet
  <2>2. next \in Threads /\ state[next] = "BLOCKED"
    BY <2>1, WaiterFields
  <2>3. ready' = ReadyThread(ready, next, priority[next])
    BY <1>2 DEF HandOff
  <2> HIDE DEF next
  <2> QED
    BY <2>2, <2>3, WokenQueued
<1> QED
  BY <1>1, <1>2 DEF ReleaseMutex

(* Every service of a user thread is of one of these kinds, or is the      *)
(* ReleaseMutex of a thread that goes on.                                  *)
LEMMA ServiceKinds ==
  ASSUME IInv, RunThread, current # Idle
  PROVE  /\ UserRuns /\ InQueue(ready') \subseteq InQueue(ready) \cup UserThreads
         /\ Stays \/ Wakes \/ Stops \/ \E m \in Mutexes : Release(m)
<1> USE DEF RunUnchanged, EventUnchanged, tableVars, mutexVars, eventVars
<1>1. state \in [Threads -> ThreadStates]
  BY DEF IInv, TypeOK
<1>2. ASSUME Running PROVE current \in Threads /\ current \in UserThreads /\ state[current] = "RUNNING"
  BY <1>2, RunningThread DEF UserThreads
<1>3. CASE Work \/ \E m \in Mutexes : Hold(m) \/ AcquireFree(m)
  BY <1>2, <1>3 DEF Work, Hold, AcquireFree, Calls, UserRuns, Stays
<1>4. CASE WaitEvent
  <2>1. Running /\ AfterRun /\ ready' = ready
        /\ UNCHANGED <<bootRuns, threadCount, routine, basePriority, current, priority>>
    BY <1>4 DEF WaitEvent, Calls
  <2>2. Stays \/ Stops
    BY <1>1, <1>2, <1>4, <2>1 DEF WaitEvent, Stays, Stops
  <2> QED
    BY <1>2, <2>1, <2>2 DEF UserRuns
<1>5. CASE StartIo \/ StartIoAndWait
  <2>1. UserRuns
    BY <1>2, <1>5 DEF StartIo, StartIoAndWait, Calls, UserRuns
  <2>2. CASE ioWaiters = <<>>
    BY <1>5, <2>1, <2>2, EmptySequence DEF StartIo, StartIoAndWait, Stays
  <2>3. ASSUME NEW i \in DOMAIN ioWaiters,
               ready' = ReadyThread(ready, ioWaiters[i], priority[ioWaiters[i]])
        PROVE  ioWaiters[i] \in UserThreads
               /\ InQueue(ready') \subseteq InQueue(ready) \cup UserThreads
    BY <2>3, EventWaiter, WokenQueued
  <2>4. CASE StartIo
    <3>1. ASSUME NEW i \in DOMAIN ioWaiters,
                 state' = [state EXCEPT ![ioWaiters[i]] = "READY"],
                 ready' = ReadyThread(ready, ioWaiters[i], priority[ioWaiters[i]]),
                 reschedule' = Preempts(priority[ioWaiters[i]], priority[current]),
                 priority' = priority
          PROVE  Wakes /\ InQueue(ready') \subseteq InQueue(ready) \cup UserThreads
      BY <2>3, <3>1, EventWaiter DEF Wakes
    <3> QED
      BY <2>1, <2>2, <2>4, <3>1 DEF StartIo
  <2>5. CASE StartIoAndWait
    <3>1. ASSUME NEW t,
                 state' = [state EXCEPT ![t] = "READY", ![current] = "BLOCKED"]
          PROVE  Stops
      BY <1>1, <1>2, <2>1, <3>1 DEF Stops, UserRuns
    <3> QED
      BY <2>1, <2>2, <2>3, <2>5, <3>1 DEF StartIoAndWait
  <2> QED
    BY <1>5, <2>4, <2>5
<1>6. ASSUME NEW m \in Mutexes, AcquireBlocked(m)
      PROVE  UserRuns /\ Stops /\ InQueue(ready') = InQueue(ready)
  <2>1. UserRuns
    BY <1>2, <1>6 DEF AcquireBlocked, Calls, UserRuns
  <2>2. Stops
    BY <1>1, <1>2, <1>6, <2>1 DEF AcquireBlocked, Stops, UserRuns
  <2>3. /\ owner[m] \in Threads /\ priority[current] \in 0..(MAX_PRIORITY - 2)
        /\ BoostPriorityChain(owner[m], priority[current])
    BY <1>2, <1>6, <2>1 DEF AcquireBlocked, UserRuns, IInv, TypeOK
  <2> QED
    BY <2>1, <2>2, <2>3, BoostKeeps
<1>7. ASSUME NEW m \in Mutexes, Release(m)
      PROVE  UserRuns /\ InQueue(ready') \subseteq InQueue(ready) \cup UserThreads
  BY <1>2, <1>7, ReleaseQueues DEF Release, Calls, UserRuns
<1>8. ASSUME NEW m \in Mutexes, GivesUp(m, "TERMINATED")
      PROVE  Stops /\ InQueue(ready') \subseteq InQueue(ready) \cup UserThreads
  <2>1. Stops
    BY <1>8, GivesUpEffect DEF Stops
  <2>2. ReleaseMutex(m, "TERMINATED")
    BY <1>8 DEF GivesUp
  <2> QED
    BY <2>1, <2>2, ReleaseQueues
<1>9. ASSUME NEW m \in Mutexes, ReleaseAndExit(m)
      PROVE  UserRuns /\ GivesUp(m, "TERMINATED")
  BY <1>2, <1>9 DEF ReleaseAndExit, GivesUp, Calls, UserRuns
<1>10. CASE Exit
  <2>1. UserRuns
    BY <1>2, <1>10 DEF Exit, Calls, UserRuns
  <2>2. CASE ownedMutex[current] = NULL
    BY <1>1, <1>2, <1>10, <2>1, <2>2 DEF Exit, UserRuns, Stops
  <2>3. CASE ownedMutex[current] # NULL
    <3>1. ownedMutex[current] \in Mutexes
      BY <1>2, <2>1, <2>3 DEF IInv, TypeOK, UserRuns
    <3>2. GivesUp(ownedMutex[current], "TERMINATED")
      BY <1>10, <2>3 DEF Exit, GivesUp, Calls
    <3> QED
      BY <1>8, <2>1, <3>1, <3>2
  <2> QED
    BY <2>2, <2>3
<1>11. ~IdleThread
  BY DEF IdleThread
<1> QED
  BY <1>3, <1>4, <1>5, <1>6, <1>7, <1>8, <1>9, <1>10, <1>11 DEF RunThread

(* ReleaseMutex by a thread that goes on: it owned this mutex only, so the *)
(* reason for its boost is the thread that comes next.                     *)
LEMMA ReleasedPriority ==
  ASSUME ReleasesLast, IInv, OwnersExact, BoostGrounded, NEW m \in Mutexes, Release(m)
  PROVE  /\ priority' = [priority EXCEPT ![current] = basePriority[current]]
         /\ \/ /\ priority[current] = basePriority[current]
               /\ reschedule' = reschedule
               /\ \A t \in Threads : state'[t] = state[t]
            \/ \E next \in UserThreads :
                 /\ priority[current] = basePriority[current]
                      \/ priority[current] <= priority[next]
                 /\ next # current /\ state'[next] = "READY"
                 /\ ~reschedule' => ~reschedule /\ ~(priority[next] > basePriority[current])
                 /\ reschedule' /\ ~reschedule => priority[next] > basePriority[current]
                 /\ \A t \in Threads \ {next} : state'[t] = state[t]
<1>1. GivesUp(m, "RUNNING") /\ Running /\ current # Idle
  BY DEF Release, GivesUp, Calls, RunUnchanged
<1>2. /\ current \in UserThreads /\ current \in Threads /\ state[current] = "RUNNING"
      /\ owner[m] = current /\ state'[current] = "RUNNING"
      /\ priority' = [priority EXCEPT ![current] = basePriority[current]]
  BY <1>1, RunningThread, GivesUpEffect DEF UserThreads
<1>3. \A o \in Mutexes : owner[o] = current => o = m
  <2> SUFFICES ASSUME NEW o \in Mutexes, owner[o] = current PROVE o = m
    OBVIOUS
  <2>1. /\ pc[current] \in DOMAIN routine[current]
        /\ routine[current][pc[current]] = Step("release", m)
    BY <1>1 DEF GivesUp, Calls
  <2>2. routine[current] \in Routines
    BY <1>2, <2>1, Places DEF IInv
  <2>3. HeldAt(routine[current], pc[current], o)
    BY <1>2 DEF OwnersExact
  <2> QED
    BY <2>1, <2>2, <2>3 DEF ReleasesLast
<1>4. priority[current] # basePriority[current] =>
        \E w \in ToSet(waiters[m]) : priority[current] <= priority[w]
  BY <1>2, <1>3 DEF BoostGrounded
<1>5. CASE Free(m, "RUNNING")
  <2>1. waiters[m] = <<>> /\ reschedule' = (reschedule \/ "RUNNING" = "TERMINATED")
        /\ state' = [state EXCEPT ![current] = "RUNNING"]
    BY <1>5 DEF Free
  <2>2. priority[current] = basePriority[current]
    BY <1>4, <2>1 DEF ToSet
  <2>3. reschedule \in BOOLEAN /\ state \in [Threads -> ThreadStates]
    BY DEF IInv, TypeOK
  <2> QED
    BY <1>2, <2>1, <2>2, <2>3
<1>6. ASSUME NEW i \in DOMAIN waiters[m], HandOff(m, i, "RUNNING")
      PROVE  \E next \in UserThreads :
               /\ priority[current] = basePriority[current]
                    \/ priority[current] <= priority[next]
               /\ next # current /\ state'[next] = "READY"
               /\ ~reschedule' => ~reschedule /\ ~(priority[next] > basePriority[current])
               /\ reschedule' /\ ~reschedule => priority[next] > basePriority[current]
               /\ \A t \in Threads \ {next} : state'[t] = state[t]
  <2> DEFINE next == waiters[m][i]
  <2>1. next \in ToSet(waiters[m])
    BY DEF ToSet
  <2>2. next \in Threads /\ state[next] = "BLOCKED"
    BY <2>1, WaiterFields
  <2>3. next \in UserThreads /\ next # current
    BY <1>2, <2>2, WaitingThread DEF UserThreads
  <2>4. /\ IsBest(waiters[m], i)
        /\ state' = [state EXCEPT ![current] = "RUNNING", ![next] = "READY"]
        /\ reschedule' = (Preempts(priority[next], basePriority[current])
                            \/ "RUNNING" = "TERMINATED")
    BY <1>6 DEF HandOff
  <2>5. ASSUME NEW w \in ToSet(waiters[m]) PROVE priority[w] <= priority[next]
    BY <2>4, <2>5 DEF IsBest, ToSet
  <2>6. \A w \in ToSet(waiters[m]) : w \in Threads
    BY WaiterFields
  <2> HIDE DEF next
  <2>7. priority \in [Threads -> Nat] /\ state \in [Threads -> ThreadStates]
    <3>1. priority \in [Threads -> 0..(MAX_PRIORITY - 2)] /\ state \in [Threads -> ThreadStates]
      BY DEF IInv, TypeOK
    <3> QED
      BY <3>1, SizeAssumption
  <2>8. priority[current] = basePriority[current] \/ priority[current] <= priority[next]
    <3> SUFFICES ASSUME priority[current] # basePriority[current]
                 PROVE  priority[current] <= priority[next]
      OBVIOUS
    <3>1. PICK w \in ToSet(waiters[m]) : priority[current] <= priority[w]
      BY <1>4
    <3>2. priority[w] <= priority[next] /\ w \in Threads
      BY <2>5, <2>6
    <3>3. priority[current] \in Nat /\ priority[w] \in Nat /\ priority[next] \in Nat
      BY <1>2, <2>2, <2>7, <3>2
    <3> QED
      BY <3>1, <3>2, <3>3
  <2>9. /\ ~reschedule' => ~reschedule /\ ~(priority[next] > basePriority[current])
        /\ reschedule' /\ ~reschedule => priority[next] > basePriority[current]
    BY <2>4 DEF Preempts
  <2>10. state'[next] = "READY" /\ \A t \in Threads \ {next} : state'[t] = state[t]
    BY <1>2, <2>2, <2>3, <2>4, <2>7
  <2> QED
    BY <2>3, <2>8, <2>9, <2>10
<1> QED
  BY <1>2, <1>5, <1>6 DEF Release, ReleaseMutex

(* A service leaves nobody READY above the thread that goes on, or asks    *)
(* for a reschedule; after the boot it asks only for a READY thread.       *)
LEMMA AskedAfterService ==
  ASSUME ReleasesLast, IInv, OwnersExact, HighestInv, RunThread, current # Idle
  PROVE  HighestOrAsked'
<1>1. /\ UserRuns /\ current \in Threads /\ state[current] = "RUNNING"
      /\ current # NULL /\ current' = current
      /\ UserThreads' = UserThreads /\ UserThreads \subseteq Threads
  <2>1. UserRuns
    BY ServiceKinds
  <2> QED
    BY <2>1, RunningThread, NullAssumption, PriorityTypes
       DEF UserRuns, UserThreads, Created, tableVars, IInv
<1>2. /\ priority \in [Threads -> Nat] /\ basePriority \in [Threads -> Nat]
      /\ state \in [Threads -> ThreadStates] /\ reschedule \in BOOLEAN
  BY SizeAssumption DEF IInv, TypeOK
<1>3. ~reschedule => NoneReadyAbove(priority[current])
  BY <1>1 DEF HighestInv, HighestOrAsked
<1>4. (Booting' /\ bootRuns' = 1) \/ ~reschedule
  BY <1>1 DEF HighestInv, LastIsHighest, UserRuns, Running, AfterRun, Booting
<1> SUFFICES ASSUME state'[current] = "RUNNING"
             PROVE  /\ ~reschedule' =>
                         \A t \in UserThreads : state'[t] = "READY" => priority'[t] <= priority'[current]
                    /\ reschedule' /\ ~reschedule =>
                         \E t \in UserThreads : state'[t] = "READY" /\ priority'[current] <= priority'[t]
  BY <1>1, <1>4 DEF HighestOrAsked, NoneReadyAbove, SomeReadyAt
<1>5. CASE Stays
  BY <1>3, <1>5 DEF Stays, NoneReadyAbove
<1>6. CASE Wakes
  <2>1. PICK t \in UserThreads :
          /\ state' = [state EXCEPT ![t] = "READY"] /\ priority' = priority
          /\ ~reschedule' => ~reschedule /\ ~(priority[t] > priority[current])
          /\ reschedule' /\ ~reschedule => priority[t] > priority[current]
    BY <1>6 DEF Wakes, Preempts
  <2>2. t \in Threads /\ state'[t] = "READY"
        /\ \A u \in Threads \ {t} : state'[u] = state[u]
    BY <1>1, <1>2, <2>1
  <2>3. priority[t] \in Nat /\ priority[current] \in Nat
    BY <1>1, <1>2, <2>2
  <2>4. ASSUME ~reschedule', NEW u \in UserThreads, state'[u] = "READY"
        PROVE  priority[u] <= priority[current]
    <3>1. CASE u = t
      BY <2>1, <2>3, <2>4, <3>1
    <3>2. CASE u # t
      BY <1>1, <1>3, <2>1, <2>2, <2>4, <3>2 DEF NoneReadyAbove
    <3> QED
      BY <3>1, <3>2
  <2>5. reschedule' /\ ~reschedule => priority[current] <= priority[t]
    BY <2>1, <2>3
  <2> QED
    BY <2>1, <2>2, <2>4, <2>5
<1>7. ASSUME NEW m \in Mutexes, Release(m)
      PROVE  /\ ~reschedule' =>
                  \A t \in UserThreads : state'[t] = "READY" => priority'[t] <= priority'[current]
             /\ reschedule' /\ ~reschedule =>
                  \E t \in UserThreads : state'[t] = "READY" /\ priority'[current] <= priority'[t]
  <2> DEFINE b == basePriority[current]
  <2>1. /\ priority' = [priority EXCEPT ![current] = b]
        /\ priority'[current] = b /\ b \in Nat
        /\ \A t \in Threads \ {current} : priority'[t] = priority[t] /\ priority[t] \in Nat
        /\ priority[current] \in Nat
    BY <1>1, <1>2, <1>7, ReleasedPriority DEF HighestInv
  <2> HIDE DEF b
  <2>2. CASE /\ priority[current] = b /\ reschedule' = reschedule
             /\ \A t \in Threads : state'[t] = state[t]
    <3>1. ASSUME ~reschedule', NEW t \in UserThreads, state'[t] = "READY"
          PROVE  priority'[t] <= priority'[current]
      BY <1>1, <1>3, <2>1, <2>2, <3>1 DEF NoneReadyAbove
    <3> QED
      BY <2>2, <3>1
  <2>3. ASSUME NEW next \in UserThreads,
               priority[current] = b \/ priority[current] <= priority[next],
               next # current, state'[next] = "READY",
               ~reschedule' => ~reschedule /\ ~(priority[next] > b),
               reschedule' /\ ~reschedule => priority[next] > b,
               \A t \in Threads \ {next} : state'[t] = state[t]
        PROVE  /\ ~reschedule' =>
                    \A t \in UserThreads : state'[t] = "READY" => priority'[t] <= priority'[current]
               /\ reschedule' /\ ~reschedule =>
                    \E t \in UserThreads : state'[t] = "READY" /\ priority'[current] <= priority'[t]
    <3>1. priority[next] \in Nat /\ priority'[next] = priority[next]
      BY <1>1, <2>1, <2>3
    <3>2. ~reschedule' => priority[next] <= b /\ priority[current] <= b
      BY <2>1, <2>3, <3>1
    <3>3. ASSUME ~reschedule', NEW t \in UserThreads, state'[t] = "READY"
          PROVE  priority'[t] <= priority'[current]
      <4>1. CASE t = next
        BY <2>1, <3>1, <3>2, <3>3, <4>1
      <4>2. CASE t # next
        <5>1. t # current /\ t \in Threads /\ state[t] = "READY"
          BY <1>1, <2>3, <3>3, <4>2
        <5>2. priority[t] <= priority[current]
          BY <1>3, <2>3, <3>3, <5>1 DEF NoneReadyAbove
        <5> QED
          BY <2>1, <3>2, <3>3, <5>1, <5>2
      <4> QED
        BY <4>1, <4>2
    <3>4. reschedule' /\ ~reschedule => priority'[current] <= priority'[next]
      BY <2>1, <2>3, <3>1
    <3> QED
      BY <2>3, <3>3, <3>4
  <2> QED
    BY <1>7, <2>2, <2>3, ReleasedPriority DEF HighestInv, b
<1> QED
  BY <1>1, <1>5, <1>6, <1>7, ServiceKinds DEF Stops

(* A service gives no thread a priority that no thread has or started with. *)
LEMMA NoHigherPriority ==
  ASSUME IInv, [Next]_vars, UserRuns, NEW x \in Nat,
         \A t \in UserThreads : priority[t] <= x /\ basePriority[t] <= x
  PROVE  \A t \in UserThreads : priority'[t] <= x
<1> SUFFICES ASSUME NEW t \in UserThreads PROVE priority'[t] <= x
  OBVIOUS
<1>1. t \in Threads /\ current \in UserThreads /\ current \in Threads
      /\ priority \in [Threads -> 0..(MAX_PRIORITY - 2)]
  BY PriorityTypes DEF IInv, TypeOK, UserThreads, UserRuns
<1>2. CASE priority' = priority
  BY <1>2
<1>3. ASSUME NEW m \in Mutexes, AcquireBlocked(m) PROVE priority'[t] <= x
  <2>1. priority'[t] = priority[current] \/ priority'[t] = priority[t]
    BY <1>1, <1>3 DEF AcquireBlocked, BoostPriorityChain
  <2> QED
    BY <1>1, <2>1
<1>4. ASSUME NEW m \in Mutexes, NEW s \in {"RUNNING", "TERMINATED"}, GivesUp(m, s)
      PROVE  priority'[t] <= x
  <2>1. priority' = [priority EXCEPT ![current] = basePriority[current]]
    BY <1>4 DEF GivesUp, ReleaseMutex, RestorePriority
  <2> QED
    BY <1>1, <2>1
<1>5. ASSUME NEW r \in Routines, NEW p \in UserPriorities, CreateThread(r, p) PROVE FALSE
  BY <1>5 DEF CreateThread, UserRuns, Running
<1> QED
  BY <1>2, <1>3, <1>4, <1>5, StepKinds DEF Quiet, Dies, Passes, MutexSame, AcquireFree

(* Every service of a user thread preserves the invariant.                 *)
LEMMA HighestAfterService ==
  ASSUME ReleasesLast, IInv, OwnersExact, HighestInv, Next, RunThread, current # Idle
  PROVE  LastIsHighest' /\ IdleExact' /\ (phase' = "run" => ~reschedule')
<1>1. /\ UserRuns /\ InQueue(ready') \subseteq InQueue(ready) \cup UserThreads
      /\ UserThreads' = UserThreads /\ threadCount' = threadCount
      /\ basePriority' = basePriority /\ current' = current /\ bootRuns' = bootRuns
  BY ServiceKinds DEF UserRuns, tableVars, UserThreads, Created
<1>2. phase' # "run" /\ phase' # "bootRun"
  BY <1>1 DEF UserRuns, AfterRun
<1>3. IdleExact'
  BY <1>1 DEF HighestInv, IdleExact, UserThreads
<1>4. ASSUME Booting' PROVE LastIsHighest'
  <2>1. phase = "bootRun" /\ bootRuns = 1 /\ threadCount # MAX_THREADS
    BY <1>1, <1>4 DEF UserRuns, Running, AfterRun, Booting, HighestInv, LastIsHighest
  <2>2. \A t \in UserThreads : /\ basePriority[t] <= basePriority[threadCount]
                               /\ priority[t] <= basePriority[threadCount]
    BY <2>1 DEF HighestInv, LastIsHighest, Booting
  <2>3. basePriority[threadCount] \in Nat
    BY SizeAssumption DEF IInv, TypeOK
  <2>4. \A t \in UserThreads : priority'[t] <= basePriority[threadCount]
    BY <1>1, <2>2, <2>3, NoHigherPriority
  <2> QED
    BY <1>1, <1>2, <2>1, <2>2, <2>4 DEF LastIsHighest
<1> QED
  BY <1>2, <1>3, <1>4 DEF LastIsHighest

----------------------------------------------------------------------------
(* The steps of main *)

(* The invariant before main creates a thread. *)
LEMMA HighestInit == Init => HighestInv
<1> SUFFICES ASSUME Init PROVE HighestInv
  OBVIOUS
<1>1. UserThreads = {} /\ phase = "boot" /\ bootRuns = 0 /\ threadCount = 1 /\ current = NULL
  BY DEF Init, UserThreads, Created, Idle
<1>2. NULL # Idle /\ MAX_THREADS # 1
  BY SizeAssumption, NullAssumption DEF Threads, Idle
<1>3. \A p \in Priorities : ToSet(ready.queues[p]) = {}
  BY DEF Init, EmptyReady, ToSet
<1>4. Idle \notin InQueue(ready)
  BY <1>3 DEF InQueue
<1> QED
  BY <1>1, <1>2, <1>4 DEF HighestInv, BoostGrounded, LastIsHighest, HighestOrAsked, IdleExact,
                          Booting

(* CreateThread queues the new thread, and moves nobody else.              *)
LEMMA CreateQueues ==
  ASSUME IInv, NEW r \in Routines, NEW p \in UserPriorities, CreateThread(r, p)
  PROVE  /\ threadCount' = threadCount + 1 /\ threadCount' \in Threads \ Created
         /\ UserThreads' = UserThreads \cup {threadCount'} /\ threadCount' \notin UserThreads
         /\ state' = state /\ state[threadCount'] = "READY"
         /\ InQueue(ready') = InQueue(ready) \cup {threadCount'} /\ threadCount' # Idle
<1> DEFINE n == threadCount + 1
<1>1. /\ n \in Threads \ Created /\ n # Idle /\ threadCount' = n /\ state' = state
      /\ priority' = [priority EXCEPT ![n] = p]
      /\ ready' = ReadyThread(ready, n, p)
  <2>1. threadCount \in Nat \ {0}
    BY SizeAssumption DEF IInv, TypeOK, Threads
  <2> QED
    BY <2>1 DEF CreateThread, Created, Threads, Idle
<1>2. UserThreads' = UserThreads \cup {n} /\ n \notin UserThreads
  <2>1. threadCount \in Nat
    BY DEF IInv, TypeOK, Threads
  <2>2. Created' = Created \cup {n}
    BY <1>1, <2>1 DEF Created
  <2> HIDE DEF n
  <2> QED
    BY <1>1, <2>2 DEF UserThreads
<1>3. state[n] = "READY" /\ n \notin InQueue(ready)
  BY <1>1, QueuedIsReady DEF IInv, ControlExact
<1> HIDE DEF n
<1>4. /\ priority' \in [Threads -> Priorities] /\ ready \in ReadyQueueType /\ priority'[n] = p
  <2>1. priority \in [Threads -> Priorities] /\ ready \in ReadyQueueType /\ MAX_PRIORITY \in Nat
    BY PriorityTypes DEF IInv
  <2>2. p \in Priorities
    BY <2>1, PriorityAssumption DEF Priorities
  <2> QED
    BY <1>1, <2>1, <2>2
<1>5. \A t \in InQueue(ready) : priority'[t] = priority[t]
  <2>1. priority \in [Threads -> Priorities]
    BY PriorityTypes DEF IInv
  <2> QED
    BY <1>1, <1>3, <2>1, QueuedIsReady DEF IInv
<1>6. WellFormed(ready, priority')
  BY <1>5, WellFormedDependsOnQueued DEF IInv, ReadyQueuesExact
<1>7. InQueue(ready') = InQueue(ready) \cup {n}
  BY <1>1, <1>3, <1>4, <1>6, ReadyThreadKeeps
<1> QED
  BY <1>1, <1>2, <1>3, <1>7 DEF n

(* CreateThread: the new thread has the highest priority.                  *)
LEMMA HighestCreate ==
  ASSUME IInv, HighestInv, AscendingBoot, NEW r \in Routines, NEW p \in UserPriorities,
         CreateThread(r, p)
  PROVE  LastIsHighest' /\ HighestOrAsked' /\ IdleExact' /\ phase' # "run"
<1> DEFINE n == threadCount + 1
<1>1. /\ n \in Threads \ Created /\ n # Idle /\ n # threadCount
      /\ phase = "boot" /\ phase' = "boot" /\ bootRuns' = 0
      /\ threadCount' = n /\ current' = current /\ state' = state
      /\ priority' = [priority EXCEPT ![n] = p]
      /\ basePriority' = [basePriority EXCEPT ![n] = p]
      /\ reschedule' = IF current = NULL THEN reschedule ELSE Preempts(p, priority[current])
  <2>1. threadCount \in Nat \ {0}
    BY SizeAssumption DEF IInv, TypeOK, Threads
  <2> QED
    BY <2>1 DEF CreateThread, Created, Threads, Idle
<1>2. /\ UserThreads' = UserThreads \cup {n} /\ n \notin UserThreads
      /\ state[n] = "READY" /\ InQueue(ready') = InQueue(ready) \cup {n}
  BY <1>1, CreateQueues
<1>4. /\ priority \in [Threads -> Nat] /\ basePriority \in [Threads -> Nat] /\ p \in Nat
      /\ UserThreads \subseteq Threads
      /\ reschedule \in BOOLEAN
      /\ current # NULL => current \in Created
  <2>1. p \in 0..(MAX_PRIORITY - 2)
    BY PriorityAssumption
  <2>2. priority \in [Threads -> 0..(MAX_PRIORITY - 2)] /\ basePriority \in [Threads -> 0..(MAX_PRIORITY - 2)]
        /\ reschedule \in BOOLEAN /\ (current # NULL => current \in Created)
    BY DEF IInv, TypeOK, ControlExact
  <2> QED
    BY <2>1, <2>2, PriorityTypes, SizeAssumption DEF IInv, UserThreads
<1> HIDE DEF n
<1>5. /\ \A t \in UserThreads : basePriority[t] <= p
      /\ threadCount # MAX_THREADS
      /\ current # Idle
  <2>1. basePriority'[n] = p
    BY <1>1, <1>4
  <2>2. \A t \in UserThreads : basePriority[t] <= p
    BY <1>1, <2>1 DEF AscendingBoot
  <2>3. current # Idle
    BY <1>1 DEF HighestInv, LastIsHighest, Booting
  <2>4. threadCount # MAX_THREADS
    BY <1>1, SizeAssumption DEF n, Threads, IInv, TypeOK
  <2> QED
    BY <2>2, <2>3, <2>4
<1>6. \A t \in UserThreads : priority[t] <= p
  <2> SUFFICES ASSUME NEW t \in UserThreads PROVE priority[t] <= p
    OBVIOUS
  <2>1. threadCount \in UserThreads
    <3>1. threadCount \in Nat /\ threadCount \in Created /\ t \in 1..threadCount /\ t # 1
      BY DEF IInv, TypeOK, Threads, Created, UserThreads, Idle
    <3> QED
      BY <3>1 DEF UserThreads, Idle
  <2>2. priority[t] <= basePriority[threadCount]
    BY <1>1 DEF HighestInv, LastIsHighest, Booting
  <2>3. basePriority[threadCount] <= p
    BY <1>5, <2>1
  <2>4. priority[t] \in Nat /\ basePriority[threadCount] \in Nat
    BY <1>4, <2>1
  <2> QED
    BY <1>4, <2>2, <2>3, <2>4
<1>7. /\ priority'[n] = p /\ basePriority'[n] = p
      /\ \A t \in UserThreads : priority'[t] = priority[t] /\ basePriority'[t] = basePriority[t]
  BY <1>1, <1>2, <1>4
<1>8. LastIsHighest'
  <2>1. \A t \in UserThreads' : basePriority'[t] <= p /\ priority'[t] <= p
    BY <1>2, <1>4, <1>5, <1>6, <1>7
  <2> QED
    BY <1>1, <1>2, <1>5, <1>7, <2>1 DEF LastIsHighest
<1>9. HighestOrAsked'
  <2> SUFFICES ASSUME current # NULL, state[current] = "RUNNING"
               PROVE  /\ ~reschedule' => \A t \in UserThreads' : state[t] = "READY" => priority'[t] <= priority'[current]
                      /\ \E t \in UserThreads' : state[t] = "READY" /\ priority'[current] <= priority'[t]
    BY <1>1 DEF HighestOrAsked, NoneReadyAbove, SomeReadyAt
  <2>1. current \in UserThreads /\ priority'[current] = priority[current]
        /\ priority[current] <= p /\ priority[current] \in Nat
    BY <1>4, <1>5, <1>6, <1>7 DEF UserThreads
  <2>2. ~reschedule' => ~reschedule /\ ~(p > priority[current])
    BY <1>1 DEF Preempts
  <2>3. ~reschedule => NoneReadyAbove(priority[current])
    BY DEF HighestInv, HighestOrAsked
  <2>4. ASSUME ~reschedule', NEW t \in UserThreads', state[t] = "READY"
        PROVE  priority'[t] <= priority'[current]
    <3>1. CASE t = n
      BY <1>4, <1>7, <2>1, <2>2, <2>4, <3>1
    <3>2. CASE t # n
      BY <1>2, <1>7, <2>1, <2>2, <2>3, <2>4, <3>2 DEF NoneReadyAbove
    <3> QED
      BY <3>1, <3>2
  <2> QED
    BY <1>2, <1>7, <2>1, <2>4
<1>10. Idle \notin InQueue(ready')
  BY <1>1, <1>2 DEF HighestInv, IdleExact
<1> QED
  BY <1>1, <1>5, <1>8, <1>9, <1>10 DEF IdleExact

(* Steps that move nothing but main itself. *)
LEMMA HighestUnmoved ==
  ASSUME IInv, HighestInv, AscendingBoot \/ UNCHANGED vars,
         StartLoop \/ TimerIgnored \/ TimerCharged \/ DispatchNothing \/ IdleThread
           \/ Reap \/ UNCHANGED vars
  PROVE  LastIsHighest' /\ HighestOrAsked' /\ IdleExact' /\ (phase' = "run" => ~reschedule')
<1> USE DEF tableVars, threadVars, mutexVars, eventVars, RunUnchanged
<1>1. UNCHANGED <<state, priority, current, reschedule, ready, threadCount, basePriority, bootRuns>>
  BY DEF StartLoop, TimerIgnored, TimerCharged, TimerUnchanged, DispatchNothing,
         DispatchUnchanged, IdleThread, Reap, vars
<1>2. UserThreads' = UserThreads
  BY <1>1 DEF UserThreads, Created
<1>3. /\ Booting' => Booting
      /\ phase' = "bootRun" => phase = "bootRun"
      /\ phase' = "run" => phase = "run" \/ ~reschedule
  BY DEF StartLoop, TimerIgnored, TimerCharged, DispatchNothing, IdleThread, Running, AfterRun,
         Reap, vars, Booting
<1>4. Booting /\ bootRuns = 1 => Booting'
  <2>1. CASE StartLoop
    <3>1. threadCount = MAX_THREADS
      BY <2>1 DEF StartLoop, AscendingBoot, vars
    <3> QED
      BY <2>1, <3>1 DEF StartLoop, HighestInv, LastIsHighest
  <2>2. CASE ~StartLoop
    BY <2>2 DEF TimerIgnored, TimerCharged, DispatchNothing, IdleThread, Running, AfterRun,
                Reap, vars, Booting
  <2> QED
    BY <2>1, <2>2
<1>5. LastIsHighest'
  BY <1>1, <1>2, <1>3 DEF HighestInv, LastIsHighest
<1>6. HighestOrAsked'
  BY <1>1, <1>2, <1>4 DEF HighestInv, HighestOrAsked, NoneReadyAbove, SomeReadyAt
<1>7. IdleExact'
  BY <1>1, <1>2 DEF HighestInv, IdleExact
<1> QED
  BY <1>1, <1>3, <1>5, <1>6, <1>7 DEF HighestInv

(* The quantum runs out: nobody runs until the dispatch.                   *)
LEMMA HighestExpired ==
  ASSUME IInv, HighestInv, QuantumExpired
  PROVE  LastIsHighest' /\ HighestOrAsked' /\ IdleExact' /\ phase' # "run"
<1>1. /\ current' = NULL /\ phase' = "dispatch" /\ current # Idle /\ current # NULL
      /\ ready' = ReadyThread(ready, current, priority[current])
  BY DEF QuantumExpired, Charged
<1>2. /\ current \in Threads /\ current \notin InQueue(ready) /\ NULL # Idle
      /\ priority \in [Threads -> Priorities] /\ ready \in ReadyQueueType
      /\ WellFormed(ready, priority)
  BY <1>1, PriorityTypes, NullAssumption DEF IInv, ReadyQueuesExact, CurrentThreadExact, TypeOK
<1>3. InQueue(ready') = InQueue(ready) \cup {current}
  BY <1>1, <1>2, ReadyThreadKeeps
<1>4. Idle \notin InQueue(ready')
  BY <1>1, <1>3 DEF HighestInv, IdleExact
<1> QED
  BY <1>1, <1>2, <1>4 DEF LastIsHighest, Booting, HighestOrAsked, IdleExact

(* main's own Schedule takes the last thread, or one of its priority.      *)
LEMMA HighestBootSchedule ==
  ASSUME IInv, HighestInv, AscendingBoot, BootSchedule
  PROVE  LastIsHighest' /\ HighestOrAsked' /\ IdleExact' /\ phase' # "run"
<1>1. /\ Schedule /\ phase = "boot" /\ phase' = "bootRun" /\ UserThreads # {}
      /\ bootRuns' = bootRuns + 1
      /\ UNCHANGED <<threadCount, basePriority, priority>>
      /\ UserThreads' = UserThreads
  BY DEF BootSchedule, tableVars, UserThreads, Created
<1>2. bootRuns = 0 /\ bootRuns' = 1 /\ threadCount # MAX_THREADS
  <2>1. bootRuns \in Nat /\ threadCount \in Nat /\ MAX_THREADS \in Nat
    BY SizeAssumption DEF IInv, TypeOK, Threads
  <2>2. bootRuns' > bootRuns
    BY <1>1, <2>1
  <2> QED
    BY <1>1, <2>1, <2>2 DEF AscendingBoot
<1>3. /\ current # Idle /\ Idle \notin InQueue(ready)
      /\ state[threadCount] = "READY" /\ priority[threadCount] = basePriority[threadCount]
      /\ \A t \in UserThreads : /\ basePriority[t] <= basePriority[threadCount]
                                /\ priority[t] <= basePriority[threadCount]
  BY <1>1, <1>2 DEF HighestInv, LastIsHighest, IdleExact, Booting
<1>4. threadCount \in UserThreads
  <2>1. PICK t \in Created : t # 1
    BY <1>1 DEF UserThreads, Idle
  <2>2. threadCount \in Nat /\ t \in 1..threadCount
    BY <2>1 DEF IInv, TypeOK, Threads, Created
  <2> QED
    BY <2>1, <2>2 DEF UserThreads, Created, Idle
<1>5. current # NULL => SomeReadyAt(priority[current])
  BY <1>3, <1>4 DEF SomeReadyAt, IInv, ControlExact, UserThreads
<1>6. /\ \A t \in UserThreads : state'[t] = "READY" => priority[t] <= priority[current']
      /\ Idle \notin InQueue(ready') /\ current' # Idle
  BY <1>1, <1>3, <1>4, <1>5, SchedulePicks DEF SomeReady
<1>7. LastIsHighest'
  BY <1>1, <1>2, <1>3, <1>6 DEF LastIsHighest, Booting
<1>8. HighestOrAsked'
  BY <1>1, <1>2, <1>6 DEF HighestOrAsked, NoneReadyAbove, Booting
<1> QED
  BY <1>1, <1>6, <1>7, <1>8 DEF IdleExact

(* The dispatch that was asked for.                                        *)
LEMMA HighestDispatch ==
  ASSUME IInv, HighestInv, Dispatch
  PROVE  LastIsHighest' /\ HighestOrAsked' /\ IdleExact' /\ ~reschedule'
<1>1. /\ Schedule /\ phase = "dispatch" /\ phase' = "run" /\ reschedule /\ ~reschedule'
      /\ priority' = priority /\ UserThreads' = UserThreads
  BY DEF Dispatch, DispatchUnchanged, tableVars, UserThreads, Created
<1>2. /\ current # Idle /\ Idle \notin InQueue(ready)
      /\ current # NULL /\ state[current] = "RUNNING" => SomeReadyAt(priority[current])
  BY <1>1 DEF HighestInv, IdleExact, HighestOrAsked, Booting
<1>3. /\ \A t \in UserThreads : state'[t] = "READY" => priority[t] <= priority[current']
      /\ Idle \notin InQueue(ready')
      /\ current' = Idle => \A t \in UserThreads : state'[t] # "READY"
  BY <1>1, <1>2, SchedulePicks DEF SomeReady, SomeReadyAt
<1>4. LastIsHighest'
  BY <1>1 DEF LastIsHighest, Booting
<1>5. HighestOrAsked'
  BY <1>1, <1>3 DEF HighestOrAsked, NoneReadyAbove
<1> QED
  BY <1>1, <1>3, <1>4, <1>5 DEF IdleExact

(* Every step of a boot in ascending priority preserves the invariant. *)
LEMMA HighestNext ==
  ASSUME ReleasesLast
  PROVE  IInv /\ OwnersExact /\ HighestInv /\ [Next /\ AscendingBoot]_vars => HighestInv'
<1> SUFFICES ASSUME IInv, OwnersExact, HighestInv, [Next /\ AscendingBoot]_vars
             PROVE  HighestInv'
  OBVIOUS
<1>1. BoostGrounded'
  BY GroundedNext DEF HighestInv
<1> SUFFICES LastIsHighest' /\ HighestOrAsked' /\ IdleExact' /\ (phase' = "run" => ~reschedule')
  BY <1>1 DEF HighestInv
<1>2. CASE Boot /\ AscendingBoot
  BY <1>2, HighestBootSchedule, HighestUnmoved, HighestCreate DEF Boot
<1>3. CASE (Timer \/ DispatchNothing \/ Reap) /\ AscendingBoot
  BY <1>3, HighestUnmoved, HighestExpired DEF Timer
<1>4. CASE Dispatch
  BY <1>4, HighestDispatch
<1>5. CASE RunThread /\ current # Idle /\ Next
  BY <1>5, HighestAfterService, AskedAfterService
<1>6. CASE RunThread /\ current = Idle /\ AscendingBoot
  <2>1. IdleThread
    BY <1>6 DEF RunThread, Work, Exit, StartIo, WaitEvent, StartIoAndWait, Hold, AcquireFree,
                AcquireBlocked, Release, ReleaseAndExit, Calls
  <2> QED
    BY <1>6, <2>1, HighestUnmoved
<1>7. CASE UNCHANGED vars
  BY <1>7, HighestUnmoved
<1> QED
  BY <1>2, <1>3, <1>4, <1>5, <1>6, <1>7 DEF Next

(* With threads created in ascending priority, as main creates them, and   *)
(* routines that hold nothing after a ReleaseMutex, Schedule and           *)
(* CheckPreemption keep their promise: whenever main calls a routine, it   *)
(* is that of a thread of highest priority, and the idle thread's only     *)
(* while nobody else is READY.                                             *)
THEOREM HighestRunsCorrect ==
  ASSUME ReleasesLast
  PROVE  AscendingSpec => [](NoneAbove /\ IdleDiscipline)
<1>1. AscendingSpec => Spec
  <2>1. [Next /\ AscendingBoot]_vars => [Next]_vars
    OBVIOUS
  <2> QED
    BY <2>1, PTL DEF AscendingSpec, Spec
<1>2. IInv /\ OwnersExact /\ HighestInv /\ [Next /\ AscendingBoot]_vars => HighestInv'
  BY HighestNext
<1>3. AscendingSpec => []HighestInv
  BY <1>1, <1>2, HighestInit, Invariant, OwnersCorrect, PTL DEF AscendingSpec
<1>4. IInv /\ HighestInv => NoneAbove /\ IdleDiscipline
  <2> SUFFICES ASSUME IInv, HighestInv PROVE NoneAbove /\ IdleDiscipline
    OBVIOUS
  <2>1. \A t \in InQueue(ready) : t \in UserThreads /\ state[t] = "READY"
    BY QueuedIsReady DEF IInv, UserThreads, HighestInv, IdleExact
  <2>2. phase = "run" => current # NULL /\ state[current] = "RUNNING" /\ ~reschedule
    BY DEF IInv, ControlExact, HighestInv
  <2>3. NoneAbove
    BY <2>1, <2>2 DEF NoneAbove, HighestInv, HighestOrAsked, NoneReadyAbove
  <2>4. IdleDiscipline
    BY <2>1 DEF IdleDiscipline, HighestInv, IdleExact, IInv, ControlExact
  <2> QED
    BY <2>3, <2>4
<1> QED
  BY <1>1, <1>3, <1>4, Invariant, PTL

----------------------------------------------------------------------------
(* The idle thread, whatever the order of the boot *)

Alive(t) == state[t] \in {"READY", "RUNNING"}

\* Nobody has run yet.
Untouched ==
  /\ ~reschedule /\ ioWaiters = <<>> /\ \A m \in Mutexes : owner[m] = NULL
  /\ \A t \in Threads : pc[t] = 1

\* main runs one thread per thread it creates, and the first goes on: so there
\* is always one that can run, and two while main has not run the last.
BootGoesOn ==
  Booting =>
    /\ bootRuns \in {0, 1} /\ (phase = "bootRun" => bootRuns = 1)
    /\ current # Idle
    /\ current = NULL => bootRuns = 0 /\ Untouched
    /\ bootRuns = 0 /\ UserThreads # {} =>
         /\ state[threadCount] = "READY"
         /\ current # NULL => \E t \in UserThreads \ {threadCount} : Alive(t)
    /\ phase = "boot" /\ bootRuns = 1 => \E t \in UserThreads : Alive(t)
    /\ phase = "bootRun" => Untouched \/ \E t \in UserThreads \ {current} : Alive(t)

\* A request that a thread that goes on has made, or found, is for someone.
AskedForReady ==
  current # NULL /\ state[current] = "RUNNING" /\ reschedule => SomeReady

IdleInv == BootGoesOn /\ AskedForReady /\ IdleExact

(* A service stops the running thread at most, and asks for a reschedule   *)
(* that does not stop it only for a thread it has woken.                   *)
LEMMA ServiceSpares ==
  ASSUME IInv, RunThread, current # Idle
  PROVE  /\ \A t \in Threads \ {current} : state'[t] \in {state[t], "READY"}
         /\ reschedule' /\ state'[current] = "RUNNING" =>
              reschedule \/ \E t \in UserThreads : state'[t] = "READY"
<1>1. /\ current \in UserThreads /\ current \in Threads /\ state[current] = "RUNNING"
      /\ state \in [Threads -> ThreadStates] /\ reschedule \in BOOLEAN
      /\ UserThreads \subseteq Threads
  <2>1. UserRuns
    BY ServiceKinds
  <2> QED
    BY <2>1, RunningThread, PriorityTypes DEF UserRuns, UserThreads, IInv, TypeOK
<1>2. CASE state' = state /\ reschedule' = reschedule
  BY <1>2
<1>3. ASSUME NEW s \in {"BLOCKED", "TERMINATED"}, state' = [state EXCEPT ![current] = s]
      PROVE  /\ \A t \in Threads \ {current} : state'[t] = state[t]
             /\ state'[current] # "RUNNING"
  BY <1>1, <1>3
<1>4. ASSUME NEW t \in UserThreads,
             \/ state' = [state EXCEPT ![t] = "READY"]
             \/ state' = [state EXCEPT ![t] = "READY", ![current] = "BLOCKED"]
      PROVE  /\ \A u \in Threads \ {current} : state'[u] \in {state[u], "READY"}
             /\ state'[current] = "RUNNING" => state'[t] = "READY"
  BY <1>1, <1>4
<1>5. ASSUME NEW i \in DOMAIN ioWaiters PROVE ioWaiters[i] \in UserThreads
  BY EventWaiter, WaitingThread DEF UserThreads
<1>6. CASE Work \/ \E m \in Mutexes : Hold(m) \/ AcquireFree(m)
  BY <1>2, <1>6 DEF Work, Hold, AcquireFree
<1>7. CASE WaitEvent \/ \E m \in Mutexes : AcquireBlocked(m)
  BY <1>2, <1>3, <1>7 DEF WaitEvent, AcquireBlocked
<1>8. CASE StartIo \/ StartIoAndWait
  <2>1. CASE ioWaiters = <<>>
    BY <1>2, <1>8, <2>1, EmptySequence DEF StartIo, StartIoAndWait
  <2>2. ASSUME NEW i \in DOMAIN ioWaiters,
               \/ state' = [state EXCEPT ![ioWaiters[i]] = "READY"]
               \/ state' = [state EXCEPT ![ioWaiters[i]] = "READY", ![current] = "BLOCKED"]
        PROVE  /\ \A u \in Threads \ {current} : state'[u] \in {state[u], "READY"}
               /\ state'[current] = "RUNNING" => \E t \in UserThreads : state'[t] = "READY"
    BY <1>4, <1>5, <2>2
  <2> QED
    BY <1>2, <1>8, <2>1, <2>2 DEF StartIo, StartIoAndWait
<1>9. ASSUME NEW m \in Mutexes, NEW s \in {"RUNNING", "TERMINATED"}, GivesUp(m, s)
      PROVE  /\ \A t \in Threads \ {current} : state'[t] \in {state[t], "READY"}
             /\ reschedule' /\ state'[current] = "RUNNING" =>
                  reschedule \/ \E t \in UserThreads : state'[t] = "READY"
  <2>1. ReleaseMutex(m, s) /\ state'[current] = s
    BY <1>9, GivesUpEffect DEF GivesUp
  <2>2. CASE Free(m, s)
    BY <1>1, <2>1, <2>2 DEF Free
  <2>3. ASSUME NEW i \in DOMAIN waiters[m], HandOff(m, i, s)
        PROVE  /\ \A t \in Threads \ {current} : state'[t] \in {state[t], "READY"}
               /\ \E t \in UserThreads : state'[t] = "READY"
    <3> DEFINE next == waiters[m][i]
    <3>1. next \in ToSet(waiters[m])
      BY DEF ToSet
    <3>2. next \in UserThreads
      BY <3>1, WaiterFields, WaitingThread DEF UserThreads
    <3>3. state' = [state EXCEPT ![current] = s, ![next] = "READY"]
      BY <2>3 DEF HandOff
    <3> HIDE DEF next
    <3> QED
      BY <1>1, <3>2, <3>3
  <2> QED
    BY <2>1, <2>2, <2>3 DEF ReleaseMutex
<1>10. CASE \E m \in Mutexes : Release(m) \/ ReleaseAndExit(m)
  BY <1>9, <1>10 DEF Release, ReleaseAndExit, GivesUp, Calls, RunUnchanged
<1>11. CASE Exit
  <2>1. CASE ownedMutex[current] = NULL
    BY <1>3, <1>11, <2>1 DEF Exit
  <2>2. CASE ownedMutex[current] # NULL
    <3>1. ownedMutex[current] \in Mutexes
      BY <1>1, <2>2 DEF IInv, TypeOK
    <3>2. GivesUp(ownedMutex[current], "TERMINATED")
      BY <1>11, <2>2 DEF Exit, GivesUp, Calls, RunUnchanged
    <3> QED
      BY <1>9, <3>1, <3>2
  <2> QED
    BY <2>1, <2>2
<1>12. ~IdleThread
  BY DEF IdleThread
<1> QED
  BY <1>6, <1>7, <1>8, <1>10, <1>11, <1>12 DEF RunThread

(* The first call of all goes on: no mutex is taken, nobody waits.         *)
LEMMA FirstCall ==
  ASSUME IInv, FirstCallsGoOn, Untouched, RunThread, current # Idle
  PROVE  state'[current] = "RUNNING"
<1>1. UserRuns
  BY ServiceKinds
<1>2. /\ current \in UserThreads /\ current \in Threads /\ state[current] = "RUNNING"
      /\ current # NULL /\ pc[current] = 1 /\ ioWaiters = <<>> /\ DOMAIN ioWaiters = {}
  BY <1>1, RunningThread, NullAssumption, PriorityTypes, EmptySequence
     DEF UserRuns, UserThreads, IInv, Untouched, TypeOK
<1>3. \A m \in Mutexes : owner[m] # current /\ owner[m] = NULL
  BY <1>2 DEF Untouched
<1>4. ~Exit /\ ~WaitEvent
  <2>1. routine[current][1].op \notin {"exit", "wait"}
    BY <1>2 DEF FirstCallsGoOn
  <2> QED
    BY <1>2, <2>1 DEF Exit, WaitEvent, Calls, Step
<1>5. \A m \in Mutexes : ~AcquireBlocked(m) /\ ~Release(m) /\ ~ReleaseAndExit(m)
  BY <1>3 DEF AcquireBlocked, Release, ReleaseAndExit, ReleaseMutex
<1>6. state' = state
  BY <1>2, <1>4, <1>5
     DEF RunThread, IdleThread, Work, StartIo, StartIoAndWait, Hold, AcquireFree
<1> QED
  BY <1>2, <1>6

(* The invariant before main creates a thread. *)
LEMMA IdleInit == Init => IdleInv
<1> SUFFICES ASSUME Init PROVE IdleInv
  OBVIOUS
<1>1. UserThreads = {} /\ phase = "boot" /\ bootRuns = 0 /\ current = NULL /\ NULL # Idle
  BY SizeAssumption, NullAssumption DEF Init, UserThreads, Created, Threads, Idle
<1>2. Untouched
  BY DEF Init, Untouched
<1>3. \A p \in Priorities : ToSet(ready.queues[p]) = {}
  BY DEF Init, EmptyReady, ToSet
<1> QED
  BY <1>1, <1>2, <1>3 DEF IdleInv, BootGoesOn, AskedForReady, IdleExact, InQueue

(* A thread that is created can run, besides one that could before.        *)
LEMMA IdleCreate ==
  ASSUME IInv, IdleInv, NEW r \in Routines, NEW p \in UserPriorities, CreateThread(r, p)
  PROVE  IdleInv'
<1> DEFINE n == threadCount'
<1>1. /\ phase = "boot" /\ phase' = "boot" /\ bootRuns' = 0 /\ current' = current /\ state' = state
      /\ current = NULL => reschedule' = reschedule
      /\ UNCHANGED <<pc, owner, ioWaiters>>
  BY DEF CreateThread, mutexVars, eventVars
<1>2. /\ UserThreads' = UserThreads \cup {n} /\ n \notin UserThreads
      /\ state[n] = "READY" /\ n # threadCount /\ n # Idle
      /\ InQueue(ready') = InQueue(ready) \cup {n}
  <2>1. threadCount \in Nat
    BY PriorityTypes DEF IInv
  <2> QED
    BY <2>1, CreateQueues
<1> HIDE DEF n
<1>3. current = NULL => Untouched /\ Untouched'
  BY <1>1 DEF IdleInv, BootGoesOn, Booting, Untouched
<1>4. ASSUME current # NULL PROVE \E t \in UserThreads' \ {n} : Alive(t)'
  <2>1. current \in UserThreads
    BY <1>1, <1>4 DEF IdleInv, BootGoesOn, Booting, IInv, ControlExact, UserThreads
  <2>2. \E t \in UserThreads : Alive(t)
    BY <1>1, <1>4, <2>1 DEF IdleInv, BootGoesOn, Booting
  <2> QED
    BY <1>1, <1>2, <2>2 DEF Alive
<1>5. BootGoesOn'
  BY <1>1, <1>2, <1>3, <1>4 DEF IdleInv, BootGoesOn, Booting, n
<1>6. AskedForReady'
  BY <1>1, <1>2 DEF AskedForReady, SomeReady
<1>7. IdleExact'
  BY <1>1, <1>2 DEF IdleInv, BootGoesOn, Booting, IdleExact
<1> QED
  BY <1>5, <1>6, <1>7 DEF IdleInv

(* Schedule leaves READY all that can run but the one it takes.            *)
LEMMA ScheduleSpares ==
  ASSUME IInv, Schedule
  PROVE  \A t \in UserThreads : Alive(t) => t = current' \/ state'[t] = "READY"
<1>1. state \in [Threads -> ThreadStates] /\ UserThreads \subseteq Threads
  BY PriorityTypes DEF IInv, TypeOK, UserThreads
<1>2. \A t \in UserThreads : state[t] = "RUNNING" => t = current /\ current # NULL
  BY <1>1, NullAssumption DEF IInv, CurrentThreadExact
<1>3. ASSUME NEW next, NEW rq, SwitchTo(next, rq)
      PROVE  \A t \in UserThreads : Alive(t) => t = current' \/ state'[t] = "READY"
  BY <1>1, <1>2, <1>3 DEF SwitchTo, Alive
<1> QED
  BY <1>3 DEF Schedule

(* main's own Schedule: the thread it does not take can still run.         *)
LEMMA IdleBootSchedule ==
  ASSUME IInv, IdleInv, MaxBootRuns = 1, BootSchedule
  PROVE  IdleInv'
<1>1. /\ Schedule /\ phase = "boot" /\ phase' = "bootRun" /\ UserThreads # {}
      /\ bootRuns = 0 /\ bootRuns' = 1 /\ UserThreads' = UserThreads
      /\ UNCHANGED <<threadCount, reschedule, pc, owner, ioWaiters>>
  BY DEF BootSchedule, tableVars, mutexVars, eventVars, UserThreads, Created, IInv, TypeOK
<1>2. threadCount \in UserThreads
  <2>1. PICK t \in Created : t # 1
    BY <1>1 DEF UserThreads, Idle
  <2>2. threadCount \in Nat /\ t \in 1..threadCount
    BY <2>1 DEF IInv, TypeOK, Threads, Created
  <2> QED
    BY <2>1, <2>2 DEF UserThreads, Created, Idle
<1>3. /\ current # Idle /\ Idle \notin InQueue(ready) /\ state[threadCount] = "READY"
      /\ current = NULL => Untouched
      /\ current # NULL => \E t \in UserThreads \ {threadCount} : Alive(t)
  BY <1>1 DEF IdleInv, BootGoesOn, Booting, IdleExact
<1>4. current' # Idle /\ Idle \notin InQueue(ready')
  BY <1>1, <1>2, <1>3, SchedulePicks DEF SomeReady
<1>5. current = NULL => Untouched'
  BY <1>1, <1>3 DEF Untouched
<1>6. current # NULL => \E t \in UserThreads : t # current' /\ state'[t] = "READY"
  BY <1>1, <1>2, <1>3, ScheduleSpares DEF Alive
<1>7. BootGoesOn'
  <2>1. current' # NULL
    BY <1>1, NextInvariant DEF Next, Boot, IInv, ControlExact
  <2> QED
    BY <1>1, <1>4, <1>5, <1>6, <2>1 DEF BootGoesOn, Booting, Alive
<1>8. AskedForReady'
  BY <1>1, <1>3, <1>6 DEF AskedForReady, SomeReady, Untouched
<1> QED
  BY <1>4, <1>7, <1>8 DEF IdleInv, IdleExact

(* The dispatch that was asked for finds a thread, or nobody can run.      *)
LEMMA IdleDispatch ==
  ASSUME IInv, IdleInv, Dispatch
  PROVE  IdleInv'
<1>1. /\ Schedule /\ phase' = "run" /\ reschedule /\ ~reschedule' /\ UserThreads' = UserThreads
  BY DEF Dispatch, DispatchUnchanged, tableVars, UserThreads, Created
<1>2. /\ current # Idle /\ Idle \notin InQueue(ready)
      /\ current # NULL /\ state[current] = "RUNNING" => SomeReady
  BY <1>1 DEF IdleInv, IdleExact, AskedForReady
<1>3. /\ Idle \notin InQueue(ready')
      /\ current' = Idle => \A t \in UserThreads : state'[t] # "READY"
  BY <1>1, <1>2, SchedulePicks
<1> QED
  BY <1>1, <1>3 DEF IdleInv, BootGoesOn, Booting, AskedForReady, IdleExact

(* A call of a routine: of the threads that could run, the others still can. *)
LEMMA IdleService ==
  ASSUME IInv, IdleInv, FirstCallsGoOn, RunThread, current # Idle
  PROVE  IdleInv'
<1>1. /\ UserRuns /\ UserThreads' = UserThreads /\ UserThreads \subseteq Threads
      /\ current' = current /\ current # NULL /\ current \in UserThreads
      /\ bootRuns' = bootRuns /\ threadCount' = threadCount
      /\ InQueue(ready') \subseteq InQueue(ready) \cup UserThreads
  <2>1. UserRuns /\ InQueue(ready') \subseteq InQueue(ready) \cup UserThreads
    BY ServiceKinds
  <2> QED
    BY <2>1, PriorityTypes DEF UserRuns, Running, tableVars, UserThreads, Created, IInv
<1>2. /\ \A t \in Threads \ {current} : state'[t] \in {state[t], "READY"}
      /\ reschedule' /\ state'[current] = "RUNNING" =>
           reschedule \/ \E t \in UserThreads : state'[t] = "READY"
  BY ServiceSpares
<1>3. state[current] = "RUNNING"
  BY <1>1 DEF UserRuns, Running
<1>4. ASSUME Booting' PROVE BootGoesOn'
  <2>1. /\ phase = "bootRun" /\ phase' = "boot" /\ bootRuns = 1
        /\ Untouched \/ \E t \in UserThreads \ {current} : Alive(t)
    BY <1>1, <1>4 DEF UserRuns, Running, AfterRun, Booting, IdleInv, BootGoesOn
  <2>2. CASE Untouched
    <3>1. state'[current] = "RUNNING"
      BY <2>2, FirstCall
    <3> QED
      BY <1>1, <2>1, <3>1 DEF BootGoesOn, Alive
  <2>3. ASSUME NEW t \in UserThreads \ {current}, Alive(t) PROVE Alive(t)'
    BY <1>1, <1>2, <2>3 DEF Alive
  <2> QED
    BY <1>1, <2>1, <2>2, <2>3 DEF BootGoesOn
<1>5. AskedForReady'
  <2> SUFFICES ASSUME state'[current] = "RUNNING", reschedule'
               PROVE  \E t \in UserThreads : state'[t] = "READY"
    BY <1>1 DEF AskedForReady, SomeReady
  <2>1. CASE reschedule
    <3>1. PICK t \in UserThreads : state[t] = "READY"
      BY <1>1, <1>3, <2>1 DEF IdleInv, AskedForReady, SomeReady
    <3> QED
      BY <1>1, <1>2, <1>3, <3>1
  <2> QED
    BY <1>2, <2>1
<1>6. IdleExact'
  BY <1>1 DEF IdleInv, IdleExact, UserThreads
<1> QED
  BY <1>4, <1>5, <1>6 DEF IdleInv, BootGoesOn

(* Steps that move nothing but main itself, and the end of a quantum.      *)
LEMMA IdleUnmoved ==
  ASSUME IInv, IdleInv,
         StartLoop \/ TimerIgnored \/ TimerCharged \/ QuantumExpired \/ DispatchNothing
           \/ IdleThread \/ Reap \/ UNCHANGED vars
  PROVE  IdleInv'
<1> USE DEF tableVars, threadVars, mutexVars, eventVars, RunUnchanged
<1>1. CASE QuantumExpired
  <2>1. /\ current' = NULL /\ phase' = "dispatch" /\ current # Idle /\ current \in Threads
        /\ ready' = ReadyThread(ready, current, priority[current])
    BY <1>1, NullAssumption DEF QuantumExpired, Charged, IInv, TypeOK
  <2>2. /\ current \notin InQueue(ready) /\ NULL # Idle
        /\ priority \in [Threads -> Priorities] /\ ready \in ReadyQueueType
        /\ WellFormed(ready, priority)
    BY <1>1, <2>1, PriorityTypes, NullAssumption
       DEF QuantumExpired, Charged, IInv, ReadyQueuesExact, CurrentThreadExact, TypeOK,
           Threads, Idle
  <2>3. InQueue(ready') = InQueue(ready) \cup {current}
    BY <2>1, <2>2, ReadyThreadKeeps
  <2> QED
    BY <2>1, <2>2, <2>3 DEF IdleInv, BootGoesOn, Booting, AskedForReady, IdleExact
<1>2. CASE ~QuantumExpired
  <2>1. UNCHANGED <<state, current, reschedule, ready, threadCount, bootRuns, owner, ioWaiters>>
    BY <1>2 DEF StartLoop, TimerIgnored, TimerCharged, TimerUnchanged, DispatchNothing,
                DispatchUnchanged, IdleThread, Reap, vars
  <2>2. UserThreads' = UserThreads
    BY <2>1 DEF UserThreads, Created
  <2>3. Booting' => phase' = phase /\ pc' = pc
    BY <1>2 DEF StartLoop, TimerIgnored, TimerCharged, DispatchNothing, IdleThread, Running,
                AfterRun, Reap, vars, Booting, IdleInv, BootGoesOn
  <2> QED
    BY <2>1, <2>2, <2>3 DEF IdleInv, BootGoesOn, Booting, AskedForReady, SomeReady, IdleExact,
                            Untouched, Alive
<1> QED
  BY <1>1, <1>2

(* Every step preserves the invariant while no thread stops in its first   *)
(* call; and it is the routines created that decide, which stay.           *)
LEMMA IdleNext ==
  ASSUME MaxBootRuns = 1
  PROVE  IInv /\ (FirstCallsGoOn => IdleInv) /\ [Next]_vars => (FirstCallsGoOn => IdleInv)'
<1> SUFFICES ASSUME IInv, FirstCallsGoOn => IdleInv, [Next]_vars, FirstCallsGoOn'
             PROVE  IdleInv'
  OBVIOUS
<1>1. FirstCallsGoOn
  <2>1. ASSUME NEW r \in Routines, NEW p \in UserPriorities, CreateThread(r, p)
        PROVE  \A t \in UserThreads : t \in UserThreads' /\ routine'[t] = routine[t]
    <3>1. UserThreads' = UserThreads \cup {threadCount'} /\ threadCount' \notin UserThreads
          /\ routine' = [routine EXCEPT ![threadCount'] = r]
      BY <2>1, CreateQueues DEF CreateThread
    <3>2. routine \in [Threads -> Seq(Steps)] \/ DOMAIN routine = Threads
      BY DEF IInv, TypeOK
    <3> QED
      BY <3>1, <3>2
  <2>2. CASE UNCHANGED <<threadCount, routine>>
    BY <2>2 DEF FirstCallsGoOn, UserThreads, Created
  <2>3. UNCHANGED <<threadCount, routine>>
          \/ \E r \in Routines, p \in UserPriorities : CreateThread(r, p)
    BY StepKinds DEF Quiet, Dies, Passes, MutexSame, AcquireFree, AcquireBlocked, GivesUp,
                     RunUnchanged, tableVars
  <2> QED
    BY <2>1, <2>2, <2>3 DEF FirstCallsGoOn
<1>2. IdleInv
  BY <1>1
<1>3. CASE RunThread /\ current # Idle
  BY <1>1, <1>2, <1>3, IdleService
<1>4. CASE RunThread /\ current = Idle
  <2>1. IdleThread
    BY <1>4 DEF RunThread, Work, Exit, StartIo, WaitEvent, StartIoAndWait, Hold, AcquireFree,
                AcquireBlocked, Release, ReleaseAndExit, Calls
  <2> QED
    BY <1>2, <2>1, IdleUnmoved
<1> QED
  BY <1>2, <1>3, <1>4, IdleCreate, IdleBootSchedule, IdleDispatch, IdleUnmoved
     DEF Next, Boot, Timer

(* In any order of creation: if main runs one thread per thread it creates *)
(* and no thread stops in its first call, the idle thread runs only while  *)
(* nobody is READY, and Schedule never queues it.                          *)
THEOREM IdleDisciplineCorrect ==
  ASSUME MaxBootRuns = 1
  PROVE  Spec => [](FirstCallsGoOn => IdleDiscipline)
<1>1. Init => (FirstCallsGoOn => IdleInv)
  BY IdleInit
<1>2. IInv /\ (FirstCallsGoOn => IdleInv) /\ [Next]_vars => (FirstCallsGoOn => IdleInv)'
  BY IdleNext
<1>3. IInv /\ (FirstCallsGoOn => IdleInv) => (FirstCallsGoOn => IdleDiscipline)
  <2> SUFFICES ASSUME IInv, IdleInv PROVE IdleDiscipline
    OBVIOUS
  <2>1. \A t \in InQueue(ready) : t \in UserThreads /\ state[t] = "READY"
    BY QueuedIsReady DEF IInv, UserThreads, IdleInv, IdleExact
  <2> QED
    BY <2>1 DEF IdleDiscipline, IdleInv, IdleExact, IInv, ControlExact
<1> QED
  BY <1>1, <1>2, <1>3, Invariant, PTL DEF Spec

(* The highest thread runs, in the order main creates its threads and in   *)
(* others as far as it is true: CheckPreemption, the dispatch and main's   *)
(* own Schedule never leave a READY thread above the one main calls, nor   *)
(* the idle thread running while another could.                            *)
THEOREM HighestPriorityCorrect ==
  ASSUME ReleasesLast, MaxBootRuns = 1
  PROVE  BootsSpec => []HighestPriorityRuns
<1>1. BootsSpec => Spec
  <2>1. [Next /\ Ordered]_bootVars => [Next]_vars
    BY DEF bootVars, vars
  <2> QED
    BY <2>1, PTL DEF BootsSpec, Spec
<1>2. BootsSpec /\ order = "ascending" => AscendingSpec /\ [](order = "ascending")
  <2>1. order = "ascending" /\ [Next /\ Ordered]_bootVars
          => [Next /\ AscendingBoot]_vars /\ (order = "ascending")'
    BY DEF bootVars, vars, Ordered
  <2> QED
    BY <2>1, PTL DEF BootsSpec, AscendingSpec
<1>3. BootsSpec /\ ~(order = "ascending") => [](~(order = "ascending"))
  <2>1. ~(order = "ascending") /\ [Next /\ Ordered]_bootVars => (~(order = "ascending"))'
    BY DEF bootVars, vars, Ordered
  <2> QED
    BY <2>1, PTL DEF BootsSpec
<1>4. AscendingSpec => [](NoneAbove /\ IdleDiscipline)
  BY HighestRunsCorrect
<1>5. Spec => [](FirstCallsGoOn => IdleDiscipline)
  BY IdleDisciplineCorrect
<1>6. /\ NoneAbove /\ IdleDiscipline => HighestPriorityRuns
      /\ ~(order = "ascending") /\ (FirstCallsGoOn => IdleDiscipline) => HighestPriorityRuns
  BY DEF HighestPriorityRuns
<1> QED
  BY <1>1, <1>2, <1>3, <1>4, <1>5, <1>6, PTL

=============================================================================
