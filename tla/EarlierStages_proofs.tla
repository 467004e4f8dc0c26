------------------------- MODULE EarlierStages_proofs -------------------------
(* Theorems about the two earlier stages of the kernel (KernelLvl1 and         *)
(* KernelLvl2): threads, wait queues and ownership agree at every call main    *)
(* makes, and the mutex of either stage implements MutexService.  The services *)
(* the stages share are treated once, for any kernel record k of n threads.    *)
EXTENDS EarlierStages, SequenceTheorems, WellFoundedInduction, TLAPS

----------------------------------------------------------------------------
(* Sequences without duplicates *)

(* A sequence is empty iff it has no place and no element. *)
LEMMA EmptySequence ==
  ASSUME NEW S, NEW s \in Seq(S)
  PROVE  /\ s = <<>> <=> DOMAIN s = {}
         /\ s = <<>> <=> ToSet(s) = {}
         /\ s # <<>> => 1 \in DOMAIN s
<1>1. Len(s) \in Nat /\ DOMAIN s = 1..Len(s) /\ (s = <<>> <=> Len(s) = 0)
  BY EmptySeq, LenProperties
<1>2. s # <<>> => 1 \in DOMAIN s
  BY <1>1
<1>3. s = <<>> => DOMAIN s = {} /\ ToSet(s) = {}
  BY <1>1 DEF ToSet
<1> QED
  BY <1>2, <1>3 DEF ToSet

(* Appending a new element adds it and nothing else. *)
LEMMA AppendKeeps ==
  ASSUME NEW S, NEW s \in Seq(S), NEW e \in S
  PROVE  /\ Append(s, e) \in Seq(S)
         /\ Append(s, e) # <<>>
         /\ ToSet(Append(s, e)) = ToSet(s) \cup {e}
         /\ IsInjective(s) /\ e \notin ToSet(s) => IsInjective(Append(s, e))
<1> DEFINE a == Append(s, e)
<1>1. /\ a \in Seq(S) /\ a # <<>>
      /\ DOMAIN s = 1..Len(s) /\ DOMAIN a = 1..(Len(s) + 1) /\ Len(s) \in Nat
      /\ \A i \in 1..Len(s) : a[i] = s[i]
      /\ a[Len(s) + 1] = e
  OBVIOUS
<1> HIDE DEF a
<1>2. ToSet(a) = ToSet(s) \cup {e}
  <2>1. ASSUME NEW i \in DOMAIN a PROVE a[i] \in ToSet(s) \cup {e}
    BY <1>1 DEF ToSet
  <2>2. ASSUME NEW i \in DOMAIN s PROVE s[i] \in ToSet(a)
    BY <1>1 DEF ToSet
  <2>3. e \in ToSet(a)
    BY <1>1 DEF ToSet
  <2> QED
    BY <2>1, <2>2, <2>3 DEF ToSet
<1>3. ASSUME IsInjective(s), e \notin ToSet(s) PROVE IsInjective(a)
  <2>1. \A i \in 1..Len(s) : s[i] # e
    BY <1>1, <1>3 DEF ToSet
  <2> QED
    BY <1>1, <1>3, <2>1 DEF IsInjective
<1> QED
  BY <1>1, <1>2, <1>3 DEF a

(* RemoveAt drops the i-th element and closes the gap. *)
LEMMA RemoveAtElements ==
  ASSUME NEW S, NEW s \in Seq(S), NEW i \in 1..Len(s)
  PROVE  /\ RemoveAt(s, i) \in Seq(S)
         /\ Len(RemoveAt(s, i)) = Len(s) - 1
         /\ \A j \in 1..(Len(s) - 1) :
              RemoveAt(s, i)[j] = IF j < i THEN s[j] ELSE s[j + 1]
<1> DEFINE a == SubSeq(s, 1, i - 1)
           b == SubSeq(s, i + 1, Len(s))
<1>1. a \in Seq(S) /\ Len(a) = i - 1 /\ \A j \in 1..(i - 1) : a[j] = s[j]
  BY SubSeqProperties, SMT
<1>2. b \in Seq(S) /\ Len(b) = Len(s) - i /\ \A j \in 1..(Len(s) - i) : b[j] = s[i + j]
  BY SubSeqProperties, SMT
<1>3. RemoveAt(s, i) = a \o b
  BY DEF RemoveAt
<1> HIDE DEF a, b
<1>4. /\ a \o b \in Seq(S)
      /\ Len(a \o b) = Len(a) + Len(b)
      /\ \A j \in 1..(Len(a) + Len(b)) :
           (a \o b)[j] = IF j <= Len(a) THEN a[j] ELSE b[j - Len(a)]
  BY <1>1, <1>2, ConcatProperties
<1> QED
  BY <1>1, <1>2, <1>3, <1>4, SMT

(* From a sequence without duplicates it removes that element for good. *)
LEMMA RemoveAtKeeps ==
  ASSUME NEW S, NEW s \in Seq(S), NEW i \in DOMAIN s, IsInjective(s)
  PROVE  /\ RemoveAt(s, i) \in Seq(S)
         /\ ToSet(RemoveAt(s, i)) = ToSet(s) \ {s[i]}
         /\ IsInjective(RemoveAt(s, i))
<1> DEFINE c == RemoveAt(s, i)
           old(j) == IF j < i THEN j ELSE j + 1
<1>1. DOMAIN s = 1..Len(s) /\ Len(s) \in Nat /\ i \in 1..Len(s)
  OBVIOUS
<1>2. c \in Seq(S) /\ Len(c) = Len(s) - 1 /\ \A j \in 1..(Len(s) - 1) : c[j] = s[old(j)]
  BY <1>1, RemoveAtElements
<1> HIDE DEF c
<1>3. DOMAIN c = 1..(Len(s) - 1)
  BY <1>1, <1>2
<1>4. \A j \in DOMAIN c : old(j) \in DOMAIN s /\ old(j) # i
  BY <1>1, <1>3
<1>5. ToSet(c) = ToSet(s) \ {s[i]}
  <2>1. ASSUME NEW j \in DOMAIN c PROVE c[j] \in ToSet(s) \ {s[i]}
    <3>1. c[j] = s[old(j)] /\ old(j) \in DOMAIN s /\ old(j) # i
      BY <1>2, <1>3, <1>4
    <3> HIDE DEF old
    <3> QED
      BY <3>1 DEF ToSet, IsInjective
  <2>2. ASSUME NEW k \in DOMAIN s, s[k] # s[i] PROVE s[k] \in ToSet(c)
    <3> DEFINE j == IF k < i THEN k ELSE k - 1
    <3>1. j \in DOMAIN c /\ old(j) = k
      BY <1>1, <1>3, <2>2
    <3>2. c[j] = s[k]
      BY <1>2, <1>3, <3>1
    <3> QED
      BY <3>1, <3>2 DEF ToSet
  <2> QED
    BY <2>1, <2>2 DEF ToSet
<1>6. ASSUME NEW j \in DOMAIN c, NEW k \in DOMAIN c, c[j] = c[k] PROVE j = k
  <2>1. old(j) = old(k)
    BY <1>2, <1>3, <1>4, <1>6 DEF IsInjective
  <2> QED
    BY <1>1, <1>3, <2>1
<1> QED
  BY <1>2, <1>5, <1>6 DEF c, IsInjective


(* A set of naturals has a least element. *)
LEMMA LeastNatural ==
  ASSUME NEW T, T \subseteq Nat, T # {}
  PROVE  \E x \in T : \A y \in T : x <= y
<1>1. PICK x \in T : \A y \in T : <<y, x>> \notin OpToRel(<, Nat)
  BY WFMin, NatLessThanWellFounded, Zenon
<1>2. \A y \in T : ~(y < x)
  BY <1>1, Zenon DEF OpToRel
<1> QED
  BY <1>2

(* The scan for the highest priority finds a first place that has it: were     *)
(* there a prefix without one, the shortest would be a prefix with one and one *)
(* place more.                                                                 *)
LEMMA FirstHighest ==
  ASSUME NEW n \in Nat, NEW C, C \subseteq 1..n, C # {}, NEW f, \A i \in C : f[i] \in Nat
  PROVE  \E i \in C : \A j \in C : f[j] <= f[i] /\ (j < i => f[j] < f[i])
<1> DEFINE Top(i, m) == i <= m /\ \A j \in C : j <= m => f[j] <= f[i] /\ (j < i => f[j] < f[i])
           Found(m) == \E i \in C : Top(i, m)
           Reached(m) == \E i \in C : i <= m
           Missed == {m \in Nat : m <= n /\ Reached(m) /\ ~Found(m)}
<1>1. \A m \in Nat : m \in Missed <=> m <= n /\ Reached(m) /\ ~Found(m)
  OBVIOUS
<1>2. Missed \subseteq Nat
  OBVIOUS
<1> HIDE DEF Missed
<1>3. ASSUME NEW m \in Nat, m <= n, Reached(m), \A y \in Missed : m <= y
      PROVE  Found(m)
  <2>1. m \in Nat \ {0} /\ m - 1 \in Nat
    BY <1>3
  <2>2. m - 1 \notin Missed
    BY <1>2, <1>3
  <2>3. CASE Found(m - 1)
    <3>1. PICK i \in C : Top(i, m - 1)
      BY <2>3
    <3>2. CASE m \in C /\ f[m] > f[i]
      <4>1. Top(m, m)
        BY <2>1, <3>1, <3>2
      <4> QED
        BY <3>2, <4>1
    <3>3. CASE ~(m \in C /\ f[m] > f[i])
      <4>1. Top(i, m)
        BY <2>1, <3>1, <3>3
      <4> QED
        BY <4>1
    <3> QED
      BY <3>2, <3>3
  <2>4. CASE ~Reached(m - 1)
    <3>1. \A i \in C : i >= m
      BY <2>1, <2>4
    <3>2. m \in C
      BY <1>3, <3>1
    <3>3. Top(m, m)
      BY <3>1, <3>2
    <3> QED
      BY <3>2, <3>3
  <2> HIDE DEF Reached, Found
  <2>5. Reached(m - 1) => Found(m - 1)
    BY <1>1, <1>3, <2>1, <2>2
  <2> QED
    BY <2>3, <2>4, <2>5
<1>4. Missed = {}
  <2> SUFFICES ASSUME Missed # {} PROVE FALSE
    OBVIOUS
  <2>1. PICK m \in Missed : \A y \in Missed : m <= y
    BY <1>2, LeastNatural, Zenon
  <2> HIDE DEF Reached, Found
  <2> QED
    BY <1>1, <1>2, <1>3, <2>1
<1>5. Reached(n)
  <2>1. PICK i \in C : i \in 1..n
    OBVIOUS
  <2> QED
    BY <2>1
<1>6. Found(n)
  <2> HIDE DEF Reached, Found
  <2> QED
    BY <1>1, <1>4, <1>5
<1> QED
  BY <1>6

----------------------------------------------------------------------------
(* A kernel of n threads *)

ThreadStates == {"READY", "RUNNING", "BLOCKED", "TERMINATED"}
ThreadRecords == [routine : Routines \cup {<<>>}, pc : Nat, priority : Nat, base : Nat,
                  quantum : Nat, state : ThreadStates]
Kernels(n) ==
  [threads : [1..n -> ThreadRecords], current : 0..n, reschedule : BOOLEAN,
   owner : 0..n, waiters : Seq(1..n), signaled : BOOLEAN, ioWaiters : Seq(1..n),
   owned : SUBSET (1..n), refs : Int]

\* BLOCKED threads are those queued, each in one queue and once.
QueuesFit(k, n) ==
  /\ IsInjective(k.waiters) /\ IsInjective(k.ioWaiters)
  /\ ToSet(k.waiters) \cap ToSet(k.ioWaiters) = {}
  /\ \A t \in 1..n : k.threads[t].state = "BLOCKED" <=>
                       t \in ToSet(k.waiters) \cup ToSet(k.ioWaiters)

\* Nobody waits for a free mutex, for himself or for a lower owner.
MutexFits(k) ==
  /\ k.owner = 0 => k.waiters = <<>>
  /\ k.owner \notin ToSet(k.waiters)
  /\ \A t \in ToSet(k.waiters) : k.threads[t].priority <= k.threads[k.owner].priority

Sound(k, n) ==
  /\ k \in Kernels(n) /\ QueuesFit(k, n) /\ MutexFits(k)
  /\ \A t \in 1..n : k.threads[t].state = "RUNNING" => t = k.current
  /\ k.signaled => k.ioWaiters = <<>>

\* The current thread runs, and calls a service.
Calling(k, n) == k.current \in 1..n /\ k.threads[k.current].state = "RUNNING"

\* What no service but the end of a thread changes.
Moves(k, a, n) ==
  /\ a.current = k.current /\ a.threads[a.current].state # "READY"
  /\ \A t \in 1..n :
       /\ a.threads[t].routine = k.threads[t].routine /\ a.threads[t].pc = k.threads[t].pc
       /\ a.threads[t].state = "TERMINATED" <=> k.threads[t].state = "TERMINATED"
       /\ t # k.current /\ a.threads[t].state = "BLOCKED" => k.threads[t].state = "BLOCKED"

\* The mutex makes a step of MutexService or none.
MutexStep(k, a, n) ==
  LET w == ToSet(k.waiters)
      v == ToSet(a.waiters)
  IN  \/ a.owner = k.owner /\ v = w
      \/ k.owner = 0 /\ a.owner \in 1..n /\ v = w
      \/ k.owner # 0 /\ a.owner = k.owner /\ \E t \in 1..n : t \notin w \cup {k.owner} /\ v = w \cup {t}
      \/ k.owner # 0 /\ a.owner \in w /\ v = w \ {a.owner}
      \/ k.owner # 0 /\ w = {} /\ a.owner = 0 /\ v = w

(* The current thread blocks in the queue it has entered. *)
LEMMA BlockEffect ==
  ASSUME NEW n \in Nat, NEW k \in Kernels(n), k.current \in 1..n, NEW a, a = BlockCurrentThread(k)
  PROVE  /\ a \in Kernels(n)
         /\ a.current = k.current /\ a.owner = k.owner /\ a.waiters = k.waiters
         /\ a.signaled = k.signaled /\ a.ioWaiters = k.ioWaiters /\ a.owned = k.owned /\ a.refs = k.refs
         /\ \A t \in 1..n :
              /\ a.threads[t].routine = k.threads[t].routine /\ a.threads[t].pc = k.threads[t].pc
              /\ a.threads[t].priority = k.threads[t].priority
              /\ a.threads[t].state = IF t = k.current THEN "BLOCKED" ELSE k.threads[t].state
<1> DEFINE c == k.current
           r == [k.threads[c] EXCEPT !.state = "BLOCKED"]
           th == [k.threads EXCEPT ![c] = r]
<1>1. a = [k EXCEPT !.threads = th, !.reschedule = TRUE]
  BY DEF BlockCurrentThread
<1>2. k.threads \in [1..n -> ThreadRecords]
  BY DEF Kernels
<1>3. /\ r \in ThreadRecords /\ r.routine = k.threads[c].routine /\ r.pc = k.threads[c].pc
      /\ r.priority = k.threads[c].priority /\ r.state = "BLOCKED"
  BY <1>2 DEF ThreadRecords, ThreadStates
<1> HIDE DEF r
<1>4. th \in [1..n -> ThreadRecords] /\ \A t \in 1..n : th[t] = IF t = c THEN r ELSE k.threads[t]
  BY <1>2, <1>3
<1> HIDE DEF th
<1> QED
  BY <1>1, <1>3, <1>4 DEF Kernels

(* CheckPreemption only asks. *)
LEMMA CheckedEffect ==
  ASSUME NEW n \in Nat, NEW k \in Kernels(n), NEW u
  PROVE  LET a == CheckPreemption(k, u)
         IN  /\ a \in Kernels(n) /\ a.threads = k.threads
             /\ a.current = k.current /\ a.owner = k.owner /\ a.waiters = k.waiters
             /\ a.signaled = k.signaled /\ a.ioWaiters = k.ioWaiters /\ a.owned = k.owned /\ a.refs = k.refs
BY DEF CheckPreemption, Kernels

(* A thread is made READY. *)
Awoken(a, k, u, n) ==
  /\ a \in Kernels(n)
  /\ a.current = k.current /\ a.owner = k.owner /\ a.waiters = k.waiters
  /\ a.signaled = k.signaled /\ a.ioWaiters = k.ioWaiters /\ a.owned = k.owned /\ a.refs = k.refs
  /\ \A t \in 1..n :
       /\ a.threads[t].routine = k.threads[t].routine /\ a.threads[t].pc = k.threads[t].pc
       /\ a.threads[t].priority = k.threads[t].priority
       /\ a.threads[t].state = IF t = u THEN "READY" ELSE k.threads[t].state

(* Awaken makes one thread READY and may ask for a reschedule. *)
LEMMA AwakenEffect ==
  ASSUME NEW n \in Nat, NEW k \in Kernels(n), NEW u \in 1..n, NEW a, a = Awaken(k, u)
  PROVE  Awoken(a, k, u, n)
<1> DEFINE r == [k.threads[u] EXCEPT !.state = "READY"]
           th == [k.threads EXCEPT ![u] = r]
           b == [k EXCEPT !.threads = th]
<1>1. k.threads \in [1..n -> ThreadRecords]
  BY DEF Kernels
<1>2. /\ r \in ThreadRecords /\ r.routine = k.threads[u].routine /\ r.pc = k.threads[u].pc
      /\ r.priority = k.threads[u].priority /\ r.state = "READY"
  BY <1>1 DEF ThreadRecords, ThreadStates
<1>3. a = CheckPreemption(b, u)
  BY DEF Awaken
<1> HIDE DEF r
<1>4. th \in [1..n -> ThreadRecords] /\ \A t \in 1..n : th[t] = IF t = u THEN r ELSE k.threads[t]
  BY <1>1, <1>2
<1> HIDE DEF th
<1>5. /\ b \in Kernels(n) /\ b.threads = th
      /\ b.current = k.current /\ b.owner = k.owner /\ b.waiters = k.waiters
      /\ b.signaled = k.signaled /\ b.ioWaiters = k.ioWaiters /\ b.owned = k.owned /\ b.refs = k.refs
  BY <1>4 DEF Kernels
<1> HIDE DEF b
<1>6. /\ a \in Kernels(n) /\ a.threads = th
      /\ a.current = k.current /\ a.owner = k.owner /\ a.waiters = k.waiters
      /\ a.signaled = k.signaled /\ a.ioWaiters = k.ioWaiters /\ a.owned = k.owned /\ a.refs = k.refs
  BY <1>3, <1>5, CheckedEffect
<1> QED
  BY <1>2, <1>4, <1>6 DEF Awoken

(* The queue has a first waiter of highest priority. *)
LEMMA BestWaiter ==
  ASSUME NEW n \in Nat, NEW k \in Kernels(n), NEW q \in Seq(1..n), q # <<>>
  PROVE  /\ Best(k, q) \in DOMAIN q
         /\ \A t \in ToSet(q) : k.threads[t].priority <= k.threads[q[Best(k, q)]].priority
<1> DEFINE f == [i \in DOMAIN q |-> Priority(k, q[i])]
<1>1. DOMAIN q = 1..Len(q) /\ Len(q) \in Nat /\ DOMAIN q # {}
  BY EmptySequence
<1>2. \A i \in DOMAIN q : f[i] \in Nat /\ f[i] = Priority(k, q[i])
  BY DEF Priority, Kernels, ThreadRecords
<1> HIDE DEF f
<1>3. \E i \in DOMAIN q : \A j \in DOMAIN q : f[j] <= f[i] /\ (j < i => f[j] < f[i])
  BY <1>1, <1>2, FirstHighest
<1>4. \E i \in DOMAIN q : \A j \in DOMAIN q :
        Priority(k, q[j]) <= Priority(k, q[i]) /\ (j < i => Priority(k, q[j]) < Priority(k, q[i]))
  BY <1>2, <1>3
<1>5. Best(k, q) \in DOMAIN q /\ \A j \in DOMAIN q : Priority(k, q[j]) <= Priority(k, q[Best(k, q)])
  BY <1>4 DEF Best
<1> QED
  BY <1>5 DEF ToSet, Priority

(* The elements of a queue are threads. *)
LEMMA QueueFacts ==
  ASSUME NEW S, NEW q \in Seq(S)
  PROVE  ToSet(q) \subseteq S /\ Len(q) \in Nat
BY DEF ToSet

(* What leaves priorities, owner and waiters alone leaves the mutex alone. *)
LEMMA SameFits ==
  ASSUME NEW n \in Nat, NEW k \in Kernels(n), MutexFits(k), NEW a,
         a.owner = k.owner, a.waiters = k.waiters,
         \A t \in 1..n : a.threads[t].priority = k.threads[t].priority
  PROVE  MutexFits(a)
<1>1. k.waiters \in Seq(1..n) /\ k.owner \in 0..n
  BY DEF Kernels
<1>2. ASSUME NEW t \in ToSet(k.waiters) PROVE a.threads[t].priority <= a.threads[k.owner].priority
  <2>1. k.owner # 0
    BY <1>1, <1>2, EmptySequence DEF MutexFits
  <2>2. t \in 1..n /\ k.owner \in 1..n
    BY <1>1, <1>2, <2>1, QueueFacts
  <2>3. k.threads[t].priority <= k.threads[k.owner].priority
    BY <1>2 DEF MutexFits
  <2> QED
    BY <2>2, <2>3
<1> QED
  BY <1>2 DEF MutexFits


----------------------------------------------------------------------------
(* The services *)

(* The current thread, which is in no queue, enters one. *)
LEMMA QueuedKeeps ==
  ASSUME NEW n \in Nat, NEW k, Sound(k, n), Calling(k, n),
         NEW a, a \in Kernels(n),
         \/ a.waiters = Append(k.waiters, k.current) /\ a.ioWaiters = k.ioWaiters
         \/ a.waiters = k.waiters /\ a.ioWaiters = Append(k.ioWaiters, k.current),
         \A t \in 1..n : a.threads[t].state = IF t = k.current THEN "BLOCKED" ELSE k.threads[t].state
  PROVE  QueuesFit(a, n)
<1> DEFINE c == k.current
<1>1. /\ k.waiters \in Seq(1..n) /\ k.ioWaiters \in Seq(1..n) /\ c \in 1..n
      /\ QueuesFit(k, n) /\ c \notin ToSet(k.waiters) \cup ToSet(k.ioWaiters)
  BY DEF Sound, Calling, Kernels, QueuesFit
<1> HIDE DEF c
<1>2. /\ ToSet(Append(k.waiters, c)) = ToSet(k.waiters) \cup {c} /\ IsInjective(Append(k.waiters, c))
      /\ ToSet(Append(k.ioWaiters, c)) = ToSet(k.ioWaiters) \cup {c} /\ IsInjective(Append(k.ioWaiters, c))
  BY <1>1, AppendKeeps DEF QueuesFit
<1>3. /\ IsInjective(a.waiters) /\ IsInjective(a.ioWaiters)
      /\ ToSet(a.waiters) \cap ToSet(a.ioWaiters) = {}
      /\ ToSet(a.waiters) \cup ToSet(a.ioWaiters) = ToSet(k.waiters) \cup ToSet(k.ioWaiters) \cup {c}
  <2>1. CASE a.waiters = Append(k.waiters, c) /\ a.ioWaiters = k.ioWaiters
    BY <1>1, <1>2, <2>1 DEF QueuesFit
  <2>2. CASE a.waiters = k.waiters /\ a.ioWaiters = Append(k.ioWaiters, c)
    BY <1>1, <1>2, <2>2 DEF QueuesFit
  <2> QED
    BY <2>1, <2>2 DEF c
<1>4. \A t \in 1..n : k.threads[t].state = "BLOCKED" <=> t \in ToSet(k.waiters) \cup ToSet(k.ioWaiters)
  BY <1>1 DEF QueuesFit
<1>5. \A t \in 1..n : a.threads[t].state = IF t = c THEN "BLOCKED" ELSE k.threads[t].state
  BY DEF c
<1>6. \A t \in 1..n : a.threads[t].state = "BLOCKED" <=> t \in ToSet(a.waiters) \cup ToSet(a.ioWaiters)
  BY <1>3, <1>4, <1>5
<1> QED
  BY <1>3, <1>6 DEF QueuesFit

(* A queued thread leaves its queue and becomes READY. *)
Unqueued(a, k, q, i, u, n) ==
  /\ i \in DOMAIN q /\ u = q[i] /\ a \in Kernels(n)
  /\ \/ q = k.waiters /\ a.waiters = RemoveAt(q, i) /\ a.ioWaiters = k.ioWaiters
     \/ q = k.ioWaiters /\ a.waiters = k.waiters /\ a.ioWaiters = RemoveAt(q, i)
  /\ \A t \in 1..n : a.threads[t].state = IF t = u THEN "READY" ELSE k.threads[t].state

(* A queue of distinct waiters, less one, is such a queue. *)
LEMMA UnqueuedKeeps ==
  ASSUME NEW n \in Nat, NEW k, Sound(k, n), NEW q, NEW i, NEW u, NEW a, Unqueued(a, k, q, i, u, n)
  PROVE  /\ QueuesFit(a, n) /\ u \in 1..n /\ u \in ToSet(q) /\ k.threads[u].state = "BLOCKED"
         /\ RemoveAt(q, i) \in Seq(1..n) /\ ToSet(RemoveAt(q, i)) = ToSet(q) \ {u}
         /\ Len(RemoveAt(q, i)) = Len(q) - 1
<1>0. /\ i \in DOMAIN q /\ u = q[i] /\ a \in Kernels(n)
      /\ \/ q = k.waiters /\ a.waiters = RemoveAt(q, i) /\ a.ioWaiters = k.ioWaiters
         \/ q = k.ioWaiters /\ a.waiters = k.waiters /\ a.ioWaiters = RemoveAt(q, i)
      /\ \A t \in 1..n : a.threads[t].state = IF t = u THEN "READY" ELSE k.threads[t].state
  BY DEF Unqueued
<1>1. /\ k.waiters \in Seq(1..n) /\ k.ioWaiters \in Seq(1..n)
      /\ QueuesFit(k, n) /\ IsInjective(q) /\ q \in Seq(1..n)
  BY <1>0 DEF Sound, Kernels, QueuesFit
<1>2. /\ RemoveAt(q, i) \in Seq(1..n) /\ ToSet(RemoveAt(q, i)) = ToSet(q) \ {u}
      /\ IsInjective(RemoveAt(q, i))
  BY <1>0, <1>1, RemoveAtKeeps
<1>3. Len(RemoveAt(q, i)) = Len(q) - 1
  <2>1. i \in 1..Len(q)
    BY <1>0, <1>1
  <2> QED
    BY <1>0, <1>1, <2>1, RemoveAtElements
<1>4. u \in 1..n /\ u \in ToSet(q) /\ k.threads[u].state = "BLOCKED"
  <2>1. u \in 1..n /\ u \in ToSet(q)
    BY <1>0, <1>1 DEF ToSet
  <2> QED
    BY <1>0, <1>1, <2>1 DEF QueuesFit
<1>5. /\ IsInjective(a.waiters) /\ IsInjective(a.ioWaiters)
      /\ ToSet(a.waiters) \cap ToSet(a.ioWaiters) = {}
      /\ ToSet(a.waiters) \cup ToSet(a.ioWaiters) = (ToSet(k.waiters) \cup ToSet(k.ioWaiters)) \ {u}
  <2>1. CASE q = k.waiters /\ a.waiters = RemoveAt(q, i) /\ a.ioWaiters = k.ioWaiters
    BY <1>0, <1>1, <1>2, <1>4, <2>1 DEF QueuesFit
  <2>2. CASE q = k.ioWaiters /\ a.waiters = k.waiters /\ a.ioWaiters = RemoveAt(q, i)
    BY <1>0, <1>1, <1>2, <1>4, <2>2 DEF QueuesFit
  <2> QED
    BY <1>0, <2>1, <2>2
<1>6. \A t \in 1..n : k.threads[t].state = "BLOCKED" <=> t \in ToSet(k.waiters) \cup ToSet(k.ioWaiters)
  BY <1>0, <1>1 DEF QueuesFit
<1>7. \A t \in 1..n : a.threads[t].state = "BLOCKED" <=> t \in ToSet(a.waiters) \cup ToSet(a.ioWaiters)
  BY <1>0, <1>5, <1>6
<1>8. QueuesFit(a, n)
  BY <1>0, <1>5, <1>7 DEF QueuesFit
<1> QED
  BY <1>0, <1>2, <1>3, <1>4, <1>8

(* AcquireMutex takes a free mutex; otherwise it boosts the owner, and blocks. *)
LEMMA AcquireKeeps ==
  ASSUME NEW n \in Nat, NEW k, Sound(k, n), Calling(k, n), k.owner # k.current,
         NEW a, a = AcquireMutex(k)
  PROVE  /\ Sound(a, n) /\ Moves(k, a, n) /\ MutexStep(k, a, n)
         /\ a.signaled = k.signaled /\ a.ioWaiters = k.ioWaiters /\ a.owned = k.owned /\ a.refs = k.refs
         /\ k.owner = 0 => a.owner = k.current /\ a.waiters = k.waiters
         /\ k.owner # 0 => a.owner = k.owner /\ a.waiters = Append(k.waiters, k.current)
<1> DEFINE c == k.current
           o == k.owner
<1>1. /\ k \in Kernels(n) /\ QueuesFit(k, n) /\ MutexFits(k) /\ c \in 1..n /\ o \in 0..n
      /\ k.threads[c].state = "RUNNING"
      /\ k.waiters \in Seq(1..n) /\ ToSet(k.waiters) \subseteq 1..n
      /\ c \notin ToSet(k.waiters)
  <2>1. k \in Kernels(n) /\ QueuesFit(k, n) /\ MutexFits(k) /\ c \in 1..n /\ k.threads[c].state = "RUNNING"
    BY DEF Sound, Calling
  <2>2. o \in 0..n /\ k.waiters \in Seq(1..n)
    BY <2>1 DEF Kernels
  <2>3. ToSet(k.waiters) \subseteq 1..n
    BY <2>2, QueueFacts
  <2> QED
    BY <2>1, <2>2, <2>3 DEF QueuesFit
<1>2. CASE o = 0
  <2>1. a = [k EXCEPT !.owner = c] /\ k.waiters = <<>>
    BY <1>1, <1>2 DEF AcquireMutex, MutexFits
  <2>2. /\ a \in Kernels(n) /\ a.threads = k.threads /\ a.current = k.current /\ a.owner = c
        /\ a.waiters = k.waiters /\ a.signaled = k.signaled /\ a.ioWaiters = k.ioWaiters
        /\ a.owned = k.owned /\ a.refs = k.refs
    BY <1>1, <2>1 DEF Kernels
  <2>3. ToSet(k.waiters) = {}
    BY <1>1, <2>1, EmptySequence
  <2>4. Sound(a, n)
    BY <1>1, <2>1, <2>2, <2>3 DEF Sound, QueuesFit, MutexFits
  <2> QED
    BY <1>1, <1>2, <2>2, <2>4 DEF Moves, MutexStep
<1>3. CASE o # 0
  <2> DEFINE mine == k.threads[c].priority
             top == IF k.threads[o].priority < mine THEN mine ELSE k.threads[o].priority
             r == [k.threads[o] EXCEPT !.priority = top]
             th == [k.threads EXCEPT ![o] = r]
             b == [k EXCEPT !.threads = th, !.waiters = Append(k.waiters, c)]
  <2>1. o \in 1..n /\ k.threads \in [1..n -> ThreadRecords] /\ Append(k.waiters, c) \in Seq(1..n)
    BY <1>1, <1>3, AppendKeeps DEF Kernels
  <2>2. a = BlockCurrentThread(b)
    BY <1>3 DEF AcquireMutex, Priority
  <2>3. /\ mine \in Nat /\ top \in Nat /\ mine <= top /\ k.threads[o].priority <= top
        /\ \A t \in 1..n : k.threads[t].priority \in Nat
    <3>1. \A t \in 1..n : k.threads[t].priority \in Nat
      BY <2>1 DEF ThreadRecords
    <3>2. mine \in Nat /\ k.threads[o].priority \in Nat
      BY <1>1, <2>1, <3>1
    <3> HIDE DEF mine
    <3>3. top \in Nat /\ mine <= top /\ k.threads[o].priority <= top
      BY <3>2
    <3> QED
      BY <3>1, <3>2, <3>3
  <2> HIDE DEF top, mine
  <2>4. /\ r \in ThreadRecords /\ r.routine = k.threads[o].routine /\ r.pc = k.threads[o].pc
        /\ r.priority = top /\ r.state = k.threads[o].state
    BY <1>1, <2>1, <2>3 DEF ThreadRecords, ThreadStates
  <2> HIDE DEF r
  <2>5. th \in [1..n -> ThreadRecords] /\ \A t \in 1..n : th[t] = IF t = o THEN r ELSE k.threads[t]
    BY <2>1, <2>4
  <2> HIDE DEF th
  <2>6. /\ b \in Kernels(n) /\ b.threads = th /\ b.current = c /\ b.owner = o
        /\ b.waiters = Append(k.waiters, c) /\ b.signaled = k.signaled /\ b.ioWaiters = k.ioWaiters
        /\ b.owned = k.owned /\ b.refs = k.refs
    BY <1>1, <2>1, <2>5 DEF Kernels
  <2> HIDE DEF b
  <2>7. /\ a \in Kernels(n) /\ a.current = c /\ a.owner = o
        /\ a.waiters = Append(k.waiters, c) /\ a.signaled = k.signaled /\ a.ioWaiters = k.ioWaiters
        /\ a.owned = k.owned /\ a.refs = k.refs
        /\ \A t \in 1..n :
              /\ a.threads[t].routine = th[t].routine /\ a.threads[t].pc = th[t].pc
              /\ a.threads[t].priority = th[t].priority
              /\ a.threads[t].state = IF t = c THEN "BLOCKED" ELSE th[t].state
    BY <1>1, <2>2, <2>6, BlockEffect
  <2>8. \A t \in 1..n :
              /\ a.threads[t].routine = k.threads[t].routine /\ a.threads[t].pc = k.threads[t].pc
              /\ a.threads[t].priority = IF t = o THEN top ELSE k.threads[t].priority
              /\ a.threads[t].state = IF t = c THEN "BLOCKED" ELSE k.threads[t].state
    BY <2>4, <2>5, <2>7
  <2>9. QueuesFit(a, n)
    BY <2>7, <2>8, QueuedKeeps
  <2>10. ToSet(a.waiters) = ToSet(k.waiters) \cup {c}
    BY <1>1, <2>7, AppendKeeps
  <2>11. MutexFits(a)
    <3>1. a.owner # 0 /\ a.owner \notin ToSet(a.waiters)
      BY <1>1, <1>3, <2>7, <2>10 DEF MutexFits
    <3>2. ASSUME NEW t \in ToSet(a.waiters) PROVE a.threads[t].priority <= a.threads[o].priority
      <4>1. a.threads[o].priority = top /\ t \in 1..n /\ t # o
        BY <1>1, <2>1, <2>7, <2>8, <2>10, <3>1, <3>2
      <4>2. a.threads[t].priority = k.threads[t].priority
        BY <2>8, <4>1
      <4>3. CASE t = c
        BY <2>3, <4>1, <4>2, <4>3 DEF mine
      <4>4. CASE t \in ToSet(k.waiters)
        BY <1>1, <2>1, <2>3, <4>1, <4>2, <4>4 DEF MutexFits
      <4> QED
        BY <2>10, <3>2, <4>3, <4>4
    <3> QED
      BY <2>7, <3>1, <3>2 DEF MutexFits
  <2>12. Sound(a, n)
    BY <2>7, <2>8, <2>9, <2>11 DEF Sound
  <2>13. Moves(k, a, n)
    BY <1>1, <2>7, <2>8 DEF Moves
  <2>14. MutexStep(k, a, n)
    BY <1>1, <1>3, <2>7, <2>10 DEF MutexStep
  <2> QED
    BY <1>3, <2>7, <2>12, <2>13, <2>14
<1> QED
  BY <1>2, <1>3

(* Its priority restored, a thread is as before. *)
LEMMA RestoredEffect ==
  ASSUME NEW n \in Nat, NEW k \in Kernels(n), NEW c \in 1..n,
         NEW b, b = [k EXCEPT !.threads[c].priority = k.threads[c].base]
  PROVE  /\ b \in Kernels(n)
         /\ b.current = k.current /\ b.owner = k.owner /\ b.waiters = k.waiters
         /\ b.signaled = k.signaled /\ b.ioWaiters = k.ioWaiters /\ b.owned = k.owned /\ b.refs = k.refs
         /\ \A t \in 1..n :
              /\ b.threads[t].routine = k.threads[t].routine /\ b.threads[t].pc = k.threads[t].pc
              /\ b.threads[t].state = k.threads[t].state
              /\ t # c => b.threads[t].priority = k.threads[t].priority
<1> DEFINE r == [k.threads[c] EXCEPT !.priority = k.threads[c].base]
           th == [k.threads EXCEPT ![c] = r]
<1>1. k.threads \in [1..n -> ThreadRecords]
  BY DEF Kernels
<1>2. b = [k EXCEPT !.threads = th]
  OBVIOUS
<1>3. /\ r \in ThreadRecords /\ r.routine = k.threads[c].routine /\ r.pc = k.threads[c].pc
      /\ r.state = k.threads[c].state
  BY <1>1 DEF ThreadRecords, ThreadStates
<1> HIDE DEF r
<1>4. th \in [1..n -> ThreadRecords] /\ \A t \in 1..n : th[t] = IF t = c THEN r ELSE k.threads[t]
  BY <1>1, <1>3
<1> HIDE DEF th
<1> QED
  BY <1>2, <1>3, <1>4 DEF Kernels

(* The mutex changes hands, or is freed. *)
Passed(b, u, w) == [b EXCEPT !.owner = u, !.waiters = w]
Woken(b, w) == [b EXCEPT !.signaled = FALSE, !.ioWaiters = w]

(* The fields of the record once ReleaseMutex has chosen the next owner. *)
LEMMA PassedRecord ==
  ASSUME NEW n \in Nat, NEW b \in Kernels(n), NEW u \in 1..n, NEW w \in Seq(1..n),
         NEW d, d = Passed(b, u, w)
  PROVE  /\ d \in Kernels(n) /\ d.threads = b.threads /\ d.current = b.current
         /\ d.owner = u /\ d.waiters = w
         /\ d.signaled = b.signaled /\ d.ioWaiters = b.ioWaiters /\ d.owned = b.owned /\ d.refs = b.refs
<1>1. u \in 0..n
  OBVIOUS
<1> QED
  BY <1>1 DEF Kernels, Passed

(* The fields of the record once SignalEvent has chosen the thread to wake. *)
LEMMA WokenRecord ==
  ASSUME NEW n \in Nat, NEW b \in Kernels(n), NEW w \in Seq(1..n), NEW d, d = Woken(b, w)
  PROVE  /\ d \in Kernels(n) /\ d.threads = b.threads /\ d.current = b.current
         /\ d.owner = b.owner /\ d.waiters = b.waiters
         /\ ~d.signaled /\ d.ioWaiters = w /\ d.owned = b.owned /\ d.refs = b.refs
BY DEF Kernels, Woken

(* The fields of the record when ReleaseMutex finds no waiter. *)
LEMMA FreedRecord ==
  ASSUME NEW n \in Nat, NEW b \in Kernels(n), NEW d, d = [b EXCEPT !.owner = 0]
  PROVE  /\ d \in Kernels(n) /\ d.threads = b.threads /\ d.current = b.current
         /\ d.owner = 0 /\ d.waiters = b.waiters
         /\ d.signaled = b.signaled /\ d.ioWaiters = b.ioWaiters /\ d.owned = b.owned /\ d.refs = b.refs
<1>1. 0 \in 0..n
  OBVIOUS
<1> QED
  BY <1>1 DEF Kernels

(* ReleaseMutex with nobody waiting: b is k with the priority restored. *)
LEMMA FreedKeeps ==
  ASSUME NEW n \in Nat, NEW k, Sound(k, n), Calling(k, n), k.owner = k.current, k.waiters = <<>>,
         NEW a \in Kernels(n), a.current = k.current, a.owner = 0, a.waiters = <<>>,
         a.signaled = k.signaled, a.ioWaiters = k.ioWaiters,
         \A t \in 1..n :
           /\ a.threads[t].routine = k.threads[t].routine /\ a.threads[t].pc = k.threads[t].pc
           /\ a.threads[t].state = k.threads[t].state
  PROVE  Sound(a, n) /\ Moves(k, a, n) /\ MutexStep(k, a, n) /\ Calling(a, n)
<1>1. /\ k \in Kernels(n) /\ QueuesFit(k, n) /\ k.current \in 1..n /\ k.current # 0
      /\ k.waiters \in Seq(1..n)
  <2>1. k \in Kernels(n) /\ QueuesFit(k, n)
    BY DEF Sound
  <2>2. k.current \in 1..n /\ k.current # 0
    BY DEF Calling
  <2>3. k.waiters \in Seq(1..n)
    BY <2>1 DEF Kernels
  <2> QED
    BY <2>1, <2>2, <2>3
<1>2. ToSet(k.waiters) = {} /\ ToSet(a.waiters) = {}
  BY <1>1, EmptySequence
<1>3. QueuesFit(a, n)
  BY <1>1 DEF QueuesFit
<1>4. MutexFits(a)
  BY <1>2 DEF MutexFits
<1>5. Sound(a, n)
  BY <1>3, <1>4 DEF Sound
<1>6. Moves(k, a, n) /\ Calling(a, n)
  BY DEF Moves, Calling
<1>7. MutexStep(k, a, n)
  BY <1>1, <1>2 DEF MutexStep
<1> QED
  BY <1>5, <1>6, <1>7

(* ReleaseMutex passing the mutex to the waiter u at place i. *)
Handed(a, k, i, u, n) ==
  /\ i \in DOMAIN k.waiters /\ u = k.waiters[i]
  /\ \A t \in ToSet(k.waiters) : k.threads[t].priority <= k.threads[u].priority
  /\ a \in Kernels(n) /\ a.current = k.current /\ a.owner = u
  /\ a.waiters = RemoveAt(k.waiters, i) /\ a.signaled = k.signaled /\ a.ioWaiters = k.ioWaiters
  /\ \A t \in 1..n :
       /\ a.threads[t].routine = k.threads[t].routine /\ a.threads[t].pc = k.threads[t].pc
       /\ t # k.current => a.threads[t].priority = k.threads[t].priority
       /\ a.threads[t].state = IF t = u THEN "READY" ELSE k.threads[t].state

(* The hand-off to the best waiter keeps the kernel sound. *)
LEMMA HandedKeeps ==
  ASSUME NEW n \in Nat, NEW k, Sound(k, n), Calling(k, n), k.owner = k.current,
         NEW i, NEW u, NEW a, Handed(a, k, i, u, n)
  PROVE  /\ Sound(a, n) /\ Moves(k, a, n) /\ MutexStep(k, a, n) /\ Calling(a, n)
         /\ a.owner \in ToSet(k.waiters) /\ a.owner \in 1..n /\ a.owner # k.current
         /\ ToSet(a.waiters) = ToSet(k.waiters) \ {a.owner} /\ Len(a.waiters) = Len(k.waiters) - 1
<1>0. /\ i \in DOMAIN k.waiters /\ u = k.waiters[i]
      /\ \A t \in ToSet(k.waiters) : k.threads[t].priority <= k.threads[u].priority
      /\ a \in Kernels(n) /\ a.current = k.current /\ a.owner = u
      /\ a.waiters = RemoveAt(k.waiters, i) /\ a.signaled = k.signaled /\ a.ioWaiters = k.ioWaiters
      /\ \A t \in 1..n :
           /\ a.threads[t].routine = k.threads[t].routine /\ a.threads[t].pc = k.threads[t].pc
           /\ t # k.current => a.threads[t].priority = k.threads[t].priority
           /\ a.threads[t].state = IF t = u THEN "READY" ELSE k.threads[t].state
  BY DEF Handed
<1>1. /\ k \in Kernels(n) /\ MutexFits(k) /\ k.current \in 1..n /\ k.owner # 0
      /\ k.threads[k.current].state = "RUNNING" /\ k.waiters \in Seq(1..n)
      /\ k.current \notin ToSet(k.waiters)
  BY DEF Sound, Calling, Kernels, MutexFits
<1>2. /\ QueuesFit(a, n) /\ u \in 1..n /\ u \in ToSet(k.waiters) /\ k.threads[u].state = "BLOCKED"
      /\ ToSet(a.waiters) = ToSet(k.waiters) \ {u} /\ Len(a.waiters) = Len(k.waiters) - 1
  <2>1. \A t \in 1..n : a.threads[t].state = IF t = u THEN "READY" ELSE k.threads[t].state
    BY <1>0
  <2>2. Unqueued(a, k, k.waiters, i, u, n)
    BY <1>0, <2>1 DEF Unqueued
  <2> QED
    BY <1>0, <2>2, UnqueuedKeeps
<1>3. u # k.current /\ u # 0
  BY <1>0, <1>1, <1>2
<1>4. MutexFits(a)
  <2>1. a.owner # 0 /\ a.owner \notin ToSet(a.waiters)
    BY <1>0, <1>2, <1>3
  <2>2. ASSUME NEW t \in ToSet(a.waiters) PROVE a.threads[t].priority <= a.threads[u].priority
    <3>1. t \in ToSet(k.waiters) /\ t \in 1..n /\ t # k.current
      BY <1>0, <1>1, <1>2, <2>2, QueueFacts
    <3>2. k.threads[t].priority <= k.threads[u].priority
      BY <1>0, <3>1
    <3> QED
      BY <1>0, <1>2, <1>3, <3>1, <3>2
  <2> QED
    BY <1>0, <2>1, <2>2 DEF MutexFits
<1>5. \A t \in 1..n : a.threads[t].state = "RUNNING" => t = a.current
  BY <1>0 DEF Sound
<1>6. a.signaled => a.ioWaiters = <<>>
  BY <1>0 DEF Sound
<1>7. Sound(a, n)
  BY <1>0, <1>2, <1>4, <1>5, <1>6 DEF Sound
<1>8. Moves(k, a, n)
  BY <1>0, <1>1, <1>2, <1>3 DEF Moves
<1>9. Calling(a, n)
  BY <1>0, <1>1, <1>3 DEF Calling
<1>10. MutexStep(k, a, n)
  BY <1>0, <1>1, <1>2 DEF MutexStep
<1> QED
  BY <1>0, <1>2, <1>3, <1>7, <1>8, <1>9, <1>10

(* ReleaseMutex passes the mutex to the first waiter of highest priority. *)
LEMMA ReleaseKeeps ==
  ASSUME NEW n \in Nat, NEW k, Sound(k, n), Calling(k, n), k.owner = k.current
  PROVE  \A a : a = ReleaseMutex(k) =>
           /\ Sound(a, n) /\ Moves(k, a, n) /\ MutexStep(k, a, n) /\ Calling(a, n)
           /\ a.signaled = k.signaled /\ a.ioWaiters = k.ioWaiters /\ a.owned = k.owned /\ a.refs = k.refs
           /\ k.waiters = <<>> => a.owner = 0 /\ a.waiters = <<>>
           /\ k.waiters # <<>> =>
                /\ a.owner \in ToSet(k.waiters) /\ a.owner \in 1..n /\ a.owner # k.current
                /\ ToSet(a.waiters) = ToSet(k.waiters) \ {a.owner} /\ Len(a.waiters) = Len(k.waiters) - 1
<1>0. SUFFICES ASSUME NEW a, a = ReleaseMutex(k)
      PROVE
         /\ Sound(a, n) /\ Moves(k, a, n) /\ MutexStep(k, a, n) /\ Calling(a, n)
         /\ a.signaled = k.signaled /\ a.ioWaiters = k.ioWaiters /\ a.owned = k.owned /\ a.refs = k.refs
         /\ k.waiters = <<>> => a.owner = 0 /\ a.waiters = <<>>
         /\ k.waiters # <<>> =>
              /\ a.owner \in ToSet(k.waiters) /\ a.owner \in 1..n /\ a.owner # k.current
              /\ ToSet(a.waiters) = ToSet(k.waiters) \ {a.owner} /\ Len(a.waiters) = Len(k.waiters) - 1
  OBVIOUS
<1>1. k \in Kernels(n) /\ k.current \in 1..n /\ k.waiters \in Seq(1..n) /\ QueuesFit(k, n)
  BY DEF Sound, Calling, Kernels
<1>2. PICK b : b = [k EXCEPT !.threads[k.current].priority = k.threads[k.current].base]
  OBVIOUS
<1>3. PICK i : i = Best(k, k.waiters)
  OBVIOUS
<1>4. a = IF k.waiters = <<>> THEN [b EXCEPT !.owner = 0]
          ELSE Awaken([b EXCEPT !.owner = k.waiters[i], !.waiters = RemoveAt(k.waiters, i)],
                      k.waiters[i])
  BY <1>0, <1>2, <1>3 DEF ReleaseMutex
<1>5. /\ b \in Kernels(n)
      /\ b.current = k.current /\ b.owner = k.owner /\ b.waiters = k.waiters
      /\ b.signaled = k.signaled /\ b.ioWaiters = k.ioWaiters /\ b.owned = k.owned /\ b.refs = k.refs
      /\ \A t \in 1..n :
           /\ b.threads[t].routine = k.threads[t].routine /\ b.threads[t].pc = k.threads[t].pc
           /\ b.threads[t].state = k.threads[t].state
           /\ t # k.current => b.threads[t].priority = k.threads[t].priority
  BY <1>1, <1>2, RestoredEffect
<1>6. CASE k.waiters = <<>>
  <2>1. /\ a \in Kernels(n) /\ a.threads = b.threads /\ a.current = k.current
        /\ a.owner = 0 /\ a.waiters = <<>>
        /\ a.signaled = k.signaled /\ a.ioWaiters = k.ioWaiters /\ a.owned = k.owned /\ a.refs = k.refs
    BY <1>4, <1>5, <1>6, FreedRecord
  <2>2. Sound(a, n) /\ Moves(k, a, n) /\ MutexStep(k, a, n) /\ Calling(a, n)
    BY <1>5, <1>6, <2>1, FreedKeeps
  <2> QED
    BY <1>6, <2>1, <2>2
<1>7. CASE k.waiters # <<>>
  <2>1. /\ i \in DOMAIN k.waiters
        /\ \A t \in ToSet(k.waiters) : k.threads[t].priority <= k.threads[k.waiters[i]].priority
    BY <1>1, <1>3, <1>7, BestWaiter
  <2>2. PICK u : u = k.waiters[i]
    OBVIOUS
  <2>3. u \in 1..n
    BY <1>1, <2>1, <2>2
  <2>4. RemoveAt(k.waiters, i) \in Seq(1..n)
    <3>1. IsInjective(k.waiters)
      BY <1>1 DEF QueuesFit
    <3> QED
      BY <1>1, <2>1, <3>1, RemoveAtKeeps
  <2> DEFINE w == RemoveAt(k.waiters, i)
             d == Passed(b, u, w)
  <2>6. a = Awaken(d, u)
    BY <1>4, <1>7, <2>2 DEF Passed
  <2>7. /\ d \in Kernels(n) /\ d.threads = b.threads /\ d.current = b.current
        /\ d.owner = u /\ d.waiters = RemoveAt(k.waiters, i)
        /\ d.signaled = b.signaled /\ d.ioWaiters = b.ioWaiters /\ d.owned = b.owned /\ d.refs = b.refs
    <3>1. b \in Kernels(n)
      BY <1>5
    <3>2. d = Passed(b, u, w) /\ w = RemoveAt(k.waiters, i)
      OBVIOUS
    <3> HIDE DEF d, w
    <3>3. w \in Seq(1..n)
      BY <2>4, <3>2
    <3>4. /\ d \in Kernels(n) /\ d.threads = b.threads /\ d.current = b.current
          /\ d.owner = u /\ d.waiters = w
          /\ d.signaled = b.signaled /\ d.ioWaiters = b.ioWaiters /\ d.owned = b.owned /\ d.refs = b.refs
      BY <2>3, <3>1, <3>2, <3>3, PassedRecord
    <3> QED
      BY <3>2, <3>4
  <2> HIDE DEF d
  <2>8. /\ a \in Kernels(n) /\ a.current = d.current /\ a.owner = d.owner /\ a.waiters = d.waiters
        /\ a.signaled = d.signaled /\ a.ioWaiters = d.ioWaiters /\ a.owned = d.owned /\ a.refs = d.refs
        /\ \A t \in 1..n :
             /\ a.threads[t].routine = d.threads[t].routine /\ a.threads[t].pc = d.threads[t].pc
             /\ a.threads[t].priority = d.threads[t].priority
             /\ a.threads[t].state = IF t = u THEN "READY" ELSE d.threads[t].state
    <3>1. d \in Kernels(n)
      BY <2>7
    <3>2. Awoken(a, d, u, n)
      BY <2>3, <2>6, <3>1, AwakenEffect
    <3> QED
      BY <3>2 DEF Awoken
  <2>9. \A t \in 1..n :
           /\ a.threads[t].routine = k.threads[t].routine /\ a.threads[t].pc = k.threads[t].pc
           /\ t # k.current => a.threads[t].priority = k.threads[t].priority
           /\ a.threads[t].state = IF t = u THEN "READY" ELSE k.threads[t].state
    BY <1>5, <2>7, <2>8
  <2>10. \A t \in ToSet(k.waiters) : k.threads[t].priority <= k.threads[u].priority
    BY <2>1, <2>2
  <2>11. /\ Sound(a, n) /\ Moves(k, a, n) /\ MutexStep(k, a, n) /\ Calling(a, n)
         /\ a.owner \in ToSet(k.waiters) /\ a.owner \in 1..n /\ a.owner # k.current
         /\ ToSet(a.waiters) = ToSet(k.waiters) \ {a.owner} /\ Len(a.waiters) = Len(k.waiters) - 1
    <3>1. /\ a \in Kernels(n) /\ a.current = k.current /\ a.owner = u
          /\ a.waiters = RemoveAt(k.waiters, i) /\ a.signaled = k.signaled /\ a.ioWaiters = k.ioWaiters
      BY <1>5, <2>7, <2>8
    <3>2. Handed(a, k, i, u, n)
      BY <2>1, <2>2, <2>9, <2>10, <3>1 DEF Handed
    <3> QED
      BY <3>2, HandedKeeps
  <2> QED
    BY <1>5, <1>7, <2>7, <2>8, <2>11
<1> QED
  BY <1>6, <1>7

(* A completion is remembered or wakes the first waiter of highest priority. *)
LEMMA SignalKeeps ==
  ASSUME NEW n \in Nat, NEW k, Sound(k, n), Calling(k, n)
  PROVE  \A a : a = SignalEvent(k) =>
           /\ Sound(a, n) /\ Moves(k, a, n) /\ Calling(a, n)
           /\ a.owner = k.owner /\ a.waiters = k.waiters /\ a.owned = k.owned /\ a.refs = k.refs
<1>0. SUFFICES ASSUME NEW a, a = SignalEvent(k)
      PROVE
         /\ Sound(a, n) /\ Moves(k, a, n) /\ Calling(a, n)
         /\ a.owner = k.owner /\ a.waiters = k.waiters /\ a.owned = k.owned /\ a.refs = k.refs
  OBVIOUS
<1>1. /\ k \in Kernels(n) /\ QueuesFit(k, n) /\ MutexFits(k) /\ k.ioWaiters \in Seq(1..n)
      /\ k.waiters \in Seq(1..n) /\ k.owner \in 0..n
  BY DEF Sound, Kernels
<1>2. PICK i : i = Best(k, k.ioWaiters)
  OBVIOUS
<1>3. a = IF k.ioWaiters = <<>> THEN [k EXCEPT !.signaled = TRUE]
          ELSE Awaken([k EXCEPT !.signaled = FALSE, !.ioWaiters = RemoveAt(k.ioWaiters, i)],
                      k.ioWaiters[i])
  BY <1>0, <1>2 DEF SignalEvent
<1>4. CASE k.ioWaiters = <<>>
  <2>1. /\ a \in Kernels(n) /\ a.threads = k.threads /\ a.current = k.current /\ a.owner = k.owner
        /\ a.waiters = k.waiters /\ a.ioWaiters = k.ioWaiters /\ a.owned = k.owned /\ a.refs = k.refs
    BY <1>1, <1>3, <1>4 DEF Kernels
  <2>2. QueuesFit(a, n) /\ MutexFits(a)
    BY <1>1, <2>1 DEF QueuesFit, MutexFits
  <2>3. Sound(a, n)
    BY <1>4, <2>1, <2>2 DEF Sound
  <2>4. Moves(k, a, n) /\ Calling(a, n)
    BY <2>1 DEF Moves, Calling
  <2> QED
    BY <2>1, <2>3, <2>4
<1>5. CASE k.ioWaiters # <<>>
  <2>1. i \in DOMAIN k.ioWaiters
    BY <1>1, <1>2, <1>5, BestWaiter
  <2>2. PICK u : u = k.ioWaiters[i]
    OBVIOUS
  <2>3. u \in 1..n
    BY <1>1, <2>1, <2>2
  <2>4. RemoveAt(k.ioWaiters, i) \in Seq(1..n)
    <3>1. IsInjective(k.ioWaiters)
      BY <1>1 DEF QueuesFit
    <3> QED
      BY <1>1, <2>1, <3>1, RemoveAtKeeps
  <2> DEFINE w == RemoveAt(k.ioWaiters, i)
             d == Woken(k, w)
  <2>6. a = Awaken(d, u)
    BY <1>3, <1>5, <2>2 DEF Woken
  <2>7. /\ d \in Kernels(n) /\ d.threads = k.threads /\ d.current = k.current /\ d.owner = k.owner
        /\ d.waiters = k.waiters /\ ~d.signaled /\ d.ioWaiters = RemoveAt(k.ioWaiters, i)
        /\ d.owned = k.owned /\ d.refs = k.refs
    <3>1. d = Woken(k, w) /\ w = RemoveAt(k.ioWaiters, i)
      OBVIOUS
    <3> HIDE DEF d, w
    <3>2. k \in Kernels(n) /\ w \in Seq(1..n)
      BY <1>1, <2>4, <3>1
    <3>3. /\ d \in Kernels(n) /\ d.threads = k.threads /\ d.current = k.current
          /\ d.owner = k.owner /\ d.waiters = k.waiters
          /\ ~d.signaled /\ d.ioWaiters = w /\ d.owned = k.owned /\ d.refs = k.refs
      BY <3>1, <3>2, WokenRecord
    <3> QED
      BY <3>1, <3>3
  <2> HIDE DEF d
  <2>8. /\ a \in Kernels(n) /\ a.current = d.current /\ a.owner = d.owner /\ a.waiters = d.waiters
        /\ a.signaled = d.signaled /\ a.ioWaiters = d.ioWaiters /\ a.owned = d.owned /\ a.refs = d.refs
        /\ \A t \in 1..n :
             /\ a.threads[t].routine = d.threads[t].routine /\ a.threads[t].pc = d.threads[t].pc
             /\ a.threads[t].priority = d.threads[t].priority
             /\ a.threads[t].state = IF t = u THEN "READY" ELSE d.threads[t].state
    <3>1. d \in Kernels(n)
      BY <2>7
    <3>2. Awoken(a, d, u, n)
      BY <2>3, <2>6, <3>1, AwakenEffect
    <3> QED
      BY <3>2 DEF Awoken
  <2>9. \A t \in 1..n :
           /\ a.threads[t].routine = k.threads[t].routine /\ a.threads[t].pc = k.threads[t].pc
           /\ a.threads[t].priority = k.threads[t].priority
           /\ a.threads[t].state = IF t = u THEN "READY" ELSE k.threads[t].state
    BY <2>7, <2>8
  <2>10. QueuesFit(a, n) /\ k.threads[u].state = "BLOCKED"
    <3>1. \A t \in 1..n : a.threads[t].state = IF t = u THEN "READY" ELSE k.threads[t].state
      BY <2>9
    <3>2. a.waiters = k.waiters /\ a.ioWaiters = RemoveAt(k.ioWaiters, i)
      BY <2>7, <2>8
    <3>3. a \in Kernels(n)
      BY <2>8
    <3>4. Unqueued(a, k, k.ioWaiters, i, u, n)
      BY <2>1, <2>2, <3>1, <3>2, <3>3 DEF Unqueued
    <3> QED
      BY <3>4, UnqueuedKeeps
  <2>11. MutexFits(a)
    <3>1. \A t \in ToSet(k.waiters) : t \in 1..n
      BY <1>1, QueueFacts
    <3>2. k.owner = 0 => ToSet(k.waiters) = {}
      BY <1>1, EmptySequence DEF MutexFits
    <3>3. ASSUME NEW t \in ToSet(k.waiters) PROVE a.threads[t].priority <= a.threads[k.owner].priority
      <4>1. t \in 1..n /\ k.owner \in 1..n
        BY <1>1, <3>1, <3>2, <3>3
      <4>2. k.threads[t].priority <= k.threads[k.owner].priority
        BY <1>1, <3>3 DEF MutexFits
      <4> QED
        BY <2>9, <4>1, <4>2
    <3> QED
      BY <1>1, <2>7, <2>8, <3>3 DEF MutexFits
  <2>12. \A t \in 1..n : a.threads[t].state = "RUNNING" => t = a.current
    BY <2>7, <2>8, <2>9 DEF Sound
  <2>13. Sound(a, n)
    BY <2>7, <2>8, <2>10, <2>11, <2>12 DEF Sound
  <2>14. Moves(k, a, n)
    <3>1. k.current \in 1..n /\ k.threads[k.current].state = "RUNNING"
      BY DEF Calling
    <3>2. a.current = k.current
      BY <2>7, <2>8
    <3> QED
      BY <2>9, <2>10, <3>1, <3>2 DEF Moves
  <2>15. Calling(a, n)
    BY <2>7, <2>8, <2>9, <2>10 DEF Calling
  <2> QED
    BY <2>7, <2>8, <2>13, <2>14, <2>15
<1> QED
  BY <1>4, <1>5

(* WaitEvent uses up a completion or blocks. *)
LEMMA WaitKeeps ==
  ASSUME NEW n \in Nat, NEW k, Sound(k, n), Calling(k, n)
  PROVE  \A a : a = WaitEvent(k) =>
           /\ Sound(a, n) /\ Moves(k, a, n)
           /\ a.owner = k.owner /\ a.waiters = k.waiters /\ a.owned = k.owned /\ a.refs = k.refs
<1>0. SUFFICES ASSUME NEW a, a = WaitEvent(k)
      PROVE
         /\ Sound(a, n) /\ Moves(k, a, n)
         /\ a.owner = k.owner /\ a.waiters = k.waiters /\ a.owned = k.owned /\ a.refs = k.refs
  OBVIOUS
<1>1. /\ k \in Kernels(n) /\ QueuesFit(k, n) /\ MutexFits(k) /\ k.ioWaiters \in Seq(1..n)
      /\ k.signaled \in BOOLEAN /\ k.current \in 1..n /\ k.threads[k.current].state = "RUNNING"
      /\ k.waiters \in Seq(1..n) /\ k.owner \in 0..n
  BY DEF Sound, Kernels, Calling
<1>2. CASE k.signaled
  <2>1. a = [k EXCEPT !.signaled = FALSE]
    BY <1>0, <1>2 DEF WaitEvent
  <2>2. /\ a \in Kernels(n) /\ a.threads = k.threads /\ a.current = k.current /\ a.owner = k.owner
        /\ a.waiters = k.waiters /\ ~a.signaled /\ a.ioWaiters = k.ioWaiters
        /\ a.owned = k.owned /\ a.refs = k.refs
    BY <1>1, <2>1 DEF Kernels
  <2>3. QueuesFit(a, n) /\ MutexFits(a)
    BY <1>1, <2>2 DEF QueuesFit, MutexFits
  <2>4. Sound(a, n) /\ Moves(k, a, n)
    BY <1>1, <2>2, <2>3 DEF Sound, Moves
  <2> QED
    BY <2>2, <2>4
<1>3. CASE ~k.signaled
  <2>1. PICK d : d = [k EXCEPT !.ioWaiters = Append(k.ioWaiters, k.current)]
    OBVIOUS
  <2>2. a = BlockCurrentThread(d)
    BY <1>0, <1>3, <2>1 DEF WaitEvent
  <2>3. Append(k.ioWaiters, k.current) \in Seq(1..n)
    BY <1>1, AppendKeeps
  <2>4. /\ d \in Kernels(n) /\ d.threads = k.threads /\ d.current = k.current /\ d.owner = k.owner
        /\ d.waiters = k.waiters /\ ~d.signaled /\ d.ioWaiters = Append(k.ioWaiters, k.current)
        /\ d.owned = k.owned /\ d.refs = k.refs
    BY <1>1, <1>3, <2>1, <2>3 DEF Kernels
  <2>5. /\ a \in Kernels(n) /\ a.current = k.current /\ a.owner = k.owner
        /\ a.waiters = k.waiters /\ ~a.signaled /\ a.ioWaiters = Append(k.ioWaiters, k.current)
        /\ a.owned = k.owned /\ a.refs = k.refs
        /\ \A t \in 1..n :
             /\ a.threads[t].routine = k.threads[t].routine /\ a.threads[t].pc = k.threads[t].pc
             /\ a.threads[t].priority = k.threads[t].priority
             /\ a.threads[t].state = IF t = k.current THEN "BLOCKED" ELSE k.threads[t].state
    <3>1. d \in Kernels(n) /\ d.current \in 1..n /\ a = BlockCurrentThread(d)
      BY <1>1, <2>2, <2>4
    <3>2. /\ a \in Kernels(n) /\ a.current = d.current /\ a.owner = d.owner
          /\ a.waiters = d.waiters /\ a.signaled = d.signaled /\ a.ioWaiters = d.ioWaiters
          /\ a.owned = d.owned /\ a.refs = d.refs
          /\ \A t \in 1..n :
               /\ a.threads[t].routine = d.threads[t].routine /\ a.threads[t].pc = d.threads[t].pc
               /\ a.threads[t].priority = d.threads[t].priority
               /\ a.threads[t].state = IF t = d.current THEN "BLOCKED" ELSE d.threads[t].state
      BY <3>1, BlockEffect
    <3> QED
      BY <2>4, <3>2
  <2>6. QueuesFit(a, n)
    BY <2>5, QueuedKeeps
  <2>7. MutexFits(a)
    <3>1. \A t \in ToSet(k.waiters) : t \in 1..n
      BY <1>1, QueueFacts
    <3>2. k.owner = 0 => ToSet(k.waiters) = {}
      BY <1>1, EmptySequence DEF MutexFits
    <3>3. ASSUME NEW t \in ToSet(k.waiters) PROVE a.threads[t].priority <= a.threads[k.owner].priority
      <4>1. t \in 1..n /\ k.owner \in 1..n
        BY <1>1, <3>1, <3>2, <3>3
      <4>2. k.threads[t].priority <= k.threads[k.owner].priority
        BY <1>1, <3>3 DEF MutexFits
      <4> QED
        BY <2>5, <4>1, <4>2
    <3> QED
      BY <1>1, <2>5, <3>3 DEF MutexFits
  <2>8. Sound(a, n)
    BY <2>5, <2>6, <2>7 DEF Sound
  <2>9. Moves(k, a, n)
    BY <1>1, <2>5 DEF Moves
  <2> QED
    BY <2>5, <2>8, <2>9
<1> QED
  BY <1>1, <1>2, <1>3

(* The current thread goes on to its next call. *)
Advanced(k) == [k EXCEPT !.threads[k.current].pc = k.threads[k.current].pc + 1]

(* The current thread's pc is advanced, and nothing else. *)
LEMMA PcEffect ==
  ASSUME NEW n \in Nat, NEW k, Sound(k, n), Calling(k, n), NEW a, a = Advanced(k)
  PROVE  /\ Sound(a, n) /\ Calling(a, n)
         /\ a.current = k.current /\ a.owner = k.owner /\ a.waiters = k.waiters
         /\ a.signaled = k.signaled /\ a.ioWaiters = k.ioWaiters /\ a.owned = k.owned /\ a.refs = k.refs
         /\ \A t \in 1..n :
              /\ a.threads[t].routine = k.threads[t].routine /\ a.threads[t].state = k.threads[t].state
              /\ a.threads[t].pc = IF t = k.current THEN k.threads[t].pc + 1 ELSE k.threads[t].pc
<1> DEFINE c == k.current
           r == [k.threads[c] EXCEPT !.pc = k.threads[c].pc + 1]
           th == [k.threads EXCEPT ![c] = r]
<1>1. k.threads \in [1..n -> ThreadRecords] /\ k \in Kernels(n) /\ c \in 1..n
  BY DEF Kernels, Sound, Calling
<1>2. a = [k EXCEPT !.threads = th]
  BY DEF Advanced
<1>3. /\ r \in ThreadRecords /\ r.routine = k.threads[c].routine /\ r.pc = k.threads[c].pc + 1
      /\ r.state = k.threads[c].state /\ r.priority = k.threads[c].priority
  <2>1. PICK q : q = k.threads[c]
    OBVIOUS
  <2>2. q \in ThreadRecords /\ r = [q EXCEPT !.pc = q.pc + 1]
    BY <1>1, <2>1
  <2>3. /\ r \in ThreadRecords /\ r.routine = q.routine /\ r.pc = q.pc + 1
        /\ r.state = q.state /\ r.priority = q.priority
    BY <2>2 DEF ThreadRecords
  <2> QED
    BY <2>1, <2>3
<1> HIDE DEF r
<1>4. th \in [1..n -> ThreadRecords] /\ \A t \in 1..n : th[t] = IF t = c THEN r ELSE k.threads[t]
  BY <1>1, <1>3
<1> HIDE DEF th
<1>5. /\ a \in Kernels(n) /\ a.threads = th
      /\ a.current = k.current /\ a.owner = k.owner /\ a.waiters = k.waiters
      /\ a.signaled = k.signaled /\ a.ioWaiters = k.ioWaiters /\ a.owned = k.owned /\ a.refs = k.refs
  BY <1>1, <1>2, <1>4 DEF Kernels
<1>6. \A t \in 1..n :
         /\ a.threads[t].routine = k.threads[t].routine /\ a.threads[t].state = k.threads[t].state
         /\ a.threads[t].priority = k.threads[t].priority
         /\ a.threads[t].pc = IF t = k.current THEN k.threads[t].pc + 1 ELSE k.threads[t].pc
  BY <1>3, <1>4, <1>5
<1>7. Calling(a, n)
  BY <1>5, <1>6 DEF Calling
<1>8. QueuesFit(a, n)
  BY <1>5, <1>6 DEF QueuesFit, Sound
<1>9. MutexFits(a)
  BY <1>5, <1>6, SameFits DEF Sound
<1>10. Sound(a, n)
  BY <1>5, <1>6, <1>8, <1>9 DEF Sound
<1> QED
  BY <1>5, <1>6, <1>7, <1>10

(* The current thread ends. *)
Over(a, k, n) ==
  /\ Sound(a, n) /\ a.current = k.current /\ a.owner = k.owner /\ a.waiters = k.waiters
  /\ a.signaled = k.signaled /\ a.ioWaiters = k.ioWaiters /\ a.owned = k.owned /\ a.refs = k.refs
  /\ \A t \in 1..n :
       /\ a.threads[t].routine = k.threads[t].routine /\ a.threads[t].pc = k.threads[t].pc
       /\ a.threads[t].state = IF t = k.current THEN "TERMINATED" ELSE k.threads[t].state

(* However the current thread ends, the kernel stays sound. *)
LEMMA EndKeeps ==
  ASSUME NEW n \in Nat, NEW k, Sound(k, n), Calling(k, n), NEW s, s \in BOOLEAN, NEW r,
         r = [k.threads[k.current] EXCEPT !.state = "TERMINATED"],
         NEW a, a = [k EXCEPT !.threads = [k.threads EXCEPT ![k.current] = r], !.reschedule = s]
  PROVE  Over(a, k, n)
<1> DEFINE c == k.current
           th == [k.threads EXCEPT ![c] = r]
<1>1. /\ k.threads \in [1..n -> ThreadRecords] /\ k \in Kernels(n) /\ c \in 1..n
      /\ k.threads[c].state = "RUNNING" /\ k.waiters \in Seq(1..n) /\ k.ioWaiters \in Seq(1..n)
  BY DEF Kernels, Sound, Calling
<1>2. a = [k EXCEPT !.threads = th, !.reschedule = s]
  OBVIOUS
<1>3. /\ r \in ThreadRecords /\ r.routine = k.threads[c].routine /\ r.pc = k.threads[c].pc
      /\ r.state = "TERMINATED" /\ r.priority = k.threads[c].priority
  BY <1>1 DEF ThreadRecords, ThreadStates
<1>4. th \in [1..n -> ThreadRecords] /\ \A t \in 1..n : th[t] = IF t = c THEN r ELSE k.threads[t]
  BY <1>1, <1>3
<1> HIDE DEF th
<1>5. /\ a \in Kernels(n) /\ a.threads = th
      /\ a.current = k.current /\ a.owner = k.owner /\ a.waiters = k.waiters
      /\ a.signaled = k.signaled /\ a.ioWaiters = k.ioWaiters /\ a.owned = k.owned /\ a.refs = k.refs
  BY <1>1, <1>2, <1>4 DEF Kernels
<1>6. \A t \in 1..n :
         /\ a.threads[t].routine = k.threads[t].routine /\ a.threads[t].pc = k.threads[t].pc
         /\ a.threads[t].priority = k.threads[t].priority
         /\ a.threads[t].state = IF t = c THEN "TERMINATED" ELSE k.threads[t].state
  BY <1>3, <1>4, <1>5
<1>7. QueuesFit(a, n)
  <2>1. QueuesFit(k, n) /\ a.waiters = k.waiters /\ a.ioWaiters = k.ioWaiters
    BY <1>5 DEF Sound
  <2>2. \A t \in 1..n : a.threads[t].state = "BLOCKED" <=> k.threads[t].state = "BLOCKED"
    BY <1>1, <1>6
  <2> QED
    BY <2>1, <2>2 DEF QueuesFit
<1>8. MutexFits(a)
  <2>1. MutexFits(k)
    BY DEF Sound
  <2>2. \A t \in 1..n : a.threads[t].priority = k.threads[t].priority
    BY <1>6
  <2> QED
    BY <1>1, <1>5, <2>1, <2>2, SameFits
<1>9. Sound(a, n)
  <2>1. \A t \in 1..n : a.threads[t].state = "RUNNING" => t = a.current
    BY <1>5, <1>6 DEF Sound
  <2>2. a.signaled => a.ioWaiters = <<>>
    BY <1>5 DEF Sound
  <2> QED
    BY <1>5, <1>7, <1>8, <2>1, <2>2 DEF Sound
<1> QED
  BY <1>5, <1>6, <1>9 DEF Over

(* A thread that terminates changes its own state only, and asks. *)
LEMMA TerminateKeeps ==
  ASSUME NEW n \in Nat, NEW k, Sound(k, n), Calling(k, n), NEW a, a = Terminate(k)
  PROVE  Over(a, k, n)
<1>1. TRUE \in BOOLEAN
  OBVIOUS
<1> QED
  BY <1>1, EndKeeps DEF Terminate

(* So does Thread_M of the first stage, which does not ask. *)
LEMMA ExitKeeps ==
  ASSUME NEW n \in Nat, NEW k, Sound(k, n), Calling(k, n), NEW a, a = Lvl1!Exit(k)
  PROVE  Over(a, k, n)
<1> DEFINE r == [k.threads[k.current] EXCEPT !.state = "TERMINATED"]
           th == [k.threads EXCEPT ![k.current] = r]
<1>1. k \in Kernels(n) /\ k.reschedule \in BOOLEAN /\ k.current \in 1..n /\ k.threads \in [1..n -> ThreadRecords]
  BY DEF Sound, Kernels, Calling
<1>2. a = [k EXCEPT !.threads = th]
  BY DEF Lvl1!Exit
<1>3. r \in ThreadRecords
  BY <1>1 DEF ThreadRecords, ThreadStates
<1> HIDE DEF r
<1>4. th \in [1..n -> ThreadRecords]
  BY <1>1, <1>3
<1> HIDE DEF th
<1>5. a = [k EXCEPT !.threads = th, !.reschedule = k.reschedule]
  BY <1>1, <1>2, <1>4 DEF Kernels
<1> QED
  BY <1>1, <1>5, EndKeeps DEF th, r

----------------------------------------------------------------------------
(* Routines *)

(* What a routine holds after its m-th call. *)
LEMMA HoldsNext ==
  ASSUME NEW r, NEW m \in Nat \ {0}
  PROVE  Holds(r, m + 1) <=> (r[m] = "acquire" \/ (r[m] \notin Releases /\ Holds(r, m)))
<1>1. /\ \A i : i \in 1 .. (m + 1) - 1 <=> i \in 1 .. m - 1 \/ i = m
      /\ \A i \in 1 .. m - 1 : \A j : j \in i + 1 .. (m + 1) - 1 <=> j \in i + 1 .. m - 1 \/ j = m
      /\ \A j : j \notin m + 1 .. (m + 1) - 1
  OBVIOUS
<1>2. ASSUME Holds(r, m + 1) PROVE r[m] = "acquire" \/ (r[m] \notin Releases /\ Holds(r, m))
  BY <1>1, <1>2 DEF Holds
<1>3. ASSUME r[m] = "acquire" PROVE Holds(r, m + 1)
  BY <1>1, <1>3 DEF Holds
<1>4. ASSUME r[m] \notin Releases, Holds(r, m) PROVE Holds(r, m + 1)
  BY <1>1, <1>4 DEF Holds
<1> QED
  BY <1>2, <1>3, <1>4

(* A call that does not end a routine has a successor. *)
LEMMA NextCall ==
  ASSUME NEW r, RoutineFormed(r), NEW m \in DOMAIN r
  PROVE  /\ m \in Nat \ {0} /\ r[m] \in Calls
         /\ r[m] \notin Ends => m + 1 \in DOMAIN r
         /\ r[m] = "acquire" => ~Holds(r, m)
         /\ r[m] \in Releases => Holds(r, m)
<1>1. /\ r \in Seq(Calls) /\ m \in 1..Len(r) /\ Len(r) \in Nat
      /\ r[m] \in Ends <=> m = Len(r)
      /\ r[m] = "acquire" => ~Holds(r, m)
      /\ r[m] \in Releases => Holds(r, m)
  BY DEF RoutineFormed
<1>2. r[m] \in Calls
  BY <1>1
<1> QED
  BY <1>1, <1>2

(* A routine's first call holds nothing. *)
LEMMA FirstCall ==
  ASSUME NEW r, RoutineFormed(r)
  PROVE  1 \in DOMAIN r /\ ~Holds(r, 1) /\ r # <<>>
<1>1. r \in Seq(Calls) /\ r # <<>>
  BY DEF RoutineFormed
<1>2. 1 \in DOMAIN r
  BY <1>1, EmptySequence
<1>3. ~Holds(r, 1)
  BY DEF Holds
<1> QED
  BY <1>1, <1>2, <1>3

----------------------------------------------------------------------------
(* What a call does *)

\* Thread t owns the mutex or waits for it.
Has(k, t) == t = k.owner \/ t \in ToSet(k.waiters)

\* The kernel k becomes a by the given call of its current thread.
Effect(a, k, n, call) ==
  /\ Sound(a, n) /\ MutexStep(k, a, n) /\ a.current = k.current
  /\ \A t \in 1..n :
       /\ a.threads[t].routine = k.threads[t].routine /\ a.threads[t].pc = k.threads[t].pc
       /\ t # k.current =>
            /\ a.threads[t].state = "TERMINATED" <=> k.threads[t].state = "TERMINATED"
            /\ a.threads[t].state = "BLOCKED" => k.threads[t].state = "BLOCKED"
            /\ Has(a, t) <=> Has(k, t)
  /\ a.threads[k.current].state # "READY"
  /\ a.threads[k.current].state = "TERMINATED" <=> call \in Ends
  /\ call \notin Ends => (Has(a, k.current) <=> (call = "acquire" \/ (call \notin Releases /\ Has(k, k.current))))
  /\ call \notin EventCalls => a.ioWaiters = k.ioWaiters

(* What leaves the mutex and the states' ends alone. *)
LEMMA ServiceEffect ==
  ASSUME NEW n \in Nat, NEW k, Sound(k, n), Calling(k, n), NEW a, Sound(a, n), Moves(k, a, n),
         a.owner = k.owner, a.waiters = k.waiters,
         NEW call, call \notin Ends, call \notin Releases, call # "acquire",
         call \notin EventCalls => a.ioWaiters = k.ioWaiters
  PROVE  Effect(a, k, n, call)
<1>1. MutexStep(k, a, n)
  BY DEF MutexStep
<1>2. \A t : Has(a, t) <=> Has(k, t)
  BY DEF Has
<1>3. /\ a.current = k.current /\ a.threads[k.current].state # "READY"
      /\ \A t \in 1..n :
           /\ a.threads[t].routine = k.threads[t].routine /\ a.threads[t].pc = k.threads[t].pc
           /\ a.threads[t].state = "TERMINATED" <=> k.threads[t].state = "TERMINATED"
           /\ t # k.current /\ a.threads[t].state = "BLOCKED" => k.threads[t].state = "BLOCKED"
  BY DEF Moves
<1>4. a.threads[k.current].state # "TERMINATED"
  BY <1>3 DEF Calling
<1> QED
  BY <1>1, <1>2, <1>3, <1>4 DEF Effect

(* A call that uses no service. *)
LEMMA WorkEffect ==
  ASSUME NEW n \in Nat, NEW k, Sound(k, n), Calling(k, n)
  PROVE  Effect(k, k, n, "work")
<1>1. Moves(k, k, n)
  BY DEF Moves, Calling
<1>2. "work" \notin Ends /\ "work" \notin Releases /\ "work" \notin EventCalls
  BY DEF Ends, Releases, EventCalls
<1> QED
  BY <1>1, <1>2, ServiceEffect

(* The effect of StartIoOperation. *)
LEMMA SignalEffect ==
  ASSUME NEW n \in Nat, NEW k, Sound(k, n), Calling(k, n), NEW a, a = SignalEvent(k)
  PROVE  Effect(a, k, n, "startIo")
<1>1. Sound(a, n) /\ Moves(k, a, n) /\ a.owner = k.owner /\ a.waiters = k.waiters
  BY SignalKeeps
<1>2. "startIo" \notin Ends /\ "startIo" \notin Releases /\ "startIo" \in EventCalls
  BY DEF Ends, Releases, EventCalls
<1> QED
  BY <1>1, <1>2, ServiceEffect

(* The effect of WaitEvent. *)
LEMMA WaitEffect ==
  ASSUME NEW n \in Nat, NEW k, Sound(k, n), Calling(k, n), NEW a, a = WaitEvent(k)
  PROVE  Effect(a, k, n, "wait")
<1>1. Sound(a, n) /\ Moves(k, a, n) /\ a.owner = k.owner /\ a.waiters = k.waiters
  BY WaitKeeps
<1>2. "wait" \notin Ends /\ "wait" \notin Releases /\ "wait" \in EventCalls
  BY DEF Ends, Releases, EventCalls
<1> QED
  BY <1>1, <1>2, ServiceEffect

(* The effect of the two in one call. *)
LEMMA BothEffect ==
  ASSUME NEW n \in Nat, NEW k, Sound(k, n), Calling(k, n), NEW a, a = WaitEvent(SignalEvent(k))
  PROVE  Effect(a, k, n, "startIoAndWait")
<1> DEFINE b == SignalEvent(k)
<1>1. Sound(b, n) /\ Calling(b, n) /\ Moves(k, b, n) /\ b.owner = k.owner /\ b.waiters = k.waiters
  BY SignalKeeps
<1>2. a = WaitEvent(b)
  OBVIOUS
<1> HIDE DEF b
<1>3. Sound(a, n) /\ Moves(b, a, n) /\ a.owner = k.owner /\ a.waiters = k.waiters
  BY <1>1, <1>2, WaitKeeps
<1>4. Moves(k, a, n)
  BY <1>1, <1>3 DEF Moves
<1>5. /\ "startIoAndWait" \notin Ends /\ "startIoAndWait" \notin Releases
      /\ "startIoAndWait" \in EventCalls
  BY DEF Ends, Releases, EventCalls
<1> QED
  BY <1>3, <1>4, <1>5, ServiceEffect

(* The effect of AcquireMutex. *)
LEMMA AcquireEffect ==
  ASSUME NEW n \in Nat, NEW k, Sound(k, n), Calling(k, n), ~Has(k, k.current), NEW a, a = AcquireMutex(k)
  PROVE  Effect(a, k, n, "acquire")
<1>1. /\ Sound(a, n) /\ Moves(k, a, n) /\ MutexStep(k, a, n) /\ a.ioWaiters = k.ioWaiters
      /\ k.owner = 0 => a.owner = k.current /\ a.waiters = k.waiters
      /\ k.owner # 0 => a.owner = k.owner /\ a.waiters = Append(k.waiters, k.current)
  BY AcquireKeeps DEF Has
<1>2. k.waiters \in Seq(1..n) /\ k.current \in 1..n
  BY DEF Sound, Kernels, Calling
<1>3. ToSet(Append(k.waiters, k.current)) = ToSet(k.waiters) \cup {k.current}
  BY <1>2, AppendKeeps
<1>4. Has(a, k.current) /\ \A t \in 1..n : t # k.current => (Has(a, t) <=> Has(k, t))
  <2>1. CASE k.owner = 0
    BY <1>1, <1>2, <2>1 DEF Has
  <2>2. CASE k.owner # 0
    BY <1>1, <1>2, <1>3, <2>2 DEF Has
  <2> QED
    BY <2>1, <2>2
<1>5. /\ a.current = k.current /\ a.threads[k.current].state # "READY"
      /\ \A t \in 1..n :
           /\ a.threads[t].routine = k.threads[t].routine /\ a.threads[t].pc = k.threads[t].pc
           /\ a.threads[t].state = "TERMINATED" <=> k.threads[t].state = "TERMINATED"
           /\ t # k.current /\ a.threads[t].state = "BLOCKED" => k.threads[t].state = "BLOCKED"
  BY <1>1 DEF Moves
<1>6. a.threads[k.current].state # "TERMINATED"
  BY <1>5 DEF Calling
<1>7. "acquire" \notin Ends
  BY DEF Ends
<1> QED
  BY <1>1, <1>4, <1>5, <1>6, <1>7 DEF Effect

(* Who holds the mutex and runs owns it. *)
LEMMA RunningOwns ==
  ASSUME NEW n \in Nat, NEW k, Sound(k, n), Calling(k, n), Has(k, k.current)
  PROVE  k.owner = k.current
<1>1. k.current \in 1..n /\ k.threads[k.current].state = "RUNNING" /\ QueuesFit(k, n)
  BY DEF Sound, Calling
<1>2. k.current \notin ToSet(k.waiters)
  BY <1>1 DEF QueuesFit
<1> QED
  BY <1>2 DEF Has

(* The effect of ReleaseMutex, after which the caller goes on. *)
LEMMA ReleaseEffect ==
  ASSUME NEW n \in Nat, NEW k, Sound(k, n), Calling(k, n), k.owner = k.current, NEW a, a = ReleaseMutex(k)
  PROVE  Effect(a, k, n, "release") /\ Calling(a, n)
<1>1. /\ Sound(a, n) /\ Moves(k, a, n) /\ MutexStep(k, a, n) /\ Calling(a, n)
      /\ a.ioWaiters = k.ioWaiters
      /\ k.waiters = <<>> => a.owner = 0 /\ a.waiters = <<>>
      /\ k.waiters # <<>> =>
              /\ a.owner \in ToSet(k.waiters) /\ a.owner \in 1..n /\ a.owner # k.current
              /\ ToSet(a.waiters) = ToSet(k.waiters) \ {a.owner}
  BY ReleaseKeeps
<1>2. k.waiters \in Seq(1..n) /\ k.current \in 1..n /\ k.current \notin ToSet(k.waiters)
  BY DEF Sound, Kernels, Calling, MutexFits
<1>3. ~Has(a, k.current) /\ \A t \in 1..n : t # k.current => (Has(a, t) <=> Has(k, t))
  BY <1>1, <1>2 DEF Has
<1>4. /\ a.current = k.current /\ a.threads[k.current].state # "READY"
      /\ \A t \in 1..n :
           /\ a.threads[t].routine = k.threads[t].routine /\ a.threads[t].pc = k.threads[t].pc
           /\ a.threads[t].state = "TERMINATED" <=> k.threads[t].state = "TERMINATED"
           /\ t # k.current /\ a.threads[t].state = "BLOCKED" => k.threads[t].state = "BLOCKED"
  BY <1>1 DEF Moves
<1>5. a.threads[k.current].state # "TERMINATED"
  BY <1>4 DEF Calling
<1>6. "release" \notin Ends /\ "release" \in Releases
  BY DEF Ends, Releases
<1> QED
  BY <1>1, <1>3, <1>4, <1>5, <1>6 DEF Effect

(* A call that ends the thread, at once or after it has released the mutex. *)
LEMMA EndEffect ==
  ASSUME NEW n \in Nat, NEW k, Sound(k, n), Calling(k, n), NEW a, Over(a, k, n),
         NEW call \in Ends
  PROVE  Effect(a, k, n, call)
<1>1. MutexStep(k, a, n) /\ \A t : Has(a, t) <=> Has(k, t)
  BY DEF MutexStep, Has, Over
<1>2. k.current \in 1..n
  BY DEF Calling
<1> QED
  BY <1>1, <1>2 DEF Effect, Over

(* The effect of a call that releases the mutex and ends the thread. *)
LEMMA ReleaseEndEffect ==
  ASSUME NEW n \in Nat, NEW k, Sound(k, n), Calling(k, n),
         NEW b, Effect(b, k, n, "release"), NEW a, Over(a, b, n),
         NEW call \in Ends
  PROVE  Effect(a, k, n, call)
<1>1. /\ MutexStep(k, b, n) /\ b.current = k.current /\ b.ioWaiters = k.ioWaiters
      /\ \A t \in 1..n :
           /\ b.threads[t].routine = k.threads[t].routine /\ b.threads[t].pc = k.threads[t].pc
           /\ t # k.current =>
                /\ b.threads[t].state = "TERMINATED" <=> k.threads[t].state = "TERMINATED"
                /\ b.threads[t].state = "BLOCKED" => k.threads[t].state = "BLOCKED"
                /\ Has(b, t) <=> Has(k, t)
  BY DEF Effect, EventCalls
<1>2. /\ Sound(a, n) /\ a.current = b.current /\ a.owner = b.owner /\ a.waiters = b.waiters
      /\ a.ioWaiters = b.ioWaiters
      /\ \A t \in 1..n :
           /\ a.threads[t].routine = b.threads[t].routine /\ a.threads[t].pc = b.threads[t].pc
           /\ a.threads[t].state = IF t = b.current THEN "TERMINATED" ELSE b.threads[t].state
  BY DEF Over
<1>3. MutexStep(k, a, n) /\ \A t : Has(a, t) <=> Has(b, t)
  BY <1>1, <1>2 DEF MutexStep, Has
<1>4. k.current \in 1..n
  BY DEF Calling
<1> QED
  BY <1>1, <1>2, <1>3, <1>4 DEF Effect

\* b and a differ in the bookkeeping of stage 2.
Tallied(a, b, n) ==
  /\ a \in Kernels(n) /\ a.threads = b.threads /\ a.current = b.current
  /\ a.owner = b.owner /\ a.waiters = b.waiters
  /\ a.signaled = b.signaled /\ a.ioWaiters = b.ioWaiters

(* The bookkeeping of stage 2 changes nothing else of a call's effect. *)
LEMMA TallyEffect ==
  ASSUME NEW n \in Nat, NEW k, NEW b, NEW call, Effect(b, k, n, call), NEW a, Tallied(a, b, n)
  PROVE  Effect(a, k, n, call)
<1>2. /\ a \in Kernels(n) /\ a.threads = b.threads /\ a.current = b.current
      /\ a.owner = b.owner /\ a.waiters = b.waiters
      /\ a.signaled = b.signaled /\ a.ioWaiters = b.ioWaiters
  BY DEF Tallied
<1>3. QueuesFit(a, n) /\ MutexFits(a)
  BY <1>2 DEF QueuesFit, MutexFits, Effect, Sound
<1>4. Sound(a, n)
  BY <1>2, <1>3 DEF Effect, Sound
<1>5. MutexStep(k, a, n) /\ \A t : Has(a, t) <=> Has(b, t)
  BY <1>2 DEF MutexStep, Effect, Has
<1> QED
  BY <1>2, <1>4, <1>5 DEF Effect

WithOwned(b, o) == [b EXCEPT !.owned = o]
WithRefs(b, r) == [b EXCEPT !.refs = r]

(* owned_mutex is written, and nothing else. *)
LEMMA OwnedRecord ==
  ASSUME NEW n \in Nat, NEW b \in Kernels(n), NEW o, o \subseteq 1..n
  PROVE  /\ Tallied(WithOwned(b, o), b, n)
         /\ WithOwned(b, o).owned = o /\ WithOwned(b, o).refs = b.refs
<1> DEFINE a == WithOwned(b, o)
<1>1. /\ a \in Kernels(n) /\ a.threads = b.threads /\ a.current = b.current
      /\ a.owner = b.owner /\ a.waiters = b.waiters /\ a.owned = o /\ a.refs = b.refs
      /\ a.signaled = b.signaled /\ a.ioWaiters = b.ioWaiters
  BY DEF Kernels, WithOwned
<1> QED
  BY <1>1 DEF Tallied

(* The reference count is written, and nothing else. *)
LEMMA RefsRecord ==
  ASSUME NEW n \in Nat, NEW b \in Kernels(n), NEW r \in Int
  PROVE  /\ Tallied(WithRefs(b, r), b, n)
         /\ WithRefs(b, r).owned = b.owned /\ WithRefs(b, r).refs = r
<1> DEFINE a == WithRefs(b, r)
<1>1. /\ a \in Kernels(n) /\ a.threads = b.threads /\ a.current = b.current
      /\ a.owner = b.owner /\ a.waiters = b.waiters /\ a.owned = b.owned /\ a.refs = r
      /\ a.signaled = b.signaled /\ a.ioWaiters = b.ioWaiters
  BY DEF Kernels, WithRefs
<1> QED
  BY <1>1 DEF Tallied

----------------------------------------------------------------------------
(* The services as the stages name them *)

(* The first stage's services are those of ScanServices. *)
LEMMA Shared1 ==
  ASSUME NEW k
  PROVE  /\ Lvl1!AcquireMutex(k) = AcquireMutex(k) /\ Lvl1!ReleaseMutex(k) = ReleaseMutex(k)
         /\ Lvl1!SignalEvent(k) = SignalEvent(k) /\ Lvl1!WaitEvent(k) = WaitEvent(k)
         /\ Lvl1!Terminate(k) = Terminate(k) /\ Lvl1!Charged(k) = Charged(k)
         /\ Lvl1!InitEvent(k) = InitEvent(k)
<1>1. Lvl1!AcquireMutex(k) = AcquireMutex(k)
  BY Zenon DEF Lvl1!AcquireMutex, AcquireMutex, Lvl1!BlockCurrentThread,
         BlockCurrentThread, Lvl1!Priority, Priority
<1>2. Lvl1!ReleaseMutex(k) = ReleaseMutex(k)
  BY Zenon DEF Lvl1!ReleaseMutex, ReleaseMutex, Lvl1!Best, Best, Lvl1!Priority, Priority,
         Lvl1!Awaken, Awaken, Lvl1!CheckPreemption, CheckPreemption, Lvl1!RemoveAt,
         RemoveAt
<1>3. Lvl1!SignalEvent(k) = SignalEvent(k)
  BY Zenon DEF Lvl1!SignalEvent, SignalEvent, Lvl1!Best, Best, Lvl1!Priority, Priority,
         Lvl1!Awaken, Awaken, Lvl1!CheckPreemption, CheckPreemption, Lvl1!RemoveAt,
         RemoveAt
<1>4. Lvl1!WaitEvent(k) = WaitEvent(k)
  BY Zenon DEF Lvl1!WaitEvent, WaitEvent, Lvl1!BlockCurrentThread, BlockCurrentThread
<1> QED
  BY <1>1, <1>2, <1>3, <1>4
  DEF Lvl1!Terminate, Terminate, Lvl1!Charged, Charged, Lvl1!InitEvent, InitEvent

(* And so is what it does with threads. *)
LEMMA Shared1Threads ==
  ASSUME NEW k, NEW t, NEW r
  PROVE  /\ Lvl1!SwitchTo(k, t) = SwitchTo(k, t) /\ Lvl1!CheckPreemption(k, t) = CheckPreemption(k, t)
         /\ Lvl1!NewThread(r, t) = NewThread(r, t) /\ Lvl1!Priority(k, t) = Priority(k, t)
         /\ Lvl1!AtBoot(t, r) = AtBoot(t, r) /\ Lvl1!InState(k, t) = InState(k, t)
BY DEF Lvl1!SwitchTo, SwitchTo, Lvl1!CheckPreemption, CheckPreemption, Lvl1!NewThread, NewThread,
       Lvl1!Priority, Priority, Lvl1!AtBoot, AtBoot, Lvl1!InState, InState

(* The second stage's services are those of ScanServices. *)
LEMMA Shared2 ==
  ASSUME NEW k
  PROVE  /\ Lvl2!AcquireMutex(k) = AcquireMutex(k) /\ Lvl2!ReleaseMutex(k) = ReleaseMutex(k)
         /\ Lvl2!SignalEvent(k) = SignalEvent(k) /\ Lvl2!WaitEvent(k) = WaitEvent(k)
         /\ Lvl2!Terminate(k) = Terminate(k) /\ Lvl2!Charged(k) = Charged(k)
         /\ Lvl2!InitEvent(k) = InitEvent(k)
<1>1. Lvl2!AcquireMutex(k) = AcquireMutex(k)
  BY Zenon DEF Lvl2!AcquireMutex, AcquireMutex, Lvl2!BlockCurrentThread,
         BlockCurrentThread, Lvl2!Priority, Priority
<1>2. Lvl2!ReleaseMutex(k) = ReleaseMutex(k)
  BY Zenon DEF Lvl2!ReleaseMutex, ReleaseMutex, Lvl2!Best, Best, Lvl2!Priority, Priority,
         Lvl2!Awaken, Awaken, Lvl2!CheckPreemption, CheckPreemption, Lvl2!RemoveAt,
         RemoveAt
<1>3. Lvl2!SignalEvent(k) = SignalEvent(k)
  BY Zenon DEF Lvl2!SignalEvent, SignalEvent, Lvl2!Best, Best, Lvl2!Priority, Priority,
         Lvl2!Awaken, Awaken, Lvl2!CheckPreemption, CheckPreemption, Lvl2!RemoveAt,
         RemoveAt
<1>4. Lvl2!WaitEvent(k) = WaitEvent(k)
  BY Zenon DEF Lvl2!WaitEvent, WaitEvent, Lvl2!BlockCurrentThread, BlockCurrentThread
<1> QED
  BY <1>1, <1>2, <1>3, <1>4
  DEF Lvl2!Terminate, Terminate, Lvl2!Charged, Charged, Lvl2!InitEvent, InitEvent

(* And so is what it does with threads. *)
LEMMA Shared2Threads ==
  ASSUME NEW k, NEW t, NEW r
  PROVE  /\ Lvl2!SwitchTo(k, t) = SwitchTo(k, t) /\ Lvl2!CheckPreemption(k, t) = CheckPreemption(k, t)
         /\ Lvl2!NewThread(r, t) = NewThread(r, t) /\ Lvl2!Priority(k, t) = Priority(k, t)
         /\ Lvl2!AtBoot(t, r) = AtBoot(t, r) /\ Lvl2!InState(k, t) = InState(k, t)
BY DEF Lvl2!SwitchTo, SwitchTo, Lvl2!CheckPreemption, CheckPreemption, Lvl2!NewThread, NewThread,
       Lvl2!Priority, Priority, Lvl2!AtBoot, AtBoot, Lvl2!InState, InState

(* A routine keeps its word about the mutex. *)
Permitted(k, call) ==
  /\ call \in Calls
  /\ call = "acquire" => ~Has(k, k.current)
  /\ call \in Releases => Has(k, k.current)

(* Every call of the first stage. *)
LEMMA Called1 ==
  ASSUME NEW n \in Nat, NEW k, Sound(k, n), Calling(k, n), NEW call, Permitted(k, call),
         NEW a, a = Lvl1!Called(k, call)
  PROVE  Effect(a, k, n, call)
<1>1. call \in Calls
  BY DEF Permitted
<1>2. CASE call = "work"
  BY <1>2, WorkEffect DEF Lvl1!Called
<1>3. CASE call = "acquire"
  <2>1. a = AcquireMutex(k)
    BY <1>3, Shared1 DEF Lvl1!Called
  <2> QED
    BY <1>3, <2>1, AcquireEffect DEF Permitted
<1>4. CASE call = "release"
  <2>1. a = ReleaseMutex(k)
    BY <1>4, Shared1 DEF Lvl1!Called
  <2>2. k.owner = k.current
    BY <1>4, RunningOwns DEF Permitted, Releases
  <2> QED
    BY <1>4, <2>1, <2>2, ReleaseEffect
<1>5. CASE call = "startIo"
  <2>1. a = SignalEvent(k)
    BY <1>5, Shared1 DEF Lvl1!Called
  <2> QED
    BY <1>5, <2>1, SignalEffect
<1>6. CASE call = "wait"
  <2>1. a = WaitEvent(k)
    BY <1>6, Shared1 DEF Lvl1!Called
  <2> QED
    BY <1>6, <2>1, WaitEffect
<1>7. CASE call = "startIoAndWait"
  <2>1. a = WaitEvent(SignalEvent(k))
    BY <1>7, Shared1 DEF Lvl1!Called
  <2> QED
    BY <1>7, <2>1, BothEffect
<1>8. CASE call = "exit"
  <2>1. a = Lvl1!Exit(k)
    BY <1>8 DEF Lvl1!Called
  <2>2. Over(a, k, n)
    BY <2>1, ExitKeeps
  <2>3. call \in Ends
    BY <1>8 DEF Ends
  <2> QED
    BY <2>2, <2>3, EndEffect
<1>9. CASE call = "terminate"
  <2>1. a = Terminate(k)
    BY <1>9, Shared1 DEF Lvl1!Called
  <2>2. Over(a, k, n)
    BY <2>1, TerminateKeeps
  <2>3. call \in Ends
    BY <1>9 DEF Ends
  <2> QED
    BY <2>2, <2>3, EndEffect
<1>10. CASE call = "releaseAndTerminate"
  <2> DEFINE b == ReleaseMutex(k)
  <2>1. a = Terminate(b)
    BY <1>10, Shared1 DEF Lvl1!Called
  <2>2. k.owner = k.current
    BY <1>10, RunningOwns DEF Permitted, Releases
  <2>3. Effect(b, k, n, "release") /\ Calling(b, n)
    BY <2>2, ReleaseEffect
  <2> HIDE DEF b
  <2>4. Sound(b, n)
    BY <2>3 DEF Effect
  <2>5. Over(a, b, n)
    BY <2>1, <2>3, <2>4, TerminateKeeps
  <2>6. call \in Ends
    BY <1>10 DEF Ends
  <2> QED
    BY <2>3, <2>5, <2>6, ReleaseEndEffect
<1> QED
  BY <1>1, <1>2, <1>3, <1>4, <1>5, <1>6, <1>7, <1>8, <1>9, <1>10 DEF Calls, EventCalls, Releases, Ends

(* The bookkeeping of the second stage: owned_mutex names the owner, who is *)
(* alive, and every waiter holds a reference.                                *)
Tally(k, n) ==
  /\ \A t \in 1..n : t \in k.owned <=> k.owner = t
  /\ k.owner # 0 => k.threads[k.owner].state # "TERMINATED"

Counted(a, k) == a.refs - Len(a.waiters) = k.refs - Len(k.waiters)

(* The owner after a call is alive, unless it is the thread that ends. *)
LEMMA OwnerLives ==
  ASSUME NEW n \in Nat, NEW k, Sound(k, n), Calling(k, n), Tally(k, n),
         NEW call, NEW a, Effect(a, k, n, call), a.owner = k.current => call \notin Ends
  PROVE  a.owner # 0 => a.threads[a.owner].state # "TERMINATED"
<1> SUFFICES ASSUME a.owner # 0 PROVE a.threads[a.owner].state # "TERMINATED"
  OBVIOUS
<1>1. a.owner \in 1..n
  BY DEF Effect, Sound, Kernels
<1>2. CASE a.owner = k.current
  BY <1>2 DEF Effect
<1>3. CASE a.owner # k.current
  <2>1. Has(k, a.owner)
    BY <1>1, <1>3 DEF Effect, Has
  <2>2. k.threads[a.owner].state # "TERMINATED"
    <3>1. CASE a.owner = k.owner
      BY <3>1 DEF Tally
    <3>2. CASE a.owner \in ToSet(k.waiters)
      BY <1>1, <3>2 DEF Sound, QueuesFit
    <3> QED
      BY <2>1, <3>1, <3>2 DEF Has
  <2> QED
    BY <1>1, <1>3, <2>2 DEF Effect
<1> QED
  BY <1>2, <1>3

(* AcquireMutex of stage 2 records the owner, or counts the waiter. *)
LEMMA AcquireTally ==
  ASSUME NEW n \in Nat, NEW k, Sound(k, n), Calling(k, n), Tally(k, n), ~Has(k, k.current),
         NEW a, a = Lvl2!Acquire(k)
  PROVE  Effect(a, k, n, "acquire") /\ Tally(a, n) /\ Counted(a, k)
<1> DEFINE b == AcquireMutex(k)
<1>1. Effect(b, k, n, "acquire")
  BY AcquireEffect
<1>2. /\ b.owned = k.owned /\ b.refs = k.refs
      /\ k.owner = 0 => b.owner = k.current /\ b.waiters = k.waiters
      /\ k.owner # 0 => b.owner = k.owner /\ b.waiters = Append(k.waiters, k.current)
  BY AcquireKeeps DEF Has
<1>3. /\ k.waiters \in Seq(1..n) /\ k.current \in 1..n /\ k.owner \in 0..n /\ k.refs \in Int
      /\ k.owned \in SUBSET (1..n) /\ k.owned \cup {k.current} \in SUBSET (1..n)
      /\ k.refs + 1 \in Int
  BY DEF Sound, Kernels, Calling
<1>4. a = IF k.owner = 0 THEN [b EXCEPT !.owned = b.owned \cup {k.current}]
          ELSE [b EXCEPT !.refs = b.refs + 1]
  BY Shared2 DEF Lvl2!Acquire
<1> HIDE DEF b
<1>5. b \in Kernels(n)
  BY <1>1 DEF Effect, Sound
<1>6. CASE k.owner = 0
  <2>1. a = WithOwned(b, k.owned \cup {k.current})
    BY <1>2, <1>4, <1>6 DEF WithOwned
  <2>2. Tallied(a, b, n) /\ a.owned = k.owned \cup {k.current} /\ a.refs = k.refs
    <3>1. k.owned \cup {k.current} \subseteq 1..n
      BY <1>3
    <3> QED
      BY <1>2, <1>5, <2>1, <3>1, OwnedRecord
  <2>3. a.owner = k.current /\ a.waiters = k.waiters
    BY <1>2, <1>6, <2>2 DEF Tallied
  <2>4. \A t \in 1..n : t \in a.owned <=> a.owner = t
    BY <1>3, <1>6, <2>2, <2>3 DEF Tally
  <2>5. Counted(a, k)
    BY <2>2, <2>3 DEF Counted
  <2>6. Effect(a, k, n, "acquire")
    BY <1>1, <2>2, TallyEffect
  <2>7. a.owner # 0 => a.threads[a.owner].state # "TERMINATED"
    <3>1. "acquire" \notin Ends
      BY DEF Ends
    <3> QED
      BY <2>6, <3>1, OwnerLives
  <2> QED
    BY <2>4, <2>5, <2>6, <2>7 DEF Tally
<1>7. CASE k.owner # 0
  <2>1. a = WithRefs(b, k.refs + 1)
    BY <1>2, <1>4, <1>7 DEF WithRefs
  <2>2. Tallied(a, b, n) /\ a.owned = k.owned /\ a.refs = k.refs + 1
    <3>1. k.refs + 1 \in Int
      BY <1>3
    <3> QED
      BY <1>2, <1>5, <2>1, <3>1, RefsRecord
  <2>3. a.owner = k.owner /\ a.waiters = Append(k.waiters, k.current)
    BY <1>2, <1>7, <2>2 DEF Tallied
  <2>4. \A t \in 1..n : t \in a.owned <=> a.owner = t
    BY <2>2, <2>3 DEF Tally
  <2>5. Counted(a, k)
    <3>1. Len(a.waiters) = Len(k.waiters) + 1 /\ Len(k.waiters) \in Nat
      BY <1>3, <2>3
    <3> QED
      <4>1. a.refs = k.refs + 1 /\ k.refs \in Int
        BY <1>3, <2>2
      <4>2. a.refs - Len(a.waiters) = k.refs - Len(k.waiters)
        BY <3>1, <4>1
      <4> QED
        BY <4>2 DEF Counted
  <2>6. Effect(a, k, n, "acquire")
    BY <1>1, <2>2, TallyEffect
  <2>7. a.owner # 0 => a.threads[a.owner].state # "TERMINATED"
    <3>1. "acquire" \notin Ends
      BY DEF Ends
    <3> QED
      BY <2>6, <3>1, OwnerLives
  <2> QED
    BY <2>4, <2>5, <2>6, <2>7 DEF Tally
<1> QED
  BY <1>6, <1>7

(* ReleaseMutex of stage 2 records the next owner and uncounts it. *)
LEMMA ReleaseTally ==
  ASSUME NEW n \in Nat, NEW k, Sound(k, n), Calling(k, n), Tally(k, n), k.owner = k.current,
         NEW a, a = Lvl2!Release(k)
  PROVE  /\ Effect(a, k, n, "release") /\ Tally(a, n) /\ Counted(a, k) /\ Calling(a, n)
         /\ a.owner # k.current
<1> DEFINE b == ReleaseMutex(k)
           e == WithOwned(b, k.owned \ {k.current})
           d == WithOwned(e, e.owned \cup {e.owner})
<1>1. Effect(b, k, n, "release") /\ Calling(b, n)
  BY ReleaseEffect
<1>2. /\ b.owned = k.owned /\ b.refs = k.refs
      /\ k.waiters = <<>> => b.owner = 0 /\ b.waiters = <<>>
      /\ k.waiters # <<>> =>
              /\ b.owner \in 1..n /\ b.owner # k.current
              /\ Len(b.waiters) = Len(k.waiters) - 1
  BY ReleaseKeeps
<1>3. /\ k.waiters \in Seq(1..n) /\ k.current \in 1..n /\ k.owner \in 0..n /\ k.refs \in Int
      /\ k.owned \in SUBSET (1..n) /\ k.owned \ {k.current} \in SUBSET (1..n)
      /\ k.refs - 1 \in Int
  BY DEF Sound, Kernels, Calling
<1>4. a = IF k.waiters = <<>> THEN e
          ELSE [e EXCEPT !.owned = e.owned \cup {e.owner}, !.refs = e.refs - 1]
  <2>1. Lvl2!ReleaseMutex(k) = b
    BY Shared2
  <2>4. b.owned = k.owned
    BY <1>2
  <2> HIDE DEF b
  <2>2. e = [b EXCEPT !.owned = b.owned \ {k.current}]
    BY <2>4 DEF WithOwned
  <2> HIDE DEF e
  <2>3. Lvl2!Release(k) = IF k.waiters = <<>> THEN e
          ELSE [e EXCEPT !.owned = e.owned \cup {e.owner}, !.refs = e.refs - 1]
    BY <2>1, <2>2, Zenon DEF Lvl2!Release
  <2> QED
    BY <2>3
<1> HIDE DEF b
<1>5. b \in Kernels(n)
  BY <1>1 DEF Effect, Sound
<1>6. Tallied(e, b, n) /\ e.owned = k.owned \ {k.current} /\ e.refs = k.refs
  <2>1. k.owned \ {k.current} \subseteq 1..n
    BY <1>3
  <2>2. e = WithOwned(b, k.owned \ {k.current})
    OBVIOUS
  <2> HIDE DEF e
  <2> QED
    BY <1>2, <1>5, <2>1, <2>2, OwnedRecord
<1> HIDE DEF e
<1>7. /\ e \in Kernels(n) /\ e.owner = b.owner /\ e.waiters = b.waiters /\ e.threads = b.threads
      /\ e.current = b.current
  BY <1>6 DEF Tallied
<1>8. /\ Tallied(a, b, n) /\ a.owner = b.owner /\ a.waiters = b.waiters
      /\ \A t \in 1..n : t \in a.owned <=> a.owner = t
      /\ Counted(a, k) /\ a.owner # k.current
  <2>1. CASE k.waiters = <<>>
    <3>1. \A t \in 1..n : t \in e.owned <=> e.owner = t
      BY <1>2, <1>6, <1>7, <2>1 DEF Tally
    <3>2. Counted(e, k) /\ e.owner # k.current
      BY <1>2, <1>3, <1>6, <1>7, <2>1 DEF Counted
    <3>3. a = e
      BY <1>4, <2>1
    <3> QED
      BY <1>6, <1>7, <3>1, <3>2, <3>3
  <2>2. CASE k.waiters # <<>>
    <3>1. /\ e.owner \in 1..n /\ e.owner # k.current
          /\ e.owned \cup {e.owner} \subseteq 1..n
      BY <1>2, <1>3, <1>6, <1>7, <2>2
    <3>2. Tallied(d, e, n) /\ d.owned = e.owned \cup {e.owner} /\ d.refs = k.refs
      <4>1. d = WithOwned(e, e.owned \cup {e.owner})
        OBVIOUS
      <4> HIDE DEF d
      <4> QED
        BY <1>6, <1>7, <3>1, <4>1, OwnedRecord
    <3>3. a = WithRefs(d, k.refs - 1)
      BY <1>4, <1>6, <1>7, <2>2 DEF Kernels, WithOwned, WithRefs
    <3> HIDE DEF d
    <3>4. d \in Kernels(n)
      BY <3>2 DEF Tallied
    <3>5. Tallied(a, d, n) /\ a.owned = e.owned \cup {e.owner} /\ a.refs = k.refs - 1
      <4>1. k.refs - 1 \in Int
        BY <1>3
      <4> QED
        BY <3>2, <3>3, <3>4, <4>1, RefsRecord
    <3>6. Tallied(a, b, n)
      BY <1>6, <3>2, <3>5 DEF Tallied
    <3>7. a.owner = b.owner /\ a.waiters = b.waiters
      BY <3>6 DEF Tallied
    <3>8. \A t \in 1..n : t \in a.owned <=> a.owner = t
      BY <1>6, <1>7, <3>1, <3>5, <3>7 DEF Tally
    <3>9. Counted(a, k)
      <4>1. Len(k.waiters) \in Nat /\ Len(a.waiters) = Len(k.waiters) - 1
        BY <1>2, <1>3, <2>2, <3>7
      <4>2. k.refs \in Int /\ a.refs = k.refs - 1
        BY <1>3, <3>5
      <4> QED
        BY <4>1, <4>2 DEF Counted
    <3> QED
      BY <1>7, <3>1, <3>6, <3>7, <3>8, <3>9
  <2> QED
    BY <2>1, <2>2
<1>9. Effect(a, k, n, "release")
  BY <1>1, <1>8, TallyEffect
<1>10. Calling(a, n)
  BY <1>1, <1>8 DEF Calling, Tallied
<1>11. a.owner # 0 => a.threads[a.owner].state # "TERMINATED"
  BY <1>8, <1>9, OwnerLives
<1> QED
  BY <1>8, <1>9, <1>10, <1>11 DEF Tally

(* A thread that ends without owning the mutex leaves the books in order. *)
LEMMA OverTally ==
  ASSUME NEW n \in Nat, NEW k \in Kernels(n), Tally(k, n), k.owner # k.current, NEW a, Over(a, k, n)
  PROVE  Tally(a, n) /\ Counted(a, k)
<1>1. k.owner \in 0..n
  BY DEF Kernels
<1>2. k.owner # 0 => a.threads[k.owner].state = k.threads[k.owner].state
  BY <1>1 DEF Over
<1> QED
  BY <1>2 DEF Tally, Counted, Over

(* TerminateThread of stage 2 lets go of what the thread owns first. *)
LEMMA TerminateTally ==
  ASSUME NEW n \in Nat, NEW k, Sound(k, n), Calling(k, n), Tally(k, n),
         NEW a, a = Lvl2!TerminateThread(k), NEW call \in Ends
  PROVE  Effect(a, k, n, call) /\ Tally(a, n) /\ Counted(a, k)
<1>1. k.current \in 1..n /\ k \in Kernels(n)
  BY DEF Calling, Sound
<1>2. a = Terminate(IF k.current \in k.owned THEN Lvl2!Release(k) ELSE k)
  BY Shared2 DEF Lvl2!TerminateThread
<1>3. CASE k.current \notin k.owned
  <2>1. k.owner # k.current
    BY <1>1, <1>3 DEF Tally
  <2>2. Over(a, k, n)
    BY <1>2, <1>3, TerminateKeeps
  <2> QED
    BY <1>1, <2>1, <2>2, EndEffect, OverTally
<1>4. CASE k.current \in k.owned
  <2> DEFINE b == Lvl2!Release(k)
  <2>1. k.owner = k.current
    BY <1>1, <1>4 DEF Tally
  <2>2. a = Terminate(b)
    BY <1>2, <1>4
  <2>3. /\ Effect(b, k, n, "release") /\ Tally(b, n) /\ Counted(b, k) /\ Calling(b, n)
        /\ b.owner # k.current
    BY <2>1, ReleaseTally
  <2> HIDE DEF b
  <2>4. Sound(b, n) /\ b \in Kernels(n) /\ b.current = k.current
    BY <2>3 DEF Effect, Sound
  <2>5. Over(a, b, n)
    BY <2>2, <2>3, <2>4, TerminateKeeps
  <2>6. Tally(a, n) /\ Counted(a, b)
    BY <2>3, <2>4, <2>5, OverTally
  <2>7. Counted(a, k)
    BY <2>3, <2>6 DEF Counted
  <2> QED
    BY <2>3, <2>5, <2>6, <2>7, ReleaseEndEffect
<1> QED
  BY <1>3, <1>4

(* A call that touches neither the mutex nor the books. *)
LEMMA ServiceTally ==
  ASSUME NEW n \in Nat, NEW k, Sound(k, n), Calling(k, n), Tally(k, n), NEW call, NEW a,
         Effect(a, k, n, call), call \notin Ends, a.owner = k.owner, a.waiters = k.waiters,
         a.owned = k.owned, a.refs = k.refs
  PROVE  Tally(a, n) /\ Counted(a, k)
<1>1. a.owner # 0 => a.threads[a.owner].state # "TERMINATED"
  BY OwnerLives
<1> QED
  BY <1>1 DEF Tally, Counted

(* Every call of the second stage. *)
LEMMA Called2 ==
  ASSUME NEW n \in Nat, NEW k, Sound(k, n), Calling(k, n), Tally(k, n),
         NEW call, Permitted(k, call), call # "exit",
         NEW a, a = Lvl2!Called(k, call)
  PROVE  Effect(a, k, n, call) /\ Tally(a, n) /\ Counted(a, k)
<1>1. call \in Calls
  BY DEF Permitted
<1>2. CASE call = "work"
  <2>1. a = k /\ call \notin Ends
    BY <1>2 DEF Lvl2!Called, Ends
  <2>2. Effect(a, k, n, call)
    BY <1>2, <2>1, WorkEffect
  <2> QED
    BY <2>1, <2>2, ServiceTally
<1>3. CASE call = "acquire"
  <2>1. a = Lvl2!Acquire(k)
    BY <1>3 DEF Lvl2!Called
  <2> QED
    BY <1>3, <2>1, AcquireTally DEF Permitted
<1>4. CASE call = "release"
  <2>1. a = Lvl2!Release(k)
    BY <1>4 DEF Lvl2!Called
  <2>2. k.owner = k.current
    BY <1>4, RunningOwns DEF Permitted, Releases
  <2> QED
    BY <1>4, <2>1, <2>2, ReleaseTally
<1>5. CASE call = "startIo"
  <2>1. a = SignalEvent(k) /\ call \notin Ends
    BY <1>5, Shared2 DEF Lvl2!Called, Ends
  <2>2. Effect(a, k, n, call)
    BY <1>5, <2>1, SignalEffect
  <2>3. a.owner = k.owner /\ a.waiters = k.waiters /\ a.owned = k.owned /\ a.refs = k.refs
    BY <2>1, SignalKeeps
  <2> QED
    BY <2>1, <2>2, <2>3, ServiceTally
<1>6. CASE call = "wait"
  <2>1. a = WaitEvent(k) /\ call \notin Ends
    BY <1>6, Shared2 DEF Lvl2!Called, Ends
  <2>2. Effect(a, k, n, call)
    BY <1>6, <2>1, WaitEffect
  <2>3. a.owner = k.owner /\ a.waiters = k.waiters /\ a.owned = k.owned /\ a.refs = k.refs
    BY <2>1, WaitKeeps
  <2> QED
    BY <2>1, <2>2, <2>3, ServiceTally
<1>7. CASE call = "startIoAndWait"
  <2> DEFINE b == SignalEvent(k)
  <2>1. a = WaitEvent(b) /\ call \notin Ends
    BY <1>7, Shared2 DEF Lvl2!Called, Ends
  <2>2. Effect(a, k, n, call)
    BY <1>7, <2>1, BothEffect
  <2>3. /\ Sound(b, n) /\ Calling(b, n)
        /\ b.owner = k.owner /\ b.waiters = k.waiters /\ b.owned = k.owned /\ b.refs = k.refs
    BY SignalKeeps
  <2> HIDE DEF b
  <2>4. a.owner = b.owner /\ a.waiters = b.waiters /\ a.owned = b.owned /\ a.refs = b.refs
    BY <2>1, <2>3, WaitKeeps
  <2> QED
    BY <2>1, <2>2, <2>3, <2>4, ServiceTally
<1>8. CASE call = "terminate"
  <2>1. a = Lvl2!TerminateThread(k) /\ call \in Ends
    BY <1>8 DEF Lvl2!Called, Ends
  <2> QED
    BY <2>1, TerminateTally
<1>9. CASE call = "releaseAndTerminate"
  <2> DEFINE b == Lvl2!Release(k)
  <2>1. a = Lvl2!TerminateThread(b) /\ call \in Ends
    BY <1>9 DEF Lvl2!Called, Ends
  <2>2. k.owner = k.current
    BY <1>9, RunningOwns DEF Permitted, Releases
  <2>3. /\ Effect(b, k, n, "release") /\ Tally(b, n) /\ Counted(b, k) /\ Calling(b, n)
        /\ b.owner # k.current
    BY <2>2, ReleaseTally
  <2> HIDE DEF b
  <2>4. Sound(b, n) /\ b \in Kernels(n) /\ b.current = k.current /\ b.current \in 1..n
    BY <2>3 DEF Effect, Sound, Calling
  <2>5. b.current \notin b.owned
    BY <2>3, <2>4 DEF Tally
  <2>6. a = Terminate(b)
    BY <2>1, <2>5, Shared2 DEF Lvl2!TerminateThread
  <2>7. Over(a, b, n)
    BY <2>3, <2>4, <2>6, TerminateKeeps
  <2>8. Tally(a, n) /\ Counted(a, b)
    BY <2>3, <2>4, <2>7, OverTally
  <2>9. Counted(a, k)
    BY <2>3, <2>8 DEF Counted
  <2> QED
    BY <2>1, <2>3, <2>7, <2>8, <2>9, ReleaseEndEffect
<1> QED
  BY <1>1, <1>2, <1>3, <1>4, <1>5, <1>6, <1>7, <1>8, <1>9 DEF Calls, EventCalls, Releases, Ends

----------------------------------------------------------------------------
(* Holders *)

\* A thread holds the mutex or waits for it exactly where its routine says so;
\* the idle thread never does, and never blocks or ends.
HoldersFit(k, n, idle) ==
  /\ idle \in 1..n /\ ~Has(k, idle) /\ k.threads[idle].state \in {"READY", "RUNNING"}
  /\ \A t \in 1..n \ {idle} :
       /\ k.threads[t].routine \in Routines
       /\ k.threads[t].state # "TERMINATED" =>
            /\ k.threads[t].pc \in DOMAIN k.threads[t].routine
            /\ Holds(k.threads[t].routine, k.threads[t].pc) <=> Has(k, t)

(* The current thread's next call is one it may make. *)
LEMMA CallPermitted ==
  ASSUME NEW n \in Nat, NEW k, Calling(k, n), NEW idle, HoldersFit(k, n, idle), k.current # idle,
         NEW b, b.current = k.current, b.owner = k.owner, b.waiters = k.waiters
  PROVE  Permitted(b, k.threads[k.current].routine[k.threads[k.current].pc])
<1>1. PICK r : r = k.threads[k.current].routine
  OBVIOUS
<1>2. PICK m : m = k.threads[k.current].pc
  OBVIOUS
<1>3. r \in Routines /\ m \in DOMAIN r /\ (Holds(r, m) <=> Has(k, k.current))
  BY <1>1, <1>2 DEF HoldersFit, Calling
<1>4. RoutineFormed(r)
  BY <1>3, ScanAssumption DEF ScanAssumption
<1>5. /\ r[m] \in Calls
      /\ r[m] = "acquire" => ~Holds(r, m)
      /\ r[m] \in Releases => Holds(r, m)
  BY <1>3, <1>4, NextCall
<1>6. Has(b, k.current) <=> Has(k, k.current)
  BY DEF Has
<1>7. Permitted(b, r[m])
  BY <1>3, <1>5, <1>6 DEF Permitted
<1> QED
  BY <1>1, <1>2, <1>7

(* After the call every thread is again where its routine says. *)
LEMMA HoldersAdvance ==
  ASSUME NEW n \in Nat, NEW k, Sound(k, n), Calling(k, n),
         NEW idle, HoldersFit(k, n, idle), k.current # idle,
         NEW b, b = Advanced(k),
         NEW a, Effect(a, b, n, k.threads[k.current].routine[k.threads[k.current].pc])
  PROVE  HoldersFit(a, n, idle)
<1>1. PICK r : r = k.threads[k.current].routine
  OBVIOUS
<1>2. PICK m : m = k.threads[k.current].pc
  OBVIOUS
<1>3. PICK c : c = k.current
  OBVIOUS
<1>4. /\ b.current = c /\ (\A t : Has(b, t) <=> Has(k, t))
      /\ \A t \in 1..n :
           /\ b.threads[t].routine = k.threads[t].routine /\ b.threads[t].state = k.threads[t].state
           /\ b.threads[t].pc = IF t = c THEN k.threads[t].pc + 1 ELSE k.threads[t].pc
  <2>1. /\ b.current = k.current /\ b.owner = k.owner /\ b.waiters = k.waiters
        /\ \A t \in 1..n :
             /\ b.threads[t].routine = k.threads[t].routine /\ b.threads[t].state = k.threads[t].state
             /\ b.threads[t].pc = IF t = k.current THEN k.threads[t].pc + 1 ELSE k.threads[t].pc
    BY PcEffect
  <2> QED
    BY <1>3, <2>1 DEF Has
<1>5. /\ c \in 1..n /\ c # idle /\ k.threads[c].state = "RUNNING" /\ idle \in 1..n
      /\ Sound(a, n) /\ Effect(a, b, n, r[m])
  BY <1>1, <1>2, <1>3 DEF Calling, HoldersFit, Effect
<1>6. r \in Routines /\ m \in DOMAIN r /\ (Holds(r, m) <=> Has(k, c))
  BY <1>1, <1>2, <1>3, <1>5 DEF HoldersFit
<1>7. RoutineFormed(r)
  BY <1>6, ScanAssumption DEF ScanAssumption
<1>8. m \in Nat \ {0} /\ (r[m] \notin Ends => m + 1 \in DOMAIN r)
  BY <1>6, <1>7, NextCall
<1>9. Holds(r, m + 1) <=> (r[m] = "acquire" \/ (r[m] \notin Releases /\ Holds(r, m)))
  BY <1>8, HoldsNext
<1>10. /\ a.threads[c].routine = r /\ a.threads[c].pc = m + 1
       /\ a.threads[c].state = "TERMINATED" <=> r[m] \in Ends
       /\ r[m] \notin Ends => (Has(a, c) <=> (r[m] = "acquire" \/ (r[m] \notin Releases /\ Has(k, c))))
  BY <1>1, <1>2, <1>3, <1>4, <1>5 DEF Effect
<1>11. ASSUME NEW t \in 1..n, t # c
       PROVE  /\ a.threads[t].routine = k.threads[t].routine /\ a.threads[t].pc = k.threads[t].pc
              /\ a.threads[t].state = "TERMINATED" <=> k.threads[t].state = "TERMINATED"
              /\ a.threads[t].state = "BLOCKED" => k.threads[t].state = "BLOCKED"
              /\ Has(a, t) <=> Has(k, t)
  BY <1>4, <1>5, <1>11 DEF Effect
<1>12. ~Has(a, idle) /\ a.threads[idle].state \in {"READY", "RUNNING"}
  <2>1. /\ ~Has(k, idle) /\ k.threads[idle].state # "TERMINATED" /\ k.threads[idle].state # "BLOCKED"
    BY DEF HoldersFit
  <2>2. a.threads[idle].state \in ThreadStates
    BY <1>5 DEF Sound, Kernels, ThreadRecords
  <2>3. ~Has(a, idle) /\ a.threads[idle].state # "TERMINATED" /\ a.threads[idle].state # "BLOCKED"
    BY <1>5, <1>11, <2>1
  <2> QED
    BY <2>2, <2>3 DEF ThreadStates
<1>13. ASSUME NEW t \in 1..n \ {idle}
       PROVE  /\ a.threads[t].routine \in Routines
              /\ a.threads[t].state # "TERMINATED" =>
                   /\ a.threads[t].pc \in DOMAIN a.threads[t].routine
                   /\ Holds(a.threads[t].routine, a.threads[t].pc) <=> Has(a, t)
  <2>1. CASE t = c
    BY <1>6, <1>8, <1>9, <1>10, <2>1
  <2>2. CASE t # c
    <3>1. /\ k.threads[t].routine \in Routines
          /\ k.threads[t].state # "TERMINATED" =>
               /\ k.threads[t].pc \in DOMAIN k.threads[t].routine
               /\ Holds(k.threads[t].routine, k.threads[t].pc) <=> Has(k, t)
      BY DEF HoldersFit
    <3> QED
      BY <1>11, <2>2, <3>1
  <2> QED
    BY <2>1, <2>2
<1> QED
  BY <1>5, <1>12, <1>13 DEF HoldersFit

----------------------------------------------------------------------------
(* What main and the scheduler do *)

\* The mutex, the event's queue and the threads' places are left alone.
Steady(a, k, n) ==
  /\ a \in Kernels(n)
  /\ a.owner = k.owner /\ a.waiters = k.waiters /\ a.ioWaiters = k.ioWaiters
  /\ a.owned = k.owned /\ a.refs = k.refs
  /\ a.signaled => k.signaled
  /\ \A t \in 1..n :
       /\ a.threads[t].routine = k.threads[t].routine /\ a.threads[t].pc = k.threads[t].pc
       /\ a.threads[t].priority = k.threads[t].priority
       /\ a.threads[t].state = "TERMINATED" <=> k.threads[t].state = "TERMINATED"
       /\ a.threads[t].state = "BLOCKED" <=> k.threads[t].state = "BLOCKED"
       /\ a.threads[t].state = "RUNNING" => t = a.current

(* What leaves queues and mutex alone keeps the kernel sound, *)
LEMMA SteadySound ==
  ASSUME NEW n \in Nat, NEW k, Sound(k, n), NEW a, Steady(a, k, n)
  PROVE  Sound(a, n)
<1>1. QueuesFit(a, n)
  BY DEF Sound, Steady, QueuesFit
<1>2. MutexFits(a)
  BY SameFits DEF Sound, Steady
<1> QED
  BY <1>1, <1>2 DEF Sound, Steady

(* its bookkeeping exact, *)
LEMMA SteadyTally ==
  ASSUME NEW n \in Nat, NEW k \in Kernels(n), NEW a, Steady(a, k, n), Tally(k, n)
  PROVE  Tally(a, n) /\ Counted(a, k)
<1>1. k.owner \in 0..n
  BY DEF Kernels
<1>2. k.owner # 0 => a.threads[k.owner].state # "TERMINATED"
  BY <1>1 DEF Steady, Tally
<1> QED
  BY <1>2 DEF Steady, Tally, Counted

(* and every routine's view of what it holds. *)
LEMMA SteadyHolders ==
  ASSUME NEW n \in Nat, NEW k, NEW a, Steady(a, k, n), NEW idle, HoldersFit(k, n, idle)
  PROVE  HoldersFit(a, n, idle)
<1>1. \A t : Has(a, t) <=> Has(k, t)
  BY DEF Has, Steady
<1>2. idle \in 1..n /\ k.threads[idle].state \in {"READY", "RUNNING"} /\ ~Has(k, idle)
  BY DEF HoldersFit
<1>3. a.threads[idle].state \in {"READY", "RUNNING"}
  <2>1. a.threads[idle].state \in ThreadStates
    BY <1>2 DEF Steady, Kernels, ThreadRecords
  <2>2. a.threads[idle].state # "TERMINATED" /\ a.threads[idle].state # "BLOCKED"
    BY <1>2 DEF Steady
  <2> QED
    BY <2>1, <2>2 DEF ThreadStates
<1>4. ASSUME NEW t \in 1..n \ {idle}
      PROVE  /\ a.threads[t].routine \in Routines
             /\ a.threads[t].state # "TERMINATED" =>
                  /\ a.threads[t].pc \in DOMAIN a.threads[t].routine
                  /\ Holds(a.threads[t].routine, a.threads[t].pc) <=> Has(a, t)
  <2>1. /\ k.threads[t].routine \in Routines
        /\ k.threads[t].state # "TERMINATED" =>
             /\ k.threads[t].pc \in DOMAIN k.threads[t].routine
             /\ Holds(k.threads[t].routine, k.threads[t].pc) <=> Has(k, t)
    BY DEF HoldersFit
  <2>2. /\ a.threads[t].routine = k.threads[t].routine /\ a.threads[t].pc = k.threads[t].pc
        /\ a.threads[t].state = "TERMINATED" <=> k.threads[t].state = "TERMINATED"
    BY DEF Steady
  <2> QED
    BY <1>1, <2>1, <2>2
<1> QED
  BY <1>1, <1>2, <1>3, <1>4 DEF HoldersFit

(* Nothing happens. *)
LEMMA SameSteady ==
  ASSUME NEW n \in Nat, NEW k, Sound(k, n)
  PROVE  Steady(k, k, n)
BY DEF Steady, Sound

(* The processor passes to a READY thread, or stays. *)
LEMMA SwitchSteady ==
  ASSUME NEW n \in Nat, NEW k, Sound(k, n), NEW u \in 1..n,
         u = k.current \/ k.threads[u].state = "READY",
         NEW a, a = SwitchTo(k, u)
  PROVE  /\ Steady(a, k, n) /\ a.current = u
         /\ a.threads[u].state = IF u = k.current THEN k.threads[u].state ELSE "RUNNING"
<1>1. k \in Kernels(n) /\ k.threads \in [1..n -> ThreadRecords] /\ DOMAIN k.threads = 1..n
  BY DEF Sound, Kernels
<1>2. CASE u = k.current
  <2>1. a = k
    BY <1>2 DEF SwitchTo
  <2> QED
    BY <1>2, <2>1, SameSteady
<1>3. CASE u # k.current
  <2> DEFINE runs == [k.threads[u] EXCEPT !.state = "RUNNING"]
             yields(t) == [k.threads[t] EXCEPT !.state = "READY"]
             th == [t \in 1..n |->
                      IF t = u THEN runs
                      ELSE IF t = k.current /\ k.threads[t].state = "RUNNING"
                           THEN yields(t) ELSE k.threads[t]]
  <2>1. a = [k EXCEPT !.current = u, !.threads = th]
    BY <1>1, <1>3 DEF SwitchTo
  <2>2. \A t \in 1..n : k.threads[t] \in ThreadRecords
    BY <1>1
  <2>3. /\ runs \in ThreadRecords /\ runs.routine = k.threads[u].routine /\ runs.pc = k.threads[u].pc
        /\ runs.priority = k.threads[u].priority /\ runs.state = "RUNNING"
    BY <2>2 DEF ThreadRecords, ThreadStates
  <2>4. \A t \in 1..n :
           /\ yields(t) \in ThreadRecords /\ yields(t).routine = k.threads[t].routine
           /\ yields(t).pc = k.threads[t].pc /\ yields(t).priority = k.threads[t].priority
           /\ yields(t).state = "READY"
    <3> TAKE t \in 1..n
    <3>1. k.threads[t] \in ThreadRecords
      BY <2>2
    <3> QED
      BY <3>1 DEF ThreadRecords, ThreadStates
  <2> HIDE DEF runs, yields
  <2>5. /\ th \in [1..n -> ThreadRecords]
        /\ \A t \in 1..n : th[t] = IF t = u THEN runs
                                   ELSE IF t = k.current /\ k.threads[t].state = "RUNNING"
                                        THEN yields(t) ELSE k.threads[t]
    BY <2>2, <2>3, <2>4
  <2> HIDE DEF th
  <2>6. /\ a \in Kernels(n) /\ a.threads = th /\ a.current = u
        /\ a.owner = k.owner /\ a.waiters = k.waiters /\ a.ioWaiters = k.ioWaiters
        /\ a.owned = k.owned /\ a.refs = k.refs /\ a.signaled = k.signaled
    <3>1. u \in 0..n
      OBVIOUS
    <3> QED
      BY <1>1, <2>1, <2>5, <3>1 DEF Kernels
  <2>7. ASSUME NEW t \in 1..n
        PROVE  /\ a.threads[t].routine = k.threads[t].routine /\ a.threads[t].pc = k.threads[t].pc
               /\ a.threads[t].priority = k.threads[t].priority
               /\ a.threads[t].state = "TERMINATED" <=> k.threads[t].state = "TERMINATED"
               /\ a.threads[t].state = "BLOCKED" <=> k.threads[t].state = "BLOCKED"
               /\ a.threads[t].state = "RUNNING" => t = a.current
    <3>1. k.threads[t].state = "RUNNING" => t = k.current
      BY DEF Sound
    <3>2. CASE t = u
      BY <1>3, <2>3, <2>5, <2>6, <3>2
    <3>3. CASE t # u /\ t = k.current /\ k.threads[t].state = "RUNNING"
      BY <2>4, <2>5, <2>6, <3>3
    <3>4. CASE t # u /\ ~(t = k.current /\ k.threads[t].state = "RUNNING")
      BY <2>5, <2>6, <3>1, <3>4
    <3> QED
      BY <3>2, <3>3, <3>4
  <2>8. Steady(a, k, n)
    BY <2>6, <2>7 DEF Steady
  <2> QED
    BY <1>3, <2>3, <2>5, <2>6, <2>8
<1> QED
  BY <1>2, <1>3

(* A request for a reschedule is made or answered. *)
Asking(k, s) == [k EXCEPT !.reschedule = s]

(* reschedule_requested is written, and nothing else. *)
LEMMA AskingSteady ==
  ASSUME NEW n \in Nat, NEW k, Sound(k, n), NEW s \in BOOLEAN, NEW a, a = Asking(k, s)
  PROVE  Steady(a, k, n) /\ a.current = k.current /\ a.threads = k.threads
<1>1. /\ a \in Kernels(n) /\ a.threads = k.threads /\ a.current = k.current
      /\ a.owner = k.owner /\ a.waiters = k.waiters /\ a.ioWaiters = k.ioWaiters
      /\ a.owned = k.owned /\ a.refs = k.refs /\ a.signaled = k.signaled
  BY DEF Sound, Kernels, Asking
<1> QED
  BY <1>1 DEF Steady, Sound

(* main sets the event up while nobody waits for it. *)
LEMMA InitEventSteady ==
  ASSUME NEW n \in Nat, NEW k, Sound(k, n), k.ioWaiters = <<>>, NEW a, a = InitEvent(k)
  PROVE  Steady(a, k, n) /\ a.current = k.current /\ a.threads = k.threads
<1>1. k \in Kernels(n) /\ <<>> \in Seq(1..n)
  BY DEF Sound
<1>2. /\ a \in Kernels(n) /\ a.threads = k.threads /\ a.current = k.current
      /\ a.owner = k.owner /\ a.waiters = k.waiters /\ a.ioWaiters = <<>>
      /\ a.owned = k.owned /\ a.refs = k.refs /\ ~a.signaled
  BY <1>1 DEF Kernels, InitEvent
<1> QED
  BY <1>2 DEF Steady, Sound

(* The timer charges the current thread. *)
LEMMA ChargedSteady ==
  ASSUME NEW n \in Nat, NEW k, Sound(k, n), k.current \in 1..n, NEW a, a = Charged(k)
  PROVE  /\ Steady(a, k, n) /\ a.current = k.current
         /\ a.threads[k.current].state = k.threads[k.current].state
<1> DEFINE c == k.current
           q == IF k.threads[c].quantum > 1 THEN k.threads[c].quantum - 1 ELSE QUANTUM
           r == [k.threads[c] EXCEPT !.quantum = q]
           th == [k.threads EXCEPT ![c] = r]
           s == IF k.threads[c].quantum > 1 THEN k.reschedule ELSE TRUE
<1>1. /\ k \in Kernels(n) /\ k.threads \in [1..n -> ThreadRecords] /\ c \in 1..n
      /\ k.threads[c] \in ThreadRecords /\ k.reschedule \in BOOLEAN
  BY DEF Sound, Kernels
<1>2. q \in Nat
  BY <1>1, ScanAssumption DEF ScanAssumption, ThreadRecords
<1>3. a = IF k.threads[c].quantum > 1 THEN [k EXCEPT !.threads = th]
          ELSE [k EXCEPT !.threads = th, !.reschedule = TRUE]
  BY DEF Charged
<1> HIDE DEF q
<1>4. /\ r \in ThreadRecords /\ r.routine = k.threads[c].routine /\ r.pc = k.threads[c].pc
      /\ r.priority = k.threads[c].priority /\ r.state = k.threads[c].state
  BY <1>1, <1>2 DEF ThreadRecords
<1> HIDE DEF r
<1>5. th \in [1..n -> ThreadRecords] /\ \A t \in 1..n : th[t] = IF t = c THEN r ELSE k.threads[t]
  BY <1>1, <1>4
<1> HIDE DEF th
<1>6. /\ a \in Kernels(n) /\ a.threads = th /\ a.current = c
      /\ a.owner = k.owner /\ a.waiters = k.waiters /\ a.ioWaiters = k.ioWaiters
      /\ a.owned = k.owned /\ a.refs = k.refs /\ a.signaled = k.signaled
  <2>1. CASE k.threads[c].quantum > 1
    BY <1>1, <1>3, <1>5, <2>1 DEF Kernels
  <2>2. CASE ~(k.threads[c].quantum > 1)
    BY <1>1, <1>3, <1>5, <2>2 DEF Kernels
  <2> QED
    BY <2>1, <2>2
<1>7. \A t \in 1..n :
        /\ a.threads[t].routine = k.threads[t].routine /\ a.threads[t].pc = k.threads[t].pc
        /\ a.threads[t].priority = k.threads[t].priority /\ a.threads[t].state = k.threads[t].state
  BY <1>4, <1>5, <1>6
<1>8. Steady(a, k, n)
  BY <1>6, <1>7 DEF Steady, Sound
<1> QED
  BY <1>1, <1>6, <1>7, <1>8

----------------------------------------------------------------------------
(* Threads that are created, and the handle that is closed *)

(* A function on 1..n is a sequence of length n. *)
LEMMA TableLength ==
  ASSUME NEW n \in Nat, NEW S, NEW f \in [1..n -> S]
  PROVE  f \in Seq(S) /\ Len(f) = n /\ DOMAIN f = 1..n
<1>1. f \in Seq(S)
  OBVIOUS
<1>2. DOMAIN f = 1..n /\ DOMAIN f = 1..Len(f) /\ Len(f) \in Nat
  BY <1>1
<1> QED
  BY <1>1, <1>2

\* The kernel a is k with one more thread, that has not begun.
Grown(a, k, n, r) ==
  /\ a \in Kernels(n + 1)
  /\ a.current = k.current /\ a.owner = k.owner /\ a.waiters = k.waiters
  /\ a.signaled = k.signaled /\ a.ioWaiters = k.ioWaiters /\ a.owned = k.owned /\ a.refs = k.refs
  /\ \A t \in 1..n : a.threads[t] = k.threads[t]
  /\ a.threads[n + 1].routine = r /\ a.threads[n + 1].pc = 1 /\ a.threads[n + 1].state = "READY"

Appended(k, r) == [k EXCEPT !.threads = Append(k.threads, r)]

(* CreateThread appends a READY thread at the start of its routine. *)
LEMMA CreateEffect ==
  ASSUME NEW n \in Nat, NEW k \in Kernels(n), NEW r \in Routines, NEW p \in UserPriorities,
         NEW u, NEW a, a = CheckPreemption(Appended(k, NewThread(r, p)), u)
  PROVE  Grown(a, k, n, r)
<1> DEFINE x == NewThread(r, p)
           b == Appended(k, x)
           th == Append(k.threads, x)
<1>1. /\ x \in ThreadRecords /\ x.routine = r /\ x.pc = 1 /\ x.state = "READY"
  <2>1. QUANTUM \in Nat /\ p \in Nat /\ 1 \in Nat
    BY ScanAssumption DEF ScanAssumption
  <2> QED
    BY <2>1 DEF NewThread, ThreadRecords, ThreadStates
<1> HIDE DEF x
<1>2. k.threads \in [1..n -> ThreadRecords]
  BY DEF Kernels
<1>3. k.threads \in Seq(ThreadRecords) /\ Len(k.threads) = n
  BY <1>2, TableLength
<1>4. th \in Seq(ThreadRecords) /\ Len(th) = n + 1 /\ th[n + 1] = x
      /\ \A t \in 1..n : th[t] = k.threads[t]
  BY <1>1, <1>3
<1> HIDE DEF th
<1>5. th \in [1..(n + 1) -> ThreadRecords]
  BY <1>4
<1>6. 0..n \subseteq 0..(n + 1) /\ 1..n \subseteq 1..(n + 1)
  OBVIOUS
<1>7. Seq(1..n) \subseteq Seq(1..(n + 1))
  <2>1. ASSUME NEW s \in Seq(1..n) PROVE s \in Seq(1..(n + 1))
    <3>1. Len(s) \in Nat /\ s \in [1..Len(s) -> 1..n]
      OBVIOUS
    <3>2. s \in [1..Len(s) -> 1..(n + 1)]
      BY <1>6, <3>1
    <3> QED
      BY <3>1, <3>2
  <2> QED
    BY <2>1
<1>8. /\ k.current \in 0..(n + 1) /\ k.owner \in 0..(n + 1)
      /\ k.waiters \in Seq(1..(n + 1)) /\ k.ioWaiters \in Seq(1..(n + 1))
      /\ k.owned \in SUBSET (1..(n + 1)) /\ k.reschedule \in BOOLEAN
      /\ k.signaled \in BOOLEAN /\ k.refs \in Int
  <2>1. /\ k.current \in 0..n /\ k.owner \in 0..n /\ k.waiters \in Seq(1..n)
        /\ k.ioWaiters \in Seq(1..n) /\ k.owned \in SUBSET (1..n)
        /\ k.reschedule \in BOOLEAN /\ k.signaled \in BOOLEAN /\ k.refs \in Int
    BY DEF Kernels
  <2> QED
    BY <1>6, <1>7, <2>1
<1>9. /\ b \in Kernels(n + 1) /\ b.threads = th
      /\ b.current = k.current /\ b.owner = k.owner /\ b.waiters = k.waiters
      /\ b.signaled = k.signaled /\ b.ioWaiters = k.ioWaiters /\ b.owned = k.owned /\ b.refs = k.refs
  <2>1. b = [k EXCEPT !.threads = th]
    BY DEF Appended, th
  <2>2. k = [threads |-> k.threads, current |-> k.current, reschedule |-> k.reschedule,
             owner |-> k.owner, waiters |-> k.waiters, signaled |-> k.signaled,
             ioWaiters |-> k.ioWaiters, owned |-> k.owned, refs |-> k.refs]
    BY DEF Kernels
  <2>3. b = [threads |-> th, current |-> k.current, reschedule |-> k.reschedule,
             owner |-> k.owner, waiters |-> k.waiters, signaled |-> k.signaled,
             ioWaiters |-> k.ioWaiters, owned |-> k.owned, refs |-> k.refs]
    BY <2>1, <2>2
  <2> HIDE DEF b
  <2> QED
    BY <1>5, <1>8, <2>3 DEF Kernels
<1> HIDE DEF b
<1>10. a = CheckPreemption(b, u)
  BY DEF b, x
<1>11. n + 1 \in Nat
  OBVIOUS
<1>12. /\ a \in Kernels(n + 1) /\ a.threads = th
       /\ a.current = k.current /\ a.owner = k.owner /\ a.waiters = k.waiters
       /\ a.signaled = k.signaled /\ a.ioWaiters = k.ioWaiters /\ a.owned = k.owned /\ a.refs = k.refs
  BY <1>9, <1>10, <1>11, CheckedEffect
<1> QED
  BY <1>1, <1>4, <1>12 DEF Grown

(* A thread that is created disturbs nobody else's queue or mutex, *)
LEMMA GrownSound ==
  ASSUME NEW n \in Nat, NEW k, Sound(k, n), NEW r, NEW a, Grown(a, k, n, r)
  PROVE  Sound(a, n + 1)
<1>1. \A t \in 1..(n + 1) : t \in 1..n \/ t = n + 1
  OBVIOUS
<1>2. k.waiters \in Seq(1..n) /\ k.ioWaiters \in Seq(1..n) /\ k.owner \in 0..n
  BY DEF Sound, Kernels
<1>3. ToSet(k.waiters) \subseteq 1..n /\ ToSet(k.ioWaiters) \subseteq 1..n /\ n + 1 \notin 1..n
  BY <1>2, QueueFacts
<1>4. QueuesFit(a, n + 1)
  <2>1. ASSUME NEW t \in 1..(n + 1)
        PROVE  a.threads[t].state = "BLOCKED" <=> t \in ToSet(a.waiters) \cup ToSet(a.ioWaiters)
    <3>1. CASE t \in 1..n
      BY <3>1 DEF Grown, Sound, QueuesFit
    <3>2. CASE t = n + 1
      BY <1>3, <3>2 DEF Grown
    <3> QED
      BY <1>1, <3>1, <3>2
  <2> QED
    BY <2>1 DEF Grown, Sound, QueuesFit
<1>5. MutexFits(a)
  <2>1. k \in Kernels(n) /\ MutexFits(k)
    BY DEF Sound
  <2>2. \A t \in 1..n : a.threads[t].priority = k.threads[t].priority
    BY DEF Grown
  <2> QED
    BY <2>1, <2>2, SameFits DEF Grown
<1>6. \A t \in 1..(n + 1) : a.threads[t].state = "RUNNING" => t = a.current
  <2> TAKE t \in 1..(n + 1)
  <2>1. CASE t \in 1..n
    BY <2>1 DEF Grown, Sound
  <2>2. CASE t = n + 1
    BY <2>2 DEF Grown
  <2> QED
    BY <1>1, <2>1, <2>2
<1> QED
  BY <1>4, <1>5, <1>6 DEF Sound, Grown

(* holds nothing, *)
LEMMA GrownHolders ==
  ASSUME NEW n \in Nat, NEW k, Sound(k, n), NEW r \in Routines, NEW a, Grown(a, k, n, r),
         NEW idle, HoldersFit(k, n, idle)
  PROVE  HoldersFit(a, n + 1, idle)
<1>1. \A t \in 1..(n + 1) : t \in 1..n \/ t = n + 1
  OBVIOUS
<1>2. k.waiters \in Seq(1..n) /\ k.owner \in 0..n
  BY DEF Sound, Kernels
<1>3. ToSet(k.waiters) \subseteq 1..n /\ n + 1 \notin 0..n /\ n + 1 \notin 1..n
  BY <1>2, QueueFacts
<1>4. \A t : Has(a, t) <=> Has(k, t)
  BY DEF Has, Grown
<1>5. ~Has(k, n + 1)
  BY <1>2, <1>3 DEF Has
<1>6. idle \in 1..n /\ ~Has(k, idle) /\ k.threads[idle].state \in {"READY", "RUNNING"}
  BY DEF HoldersFit
<1>7. RoutineFormed(r)
  BY ScanAssumption DEF ScanAssumption
<1>8. ASSUME NEW t \in 1..(n + 1) \ {idle}
      PROVE  /\ a.threads[t].routine \in Routines
             /\ a.threads[t].state # "TERMINATED" =>
                  /\ a.threads[t].pc \in DOMAIN a.threads[t].routine
                  /\ Holds(a.threads[t].routine, a.threads[t].pc) <=> Has(a, t)
  <2>1. CASE t \in 1..n
    <3>1. a.threads[t] = k.threads[t]
      BY <2>1 DEF Grown
    <3>2. /\ k.threads[t].routine \in Routines
          /\ k.threads[t].state # "TERMINATED" =>
               /\ k.threads[t].pc \in DOMAIN k.threads[t].routine
               /\ Holds(k.threads[t].routine, k.threads[t].pc) <=> Has(k, t)
      BY <2>1 DEF HoldersFit
    <3> QED
      BY <1>4, <3>1, <3>2
  <2>2. CASE t = n + 1
    <3>1. a.threads[t].routine = r /\ a.threads[t].pc = 1
      BY <2>2 DEF Grown
    <3>2. 1 \in DOMAIN r /\ ~Holds(r, 1)
      BY <1>7, FirstCall
    <3> QED
      BY <1>4, <1>5, <2>2, <3>1, <3>2
  <2> QED
    BY <1>1, <2>1, <2>2
<1>9. idle \in 1..(n + 1) /\ a.threads[idle].state \in {"READY", "RUNNING"} /\ ~Has(a, idle)
  BY <1>4, <1>6 DEF Grown
<1> QED
  BY <1>8, <1>9 DEF HoldersFit

(* and is not counted. *)
LEMMA GrownTally ==
  ASSUME NEW n \in Nat, NEW k \in Kernels(n), NEW r, NEW a, Grown(a, k, n, r), Tally(k, n)
  PROVE  Tally(a, n + 1) /\ Counted(a, k)
<1>1. \A t \in 1..(n + 1) : t \in 1..n \/ t = n + 1
  OBVIOUS
<1>2. k.owner \in 0..n /\ k.owned \subseteq 1..n /\ n + 1 \notin 1..n /\ n + 1 \notin 0..n
  BY DEF Kernels
<1>3. ASSUME NEW t \in 1..(n + 1) PROVE t \in a.owned <=> a.owner = t
  <2>1. CASE t \in 1..n
    BY <2>1 DEF Grown, Tally
  <2>2. CASE t = n + 1
    BY <1>2, <2>2 DEF Grown
  <2> QED
    BY <1>1, <2>1, <2>2
<1>4. a.owner # 0 => a.threads[a.owner].state # "TERMINATED"
  BY <1>2 DEF Grown, Tally
<1>5. a.waiters = k.waiters /\ a.refs = k.refs
  BY DEF Grown
<1> QED
  BY <1>3, <1>4, <1>5 DEF Tally, Counted

----------------------------------------------------------------------------
(* The invariant *)

\* What main relies on besides: before its loop nobody waits for a completion,
\* and the current thread is never one that waits for the processor.
KernelFits(k, n, idle, ph) ==
  /\ Sound(k, n) /\ HoldersFit(k, n, idle)
  /\ ph # "boot" => k.current # 0
  /\ ph \in {"boot", "bootRun"} => k.ioWaiters = <<>>
  /\ k.current # 0 => k.threads[k.current].state # "READY"
  /\ k.current = 0 \/ ph = "bootRun" =>
       \A t \in 1..n \ {idle} : k.threads[t].routine \in BootRoutines /\ k.threads[t].pc = 1

\* In the second stage the idle thread runs whenever it is the current one.
SecondFits(k, n, ph, ex) ==
  /\ Tally(k, n)
  /\ k.refs = 1 + (IF ex THEN 1 ELSE 0) + Len(k.waiters)
  /\ k.current = 1 => k.threads[1].state = "RUNNING"
  /\ ph = "run" => k.threads[k.current].state = "RUNNING"

\* main goes from ph to qh before its loop, and does not come back.
Onwards(ph, qh) ==
  /\ qh \in {"boot", "bootRun"} => ph \in {"boot", "bootRun"}
  /\ qh = "bootRun" => ph = "bootRun"

(* main goes on while the threads and the mutex stay as they are. *)
LEMMA FitsSteady ==
  ASSUME NEW n \in Nat, NEW k, NEW idle, NEW ph, KernelFits(k, n, idle, ph),
         NEW a, Steady(a, k, n), a.current = k.current,
         a.current # 0 => a.threads[a.current].state = k.threads[k.current].state,
         NEW qh, Onwards(ph, qh), qh # "boot" => k.current # 0
  PROVE  KernelFits(a, n, idle, qh)
<1>1. Sound(a, n)
  BY SteadySound DEF KernelFits
<1>2. HoldersFit(a, n, idle)
  BY SteadyHolders DEF KernelFits
<1>3. k.current = 0 \/ ph = "bootRun" =>
        \A t \in 1..n \ {idle} : a.threads[t].routine \in BootRoutines /\ a.threads[t].pc = 1
  BY DEF KernelFits, Steady
<1>4. qh \in {"boot", "bootRun"} => a.ioWaiters = <<>>
  BY DEF KernelFits, Steady, Onwards
<1>5. a.current # 0 => a.threads[a.current].state # "READY"
  BY DEF KernelFits
<1> QED
  BY <1>1, <1>2, <1>3, <1>4, <1>5 DEF KernelFits, Onwards

(* The scheduler gives the processor to a READY thread. *)
LEMMA FitsSwitched ==
  ASSUME NEW n \in Nat, NEW k, NEW idle, NEW ph, KernelFits(k, n, idle, ph),
         NEW u \in 1..n, u # k.current => k.threads[u].state = "READY",
         NEW a, a = SwitchTo(k, u),
         NEW qh, qh = "bootRun" => k.current = 0 /\ ph = "boot", qh # "boot"
  PROVE  /\ KernelFits(a, n, idle, qh) /\ Steady(a, k, n) /\ a.current = u
         /\ u # k.current \/ k.threads[u].state = "RUNNING" => a.threads[u].state = "RUNNING"
<1>1. Sound(k, n)
  BY DEF KernelFits
<1>2. /\ Steady(a, k, n) /\ a.current = u
      /\ a.threads[u].state = IF u = k.current THEN k.threads[u].state ELSE "RUNNING"
  BY <1>1, SwitchSteady
<1>3. Sound(a, n)
  BY <1>1, <1>2, SteadySound
<1>4. HoldersFit(a, n, idle)
  BY <1>2, SteadyHolders DEF KernelFits
<1>5. qh = "bootRun" =>
        \A t \in 1..n \ {idle} : a.threads[t].routine \in BootRoutines /\ a.threads[t].pc = 1
  BY <1>2 DEF KernelFits, Steady
<1>6. qh = "bootRun" => a.ioWaiters = <<>>
  BY <1>2 DEF KernelFits, Steady
<1>7. a.current # 0 /\ a.threads[a.current].state # "READY"
  <2>1. u # 0
    OBVIOUS
  <2> QED
    BY <1>2, <2>1 DEF KernelFits
<1>8. KernelFits(a, n, idle, qh)
  BY <1>3, <1>4, <1>5, <1>6, <1>7 DEF KernelFits
<1> QED
  BY <1>2, <1>8

(* main creates a thread before its loop. *)
LEMMA FitsGrown ==
  ASSUME NEW n \in Nat, NEW k, NEW idle, KernelFits(k, n, idle, "boot"),
         NEW r \in Routines, k.current = 0 => r \in BootRoutines, NEW a, Grown(a, k, n, r)
  PROVE  KernelFits(a, n + 1, idle, "boot")
<1>1. Sound(k, n) /\ k \in Kernels(n) /\ k.current \in 0..n
  BY DEF KernelFits, Sound, Kernels
<1>2. Sound(a, n + 1)
  BY <1>1, GrownSound
<1>3. HoldersFit(a, n + 1, idle)
  BY <1>1, GrownHolders DEF KernelFits
<1>4. a.current # 0 => a.threads[a.current].state # "READY"
  BY <1>1 DEF KernelFits, Grown
<1>5. ASSUME k.current = 0, NEW t \in 1..(n + 1) \ {idle}
      PROVE  a.threads[t].routine \in BootRoutines /\ a.threads[t].pc = 1
  <2>1. t \in 1..n \/ t = n + 1
    OBVIOUS
  <2>2. CASE t \in 1..n
    BY <1>5, <2>2 DEF KernelFits, Grown
  <2>3. CASE t = n + 1
    BY <1>5, <2>3 DEF Grown
  <2> QED
    BY <2>1, <2>2, <2>3
<1>6. a.current = k.current /\ a.ioWaiters = <<>>
  BY DEF KernelFits, Grown
<1> QED
  BY <1>2, <1>3, <1>4, <1>5, <1>6 DEF KernelFits

(* The current thread makes its next call. *)
LEMMA FitsCalled ==
  ASSUME NEW n \in Nat, NEW k, NEW idle, NEW ph, KernelFits(k, n, idle, ph),
         Calling(k, n), k.current # idle, ph \in {"bootRun", "run"},
         NEW b, b = Advanced(k),
         NEW a, Effect(a, b, n, k.threads[k.current].routine[k.threads[k.current].pc]),
         NEW qh, qh = "boot" => ph = "bootRun", qh # "bootRun"
  PROVE  KernelFits(a, n, idle, qh) /\ MutexStep(k, a, n)
<1> DEFINE call == k.threads[k.current].routine[k.threads[k.current].pc]
<1>1. Sound(k, n) /\ HoldersFit(k, n, idle)
  BY DEF KernelFits
<1>2. /\ b.current = k.current /\ b.owner = k.owner /\ b.waiters = k.waiters
      /\ b.ioWaiters = k.ioWaiters
  BY <1>1, PcEffect
<1>3. HoldersFit(a, n, idle)
  BY <1>1, HoldersAdvance
<1>4. /\ Sound(a, n) /\ MutexStep(b, a, n) /\ a.current = k.current
      /\ a.threads[k.current].state # "READY"
      /\ call \notin EventCalls => a.ioWaiters = k.ioWaiters
  BY <1>2 DEF Effect
<1>5. MutexStep(k, a, n)
  BY <1>2, <1>4 DEF MutexStep
<1>6. k.current \in 1..n /\ k.current # 0
  BY DEF Calling
<1>7. qh = "boot" => a.ioWaiters = <<>>
  <2> SUFFICES ASSUME qh = "boot" PROVE a.ioWaiters = <<>>
    OBVIOUS
  <2>1. ph = "bootRun" /\ k.ioWaiters = <<>>
    BY DEF KernelFits
  <2>2. k.threads[k.current].routine \in BootRoutines /\ k.threads[k.current].pc = 1
    BY <1>6, <2>1 DEF KernelFits
  <2>3. call \notin EventCalls
    BY <2>2, ScanAssumption DEF ScanAssumption
  <2> QED
    BY <1>4, <2>1, <2>3
<1>8. KernelFits(a, n, idle, qh)
  BY <1>3, <1>4, <1>6, <1>7 DEF KernelFits
<1> QED
  BY <1>5, <1>8

(* The count of the second stage. *)
LEMMA SecondSteady ==
  ASSUME NEW n \in Nat, NEW k \in Kernels(n), NEW ph, NEW ex, SecondFits(k, n, ph, ex),
         NEW a, Steady(a, k, n), NEW qh,
         a.current = 1 => a.threads[1].state = "RUNNING",
         qh = "run" => a.threads[a.current].state = "RUNNING"
  PROVE  SecondFits(a, n, qh, ex)
<1>1. Tally(a, n)
  BY SteadyTally DEF SecondFits
<1>2. a.refs = k.refs /\ a.waiters = k.waiters
  BY DEF Steady
<1> QED
  BY <1>1, <1>2 DEF SecondFits

(* The bookkeeping when a thread is created. *)
LEMMA SecondGrown ==
  ASSUME NEW n \in Nat \ {0}, NEW k \in Kernels(n), NEW ex, SecondFits(k, n, "boot", ex),
         NEW r, NEW a, Grown(a, k, n, r)
  PROVE  SecondFits(a, n + 1, "boot", ex)
<1>1. Tally(a, n + 1)
  BY GrownTally DEF SecondFits
<1>2. a.refs = k.refs /\ a.waiters = k.waiters /\ a.current = k.current /\ a.threads[1] = k.threads[1]
  BY DEF Grown
<1> QED
  BY <1>1, <1>2 DEF SecondFits

(* The bookkeeping after a call that keeps it. *)
LEMMA SecondCalled ==
  ASSUME NEW n \in Nat, NEW k, Sound(k, n), NEW ph, NEW ex, SecondFits(k, n, ph, ex),
         NEW b \in Kernels(n), b.refs = k.refs, b.waiters = k.waiters,
         NEW a \in Kernels(n), Tally(a, n), Counted(a, b), a.current # 1,
         NEW qh, qh # "run"
  PROVE  SecondFits(a, n, qh, ex)
<1>1. a.refs \in Int /\ k.refs \in Int /\ a.waiters \in Seq(1..n) /\ k.waiters \in Seq(1..n)
  BY DEF Sound, Kernels
<1>2. Len(a.waiters) \in Nat /\ Len(k.waiters) \in Nat
  BY <1>1, QueueFacts
<1>3. a.refs - Len(a.waiters) = k.refs - Len(k.waiters)
  BY DEF Counted
<1> DEFINE e == IF ex THEN 1 ELSE 0
           ar == a.refs
           kr == k.refs
           al == Len(a.waiters)
           kl == Len(k.waiters)
<1>4. kr = 1 + e + kl
  BY DEF SecondFits
<1>5. e \in Int /\ ar \in Int /\ kr \in Int /\ al \in Int /\ kl \in Int /\ ar - al = kr - kl
  BY <1>1, <1>2, <1>3
<1> HIDE DEF e, ar, kr, al, kl
<1>6. ar = 1 + e + al
  BY <1>4, <1>5
<1>7. a.refs = 1 + (IF ex THEN 1 ELSE 0) + Len(a.waiters)
  BY <1>6 DEF e, ar, al
<1> QED
  BY <1>7 DEF SecondFits

(* The process drops its handle. *)
LEMMA RefsFits ==
  ASSUME NEW n \in Nat, NEW k, NEW idle, KernelFits(k, n, idle, "reap"),
         SecondFits(k, n, "reap", TRUE), NEW a, a = WithRefs(k, k.refs - 1)
  PROVE  KernelFits(a, n, idle, "timer") /\ SecondFits(a, n, "timer", FALSE)
<1>1. Sound(k, n) /\ k \in Kernels(n) /\ k.refs \in Int /\ k.waiters \in Seq(1..n)
  BY DEF KernelFits, Sound, Kernels
<1>2. Tallied(a, k, n) /\ a.owned = k.owned /\ a.refs = k.refs - 1
  BY <1>1, RefsRecord
<1>3. /\ a \in Kernels(n) /\ a.threads = k.threads /\ a.current = k.current
      /\ a.owner = k.owner /\ a.waiters = k.waiters
      /\ a.signaled = k.signaled /\ a.ioWaiters = k.ioWaiters
  BY <1>2 DEF Tallied
<1>4. QueuesFit(a, n) /\ MutexFits(a)
  BY <1>1, <1>3 DEF QueuesFit, MutexFits, Sound
<1>5. Sound(a, n)
  BY <1>1, <1>3, <1>4 DEF Sound
<1>6. HoldersFit(a, n, idle)
  BY <1>3 DEF KernelFits, HoldersFit, Has
<1>7. KernelFits(a, n, idle, "timer")
  BY <1>3, <1>5, <1>6 DEF KernelFits
<1>8. Tally(a, n)
  BY <1>2, <1>3 DEF SecondFits, Tally
<1>9. Len(k.waiters) \in Nat
  BY <1>1, QueueFacts
<1>10. a.refs = 1 + 0 + Len(a.waiters)
  BY <1>1, <1>2, <1>3, <1>9 DEF SecondFits
<1> QED
  BY <1>3, <1>7, <1>8, <1>10 DEF SecondFits

----------------------------------------------------------------------------
(* The actions of the stages *)

(* PickNextThread finds a thread among its candidates. *)
LEMMA HighestCandidate ==
  ASSUME NEW n \in Nat, NEW k \in Kernels(n), NEW C, C \subseteq 1..n, C # {}
  PROVE  \E t \in C : \A u \in C : /\ Priority(k, u) <= Priority(k, t)
                                   /\ u < t => Priority(k, u) < Priority(k, t)
<1> DEFINE f == [i \in 1..n |-> Priority(k, i)]
<1>1. \A i \in C : f[i] = Priority(k, i) /\ Priority(k, i) \in Nat
  BY DEF Priority, Kernels, ThreadRecords
<1> HIDE DEF f
<1>2. \A i \in C : f[i] \in Nat
  BY <1>1
<1>3. \E i \in C : \A j \in C : f[j] <= f[i] /\ (j < i => f[j] < f[i])
  BY <1>2, FirstHighest
<1> QED
  BY <1>1, <1>3

(* Schedule of the first stage leaves things as they are or switches to a     *)
(* READY thread.                                                              *)
LEMMA Schedule1 ==
  ASSUME NEW n \in Nat, kernel \in Kernels(n)
  PROVE  \/ Lvl1!Schedule = kernel /\ \A u \in 1..n : kernel.threads[u].state # "READY"
         \/ \E u \in 1..n : kernel.threads[u].state = "READY" /\ Lvl1!Schedule = SwitchTo(kernel, u)
<1> DEFINE C == Lvl1!Candidates
           u == Lvl1!PickNextThread
<1>1. DOMAIN kernel.threads = 1..n
  BY DEF Kernels
<1>2. C = {t \in 1..n : kernel.threads[t].state = "READY"}
  BY <1>1 DEF Lvl1!Candidates, Lvl1!InState
<1> HIDE DEF C
<1>3. CASE C = {}
  <2>1. Lvl1!Schedule = kernel
    BY <1>3 DEF C, Lvl1!Schedule
  <2> QED
    BY <1>2, <1>3, <2>1
<1>4. CASE C # {}
  <2>1. \E t \in C : \A v \in C : /\ Priority(kernel, v) <= Priority(kernel, t)
                                  /\ v < t => Priority(kernel, v) < Priority(kernel, t)
    BY <1>2, <1>4, HighestCandidate
  <2>2. u \in C
    BY <2>1 DEF Lvl1!PickNextThread, C, Lvl1!Priority, Priority
  <2>3. Lvl1!Schedule = SwitchTo(kernel, u)
    BY <1>4, Shared1Threads DEF Lvl1!Schedule, C
  <2> HIDE DEF u
  <2> QED
    BY <1>2, <2>2, <2>3
<1> QED
  BY <1>3, <1>4

(* Schedule of the second stage keeps the idle thread that runs, or switches  *)
(* to a READY one.                                                            *)
LEMMA Schedule2 ==
  ASSUME NEW n \in Nat, NEW ph, KernelFits(kernel, n, 1, ph)
  PROVE  \E u \in 1..n : /\ u # kernel.current => kernel.threads[u].state = "READY"
                         /\ u = kernel.current => u = 1
                         /\ Lvl2!Schedule = SwitchTo(kernel, u)
<1> DEFINE C == Lvl2!Candidates
           u == Lvl2!PickNextThread
<1>1. /\ kernel.threads \in [1..n -> ThreadRecords] /\ kernel \in Kernels(n)
      /\ 1 \in 1..n /\ kernel.threads[1].state \in {"READY", "RUNNING"}
      /\ kernel.threads[1].state = "RUNNING" => kernel.current = 1
      /\ kernel.current # 0 => kernel.threads[kernel.current].state # "READY"
  BY DEF KernelFits, Sound, Kernels, HoldersFit
<1>2. Len(kernel.threads) = n
  BY <1>1, TableLength
<1>3. C = {t \in 2..n : kernel.threads[t].state = "READY"}
  BY <1>2 DEF Lvl2!Candidates, Lvl2!Users
<1> HIDE DEF C
<1>4. CASE C = {}
  <2>1. Lvl2!Schedule = SwitchTo(kernel, 1)
    BY <1>4, Shared2Threads DEF C, Lvl2!Schedule, Lvl2!Idle
  <2> QED
    BY <1>1, <2>1
<1>5. CASE C # {}
  <2>1. C \subseteq 1..n
    BY <1>3
  <2>2. \E t \in C : \A v \in C : /\ Priority(kernel, v) <= Priority(kernel, t)
                                  /\ v < t => Priority(kernel, v) < Priority(kernel, t)
    BY <1>1, <1>5, <2>1, HighestCandidate
  <2>3. u \in C
    BY <2>2 DEF Lvl2!PickNextThread, C, Lvl2!Priority, Priority
  <2>4. Lvl2!Schedule = SwitchTo(kernel, u)
    BY <1>5, Shared2Threads DEF Lvl2!Schedule, C
  <2> HIDE DEF u
  <2>5. u \in 1..n /\ kernel.threads[u].state = "READY" /\ u # 0
    BY <1>3, <2>1, <2>3
  <2>6. u # kernel.current
    BY <1>1, <2>5
  <2> QED
    BY <2>4, <2>5, <2>6
<1> QED
  BY <1>4, <1>5

\* A step of main on a kernel of n threads leaves one of m.
Stepped(n, m, idle) ==
  /\ KernelFits(kernel', m, idle, phase')
  /\ MutexStep(kernel, kernel', n)

(* Who leaves owner and waiters alone makes no step of the mutex. *)
LEMMA SteadyMutex ==
  ASSUME NEW n, NEW k, NEW a, a.owner = k.owner, a.waiters = k.waiters
  PROVE  MutexStep(k, a, n)
BY DEF MutexStep

(* The actions of the first stage. *)

(* Before the loop main schedules the first thread. *)
LEMMA BootSchedule1 ==
  ASSUME NEW n \in Nat, KernelFits(kernel, n, 2, phase), Lvl1!BootSchedule
  PROVE  Stepped(n, n, 2)
<1>1. kernel \in Kernels(n) /\ phase = "boot" /\ kernel.current = 0 /\ phase' = "bootRun"
      /\ kernel' = Lvl1!Schedule
  BY DEF KernelFits, Sound, Lvl1!BootSchedule
<1>2. 2 \in 1..n /\ kernel.threads[2].state = "READY"
  BY <1>1 DEF KernelFits, Sound, HoldersFit
<1>3. PICK u \in 1..n : kernel.threads[u].state = "READY" /\ Lvl1!Schedule = SwitchTo(kernel, u)
  BY <1>1, <1>2, Schedule1
<1>4. KernelFits(kernel', n, 2, "bootRun") /\ Steady(kernel', kernel, n)
  BY <1>1, <1>3, FitsSwitched
<1>5. MutexStep(kernel, kernel', n)
  BY <1>4, SteadyMutex DEF Steady
<1> QED
  BY <1>1, <1>4, <1>5 DEF Stepped

(* It creates the other threads. *)
LEMMA CreateThread1 ==
  ASSUME NEW n \in Nat, KernelFits(kernel, n, 2, phase),
         NEW r \in Routines, NEW p \in UserPriorities, Lvl1!CreateThread(r, p)
  PROVE  Stepped(n, n + 1, 2) /\ n < MAX_THREADS /\ Grown(kernel', kernel, n, r)
<1>1. kernel \in Kernels(n) /\ kernel.threads \in [1..n -> ThreadRecords]
  BY DEF KernelFits, Sound, Kernels
<1>2. Len(kernel.threads) = n
  BY <1>1, TableLength
<1>3. phase = "boot" /\ phase' = "boot" /\ kernel.current # 0 /\ n < MAX_THREADS
  BY <1>2 DEF Lvl1!CreateThread
<1>4. PICK u : kernel' = CheckPreemption(Appended(kernel, NewThread(r, p)), u)
  BY Shared1Threads DEF Lvl1!CreateThread, Appended
<1>5. Grown(kernel', kernel, n, r)
  BY <1>1, <1>4, CreateEffect
<1>6. KernelFits(kernel', n + 1, 2, "boot")
  BY <1>3, <1>5, FitsGrown
<1>7. MutexStep(kernel, kernel', n)
  BY <1>5, SteadyMutex DEF Grown
<1> QED
  BY <1>3, <1>5, <1>6, <1>7 DEF Stepped

(* It sets the event up. *)
LEMMA StartLoop1 ==
  ASSUME NEW n \in Nat, KernelFits(kernel, n, 2, phase), Lvl1!StartLoop
  PROVE  Stepped(n, n, 2)
<1>1. /\ Sound(kernel, n) /\ phase = "boot" /\ phase' = "timer" /\ kernel.current # 0
      /\ kernel.ioWaiters = <<>> /\ kernel' = InitEvent(kernel)
  BY Shared1 DEF KernelFits, Lvl1!StartLoop
<1>2. Steady(kernel', kernel, n) /\ kernel'.current = kernel.current /\ kernel'.threads = kernel.threads
  BY <1>1, InitEventSteady
<1>3. KernelFits(kernel', n, 2, "timer")
  BY <1>1, <1>2, FitsSteady DEF Onwards
<1>4. MutexStep(kernel, kernel', n)
  BY <1>2, SteadyMutex DEF Steady
<1> QED
  BY <1>1, <1>3, <1>4 DEF Stepped

(* The timer charges the current thread, in whatever state. *)
LEMMA TimerDPC1 ==
  ASSUME NEW n \in Nat, KernelFits(kernel, n, 2, phase), Lvl1!TimerDPC
  PROVE  Stepped(n, n, 2)
<1>1. /\ Sound(kernel, n) /\ phase = "timer" /\ phase' = "run"
      /\ kernel.current # 0 /\ kernel.current \in 0..n /\ kernel' = Charged(kernel)
  BY Shared1 DEF KernelFits, Lvl1!TimerDPC, Sound, Kernels
<1>2. kernel.current \in 1..n
  BY <1>1
<1>3. /\ Steady(kernel', kernel, n) /\ kernel'.current = kernel.current
      /\ kernel'.threads[kernel.current].state = kernel.threads[kernel.current].state
  BY <1>1, <1>2, ChargedSteady
<1>4. KernelFits(kernel', n, 2, "run")
  BY <1>1, <1>3, FitsSteady DEF Onwards
<1>5. MutexStep(kernel, kernel', n)
  BY <1>3, SteadyMutex DEF Steady
<1> QED
  BY <1>1, <1>4, <1>5 DEF Stepped

(* The current thread makes a call. *)
LEMMA RunThread1 ==
  ASSUME NEW n \in Nat, KernelFits(kernel, n, 2, phase), Lvl1!RunThread
  PROVE  Stepped(n, n, 2)
<1> DEFINE k == kernel
           b == Advanced(k)
           call == k.threads[k.current].routine[k.threads[k.current].pc]
<1>1. /\ Sound(k, n) /\ phase \in {"bootRun", "run"} /\ k.current # 2
      /\ k.threads[k.current].state = "RUNNING" /\ k.current \in 0..n /\ k.current # 0
      /\ kernel' = Lvl1!Called(b, call)
      /\ phase' = IF phase = "bootRun" THEN "boot" ELSE "dispatch"
  BY DEF KernelFits, Sound, Kernels, Lvl1!RunThread, Lvl1!Current, Lvl1!Idle, Lvl1!CallOf,
         Lvl1!AfterRun, Advanced
<1>2. Calling(k, n)
  BY <1>1 DEF Calling
<1>3. /\ Sound(b, n) /\ Calling(b, n) /\ b.current = k.current /\ b.owner = k.owner
      /\ b.waiters = k.waiters
  BY <1>1, <1>2, PcEffect
<1> HIDE DEF b
<1>4. Permitted(b, call)
  BY <1>1, <1>2, <1>3, CallPermitted DEF KernelFits
<1> HIDE DEF call
<1>5. Effect(kernel', b, n, call)
  BY <1>1, <1>3, <1>4, Called1
<1>6. KernelFits(kernel', n, 2, phase') /\ MutexStep(kernel, kernel', n)
  <2>1. /\ b = Advanced(k) /\ phase \in {"bootRun", "run"}
        /\ Effect(kernel', b, n, k.threads[k.current].routine[k.threads[k.current].pc])
    BY <1>1, <1>5 DEF b, call
  <2>2. phase' = "boot" => phase = "bootRun"
    BY <1>1
  <2>3. phase' # "bootRun" /\ k.current # 2
    BY <1>1
  <2>4. KernelFits(k, n, 2, phase) /\ Calling(k, n)
    BY <1>2
  <2> QED
    BY <2>1, <2>2, <2>3, <2>4, FitsCalled
<1> QED
  BY <1>6 DEF Stepped

(* The idle thread does nothing. *)
LEMMA IdleThread1 ==
  ASSUME NEW n \in Nat, KernelFits(kernel, n, 2, phase), Lvl1!IdleThread
  PROVE  Stepped(n, n, 2)
<1>1. /\ Sound(kernel, n) /\ phase = "run" /\ phase' = "dispatch" /\ kernel.current # 0
      /\ kernel' = kernel
  BY DEF KernelFits, Lvl1!IdleThread, Lvl1!AfterRun
<1>2. Steady(kernel, kernel, n)
  BY <1>1, SameSteady
<1>3. KernelFits(kernel, n, 2, "dispatch")
  BY <1>1, <1>2, FitsSteady DEF Onwards
<1>4. MutexStep(kernel, kernel', n)
  BY <1>1, SteadyMutex
<1> QED
  BY <1>1, <1>3, <1>4 DEF Stepped

(* main schedules if it was asked to. *)
LEMMA Dispatch1 ==
  ASSUME NEW n \in Nat, KernelFits(kernel, n, 2, phase), Lvl1!Dispatch
  PROVE  Stepped(n, n, 2)
<1>1. /\ Sound(kernel, n) /\ kernel \in Kernels(n) /\ phase = "dispatch" /\ phase' = "timer"
      /\ kernel.current # 0
      /\ kernel' = kernel \/ kernel' = Asking(Lvl1!Schedule, FALSE)
  BY DEF KernelFits, Sound, Lvl1!Dispatch, Asking
<1>2. CASE kernel' = kernel
  <2>1. Steady(kernel, kernel, n)
    BY <1>1, SameSteady
  <2>2. KernelFits(kernel, n, 2, "timer")
    BY <1>1, <2>1, FitsSteady DEF Onwards
  <2>3. MutexStep(kernel, kernel', n)
    BY <1>2, SteadyMutex
  <2> QED
    BY <1>1, <1>2, <2>2, <2>3 DEF Stepped
<1>3. CASE kernel' = Asking(Lvl1!Schedule, FALSE)
  <2> DEFINE s == Lvl1!Schedule
  <2>1. KernelFits(s, n, 2, "timer") /\ Steady(s, kernel, n) /\ s.current # 0
    <3>1. CASE s = kernel
      <4>1. Steady(kernel, kernel, n)
        BY <1>1, SameSteady
      <4>2. KernelFits(kernel, n, 2, "timer")
        BY <1>1, <4>1, FitsSteady DEF Onwards
      <4> QED
        BY <1>1, <3>1, <4>1, <4>2
    <3>2. ASSUME NEW u \in 1..n, kernel.threads[u].state = "READY", s = SwitchTo(kernel, u)
          PROVE  KernelFits(s, n, 2, "timer") /\ Steady(s, kernel, n) /\ s.current # 0
      <4>1. KernelFits(s, n, 2, "timer") /\ Steady(s, kernel, n) /\ s.current = u
        BY <1>1, <3>2, FitsSwitched
      <4> QED
        BY <4>1
    <3> QED
      BY <1>1, <3>1, <3>2, Schedule1
  <2> HIDE DEF s
  <2>2. Sound(s, n)
    BY <2>1 DEF KernelFits
  <2>3. Steady(kernel', s, n) /\ kernel'.current = s.current /\ kernel'.threads = s.threads
    BY <1>3, <2>2, AskingSteady DEF s
  <2>4. KernelFits(kernel', n, 2, "timer")
    BY <2>1, <2>3, FitsSteady DEF Onwards
  <2>5. MutexStep(kernel, kernel', n)
    BY <2>1, <2>3, SteadyMutex DEF Steady
  <2> QED
    BY <1>1, <2>4, <2>5 DEF Stepped
<1> QED
  BY <1>1, <1>2, <1>3

(* The actions of the second stage. *)

Stepped2(n, m) == Stepped(n, m, 1) /\ SecondFits(kernel', m, phase', exist')

(* main creates the threads, the first before any runs. *)
LEMMA CreateThread2 ==
  ASSUME NEW n \in Nat, KernelFits(kernel, n, 1, phase), SecondFits(kernel, n, phase, exist),
         NEW r \in Routines, NEW p \in UserPriorities, Lvl2!CreateThread(r, p)
  PROVE  Stepped2(n, n + 1) /\ n < MAX_THREADS /\ Grown(kernel', kernel, n, r)
<1>1. /\ kernel \in Kernels(n) /\ kernel.threads \in [1..n -> ThreadRecords] /\ n # 0
      /\ kernel.current = 0 => \A t \in 1..n \ {1} : kernel.threads[t].routine \in BootRoutines
  BY DEF KernelFits, Sound, Kernels, HoldersFit
<1>2. Len(kernel.threads) = n
  BY <1>1, TableLength
<1>3. /\ phase = "boot" /\ phase' = "boot" /\ exist' = exist /\ n < MAX_THREADS
      /\ kernel.current = 0 => r \in BootRoutines
  BY <1>2 DEF Lvl2!CreateThread
<1>4. PICK u : kernel' = CheckPreemption(Appended(kernel, NewThread(r, p)), u)
  BY Shared2Threads DEF Lvl2!CreateThread, Appended
<1>5. Grown(kernel', kernel, n, r)
  BY <1>1, <1>4, CreateEffect
<1>6. KernelFits(kernel', n + 1, 1, "boot")
  BY <1>3, <1>5, FitsGrown
<1>7. SecondFits(kernel', n + 1, "boot", exist)
  BY <1>1, <1>3, <1>5, SecondGrown
<1>8. MutexStep(kernel, kernel', n)
  BY <1>5, SteadyMutex DEF Grown
<1> QED
  BY <1>3, <1>5, <1>6, <1>7, <1>8 DEF Stepped, Stepped2

(* Schedule of the second stage finds a thread to run. *)
LEMMA Scheduled2 ==
  ASSUME NEW n \in Nat, NEW ph, KernelFits(kernel, n, 1, ph), SecondFits(kernel, n, ph, exist),
         NEW qh, qh = "bootRun" => kernel.current = 0 /\ ph = "boot", qh # "boot"
  PROVE  LET s == Lvl2!Schedule
         IN  /\ KernelFits(s, n, 1, qh) /\ SecondFits(s, n, qh, exist) /\ Steady(s, kernel, n)
             /\ s.current # 0 /\ s.threads[s.current].state = "RUNNING"
<1> DEFINE s == Lvl2!Schedule
<1>1. PICK u \in 1..n : /\ u # kernel.current => kernel.threads[u].state = "READY"
                        /\ u = kernel.current => u = 1
                        /\ s = SwitchTo(kernel, u)
  BY Schedule2
<1> HIDE DEF s
<1>2. u = kernel.current => kernel.threads[u].state = "RUNNING"
  BY <1>1 DEF SecondFits
<1>3. /\ KernelFits(s, n, 1, qh) /\ Steady(s, kernel, n) /\ s.current = u
      /\ s.threads[u].state = "RUNNING"
  BY <1>1, <1>2, FitsSwitched
<1>4. kernel \in Kernels(n)
  BY DEF KernelFits, Sound
<1>5. SecondFits(s, n, qh, exist)
  BY <1>3, <1>4, SecondSteady
<1>6. u # 0
  OBVIOUS
<1> QED
  BY <1>3, <1>5, <1>6 DEF s

(* Before the loop main schedules the first thread. *)
LEMMA BootSchedule2 ==
  ASSUME NEW n \in Nat, KernelFits(kernel, n, 1, phase), SecondFits(kernel, n, phase, exist),
         Lvl2!BootSchedule
  PROVE  Stepped2(n, n)
<1>1. /\ phase = "boot" /\ kernel.current = 0 /\ phase' = "bootRun" /\ exist' = exist
      /\ kernel' = Lvl2!Schedule
  BY DEF Lvl2!BootSchedule
<1>2. /\ KernelFits(kernel', n, 1, "bootRun") /\ SecondFits(kernel', n, "bootRun", exist)
      /\ Steady(kernel', kernel, n)
  BY <1>1, Scheduled2
<1>3. MutexStep(kernel, kernel', n)
  BY <1>2, SteadyMutex DEF Steady
<1> QED
  BY <1>1, <1>2, <1>3 DEF Stepped, Stepped2

(* It sets the event up. *)
LEMMA StartLoop2 ==
  ASSUME NEW n \in Nat, KernelFits(kernel, n, 1, phase), SecondFits(kernel, n, phase, exist),
         Lvl2!StartLoop
  PROVE  Stepped2(n, n)
<1>1. /\ Sound(kernel, n) /\ kernel \in Kernels(n) /\ phase = "boot" /\ phase' = "timer"
      /\ exist' = exist /\ kernel.current # 0
      /\ kernel.ioWaiters = <<>> /\ kernel' = InitEvent(kernel)
  BY Shared2 DEF KernelFits, Sound, Lvl2!StartLoop
<1>2. Steady(kernel', kernel, n) /\ kernel'.current = kernel.current /\ kernel'.threads = kernel.threads
  BY <1>1, InitEventSteady
<1>3. KernelFits(kernel', n, 1, "timer")
  BY <1>1, <1>2, FitsSteady DEF Onwards
<1>4. SecondFits(kernel', n, "timer", exist)
  <2>1. kernel'.current = 1 => kernel'.threads[1].state = "RUNNING"
    BY <1>2 DEF SecondFits
  <2> QED
    BY <1>1, <1>2, <2>1, SecondSteady
<1>5. MutexStep(kernel, kernel', n)
  BY <1>2, SteadyMutex DEF Steady
<1> QED
  BY <1>1, <1>3, <1>4, <1>5 DEF Stepped, Stepped2

(* The timer charges the current thread if it runs. *)
LEMMA TimerDPC2 ==
  ASSUME NEW n \in Nat, KernelFits(kernel, n, 1, phase), SecondFits(kernel, n, phase, exist),
         Lvl2!TimerDPC
  PROVE  Stepped2(n, n)
<1>1. /\ Sound(kernel, n) /\ kernel \in Kernels(n) /\ phase = "timer" /\ phase' = "dispatch"
      /\ exist' = exist /\ kernel.current # 0 /\ kernel.current \in 0..n
      /\ kernel' = Charged(kernel) \/ kernel' = kernel
  BY Shared2 DEF KernelFits, Lvl2!TimerDPC, Sound, Kernels
<1>2. kernel.current \in 1..n
  BY <1>1
<1>3. /\ Steady(kernel', kernel, n) /\ kernel'.current = kernel.current
      /\ kernel'.threads[kernel.current].state = kernel.threads[kernel.current].state
  <2>1. CASE kernel' = Charged(kernel)
    BY <1>1, <1>2, <2>1, ChargedSteady
  <2>2. CASE kernel' = kernel
    BY <1>1, <2>2, SameSteady
  <2> QED
    BY <1>1, <2>1, <2>2
<1>4. KernelFits(kernel', n, 1, "dispatch")
  BY <1>1, <1>3, FitsSteady DEF Onwards
<1>5. SecondFits(kernel', n, "dispatch", exist)
  <2>1. kernel'.current = 1 => kernel'.threads[1].state = "RUNNING"
    BY <1>3 DEF SecondFits
  <2> QED
    BY <1>1, <1>3, <2>1, SecondSteady
<1>6. MutexStep(kernel, kernel', n)
  BY <1>3, SteadyMutex DEF Steady
<1> QED
  BY <1>1, <1>4, <1>5, <1>6 DEF Stepped, Stepped2

(* main schedules if it was asked to or nobody runs. *)
LEMMA Dispatch2 ==
  ASSUME NEW n \in Nat, KernelFits(kernel, n, 1, phase), SecondFits(kernel, n, phase, exist),
         Lvl2!Dispatch
  PROVE  Stepped2(n, n)
<1>1. /\ Sound(kernel, n) /\ kernel \in Kernels(n) /\ phase = "dispatch" /\ phase' = "run"
      /\ exist' = exist /\ kernel.current # 0
      /\ \/ kernel' = kernel /\ kernel.threads[kernel.current].state = "RUNNING"
         \/ kernel' = Asking(Lvl2!Schedule, FALSE)
  BY DEF KernelFits, Sound, Lvl2!Dispatch, Lvl2!Current, Asking
<1> DEFINE s == Lvl2!Schedule
<1>2. /\ KernelFits(s, n, 1, "run") /\ SecondFits(s, n, "run", exist) /\ Steady(s, kernel, n)
      /\ s.current # 0 /\ s.threads[s.current].state = "RUNNING"
  BY <1>1, Scheduled2
<1>3. CASE kernel' = Asking(s, FALSE)
  <2> HIDE DEF s
  <2>1. Sound(s, n) /\ s \in Kernels(n)
    BY <1>2 DEF KernelFits, Sound
  <2>2. Steady(kernel', s, n) /\ kernel'.current = s.current /\ kernel'.threads = s.threads
    BY <1>3, <2>1, AskingSteady
  <2>3. KernelFits(kernel', n, 1, "run")
    BY <1>2, <2>2, FitsSteady DEF Onwards
  <2>4. SecondFits(kernel', n, "run", exist)
    <3>1. kernel'.threads[kernel'.current].state = "RUNNING"
      BY <1>2, <2>2
    <3> QED
      BY <1>2, <2>1, <2>2, <3>1, SecondSteady
  <2>5. MutexStep(kernel, kernel', n)
    BY <1>2, <2>2, SteadyMutex DEF Steady
  <2> QED
    BY <1>1, <2>3, <2>4, <2>5 DEF Stepped, Stepped2
<1>4. CASE kernel' = kernel /\ kernel.threads[kernel.current].state = "RUNNING"
  <2> HIDE DEF s
  <2>1. Steady(kernel, kernel, n)
    BY <1>1, SameSteady
  <2>2. KernelFits(kernel, n, 1, "run")
    BY <1>1, <2>1, FitsSteady DEF Onwards
  <2>3. SecondFits(kernel, n, "run", exist)
    BY <1>4 DEF SecondFits
  <2>4. MutexStep(kernel, kernel', n)
    BY <1>4, SteadyMutex
  <2> QED
    BY <1>1, <1>4, <2>2, <2>3, <2>4 DEF Stepped, Stepped2
<1> QED
  BY <1>1, <1>3, <1>4

(* The current thread makes a call, and the bookkeeping follows. *)
LEMMA RunThread2 ==
  ASSUME NEW n \in Nat, KernelFits(kernel, n, 1, phase), SecondFits(kernel, n, phase, exist),
         \A t \in 1..n \ {1} : "exit" \notin ToSet(kernel.threads[t].routine),
         Lvl2!RunThread
  PROVE  Stepped2(n, n)
<1> DEFINE k == kernel
           b == Advanced(k)
           call == k.threads[k.current].routine[k.threads[k.current].pc]
<1>1. /\ Sound(k, n) /\ phase \in {"bootRun", "run"} /\ k.current # 1
      /\ k.threads[k.current].state = "RUNNING" /\ k.current \in 0..n /\ k.current # 0
      /\ kernel' = Lvl2!Called(b, call)
      /\ phase' = IF phase = "bootRun" THEN "boot" ELSE "reap"
      /\ exist' = exist
  BY DEF KernelFits, Sound, Kernels, Lvl2!RunThread, Lvl2!Running, Lvl2!Current, Lvl2!Idle,
         Lvl2!CallOf, Advanced
<1>2. Calling(k, n)
  BY <1>1 DEF Calling
<1>3. /\ Sound(b, n) /\ Calling(b, n) /\ b.current = k.current /\ b.owner = k.owner
      /\ b.waiters = k.waiters /\ b.owned = k.owned /\ b.refs = k.refs
      /\ \A t \in 1..n : b.threads[t].state = k.threads[t].state
  BY <1>1, <1>2, PcEffect
<1>4. call # "exit"
  <2>1. k.current \in 1..n \ {1}
    BY <1>1, <1>2 DEF Calling
  <2>2. k.threads[k.current].pc \in DOMAIN k.threads[k.current].routine
    BY <1>1, <2>1 DEF KernelFits, HoldersFit
  <2>3. call \in ToSet(k.threads[k.current].routine)
    BY <2>2 DEF ToSet
  <2> QED
    BY <2>1, <2>3
<1> HIDE DEF b
<1>5. Permitted(b, call)
  BY <1>1, <1>2, <1>3, CallPermitted DEF KernelFits
<1> HIDE DEF call
<1>6. Tally(b, n)
  <2>1. k.owner \in 0..n
    BY <1>1 DEF Sound, Kernels
  <2> QED
    BY <1>3, <2>1 DEF SecondFits, Tally
<1>7. Effect(kernel', b, n, call) /\ Tally(kernel', n) /\ Counted(kernel', b)
  BY <1>1, <1>3, <1>4, <1>5, <1>6, Called2
<1>8. KernelFits(kernel', n, 1, phase') /\ MutexStep(kernel, kernel', n)
  <2>1. Effect(kernel', b, n, k.threads[k.current].routine[k.threads[k.current].pc]) /\ b = Advanced(k)
    BY <1>7 DEF call, b
  <2>2. /\ phase \in {"bootRun", "run"} /\ kernel.current # 1
        /\ phase' = "boot" => phase = "bootRun"
        /\ phase' # "bootRun"
    BY <1>1
  <2> QED
    BY <1>2, <2>1, <2>2, FitsCalled
<1>9. kernel' \in Kernels(n) /\ b \in Kernels(n) /\ kernel'.current # 1
  BY <1>1, <1>3, <1>7 DEF Effect, Sound
<1>10. phase' # "run"
  BY <1>1
<1>11. SecondFits(kernel', n, phase', exist)
  BY <1>1, <1>3, <1>7, <1>9, <1>10, SecondCalled
<1> QED
  BY <1>1, <1>8, <1>11 DEF Stepped, Stepped2

(* The idle thread does nothing. *)
LEMMA IdleThread2 ==
  ASSUME NEW n \in Nat, KernelFits(kernel, n, 1, phase), SecondFits(kernel, n, phase, exist),
         Lvl2!IdleThread
  PROVE  Stepped2(n, n)
<1>1. /\ Sound(kernel, n) /\ phase' = "reap" /\ kernel.current # 0
      /\ kernel' = kernel /\ exist' = exist
  BY DEF KernelFits, Lvl2!IdleThread, Lvl2!Idle
<1>2. Steady(kernel, kernel, n)
  BY <1>1, SameSteady
<1>3. KernelFits(kernel, n, 1, "reap")
  BY <1>1, <1>2, FitsSteady DEF Onwards
<1>4. SecondFits(kernel, n, "reap", exist)
  BY DEF SecondFits
<1>5. MutexStep(kernel, kernel', n)
  BY <1>1, SteadyMutex
<1> QED
  BY <1>1, <1>3, <1>4, <1>5 DEF Stepped, Stepped2

(* The process closes its handle when its threads have terminated. *)
LEMMA Reap2 ==
  ASSUME NEW n \in Nat, KernelFits(kernel, n, 1, phase), SecondFits(kernel, n, phase, exist),
         exist \in BOOLEAN, Lvl2!Reap
  PROVE  Stepped2(n, n)
<1>1. /\ Sound(kernel, n) /\ kernel \in Kernels(n) /\ phase = "reap" /\ phase' = "timer"
      /\ kernel.current # 0
      /\ \/ exist /\ ~exist' /\ exist' \in BOOLEAN /\ kernel' = WithRefs(kernel, kernel.refs - 1)
         \/ kernel' = kernel /\ exist' = exist
  BY DEF KernelFits, Sound, Lvl2!Reap, WithRefs
<1>2. CASE exist /\ ~exist' /\ exist' \in BOOLEAN /\ kernel' = WithRefs(kernel, kernel.refs - 1)
  <2>1. KernelFits(kernel, n, 1, "reap") /\ SecondFits(kernel, n, "reap", TRUE)
    BY <1>1, <1>2 DEF SecondFits
  <2>2. KernelFits(kernel', n, 1, "timer") /\ SecondFits(kernel', n, "timer", FALSE)
    BY <1>2, <2>1, RefsFits
  <2>3. SecondFits(kernel', n, "timer", exist')
    BY <1>2, <2>2 DEF SecondFits
  <2>4. MutexStep(kernel, kernel', n)
    <3>1. Tallied(kernel', kernel, n)
      <4>1. kernel.refs - 1 \in Int
        BY <1>1 DEF Kernels
      <4> QED
        BY <1>1, <1>2, <4>1, RefsRecord
    <3> QED
      BY <3>1, SteadyMutex DEF Tallied
  <2> QED
    BY <1>1, <2>2, <2>3, <2>4 DEF Stepped, Stepped2
<1>3. CASE kernel' = kernel /\ exist' = exist
  <2>1. Steady(kernel, kernel, n)
    BY <1>1, SameSteady
  <2>2. KernelFits(kernel, n, 1, "timer")
    BY <1>1, <2>1, FitsSteady DEF Onwards
  <2>3. SecondFits(kernel, n, "timer", exist)
    BY DEF SecondFits
  <2>4. MutexStep(kernel, kernel', n)
    BY <1>3, SteadyMutex
  <2> QED
    BY <1>1, <1>3, <2>2, <2>3, <2>4 DEF Stepped, Stepped2
<1> QED
  BY <1>1, <1>2, <1>3

----------------------------------------------------------------------------
(* Every step of either stage *)

Size == Len(kernel.threads)
IdleOf(s) == IF s = 1 THEN 2 ELSE 1

IInv ==
  /\ stage \in {1, 2} /\ exist \in BOOLEAN /\ Size \in 1..MAX_THREADS
  /\ KernelFits(kernel, Size, IdleOf(stage), phase)
  /\ stage = 2 => SecondFits(kernel, Size, phase, exist)
  /\ OfStage

(* A kernel main has just filled. *)
Filled(th, n, idle) ==
  /\ th \in [1..n -> ThreadRecords] /\ idle \in 1..n
  /\ \A t \in 1..n : th[t].state = "READY"
  /\ \A t \in 1..n \ {idle} : th[t].routine \in BootRoutines /\ th[t].pc = 1

(* It satisfies the invariant. *)
LEMMA AtBootFits ==
  ASSUME NEW n \in Nat, NEW idle, NEW th, Filled(th, n, idle), NEW refs \in Int,
         NEW k, k = AtBoot(th, refs)
  PROVE  /\ KernelFits(k, n, idle, "boot") /\ Tally(k, n) /\ k.refs = refs
         /\ k.current = 0 /\ k.owner = 0 /\ k.waiters = <<>> /\ k.threads = th
<1> USE DEF Filled
<1>1. /\ k.threads = th /\ k.current = 0 /\ ~k.reschedule /\ k.owner = 0 /\ k.waiters = <<>>
      /\ ~k.signaled /\ k.ioWaiters = <<>> /\ k.owned = {} /\ k.refs = refs
  BY DEF AtBoot
<1>2. <<>> \in Seq(1..n) /\ ToSet(<<>>) = {} /\ IsInjective(<<>>)
  BY DEF ToSet, IsInjective
<1>3. k \in Kernels(n)
  BY <1>2 DEF AtBoot, Kernels
<1>4. Sound(k, n)
  BY <1>1, <1>2, <1>3 DEF Sound, QueuesFit, MutexFits
<1>5. \A t \in 1..n : ~Has(k, t)
  BY <1>1, <1>2 DEF Has
<1>6. ASSUME NEW t \in 1..n \ {idle}
      PROVE  /\ k.threads[t].routine \in Routines
             /\ k.threads[t].pc \in DOMAIN k.threads[t].routine
             /\ ~Holds(k.threads[t].routine, k.threads[t].pc)
  <2>1. k.threads[t].routine \in Routines /\ RoutineFormed(k.threads[t].routine) /\ k.threads[t].pc = 1
    BY <1>1, <1>6, ScanAssumption DEF ScanAssumption
  <2> QED
    BY <2>1, FirstCall
<1>7. HoldersFit(k, n, idle)
  BY <1>1, <1>5, <1>6 DEF HoldersFit
<1>8. Tally(k, n)
  BY <1>1 DEF Tally
<1> QED
  BY <1>1, <1>4, <1>7, <1>8 DEF KernelFits

(* The record of a thread that has not begun. *)
LEMMA NewRecord ==
  ASSUME NEW r \in Routines \cup {<<>>}, NEW p \in Nat
  PROVE  /\ NewThread(r, p) \in ThreadRecords
         /\ NewThread(r, p).routine = r /\ NewThread(r, p).pc = 1 /\ NewThread(r, p).state = "READY"
<1>1. QUANTUM \in Nat /\ 1 \in Nat
  BY ScanAssumption DEF ScanAssumption
<1> QED
  BY <1>1 DEF NewThread, ThreadRecords, ThreadStates

(* The boot of either stage. *)
LEMMA InitInvariant ==
  Init => IInv /\ Mutex!Init
<1> SUFFICES ASSUME Init PROVE IInv /\ Mutex!Init
  OBVIOUS
<1>1. stage \in {1, 2} /\ OfStage /\ MAX_THREADS \in Nat \ {0, 1} /\ ToSet(<<>>) = {}
  BY ScanAssumption DEF Init, ScanAssumption, ToSet
<1>2. CASE stage = 1
  <2>1. PICK r \in BootRoutines, p \in UserPriorities :
          kernel = AtBoot(<<NewThread(r, p), NewThread(<<>>, 0)>>, 0)
    BY <1>2, Shared1Threads DEF Init, Lvl1!Init
  <2>2. exist = FALSE /\ phase = "boot"
    BY <1>2 DEF Init, Lvl1!Init
  <2> DEFINE th == <<NewThread(r, p), NewThread(<<>>, 0)>>
  <2>3. r \in Routines /\ p \in Nat
    BY ScanAssumption DEF ScanAssumption
  <2>4. /\ NewThread(r, p) \in ThreadRecords /\ NewThread(<<>>, 0) \in ThreadRecords
        /\ NewThread(r, p).routine = r /\ NewThread(r, p).pc = 1
        /\ NewThread(r, p).state = "READY" /\ NewThread(<<>>, 0).state = "READY"
    BY <2>3, NewRecord
  <2>5. th \in [1..2 -> ThreadRecords] /\ th[1] = NewThread(r, p) /\ th[2] = NewThread(<<>>, 0)
    BY <2>4
  <2> HIDE DEF th
  <2>6. Filled(th, 2, 2)
    BY <2>4, <2>5 DEF Filled
  <2>7. kernel = AtBoot(th, 0) /\ 2 \in Nat /\ 0 \in Int
    BY <2>1 DEF th
  <2>8. /\ KernelFits(kernel, 2, 2, "boot")
        /\ kernel.owner = 0 /\ kernel.waiters = <<>> /\ kernel.threads = th
    BY <2>6, <2>7, AtBootFits
  <2>9. Size = 2
    BY <2>5, <2>7, <2>8, TableLength DEF Size
  <2>10. Size \in 1..MAX_THREADS
    BY <1>1, <2>9
  <2>11. IInv
    <3>1. IdleOf(stage) = 2 /\ stage # 2 /\ exist \in BOOLEAN
      <4>1. IdleOf(1) = 2 /\ 1 # 2
        BY DEF IdleOf
      <4>2. exist \in BOOLEAN
        BY <2>2
      <4> QED
        BY <1>2, <4>1, <4>2
    <3>2. KernelFits(kernel, Size, IdleOf(stage), phase)
      BY <2>2, <2>8, <2>9, <3>1
    <3> QED
      BY <1>1, <2>10, <3>1, <3>2 DEF IInv
  <2> QED
    BY <1>1, <2>8, <2>11 DEF Mutex!Init, Waiting
<1>3. CASE stage = 2
  <2>1. kernel = AtBoot(<<NewThread(<<>>, 1)>>, 2) /\ exist = TRUE /\ phase = "boot"
    BY <1>3, Shared2Threads DEF Init, Lvl2!Init
  <2> DEFINE th == <<NewThread(<<>>, 1)>>
  <2>2. NewThread(<<>>, 1) \in ThreadRecords /\ NewThread(<<>>, 1).state = "READY"
    BY NewRecord
  <2>3. th \in [1..1 -> ThreadRecords] /\ th[1] = NewThread(<<>>, 1)
    BY <2>2
  <2> HIDE DEF th
  <2>4. Filled(th, 1, 1)
    BY <2>2, <2>3 DEF Filled
  <2>5. kernel = AtBoot(th, 2) /\ 1 \in Nat /\ 2 \in Int
    BY <2>1 DEF th
  <2>6. /\ KernelFits(kernel, 1, 1, "boot") /\ Tally(kernel, 1) /\ kernel.refs = 2
        /\ kernel.current = 0 /\ kernel.owner = 0 /\ kernel.waiters = <<>> /\ kernel.threads = th
    BY <2>4, <2>5, AtBootFits
  <2>7. Size = 1
    BY <2>3, <2>5, <2>6, TableLength DEF Size
  <2>8. Size \in 1..MAX_THREADS
    BY <1>1, <2>7
  <2>9. SecondFits(kernel, 1, "boot", TRUE)
    <3>1. Len(kernel.waiters) = 0
      BY <2>6
    <3>2. kernel.refs = 1 + 1 + Len(kernel.waiters)
      BY <2>6, <3>1
    <3> QED
      BY <2>6, <3>2 DEF SecondFits
  <2>10. IInv
    BY <1>1, <1>3, <2>1, <2>6, <2>7, <2>8, <2>9 DEF IInv, IdleOf
  <2> QED
    BY <1>1, <2>6, <2>10 DEF Mutex!Init, Waiting
<1> QED
  BY <1>1, <1>2, <1>3

(* What every step of main does to a kernel of n threads. *)
LEMMA StepFits ==
  ASSUME IInv, Step, NEW n, n = Size
  PROVE  \E m \in 1..MAX_THREADS :
           /\ Stepped(n, m, IdleOf(stage))
           /\ stage = 2 => SecondFits(kernel', m, phase', exist')
           /\ stage' = stage /\ exist' \in BOOLEAN
<1>1. /\ n \in Nat /\ n \in 1..MAX_THREADS /\ MAX_THREADS \in Nat /\ stage' = stage
      /\ exist \in BOOLEAN /\ stage \in {1, 2}
  BY ScanAssumption DEF IInv, Step, ScanAssumption
<1>2. CASE stage = 1
  <2>1. KernelFits(kernel, n, 2, phase) /\ Lvl1!Next /\ exist' = exist
    BY <1>2 DEF IInv, IdleOf, Step
  <2>2. ASSUME NEW r \in Routines, NEW p \in UserPriorities, Lvl1!CreateThread(r, p)
        PROVE  Stepped(n, n + 1, 2) /\ n + 1 \in 1..MAX_THREADS
    <3>1. Stepped(n, n + 1, 2) /\ n < MAX_THREADS
      BY <1>1, <2>1, <2>2, CreateThread1
    <3> QED
      BY <1>1, <3>1
  <2>3. CASE \E r \in Routines, p \in UserPriorities : Lvl1!CreateThread(r, p)
    BY <1>1, <1>2, <2>1, <2>2, <2>3 DEF IdleOf
  <2>4. CASE ~\E r \in Routines, p \in UserPriorities : Lvl1!CreateThread(r, p)
    <3>1. Stepped(n, n, 2)
      BY <1>1, <2>1, <2>4, BootSchedule1, StartLoop1, TimerDPC1, RunThread1, IdleThread1, Dispatch1
         DEF Lvl1!Next
    <3> QED
      BY <1>1, <1>2, <2>1, <3>1 DEF IdleOf
  <2> QED
    BY <2>3, <2>4
<1>3. CASE stage = 2
  <2>1. KernelFits(kernel, n, 1, phase) /\ SecondFits(kernel, n, phase, exist) /\ Lvl2!Next
    BY <1>3 DEF IInv, IdleOf, Step
  <2>2. exist' \in BOOLEAN
    BY <1>1, <2>1 DEF Lvl2!Next, Lvl2!CreateThread, Lvl2!BootSchedule, Lvl2!StartLoop,
       Lvl2!TimerDPC, Lvl2!Dispatch, Lvl2!RunThread, Lvl2!IdleThread, Lvl2!Reap
  <2>3. \A t \in 1..n \ {1} : "exit" \notin ToSet(kernel.threads[t].routine)
    <3> TAKE t \in 1..n \ {1}
    <3>1. kernel.threads[t].routine \in Routines /\ DOMAIN kernel.threads = 1..n
      BY <2>1 DEF KernelFits, HoldersFit, Sound, Kernels
    <3>2. kernel.threads[t].routine # <<>>
      BY <3>1, ScanAssumption DEF ScanAssumption, RoutineFormed
    <3>3. kernel.threads[t].routine \in StageRoutines[2]
      BY <1>3, <3>1, <3>2 DEF IInv, OfStage, Runs
    <3> QED
      BY <3>3, StageAssumption DEF StageAssumption
  <2>4. ASSUME NEW r \in Routines, NEW p \in UserPriorities, Lvl2!CreateThread(r, p)
        PROVE  Stepped2(n, n + 1) /\ n + 1 \in 1..MAX_THREADS
    <3>1. Stepped2(n, n + 1) /\ n < MAX_THREADS
      BY <1>1, <2>1, <2>4, CreateThread2
    <3> QED
      BY <1>1, <3>1
  <2>5. CASE \E r \in Routines, p \in UserPriorities : Lvl2!CreateThread(r, p)
    BY <1>1, <1>3, <2>2, <2>4, <2>5 DEF IdleOf, Stepped2
  <2>6. CASE ~\E r \in Routines, p \in UserPriorities : Lvl2!CreateThread(r, p)
    <3>1. Stepped2(n, n)
      BY <1>1, <2>1, <2>3, <2>6, BootSchedule2, StartLoop2, TimerDPC2, Dispatch2, RunThread2,
         IdleThread2, Reap2 DEF Lvl2!Next
    <3> QED
      BY <1>1, <1>3, <2>2, <3>1 DEF IdleOf, Stepped2
  <2> QED
    BY <2>5, <2>6
<1> QED
  BY <1>1, <1>2, <1>3

(* Every call main makes keeps the invariant. *)
LEMMA NextInvariant ==
  IInv /\ [Step]_vars => IInv'
<1> SUFFICES ASSUME IInv, [Step]_vars PROVE IInv'
  OBVIOUS
<1>1. CASE UNCHANGED vars
  BY <1>1 DEF IInv, vars, Size, OfStage
<1>2. CASE Step
  <2>1. PICK m \in 1..MAX_THREADS :
          /\ Stepped(Size, m, IdleOf(stage))
          /\ stage = 2 => SecondFits(kernel', m, phase', exist')
          /\ stage' = stage /\ exist' \in BOOLEAN
    BY <1>2, StepFits
  <2>2. kernel'.threads \in [1..m -> ThreadRecords] /\ m \in Nat
    BY <2>1, ScanAssumption DEF Stepped, KernelFits, Sound, Kernels, ScanAssumption
  <2>3. Size' = m
    BY <2>2, TableLength DEF Size
  <2>4. OfStage' /\ stage \in {1, 2}
    BY <1>2 DEF Step, IInv
  <2> QED
    BY <2>1, <2>3, <2>4 DEF IInv, Stepped
<1> QED
  BY <1>1, <1>2

(* The inductive invariant of both stages: n threads in a sound kernel, whose    *)
(* routines hold the mutex exactly when their calls say so, and in the second    *)
(* stage whose reference count and owned_mutex are exact, at every call of main. *)
THEOREM Invariant == Spec => []IInv
BY InitInvariant, NextInvariant, PTL DEF Spec

----------------------------------------------------------------------------
(* The properties *)

(* Two queues without a common or a repeated element, one after the other. *)
LEMMA QueuesTogether ==
  ASSUME NEW S, NEW s \in Seq(S), NEW q \in Seq(S),
         IsInjective(s), IsInjective(q), ToSet(s) \cap ToSet(q) = {}
  PROVE  IsInjective(s \o q) /\ ToSet(s \o q) = ToSet(s) \cup ToSet(q)
<1> DEFINE c == s \o q
           m == Len(s)
<1>1. /\ c \in Seq(S) /\ m \in Nat /\ Len(q) \in Nat /\ Len(c) = m + Len(q)
      /\ \A i \in 1..(m + Len(q)) : c[i] = IF i <= m THEN s[i] ELSE q[i - m]
      /\ DOMAIN s = 1..m /\ DOMAIN q = 1..Len(q) /\ DOMAIN c = 1..(m + Len(q))
  BY ConcatProperties, LenProperties
<1> HIDE DEF c, m
<1>2. /\ \A i \in 1..m : c[i] = s[i] /\ i \in DOMAIN c
      /\ \A i \in 1..Len(q) : c[m + i] = q[i] /\ m + i \in DOMAIN c
      /\ \A i \in DOMAIN c : i \in 1..m \/ \E j \in 1..Len(q) : i = m + j
  <2>1. ASSUME NEW i \in 1..Len(q) PROVE c[m + i] = q[i] /\ m + i \in DOMAIN c
    <3>1. m + i \in 1..(m + Len(q)) /\ ~(m + i <= m) /\ (m + i) - m = i
      BY <1>1
    <3> QED
      BY <1>1, <3>1
  <2>2. ASSUME NEW i \in DOMAIN c, i \notin 1..m PROVE \E j \in 1..Len(q) : i = m + j
    <3>1. i - m \in 1..Len(q) /\ i = m + (i - m)
      BY <1>1, <2>2
    <3> QED
      BY <3>1
  <2> QED
    <3>1. \A i \in 1..Len(q) : c[m + i] = q[i] /\ m + i \in DOMAIN c
      BY <2>1
    <3>2. \A i \in DOMAIN c : i \in 1..m \/ \E j \in 1..Len(q) : i = m + j
      BY <2>2
    <3>3. ASSUME NEW i \in 1..m PROVE c[i] = s[i] /\ i \in DOMAIN c
      <4>1. i \in 1..(m + Len(q)) /\ i <= m
        BY <1>1
      <4> QED
        BY <1>1, <4>1
    <3> QED
      BY <3>1, <3>2, <3>3
<1>3. ToSet(c) = ToSet(s) \cup ToSet(q)
  <2>1. ToSet(s) \cup ToSet(q) \subseteq ToSet(c)
    <3>1. ASSUME NEW i \in 1..m PROVE s[i] \in ToSet(c)
      BY <1>2 DEF ToSet
    <3>2. ASSUME NEW i \in 1..Len(q) PROVE q[i] \in ToSet(c)
      BY <1>2 DEF ToSet
    <3> QED
      BY <1>1, <3>1, <3>2 DEF ToSet
  <2>2. ToSet(c) \subseteq ToSet(s) \cup ToSet(q)
    <3>1. ASSUME NEW i \in DOMAIN c PROVE c[i] \in ToSet(s) \cup ToSet(q)
      <4>1. CASE i \in 1..m
        BY <1>1, <1>2, <4>1 DEF ToSet
      <4>2. CASE \E j \in 1..Len(q) : i = m + j
        BY <1>1, <1>2, <4>2 DEF ToSet
      <4> QED
        BY <1>2, <4>1, <4>2
    <3> QED
      BY <3>1 DEF ToSet
  <2> QED
    BY <2>1, <2>2
<1>4. ASSUME NEW i \in DOMAIN c, NEW j \in DOMAIN c, c[i] = c[j] PROVE i = j
  <2>1. \A x \in 1..m, y \in 1..Len(q) : s[x] # q[y]
    BY <1>1 DEF ToSet
  <2>2. CASE i \in 1..m /\ j \in 1..m
    BY <1>1, <1>2, <1>4, <2>2 DEF IsInjective
  <2>3. ASSUME NEW y \in 1..Len(q), j = m + y, i \in 1..m PROVE FALSE
    BY <1>2, <1>4, <2>1, <2>3
  <2>4. ASSUME NEW x \in 1..Len(q), i = m + x, j \in 1..m PROVE FALSE
    BY <1>2, <1>4, <2>1, <2>4
  <2>5. ASSUME NEW x \in 1..Len(q), i = m + x, NEW y \in 1..Len(q), j = m + y PROVE i = j
    <3>1. q[x] = q[y]
      BY <1>2, <1>4, <2>5
    <3>2. x = y
      BY <1>1, <3>1 DEF IsInjective
    <3> QED
      BY <2>5, <3>2
  <2> QED
    BY <1>2, <2>2, <2>3, <2>4, <2>5
<1>5. IsInjective(c)
  BY <1>4 DEF IsInjective
<1> QED
  BY <1>3, <1>5 DEF c

(* A sound kernel has the properties the stages share. *)
LEMMA ExactQueues ==
  ASSUME NEW n \in Nat, Sound(kernel, n)
  PROVE  WaitQueuesExact /\ PriorityInherited /\ EventNotMissed
<1>1. /\ kernel.waiters \in Seq(1..n) /\ kernel.ioWaiters \in Seq(1..n)
      /\ DOMAIN kernel.threads = 1..n
      /\ IsInjective(kernel.waiters) /\ IsInjective(kernel.ioWaiters)
      /\ ToSet(kernel.waiters) \cap ToSet(kernel.ioWaiters) = {}
  BY DEF Sound, Kernels, QueuesFit
<1>2. /\ IsInjective(kernel.waiters \o kernel.ioWaiters)
      /\ ToSet(kernel.waiters \o kernel.ioWaiters) = ToSet(kernel.waiters) \cup ToSet(kernel.ioWaiters)
  BY <1>1, QueuesTogether
<1>3. ToSet(kernel.waiters) \cup ToSet(kernel.ioWaiters) \subseteq 1..n
  BY <1>1, QueueFacts
<1>4. InState(kernel, "BLOCKED") = ToSet(kernel.waiters) \cup ToSet(kernel.ioWaiters)
  BY <1>1, <1>3 DEF InState, Sound, QueuesFit
<1>5. PriorityInherited
  BY DEF PriorityInherited, Sound, MutexFits, Waiting, Priority
<1>6. EventNotMissed
  BY DEF EventNotMissed, Sound
<1> QED
  BY <1>2, <1>4, <1>5, <1>6 DEF WaitQueuesExact

(* Who comes to release the mutex owns it. *)
LEMMA ReleasesOwned ==
  ASSUME NEW n \in Nat, NEW idle, NEW ph, KernelFits(kernel, n, idle, ph), kernel.current # idle,
         Calling(kernel, n),
         kernel.threads[kernel.current].routine[kernel.threads[kernel.current].pc] \in Releases
  PROVE  kernel.owner = kernel.current
<1>1. Permitted(kernel, kernel.threads[kernel.current].routine[kernel.threads[kernel.current].pc])
  BY CallPermitted DEF KernelFits
<1>2. Has(kernel, kernel.current)
  BY <1>1 DEF Permitted
<1> QED
  BY <1>2, RunningOwns DEF KernelFits

(* The invariant contains what KernelExact says. *)
LEMMA ExactStages ==
  IInv => KernelExact
<1> SUFFICES ASSUME IInv PROVE KernelExact
  OBVIOUS
<1> DEFINE n == Size
<1>1. n \in Nat /\ KernelFits(kernel, n, IdleOf(stage), phase)
  BY ScanAssumption DEF IInv, ScanAssumption
<1> HIDE DEF n
<1>2. Sound(kernel, n) /\ kernel.current \in 0..n /\ DOMAIN kernel.threads = 1..n
  BY <1>1 DEF KernelFits, Sound, Kernels
<1>3. phase # "boot" => kernel.current \in 1..n
  BY <1>1, <1>2 DEF KernelFits
<1>4. WaitQueuesExact /\ PriorityInherited /\ EventNotMissed
  BY <1>1, <1>2, ExactQueues
<1>5. ASSUME stage = 1 PROVE Lvl1!ReleasedByOwner
  <2> SUFFICES ASSUME phase \in {"bootRun", "run"}, kernel.current # 2,
                      kernel.threads[kernel.current].state = "RUNNING",
                      kernel.threads[kernel.current].routine[kernel.threads[kernel.current].pc] \in Releases
               PROVE  kernel.owner = kernel.current
    BY DEF Lvl1!ReleasedByOwner, Lvl1!Idle, Lvl1!Current, Lvl1!CallOf, Lvl1!Releases, Releases
  <2>1. Calling(kernel, n)
    BY <1>3 DEF Calling
  <2>2. KernelFits(kernel, n, 2, phase)
    BY <1>1, <1>5 DEF IdleOf
  <2> QED
    BY <1>1, <2>1, <2>2, ReleasesOwned
<1>6. ASSUME stage = 2 PROVE Lvl2!OneThreadRuns /\ Lvl2!OwnerKnown /\ Lvl2!ReferencesExact
  <2>1. KernelFits(kernel, n, 1, phase) /\ SecondFits(kernel, n, phase, exist)
    BY <1>1, <1>6 DEF IdleOf, IInv, n
  <2>2. Lvl2!OneThreadRuns
    BY <1>2, <2>1 DEF Lvl2!OneThreadRuns, Lvl2!InState, Lvl2!Current, Sound, SecondFits
  <2>3. ASSUME phase \in {"bootRun", "run"}, kernel.current # 1,
               kernel.threads[kernel.current].state = "RUNNING",
               kernel.threads[kernel.current].routine[kernel.threads[kernel.current].pc] \in Releases
        PROVE  kernel.owner = kernel.current
    <3>1. Calling(kernel, n)
      BY <1>3, <2>3 DEF Calling
    <3> QED
      BY <1>1, <2>1, <2>3, <3>1, ReleasesOwned
  <2>4. Lvl2!OwnerKnown
    BY <1>2, <2>1, <2>3 DEF Lvl2!OwnerKnown, Lvl2!Running, Lvl2!Current, Lvl2!Idle, Lvl2!CallOf,
       Lvl2!Releases, Releases, SecondFits, Tally
  <2>5. Lvl2!ReferencesExact
    BY <2>1 DEF Lvl2!ReferencesExact, SecondFits
  <2> QED
    BY <2>2, <2>4, <2>5
<1> QED
  BY <1>4, <1>5, <1>6 DEF KernelExact

(* Whatever routines run, at any call main makes: the BLOCKED threads of      *)
(* either stage are those queued, each once; nobody waits for a lower owner   *)
(* or for a completion that is remembered; only an owner releases the mutex;  *)
(* in the second stage one thread runs and main finds it, owned_mutex names   *)
(* the owner and the reference count is exact.                                *)
THEOREM KernelExactHolds == Spec => []KernelExact
BY Invariant, ExactStages, PTL

----------------------------------------------------------------------------
(* The mutex *)

(* Every call main makes is a step of the abstract mutex or none. *)
LEMMA MutexImplements ==
  IInv /\ [Step]_vars => [Mutex!Next]_(Mutex!vars)
<1> SUFFICES ASSUME IInv, [Step]_vars PROVE [Mutex!Next]_(Mutex!vars)
  OBVIOUS
<1> USE DEF Mutex!vars, Waiting
<1>1. CASE UNCHANGED vars
  BY <1>1 DEF vars
<1>2. CASE Step
  <2> DEFINE n == Size
             w == ToSet(kernel.waiters)
             v == ToSet(kernel'.waiters)
  <2>1. /\ n \in 1..MAX_THREADS /\ n \in Nat /\ MAX_THREADS \in Nat
        /\ KernelFits(kernel, n, IdleOf(stage), phase)
    BY ScanAssumption DEF IInv, ScanAssumption
  <2> HIDE DEF n
  <2>2. PICK m : Stepped(n, m, IdleOf(stage))
    BY <1>2, StepFits DEF n
  <2>3. MutexStep(kernel, kernel', n)
    BY <2>2 DEF Stepped
  <2>4. 1..n \subseteq Threads
    BY <2>1 DEF Threads
  <2>5. kernel.waiters \in Seq(1..n)
    BY <2>1 DEF KernelFits, Sound, Kernels
  <2>6. w \subseteq 1..n
    BY <2>5, QueueFacts
  <2>7. CASE kernel'.owner = kernel.owner /\ v = w
    BY <2>7
  <2>8. CASE kernel.owner = 0 /\ kernel'.owner \in 1..n /\ v = w
    <3>1. Mutex!Acquire(kernel'.owner)
      BY <2>8 DEF Mutex!Acquire
    <3> QED
      BY <2>4, <2>8, <3>1 DEF Mutex!Next
  <2>9. ASSUME kernel.owner # 0, kernel'.owner = kernel.owner,
               NEW t \in 1..n, t \notin w \cup {kernel.owner}, v = w \cup {t}
        PROVE  Mutex!Next
    <3>1. Mutex!Wait(t)
      BY <2>9 DEF Mutex!Wait
    <3> QED
      BY <2>4, <3>1 DEF Mutex!Next
  <2>10. CASE kernel.owner # 0 /\ kernel'.owner \in w /\ v = w \ {kernel'.owner}
    <3>1. Mutex!HandOff(kernel'.owner)
      BY <2>10 DEF Mutex!HandOff
    <3> QED
      BY <2>4, <2>6, <2>10, <3>1 DEF Mutex!Next
  <2>11. CASE kernel.owner # 0 /\ w = {} /\ kernel'.owner = 0 /\ v = w
    <3>1. Mutex!Free
      BY <2>11 DEF Mutex!Free
    <3> QED
      BY <3>1 DEF Mutex!Next
  <2> QED
    BY <2>3, <2>7, <2>8, <2>9, <2>10, <2>11 DEF MutexStep
<1> QED
  BY <1>1, <1>2

(* The mutex of either stage, with its queue of waiters and whatever the       *)
(* scheduler does between two calls, is the exclusive mutex with hand-off of   *)
(* MutexService.                                                               *)
THEOREM MutexImplemented == Spec => ImplementsMutex
BY InitInvariant, Invariant, MutexImplements, PTL DEF Spec, ImplementsMutex, Mutex!Spec
================================================================================
