-------------------------- MODULE MesiCache_proofs --------------------------
(***************************************************************************)
(* Proofs about the MESI caches, for every number of cores, of lines per   *)
(* cache and of words per line.                                            *)
(***************************************************************************)
EXTENDS MesiCache, FiniteSetTheorems, TLAPS

----------------------------------------------------------------------------
(* Addresses *)

(* Quotient and remainder are unique. *)
LEMMA DivisionUnique ==
  ASSUME NEW n \in Nat \ {0}, NEW q \in Nat, NEW r \in 0..(n - 1)
  PROVE  (q * n + r) \div n = q /\ (q * n + r) % n = r
<1> DEFINE x == q * n + r
           d == x \div n
           m == x % n
<1>1. x \in Nat
  OBVIOUS
<1>2. d \in Int /\ m \in 0..(n - 1) /\ x = n * d + m
  BY <1>1
<1>3. n * (q - d) = m - r
  <2>1. q * n + r = n * d + m
    BY <1>2
  <2>2. n * (q - d) = n * q - n * d
    BY <1>2
  <2>3. n * q = q * n
    OBVIOUS
  <2>4. n * q \in Int /\ n * d \in Int /\ n * (q - d) \in Int
    BY <1>2
  <2> HIDE DEF d, m
  <2> QED
    BY <1>2, <2>1, <2>2, <2>3, <2>4
<1> DEFINE k == q - d
<1>4. k \in Int
  BY <1>2
<1> HIDE DEF d, m, k
<1>5. k < 1
  <2> SUFFICES ASSUME k >= 1 PROVE FALSE
    BY <1>4
  <2>1. n * k >= n
    BY <1>4
  <2> QED
    BY <1>2, <1>3, <1>4, <2>1 DEF k
<1>6. k > -1
  <2> SUFFICES ASSUME k <= -1 PROVE FALSE
    BY <1>4
  <2>1. n * k <= -n
    BY <1>4
  <2> QED
    BY <1>2, <1>3, <1>4, <2>1 DEF k
<1>7. d = q
  BY <1>2, <1>4, <1>5, <1>6 DEF k
<1>8. m = r
  BY <1>2, <1>3, <1>7
<1> QED
  BY <1>7, <1>8 DEF d, m

(* An address is a word of its line, and the words of a line are addresses *)
(* of it.                                                                  *)
LEMMA WordsOfLines ==
  /\ \A a \in Addresses : /\ LineOf(a) \in Lines /\ WordOf(a) \in Words
                          /\ AddressOf(LineOf(a), WordOf(a)) = a
  /\ \A l \in Lines, w \in Words : /\ AddressOf(l, w) \in Addresses
                                   /\ LineOf(AddressOf(l, w)) = l
                                   /\ WordOf(AddressOf(l, w)) = w
<1>1. ASSUME NEW a \in Addresses
      PROVE  /\ LineOf(a) \in Lines /\ LineOf(a) \in Nat /\ WordOf(a) \in Words
             /\ AddressOf(LineOf(a), WordOf(a)) = a
  <2>1. a \in Nat /\ CACHE_LINE_DATA_WORDS \in Nat \ {0}
    BY CacheAssumption
  <2> QED
    BY <2>1 DEF LineOf, WordOf, AddressOf, Lines, Words
<1>2. ASSUME NEW l \in Lines, NEW w \in Words
      PROVE  /\ AddressOf(l, w) \in Addresses
             /\ LineOf(AddressOf(l, w)) = l
             /\ WordOf(AddressOf(l, w)) = w
  <2>1. l \in Nat /\ CACHE_LINE_DATA_WORDS \in Nat \ {0} /\ w \in 0..(CACHE_LINE_DATA_WORDS - 1)
    BY <1>1, CacheAssumption DEF Lines, Words
  <2>2. AddressOf(l, w) \in Addresses
    BY CacheAssumption
  <2> QED
    BY <2>1, <2>2, DivisionUnique DEF LineOf, WordOf, AddressOf
<1> QED
  BY <1>1, <1>2

----------------------------------------------------------------------------
(* Least and greatest *)

(* A set of naturals has a least element. *)
LEMMA LeastNatural ==
  ASSUME NEW T, T \subseteq Nat, T # {}
  PROVE  \E x \in T : \A y \in T : x <= y
<1>1. PICK x \in T : \A y \in T : <<y, x>> \notin OpToRel(<, Nat)
  BY WFMin, NatLessThanWellFounded, Zenon
<1>2. \A y \in T : ~(y < x)
  BY <1>1, Zenon DEF OpToRel
<1> QED
  BY <1>2

(* Some of the cores have a last one. *)
LEMMA LastCore ==
  ASSUME NEW ds, ds \subseteq Cores, ds # {}
  PROVE  LastOf(ds) \in ds
<1> DEFINE T == {NUM_CORES - d : d \in ds}
<1>1. NUM_CORES \in Nat /\ \A d \in ds : d \in 0..(NUM_CORES - 1)
  BY CacheAssumption DEF Cores
<1>2. T \subseteq Nat /\ T # {}
  BY <1>1
<1>3. PICK x \in T : \A y \in T : x <= y
  <2> HIDE DEF T
  <2> QED
    BY <1>2, LeastNatural
<1>4. PICK d \in ds : x = NUM_CORES - d
  BY <1>3
<1>5. \A e \in ds : e <= d
  <2> TAKE e \in ds
  <2>1. x <= NUM_CORES - e
    BY <1>3
  <2> QED
    BY <1>1, <1>4, <2>1
<1> QED
  BY <1>5 DEF LastOf

(* A cache that is not full has a first empty slot. *)
LEMMA FirstEmptySlot ==
  ASSUME NEW s, NEW c, Filled(s, c) # Slots
  PROVE  EmptySlot(s, c) \in Slots \ Filled(s, c)
<1>1. Slots \ Filled(s, c) \subseteq Nat /\ Slots \ Filled(s, c) # {}
  BY CacheAssumption DEF Slots, Filled
<1>2. \E i \in Slots \ Filled(s, c) : \A j \in Slots \ Filled(s, c) : i <= j
  BY <1>1, LeastNatural
<1> QED
  BY <1>2 DEF EmptySlot

----------------------------------------------------------------------------
(* Slots *)

(* A slot of a cache holds a line or nothing, and a line is not nothing.   *)
LEMMA SlotTypes ==
  ASSUME NEW s \in CacheStates, NEW c \in Cores, NEW i \in Slots
  PROVE  /\ s.cache[c][i] \in CacheLine \cup {Empty}
         /\ s.cache[c][i] # Empty => s.cache[c][i] \in CacheLine
         /\ Empty \notin CacheLine /\ Empty.state \notin Mesi
<1>1. s.cache[c][i] \in CacheLine \cup {Empty}
  BY DEF CacheStates
<1>2. Empty.state = "INVALID" /\ Empty.state \notin Mesi
  BY DEF Empty, Mesi
<1>3. Empty \notin CacheLine
  BY <1>2 DEF CacheLine
<1> QED
  BY <1>1, <1>2, <1>3

(* Where a line is found. *)
LEMMA FoundSlots ==
  ASSUME NEW s \in CacheStates, NEW c \in Cores, NEW l
  PROVE  \A i : i \in Found(s, c, l) <=>
           i \in Slots /\ s.cache[c][i] \in CacheLine /\ s.cache[c][i].line = l
BY SlotTypes DEF Found, Filled

(* A state of the caches with one slot written. *)
LEMMA SlotSet ==
  ASSUME NEW s \in CacheStates, NEW c \in Cores, NEW e \in Slots,
         NEW x \in CacheLine \cup {Empty}
  PROVE  LET r == [s EXCEPT !.cache[c][e] = x]
         IN  /\ r \in CacheStates /\ r.mem = s.mem
             /\ \A d \in Cores, j \in Slots :
                  r.cache[d][j] = IF d = c /\ j = e THEN x ELSE s.cache[d][j]
BY DEF CacheStates

(* CacheFind returns a slot that holds the line. *)
LEMMA CacheFindFinds ==
  ASSUME NEW s, NEW c, NEW l, Holds(s, c, l)
  PROVE  CacheFind(s, c, l) \in Found(s, c, l)
BY DEF Holds, CacheFind

----------------------------------------------------------------------------
(* Coherence, core by core and slot by slot *)

OneWriter(s) ==
  \A l \in Lines, c, d \in Cores : \A i \in Found(s, c, l), j \in Found(s, d, l) :
    (c = d /\ i = j) \/ (c # d /\ s.cache[c][i].state = "SHARED")

HitsAgree(s) ==
  \A l \in Lines, c, d \in Cores : \A i \in Found(s, c, l), j \in Found(s, d, l) :
    s.cache[c][i].data = s.cache[d][j].data

CleanLines(s) ==
  \A l \in Lines, c \in Cores : \A i \in Found(s, c, l) :
    s.cache[c][i].state = "EXCLUSIVE" =>
      \A w \in Words : s.cache[c][i].data[w] = s.mem[AddressOf(l, w)]

Good(s) == s \in CacheStates /\ OneWriter(s) /\ HitsAgree(s) /\ CleanLines(s)

(* This is what Coherent says of the copies of a line. *)
LEMMA GoodIsCoherent ==
  ASSUME NEW s
  PROVE  Good(s) <=> s \in CacheStates /\ SingleWriter(s) /\ CopiesAgree(s)
<1>1. \A l, c, i : <<c, i>> \in Copies(s, l) <=> c \in Cores /\ i \in Slots /\ i \in Found(s, c, l)
  BY DEF Copies
<1>2. \A l : \A p \in Copies(s, l) : p[1] \in Cores /\ p[2] \in Found(s, p[1], l) /\ p = <<p[1], p[2]>>
  BY DEF Copies
<1>3. \A l, c : Found(s, c, l) \subseteq Slots
  BY DEF Found, Filled
<1>4. ASSUME Good(s) PROVE SingleWriter(s) /\ CopiesAgree(s)
  <2>1. SingleWriter(s)
    BY <1>2, <1>4 DEF Good, OneWriter, SingleWriter
  <2>2. CopiesAgree(s)
    BY <1>2, <1>4 DEF Good, HitsAgree, CleanLines, CopiesAgree
  <2> QED
    BY <2>1, <2>2
<1>5. ASSUME s \in CacheStates, SingleWriter(s), CopiesAgree(s) PROVE Good(s)
  <2>1. ASSUME NEW l \in Lines, NEW c \in Cores, NEW d \in Cores,
               NEW i \in Found(s, c, l), NEW j \in Found(s, d, l)
        PROVE  /\ (c = d /\ i = j) \/ (c # d /\ s.cache[c][i].state = "SHARED")
               /\ s.cache[c][i].data = s.cache[d][j].data
               /\ s.cache[c][i].state = "EXCLUSIVE" =>
                    \A w \in Words : s.cache[c][i].data[w] = s.mem[AddressOf(l, w)]
    <3> DEFINE p == <<c, i>>
               q == <<d, j>>
    <3>1. /\ p \in Copies(s, l) /\ q \in Copies(s, l)
          /\ p[1] = c /\ p[2] = i /\ q[1] = d /\ q[2] = j
      BY <1>1, <1>3
    <3>2. p # q => p[1] # q[1] /\ s.cache[p[1]][p[2]].state = "SHARED"
      BY <1>5, <3>1 DEF SingleWriter
    <3>3. /\ s.cache[p[1]][p[2]].data = s.cache[q[1]][q[2]].data
          /\ s.cache[p[1]][p[2]].state = "EXCLUSIVE" =>
               \A w \in Words : s.cache[p[1]][p[2]].data[w] = s.mem[AddressOf(l, w)]
      BY <1>5, <3>1 DEF CopiesAgree
    <3> QED
      BY <3>1, <3>2, <3>3
  <2> QED
    BY <1>5, <2>1 DEF Good, OneWriter, HitsAgree, CleanLines
<1> QED
  BY <1>4, <1>5 DEF Good

(* The value of an address is that of every copy, or that of memory.       *)
LEMMA CurrentValue ==
  ASSUME NEW s, Good(s), NEW a \in Addresses
  PROVE  /\ \A d \in Cores : \A j \in Found(s, d, LineOf(a)) :
              Current(s)[a] = s.cache[d][j].data[WordOf(a)]
         /\ (\A d \in Cores : Found(s, d, LineOf(a)) = {}) => Current(s)[a] = s.mem[a]
<1> DEFINE l == LineOf(a)
<1>1. l \in Lines
  BY WordsOfLines
<1>2. (\A d \in Cores : Found(s, d, l) = {}) => Current(s)[a] = s.mem[a]
  BY DEF Current, Holds
<1>3. ASSUME NEW d \in Cores, NEW j \in Found(s, d, l)
      PROVE  Current(s)[a] = s.cache[d][j].data[WordOf(a)]
  <2> DEFINE e == CHOOSE c \in Cores : Holds(s, c, l)
             k == CacheFind(s, e, l)
  <2>1. \E c \in Cores : Holds(s, c, l)
    BY DEF Holds
  <2>2. e \in Cores /\ Holds(s, e, l)
    BY <2>1
  <2>3. k \in Found(s, e, l)
    BY <2>2, CacheFindFinds
  <2>4. Current(s)[a] = s.cache[e][k].data[WordOf(a)]
    BY <2>1 DEF Current, ValueIn
  <2> HIDE DEF e, k, l
  <2>5. s.cache[e][k].data = s.cache[d][j].data
    BY <1>1, <2>2, <2>3 DEF Good, HitsAgree
  <2> QED
    BY <2>4, <2>5
<1> QED
  BY <1>2, <1>3

----------------------------------------------------------------------------
(* The steps of a load *)

(* Evicting a slot. *)
LEMMA EvictSlots ==
  ASSUME NEW s \in CacheStates, NEW c \in Cores, NEW i \in Slots,
         NEW r, r = CacheEvictLine(s, c, i)
  PROVE  /\ r \in CacheStates
         /\ \A d \in Cores, j \in Slots :
              r.cache[d][j] = IF d = c /\ j = i THEN Empty ELSE s.cache[d][j]
         /\ \A a \in Addresses :
              r.mem[a] = IF s.cache[c][i].state = "MODIFIED" /\ LineOf(a) = s.cache[c][i].line
                         THEN s.cache[c][i].data[WordOf(a)] ELSE s.mem[a]
<1> DEFINE victim == s.cache[c][i]
           m == [a \in Addresses |-> IF victim.state = "MODIFIED" /\ LineOf(a) = victim.line
                                     THEN victim.data[WordOf(a)] ELSE s.mem[a]]
<1>1. r = [cache |-> [s.cache EXCEPT ![c][i] = Empty], mem |-> m]
  BY DEF CacheEvictLine
<1>2. victim.state = "MODIFIED" => victim.data \in [Words -> Values]
  <2>1. victim \in CacheLine \cup {Empty} /\ Empty.state \notin Mesi
    BY SlotTypes
  <2> HIDE DEF victim
  <2> QED
    BY <2>1 DEF CacheLine, Mesi
<1>3. m \in [Addresses -> Values]
  BY <1>2, WordsOfLines DEF CacheStates
<1>4. \A a \in Addresses : m[a] = IF victim.state = "MODIFIED" /\ LineOf(a) = victim.line
                                  THEN victim.data[WordOf(a)] ELSE s.mem[a]
  OBVIOUS
<1> HIDE DEF m, victim
<1>5. [s.cache EXCEPT ![c][i] = Empty] \in [Cores -> [Slots -> CacheLine \cup {Empty}]]
  BY DEF CacheStates
<1>6. r \in CacheStates /\ r.mem = m /\ r.cache = [s.cache EXCEPT ![c][i] = Empty]
  BY <1>1, <1>3, <1>5 DEF CacheStates
<1>7. \A d \in Cores, j \in Slots :
        r.cache[d][j] = IF d = c /\ j = i THEN Empty ELSE s.cache[d][j]
  BY <1>6 DEF CacheStates
<1> QED
  BY <1>4, <1>6, <1>7 DEF victim

(* It leaves all other copies as they were. *)
LEMMA EvictFound ==
  ASSUME NEW s \in CacheStates, NEW c \in Cores, NEW i \in Slots,
         NEW r, r = CacheEvictLine(s, c, i)
  PROVE  \A d \in Cores : \A l : \A j :
           j \in Found(r, d, l) <=> j \in Found(s, d, l) /\ ~(d = c /\ j = i)
<1>1. /\ r \in CacheStates
      /\ \A d \in Cores, j \in Slots :
           r.cache[d][j] = IF d = c /\ j = i THEN Empty ELSE s.cache[d][j]
  BY EvictSlots
<1>2. Empty \notin CacheLine
  BY SlotTypes
<1> TAKE d \in Cores
<1> TAKE l
<1> TAKE j
<1>3. /\ j \in Found(r, d, l) <=> j \in Slots /\ r.cache[d][j] \in CacheLine /\ r.cache[d][j].line = l
      /\ j \in Found(s, d, l) <=> j \in Slots /\ s.cache[d][j] \in CacheLine /\ s.cache[d][j].line = l
  BY <1>1, FoundSlots
<1> QED
  BY <1>1, <1>2, <1>3

(* It keeps the caches coherent... *)
LEMMA EvictKeeps ==
  ASSUME NEW s, Good(s), NEW c \in Cores, NEW i \in Slots,
         NEW r, r = CacheEvictLine(s, c, i)
  PROVE  Good(r)
<1>0. s \in CacheStates
  BY DEF Good
<1>1. /\ r \in CacheStates
      /\ \A d \in Cores, j \in Slots :
           ~(d = c /\ j = i) => r.cache[d][j] = s.cache[d][j]
      /\ \A a \in Addresses :
           r.mem[a] = IF s.cache[c][i].state = "MODIFIED" /\ LineOf(a) = s.cache[c][i].line
                      THEN s.cache[c][i].data[WordOf(a)] ELSE s.mem[a]
  BY <1>0, EvictSlots
<1>2. ASSUME NEW d \in Cores, NEW l, NEW j \in Found(r, d, l)
      PROVE  j \in Found(s, d, l) /\ ~(d = c /\ j = i) /\ r.cache[d][j] = s.cache[d][j]
  <2>1. j \in Found(s, d, l) /\ ~(d = c /\ j = i)
    BY <1>0, EvictFound
  <2>2. j \in Slots
    BY <2>1, <1>0, FoundSlots
  <2> QED
    BY <1>1, <2>1, <2>2
<1>3. OneWriter(r)
  BY <1>2 DEF Good, OneWriter
<1>4. HitsAgree(r)
  BY <1>2 DEF Good, HitsAgree
<1>5. CleanLines(r)
  <2> SUFFICES ASSUME NEW l \in Lines, NEW d \in Cores, NEW j \in Found(r, d, l),
                      r.cache[d][j].state = "EXCLUSIVE", NEW w \in Words
               PROVE  r.cache[d][j].data[w] = r.mem[AddressOf(l, w)]
    BY DEF CleanLines
  <2>1. /\ j \in Found(s, d, l) /\ ~(d = c /\ j = i) /\ r.cache[d][j] = s.cache[d][j]
    BY <1>2
  <2>2. s.cache[d][j].data[w] = s.mem[AddressOf(l, w)]
    BY <2>1 DEF Good, CleanLines
  <2>3. AddressOf(l, w) \in Addresses /\ LineOf(AddressOf(l, w)) = l
    BY WordsOfLines
  <2>4. ~(s.cache[c][i].state = "MODIFIED" /\ s.cache[c][i].line = l)
    <3> SUFFICES ASSUME s.cache[c][i].state = "MODIFIED", s.cache[c][i].line = l PROVE FALSE
      OBVIOUS
    <3>1. s.cache[c][i] # Empty
      BY <1>0, SlotTypes DEF Mesi
    <3>2. i \in Found(s, c, l)
      BY <1>0, <3>1, SlotTypes, FoundSlots
    <3>3. s.cache[d][j].state = "SHARED"
      BY <2>1, <3>2 DEF Good, OneWriter
    <3> QED
      BY <2>1, <3>3
  <2> QED
    BY <1>1, <2>1, <2>2, <2>3, <2>4
<1> QED
  BY <1>1, <1>3, <1>4, <1>5 DEF Good

(* ...and an address keeps its value, unless its only copy was SHARED.     *)
LEMMA EvictKeepsValue ==
  ASSUME NEW s, Good(s), NEW c \in Cores, NEW i \in Slots,
         NEW r, r = CacheEvictLine(s, c, i), NEW a \in Addresses
  PROVE  \/ Current(r)[a] = Current(s)[a]
         \/ /\ i \in Found(s, c, LineOf(a)) /\ s.cache[c][i].state = "SHARED"
            /\ \A d \in Cores : Found(r, d, LineOf(a)) = {}
            /\ \A d \in Cores : \A j \in Found(s, d, LineOf(a)) : d = c /\ j = i
<1> DEFINE l == LineOf(a)
<1>0. s \in CacheStates /\ Good(r)
  BY EvictKeeps DEF Good
<1>1. /\ \A d \in Cores, j \in Slots :
           ~(d = c /\ j = i) => r.cache[d][j] = s.cache[d][j]
      /\ r.mem[a] = IF s.cache[c][i].state = "MODIFIED" /\ l = s.cache[c][i].line
                    THEN s.cache[c][i].data[WordOf(a)] ELSE s.mem[a]
  BY <1>0, EvictSlots
<1>2. l \in Lines /\ WordOf(a) \in Words /\ AddressOf(l, WordOf(a)) = a
  BY WordsOfLines
<1>3. \A d \in Cores : \A j : j \in Found(r, d, l) <=> j \in Found(s, d, l) /\ ~(d = c /\ j = i)
  BY <1>0, EvictFound
<1>4. /\ \A d \in Cores : \A j \in Found(s, d, l) : Current(s)[a] = s.cache[d][j].data[WordOf(a)]
      /\ (\A d \in Cores : Found(s, d, l) = {}) => Current(s)[a] = s.mem[a]
      /\ \A d \in Cores : \A j \in Found(r, d, l) : Current(r)[a] = r.cache[d][j].data[WordOf(a)]
      /\ (\A d \in Cores : Found(r, d, l) = {}) => Current(r)[a] = r.mem[a]
  BY <1>0, CurrentValue
<1>5. /\ \A d \in Cores : \A j \in Found(s, d, l) : j \in Slots /\ s.cache[d][j].line = l
                                                    /\ s.cache[d][j].state \in Mesi
      /\ i \in Found(s, c, l) <=> s.cache[c][i] \in CacheLine /\ s.cache[c][i].line = l
      /\ s.cache[c][i].state \in Mesi => s.cache[c][i] \in CacheLine
  <2>1. \A d \in Cores : \A j : j \in Found(s, d, l) <=>
          j \in Slots /\ s.cache[d][j] \in CacheLine /\ s.cache[d][j].line = l
    BY <1>0, FoundSlots
  <2>2. s.cache[c][i].state \in Mesi => s.cache[c][i] \in CacheLine
    BY <1>0, SlotTypes
  <2> QED
    BY <2>1, <2>2 DEF CacheLine
<1> HIDE DEF l
<1>6. CASE \E d \in Cores : Found(r, d, l) # {}
  <2>1. PICK d \in Cores : Found(r, d, l) # {}
    BY <1>6
  <2>2. PICK j : j \in Found(r, d, l)
    BY <2>1
  <2>3. j \in Found(s, d, l) /\ r.cache[d][j] = s.cache[d][j]
    BY <1>1, <1>3, <1>5, <2>2
  <2> QED
    BY <1>4, <2>2, <2>3
<1>7. CASE \A d \in Cores : Found(r, d, l) = {}
  <2>1. Current(r)[a] = r.mem[a]
    BY <1>4, <1>7
  <2>2. \A d \in Cores : \A j \in Found(s, d, l) : d = c /\ j = i
    BY <1>3, <1>7
  <2>3. CASE i \notin Found(s, c, l)
    <3>1. Current(s)[a] = s.mem[a]
      BY <1>4, <2>2, <2>3
    <3>2. r.mem[a] = s.mem[a]
      BY <1>1, <1>5, <2>3 DEF Mesi
    <3> QED
      BY <2>1, <3>1, <3>2
  <2>4. CASE i \in Found(s, c, l)
    <3>1. Current(s)[a] = s.cache[c][i].data[WordOf(a)] /\ s.cache[c][i].line = l
      BY <1>4, <1>5, <2>4
    <3>2. CASE s.cache[c][i].state = "MODIFIED"
      BY <1>1, <2>1, <3>1, <3>2
    <3>3. CASE s.cache[c][i].state = "EXCLUSIVE"
      <4>1. s.cache[c][i].data[WordOf(a)] = s.mem[a]
        BY <1>2, <2>4, <3>3 DEF Good, CleanLines
      <4> QED
        BY <1>1, <2>1, <3>1, <3>3, <4>1
    <3>4. CASE s.cache[c][i].state = "SHARED"
      BY <1>7, <2>2, <2>4, <3>4 DEF l
    <3> QED
      BY <1>5, <2>4, <3>2, <3>3, <3>4 DEF Mesi
  <2> QED
    BY <2>3, <2>4
<1> QED
  BY <1>6, <1>7

(* The copy core c had of the line of a was the last one, it was SHARED    *)
(* and is gone.                                                            *)
Lost(s, r, c, a) ==
  /\ Found(s, c, LineOf(a)) # {}
  /\ \A d \in Cores : Found(r, d, LineOf(a)) = {}
  /\ \A d \in Cores : \A j \in Found(s, d, LineOf(a)) : s.cache[d][j].state = "SHARED"

(* Making room in a cache. *)
LEMMA RoomMade ==
  ASSUME NEW s, Good(s), NEW c \in Cores, NEW r, r = CacheGetEmpty(s, c)
  PROVE  /\ Good(r) /\ Filled(r, c) # Slots
         /\ \A d \in Cores : \A l : Found(r, d, l) \subseteq Found(s, d, l)
         /\ \A a \in Addresses : Current(r)[a] = Current(s)[a] \/ Lost(s, r, c, a)
         /\ Filled(s, c) # Slots => r = s
<1>0. s \in CacheStates /\ 0 \in Slots
  BY CacheAssumption DEF Good, Slots
<1>1. CASE Filled(s, c) # Slots
  BY <1>1 DEF CacheGetEmpty
<1>2. CASE Filled(s, c) = Slots
  <2>1. r = CacheEvictLine(s, c, 0)
    BY <1>2 DEF CacheGetEmpty
  <2>2. Good(r)
    BY <1>0, <2>1, EvictKeeps
  <2>3. \A d \in Cores : \A l : Found(r, d, l) \subseteq Found(s, d, l)
    BY <1>0, <2>1, EvictFound
  <2>4. r.cache[c][0] = Empty
    BY <1>0, <2>1, EvictSlots
  <2>5. Filled(r, c) # Slots
    BY <1>0, <2>4 DEF Filled
  <2>6. ASSUME NEW a \in Addresses
        PROVE  Current(r)[a] = Current(s)[a] \/ Lost(s, r, c, a)
    <3>1. \/ Current(r)[a] = Current(s)[a]
          \/ /\ 0 \in Found(s, c, LineOf(a)) /\ s.cache[c][0].state = "SHARED"
             /\ \A d \in Cores : Found(r, d, LineOf(a)) = {}
             /\ \A d \in Cores : \A j \in Found(s, d, LineOf(a)) : d = c /\ j = 0
      BY <1>0, <2>1, EvictKeepsValue
    <3> QED
      BY <3>1 DEF Lost
  <2> QED
    BY <1>2, <2>2, <2>3, <2>5, <2>6
<1> QED
  BY <1>1, <1>2

(* The snoop of a read makes the other copies SHARED... *)
LEMMA SnoopReadSlots ==
  ASSUME NEW s \in CacheStates, NEW c \in Cores, NEW l, NEW r, r = SnoopRead(s, c, l)
  PROVE  /\ r \in CacheStates /\ r.mem = s.mem
         /\ \A d \in Cores, j \in Slots :
              /\ r.cache[d][j] \in CacheLine <=> s.cache[d][j] \in CacheLine
              /\ s.cache[d][j] \notin CacheLine => r.cache[d][j] = s.cache[d][j]
              /\ s.cache[d][j] \in CacheLine =>
                   /\ r.cache[d][j].line = s.cache[d][j].line
                   /\ r.cache[d][j].data = s.cache[d][j].data
                   /\ r.cache[d][j].state = IF d # c /\ j \in Found(s, d, l) THEN "SHARED"
                                            ELSE s.cache[d][j].state
<1> DEFINE f == [d \in Cores |->
                   IF d = c THEN s.cache[d]
                   ELSE [i \in Slots |-> IF i \in Found(s, d, l)
                                         THEN [s.cache[d][i] EXCEPT !.state = "SHARED"]
                                         ELSE s.cache[d][i]]]
<1>1. r = [s EXCEPT !.cache = f]
  BY DEF SnoopRead
<1>2. ASSUME NEW d \in Cores, NEW j \in Slots
      PROVE  f[d][j] = IF d # c /\ j \in Found(s, d, l)
                       THEN [s.cache[d][j] EXCEPT !.state = "SHARED"] ELSE s.cache[d][j]
  BY DEF CacheStates
<1>3. \A x \in CacheLine : /\ [x EXCEPT !.state = "SHARED"] \in CacheLine
                           /\ [x EXCEPT !.state = "SHARED"].state = "SHARED"
                           /\ [x EXCEPT !.state = "SHARED"].line = x.line
                           /\ [x EXCEPT !.state = "SHARED"].data = x.data
  BY DEF CacheLine, Mesi
<1>4. \A d \in Cores, j \in Slots : j \in Found(s, d, l) => s.cache[d][j] \in CacheLine
  BY FoundSlots
<1>5. \A d \in Cores, j \in Slots : s.cache[d][j] \in CacheLine \cup {Empty}
  BY SlotTypes
<1>6. f \in [Cores -> [Slots -> CacheLine \cup {Empty}]]
  <2>1. \A d \in Cores, j \in Slots : f[d][j] \in CacheLine \cup {Empty}
    BY <1>2, <1>3, <1>4, <1>5
  <2>2. \A d \in Cores : f[d] \in [Slots -> CacheLine \cup {Empty}]
    <3> TAKE d \in Cores
    <3>1. CASE d = c
      BY <3>1 DEF CacheStates
    <3>2. CASE d # c
      <4>1. f[d] = [i \in Slots |-> IF i \in Found(s, d, l)
                                    THEN [s.cache[d][i] EXCEPT !.state = "SHARED"]
                                    ELSE s.cache[d][i]]
        BY <3>2
      <4> HIDE DEF f
      <4> QED
        BY <1>3, <1>4, <1>5, <4>1
    <3> QED
      BY <3>1, <3>2
  <2> QED
    BY <2>2
<1> HIDE DEF f
<1>7. r \in CacheStates /\ r.mem = s.mem /\ r.cache = f
  BY <1>1, <1>6 DEF CacheStates
<1>8. \A d \in Cores, j \in Slots :
        /\ r.cache[d][j] \in CacheLine <=> s.cache[d][j] \in CacheLine
        /\ s.cache[d][j] \notin CacheLine => r.cache[d][j] = s.cache[d][j]
        /\ s.cache[d][j] \in CacheLine =>
             /\ r.cache[d][j].line = s.cache[d][j].line
             /\ r.cache[d][j].data = s.cache[d][j].data
             /\ r.cache[d][j].state = IF d # c /\ j \in Found(s, d, l) THEN "SHARED"
                                      ELSE s.cache[d][j].state
  BY <1>2, <1>3, <1>4, <1>7, ZenonT(40)
<1> QED
  BY <1>7, <1>8

(* ...and changes nothing else. *)
LEMMA SnoopReadKeeps ==
  ASSUME NEW s, Good(s), NEW c \in Cores, NEW l \in Lines,
         NEW r, r = SnoopRead(s, c, l)
  PROVE  /\ Good(r)
         /\ \A d \in Cores : \A m : Found(r, d, m) = Found(s, d, m)
         /\ Filled(r, c) = Filled(s, c)
         /\ \A d \in Cores : \A j \in Found(r, d, l) :
              /\ r.cache[d][j].data = s.cache[d][j].data
              /\ d # c => r.cache[d][j].state = "SHARED"
         /\ r.mem = s.mem
         /\ \A a \in Addresses : Current(r)[a] = Current(s)[a]
<1>0. s \in CacheStates
  BY DEF Good
<1>1. /\ r \in CacheStates /\ r.mem = s.mem
      /\ \A d \in Cores, j \in Slots :
           /\ r.cache[d][j] \in CacheLine <=> s.cache[d][j] \in CacheLine
           /\ s.cache[d][j] \notin CacheLine => r.cache[d][j] = s.cache[d][j]
           /\ s.cache[d][j] \in CacheLine =>
                /\ r.cache[d][j].line = s.cache[d][j].line
                /\ r.cache[d][j].data = s.cache[d][j].data
                /\ r.cache[d][j].state = IF d # c /\ j \in Found(s, d, l) THEN "SHARED"
                                         ELSE s.cache[d][j].state
  BY <1>0, SnoopReadSlots
<1>2. ASSUME NEW d \in Cores, NEW m, NEW j
      PROVE  /\ j \in Found(r, d, m) <=> j \in Found(s, d, m)
             /\ j \in Found(s, d, m) =>
                  /\ r.cache[d][j].data = s.cache[d][j].data
                  /\ r.cache[d][j].state = IF d # c /\ j \in Found(s, d, l) THEN "SHARED"
                                           ELSE s.cache[d][j].state
  <2>1. /\ j \in Found(r, d, m) <=> j \in Slots /\ r.cache[d][j] \in CacheLine /\ r.cache[d][j].line = m
        /\ j \in Found(s, d, m) <=> j \in Slots /\ s.cache[d][j] \in CacheLine /\ s.cache[d][j].line = m
    BY <1>0, <1>1, FoundSlots
  <2> QED
    BY <1>1, <2>1
<1>3. \A d \in Cores : \A m : Found(r, d, m) = Found(s, d, m)
  <2> TAKE d \in Cores
  <2> TAKE m
  <2>1. \A j : j \in Found(r, d, m) <=> j \in Found(s, d, m)
    BY <1>2
  <2> QED
    BY <2>1
<1>4. Filled(r, c) = Filled(s, c)
  <2>1. \A j \in Slots : r.cache[c][j] # Empty <=> s.cache[c][j] # Empty
    <3> TAKE j \in Slots
    <3>1. /\ r.cache[c][j] # Empty => r.cache[c][j] \in CacheLine
          /\ s.cache[c][j] # Empty => s.cache[c][j] \in CacheLine
          /\ Empty \notin CacheLine
      BY <1>0, <1>1, SlotTypes
    <3> QED
      BY <1>1, <3>1
  <2> QED
    BY <2>1 DEF Filled
<1>5. OneWriter(r)
  BY <1>2 DEF Good, OneWriter
<1>6. HitsAgree(r)
  BY <1>2 DEF Good, HitsAgree
<1>7. CleanLines(r)
  BY <1>1, <1>2 DEF Good, CleanLines
<1>8. Good(r)
  BY <1>1, <1>5, <1>6, <1>7 DEF Good
<1>9. ASSUME NEW a \in Addresses PROVE Current(r)[a] = Current(s)[a]
  <2>1. /\ \A d \in Cores : \A j \in Found(s, d, LineOf(a)) :
             Current(s)[a] = s.cache[d][j].data[WordOf(a)]
        /\ (\A d \in Cores : Found(s, d, LineOf(a)) = {}) => Current(s)[a] = s.mem[a]
        /\ \A d \in Cores : \A j \in Found(r, d, LineOf(a)) :
             Current(r)[a] = r.cache[d][j].data[WordOf(a)]
        /\ (\A d \in Cores : Found(r, d, LineOf(a)) = {}) => Current(r)[a] = r.mem[a]
    BY <1>8, CurrentValue
  <2>2. CASE \A d \in Cores : Found(s, d, LineOf(a)) = {}
    BY <1>1, <1>3, <2>1, <2>2
  <2>3. CASE \E d \in Cores : Found(s, d, LineOf(a)) # {}
    <3>1. PICK d \in Cores : Found(s, d, LineOf(a)) # {}
      BY <2>3
    <3>2. PICK j : j \in Found(s, d, LineOf(a))
      BY <3>1
    <3> QED
      BY <1>2, <2>1, <3>2
  <2> QED
    BY <2>2, <2>3
<1> QED
  BY <1>1, <1>2, <1>3, <1>4, <1>8, <1>9

(* Filling an empty slot with a line that agrees with the other copies,    *)
(* all of them SHARED, or with memory if there is none.                    *)
LEMMA FillKeeps ==
  ASSUME NEW s, Good(s), NEW c \in Cores, NEW e \in Slots \ Filled(s, c),
         NEW l \in Lines, Found(s, c, l) = {},
         NEW x \in CacheLine, x.line = l,
         \A d \in Cores : \A j \in Found(s, d, l) :
           s.cache[d][j].state = "SHARED" /\ s.cache[d][j].data = x.data,
         \/ x.state = "SHARED" /\ \E d \in Cores : Found(s, d, l) # {}
         \/ /\ x.state = "EXCLUSIVE" /\ \A d \in Cores : Found(s, d, l) = {}
            /\ \A w \in Words : x.data[w] = s.mem[AddressOf(l, w)],
         NEW r \in CacheStates, r.mem = s.mem,
         \A d \in Cores, j \in Slots :
           r.cache[d][j] = IF d = c /\ j = e THEN x ELSE s.cache[d][j]
  PROVE  /\ Good(r)
         /\ Found(r, c, l) = {e}
         /\ \A d \in Cores : \A m : ~(d = c /\ m = l) => Found(r, d, m) = Found(s, d, m)
         /\ \A a \in Addresses : Current(r)[a] = Current(s)[a]
<1>0. s \in CacheStates
  BY DEF Good
<1>1. /\ r \in CacheStates /\ r.mem = s.mem
      /\ \A d \in Cores, j \in Slots :
           r.cache[d][j] = IF d = c /\ j = e THEN x ELSE s.cache[d][j]
  OBVIOUS
<1>2. s.cache[c][e] \notin CacheLine /\ \A m : e \notin Found(s, c, m)
  BY <1>0, SlotTypes DEF Filled, Found
<1>3. ASSUME NEW d \in Cores, NEW m, NEW j
      PROVE  j \in Found(r, d, m) <=> j \in Found(s, d, m) \/ (d = c /\ j = e /\ m = l)
  <2>1. /\ j \in Found(r, d, m) <=> j \in Slots /\ r.cache[d][j] \in CacheLine /\ r.cache[d][j].line = m
        /\ j \in Found(s, d, m) <=> j \in Slots /\ s.cache[d][j] \in CacheLine /\ s.cache[d][j].line = m
    BY <1>0, <1>1, FoundSlots
  <2> QED
    BY <1>1, <1>2, <2>1
<1>4. ASSUME NEW d \in Cores, NEW m, NEW j \in Found(s, d, m)
      PROVE  r.cache[d][j] = s.cache[d][j]
  <2>1. j \in Slots /\ ~(d = c /\ j = e)
    BY <1>0, <1>2, FoundSlots
  <2> QED
    BY <1>1, <2>1
<1>5. r.cache[c][e] = x
  BY <1>1
<1>6. OneWriter(r)
  <2> SUFFICES ASSUME NEW m \in Lines, NEW d \in Cores, NEW f \in Cores,
                      NEW i \in Found(r, d, m), NEW j \in Found(r, f, m)
               PROVE  (d = f /\ i = j) \/ (d # f /\ r.cache[d][i].state = "SHARED")
    BY DEF OneWriter
  <2>1. CASE i \in Found(s, d, m) /\ j \in Found(s, f, m)
    BY <1>4, <2>1 DEF Good, OneWriter
  <2>2. CASE i \in Found(s, d, m) /\ j \notin Found(s, f, m)
    BY <1>3, <1>4, <2>2
  <2>3. CASE i \notin Found(s, d, m) /\ j \in Found(s, f, m)
    BY <1>3, <1>5, <2>3
  <2>4. CASE i \notin Found(s, d, m) /\ j \notin Found(s, f, m)
    BY <1>3, <2>4
  <2> QED
    BY <2>1, <2>2, <2>3, <2>4
<1>7. HitsAgree(r)
  <2> SUFFICES ASSUME NEW m \in Lines, NEW d \in Cores, NEW f \in Cores,
                      NEW i \in Found(r, d, m), NEW j \in Found(r, f, m)
               PROVE  r.cache[d][i].data = r.cache[f][j].data
    BY DEF HitsAgree
  <2>1. CASE i \in Found(s, d, m) /\ j \in Found(s, f, m)
    BY <1>4, <2>1 DEF Good, HitsAgree
  <2>2. CASE i \in Found(s, d, m) /\ j \notin Found(s, f, m)
    BY <1>3, <1>4, <1>5, <2>2
  <2>3. CASE i \notin Found(s, d, m) /\ j \in Found(s, f, m)
    BY <1>3, <1>4, <1>5, <2>3
  <2>4. CASE i \notin Found(s, d, m) /\ j \notin Found(s, f, m)
    BY <1>3, <2>4
  <2> QED
    BY <2>1, <2>2, <2>3, <2>4
<1>8. CleanLines(r)
  <2> SUFFICES ASSUME NEW m \in Lines, NEW d \in Cores, NEW j \in Found(r, d, m),
                      r.cache[d][j].state = "EXCLUSIVE", NEW w \in Words
               PROVE  r.cache[d][j].data[w] = r.mem[AddressOf(m, w)]
    BY DEF CleanLines
  <2>1. CASE j \in Found(s, d, m)
    BY <1>1, <1>4, <2>1 DEF Good, CleanLines
  <2>2. CASE j \notin Found(s, d, m)
    BY <1>1, <1>3, <1>5, <2>2
  <2> QED
    BY <2>1, <2>2
<1>9. Good(r)
  BY <1>1, <1>6, <1>7, <1>8 DEF Good
<1>10. Found(r, c, l) = {e}
  BY <1>3
<1>11. \A d \in Cores : \A m : ~(d = c /\ m = l) => Found(r, d, m) = Found(s, d, m)
  <2> TAKE d \in Cores
  <2> TAKE m
  <2>1. \A j : j \in Found(r, d, m) <=> j \in Found(s, d, m) \/ (d = c /\ j = e /\ m = l)
    BY <1>3
  <2> QED
    BY <2>1
<1>12. ASSUME NEW a \in Addresses PROVE Current(r)[a] = Current(s)[a]
  <2>1. /\ \A d \in Cores : \A j \in Found(s, d, LineOf(a)) :
             Current(s)[a] = s.cache[d][j].data[WordOf(a)]
        /\ (\A d \in Cores : Found(s, d, LineOf(a)) = {}) => Current(s)[a] = s.mem[a]
        /\ \A d \in Cores : \A j \in Found(r, d, LineOf(a)) :
             Current(r)[a] = r.cache[d][j].data[WordOf(a)]
        /\ (\A d \in Cores : Found(r, d, LineOf(a)) = {}) => Current(r)[a] = r.mem[a]
    BY <1>9, CurrentValue
  <2>2. CASE \E d \in Cores : Found(s, d, LineOf(a)) # {}
    <3>1. PICK d \in Cores : Found(s, d, LineOf(a)) # {}
      BY <2>2
    <3>2. PICK j : j \in Found(s, d, LineOf(a))
      BY <3>1
    <3> QED
      BY <1>3, <1>4, <2>1, <3>2
  <2>3. CASE (\A d \in Cores : Found(s, d, LineOf(a)) = {}) /\ LineOf(a) # l
    <3>1. \A d \in Cores : Found(r, d, LineOf(a)) = {}
      BY <1>11, <2>3
    <3> QED
      BY <1>1, <2>1, <2>3, <3>1
  <2>4. CASE (\A d \in Cores : Found(s, d, LineOf(a)) = {}) /\ LineOf(a) = l
    <3>1. Current(r)[a] = x.data[WordOf(a)]
      BY <1>5, <1>10, <2>1, <2>4
    <3>2. AddressOf(l, WordOf(a)) = a /\ WordOf(a) \in Words
      BY <2>4, WordsOfLines
    <3>3. x.data[WordOf(a)] = s.mem[a]
      BY <2>4, <3>2
    <3> QED
      BY <2>1, <2>4, <3>1, <3>3
  <2> QED
    BY <2>2, <2>3, <2>4
<1> QED
  BY <1>9, <1>10, <1>11, <1>12

(* The line a miss fills agrees with the other copies or with memory.      *)
LEMMA FillLineAgrees ==
  ASSUME NEW s, Good(s), NEW c \in Cores, NEW l \in Lines, Found(s, c, l) = {},
         NEW x, x = FillLine(s, c, l)
  PROVE  /\ x \in CacheLine /\ x.line = l
         /\ \A d \in Cores : \A j \in Found(s, d, l) : s.cache[d][j].data = x.data
         /\ \/ x.state = "SHARED" /\ \E d \in Cores : Found(s, d, l) # {}
            \/ /\ x.state = "EXCLUSIVE" /\ \A d \in Cores : Found(s, d, l) = {}
               /\ \A w \in Words : x.data[w] = s.mem[AddressOf(l, w)]
<1>0. s \in CacheStates
  BY DEF Good
<1>1. CASE Responders(s, c, l) # {}
  <2> DEFINE d == LastOf(Responders(s, c, l))
             i == CacheFind(s, d, l)
  <2>1. d \in Responders(s, c, l)
    BY <1>1, LastCore DEF Responders
  <2>2. d \in Cores /\ Holds(s, d, l)
    BY <2>1 DEF Responders
  <2>3. i \in Found(s, d, l)
    BY <2>2, CacheFindFinds
  <2>4. x = [state |-> "SHARED", line |-> l, data |-> s.cache[d][i].data]
    BY <1>1 DEF FillLine
  <2> HIDE DEF d, i
  <2>5. s.cache[d][i].data \in [Words -> Values]
    BY <1>0, <2>2, <2>3, FoundSlots DEF CacheLine
  <2>6. \A f \in Cores : \A j \in Found(s, f, l) : s.cache[f][j].data = s.cache[d][i].data
    BY <2>2, <2>3 DEF Good, HitsAgree
  <2> QED
    BY <2>2, <2>3, <2>4, <2>5, <2>6 DEF CacheLine, Mesi
<1>2. CASE Responders(s, c, l) = {}
  <2>1. x = [state |-> "EXCLUSIVE", line |-> l,
             data |-> [w \in Words |-> s.mem[AddressOf(l, w)]]]
    BY <1>2 DEF FillLine
  <2>2. \A d \in Cores : Found(s, d, l) = {}
    BY <1>2 DEF Responders, Holds
  <2>3. [w \in Words |-> s.mem[AddressOf(l, w)]] \in [Words -> Values]
    BY <1>0, WordsOfLines DEF CacheStates
  <2> QED
    BY <2>1, <2>2, <2>3 DEF CacheLine, Mesi
<1> QED
  BY <1>1, <1>2

(* A load keeps the caches coherent and returns the value of its address.  *)
(* Addresses of other lines keep theirs, or lose it with a SHARED copy     *)
(* that a full cache evicted; no other line comes into a cache.            *)
LEMMA CacheLoadKeeps ==
  ASSUME NEW s, Good(s), NEW c \in Cores, NEW a \in Addresses,
         NEW r, r = CacheLoad(s, c, a)
  PROVE  /\ Good(r) /\ Holds(r, c, LineOf(a))
         /\ Current(r)[a] = Current(s)[a] /\ LoadedValue(s, c, a) = Current(s)[a]
         /\ \A b \in Addresses : Current(r)[b] = Current(s)[b]
                                 \/ (LineOf(b) # LineOf(a) /\ Lost(s, r, c, b))
         /\ Holds(s, c, LineOf(a)) \/ Filled(s, c) # Slots =>
              \A b \in Addresses : Current(r)[b] = Current(s)[b]
         /\ \A d \in Cores : \A m : Found(r, d, m) # {} => Found(s, d, m) # {} \/ m = LineOf(a)
<1> DEFINE l == LineOf(a)
<1>1. l \in Lines
  BY WordsOfLines
<1>2. LoadedValue(s, c, a) = ValueIn(r, c, a)
  BY DEF LoadedValue
<1>3. ASSUME Good(r), Holds(r, c, l), Current(r)[a] = Current(s)[a]
      PROVE  LoadedValue(s, c, a) = Current(s)[a]
  <2>1. CacheFind(r, c, l) \in Found(r, c, l)
    BY <1>3, CacheFindFinds
  <2>2. Current(r)[a] = r.cache[c][CacheFind(r, c, l)].data[WordOf(a)]
    BY <1>3, <2>1, CurrentValue
  <2> QED
    BY <1>2, <1>3, <2>2 DEF ValueIn
<1>4. CASE Holds(s, c, l)
  <2>1. r = s
    BY <1>4 DEF CacheLoad
  <2> QED
    BY <1>3, <1>4, <2>1
<1>5. CASE ~Holds(s, c, l)
  <2> DEFINE room == CacheGetEmpty(s, c)
             snooped == SnoopRead(room, c, l)
             e == EmptySlot(room, c)
             x == FillLine(room, c, l)
  <2>1. r = [snooped EXCEPT !.cache[c][e] = x]
    BY <1>5 DEF CacheLoad
  <2>2. /\ Good(room) /\ Filled(room, c) # Slots
        /\ \A d \in Cores : \A m : Found(room, d, m) \subseteq Found(s, d, m)
        /\ \A b \in Addresses : Current(room)[b] = Current(s)[b] \/ Lost(s, room, c, b)
        /\ Filled(s, c) # Slots => room = s
    BY RoomMade
  <2>3. e \in Slots \ Filled(room, c)
    BY <2>2, FirstEmptySlot
  <2>4. Found(room, c, l) = {}
    BY <1>5, <2>2 DEF Holds
  <2> HIDE DEF room, l
  <2>5. /\ Good(snooped)
        /\ \A d \in Cores : \A m : Found(snooped, d, m) = Found(room, d, m)
        /\ Filled(snooped, c) = Filled(room, c)
        /\ \A d \in Cores : \A j \in Found(snooped, d, l) :
             /\ snooped.cache[d][j].data = room.cache[d][j].data
             /\ d # c => snooped.cache[d][j].state = "SHARED"
        /\ snooped.mem = room.mem
        /\ \A b \in Addresses : Current(snooped)[b] = Current(room)[b]
    BY <1>1, <2>2, SnoopReadKeeps
  <2>6. /\ x \in CacheLine /\ x.line = l
        /\ \A d \in Cores : \A j \in Found(room, d, l) : room.cache[d][j].data = x.data
        /\ \/ x.state = "SHARED" /\ \E d \in Cores : Found(room, d, l) # {}
           \/ /\ x.state = "EXCLUSIVE" /\ \A d \in Cores : Found(room, d, l) = {}
              /\ \A w \in Words : x.data[w] = room.mem[AddressOf(l, w)]
    BY <1>1, <2>2, <2>4, FillLineAgrees
  <2> HIDE DEF snooped, e, x
  <2>7. /\ r \in CacheStates /\ r.mem = snooped.mem
        /\ \A d \in Cores, j \in Slots :
             r.cache[d][j] = IF d = c /\ j = e THEN x ELSE snooped.cache[d][j]
    <3>1. snooped \in CacheStates /\ e \in Slots /\ x \in CacheLine \cup {Empty}
      BY <2>3, <2>5, <2>6 DEF Good
    <3> QED
      BY <2>1, <3>1, SlotSet
  <2>8. /\ e \in Slots \ Filled(snooped, c) /\ Found(snooped, c, l) = {}
        /\ \A d \in Cores : \A j \in Found(snooped, d, l) :
             snooped.cache[d][j].state = "SHARED" /\ snooped.cache[d][j].data = x.data
        /\ \/ x.state = "SHARED" /\ \E d \in Cores : Found(snooped, d, l) # {}
           \/ /\ x.state = "EXCLUSIVE" /\ \A d \in Cores : Found(snooped, d, l) = {}
              /\ \A w \in Words : x.data[w] = snooped.mem[AddressOf(l, w)]
    BY <2>3, <2>4, <2>5, <2>6
  <2>9. /\ Good(r) /\ Found(r, c, l) = {e}
        /\ \A d \in Cores : \A m : ~(d = c /\ m = l) => Found(r, d, m) = Found(snooped, d, m)
        /\ \A b \in Addresses : Current(r)[b] = Current(snooped)[b]
    BY <1>1, <2>5, <2>6, <2>7, <2>8, FillKeeps
  <2>10. Holds(r, c, l)
    BY <2>9 DEF Holds
  <2>11. \A b \in Addresses : Current(r)[b] = Current(room)[b]
    BY <2>5, <2>9
  <2>12. \A b \in Addresses : LineOf(b) = l => ~Lost(s, room, c, b)
    BY <1>5 DEF Lost, Holds
  <2>13. Current(r)[a] = Current(s)[a]
    BY <2>2, <2>11, <2>12 DEF l
  <2>14. ASSUME NEW b \in Addresses
         PROVE  Current(r)[b] = Current(s)[b] \/ (LineOf(b) # l /\ Lost(s, r, c, b))
    <3>1. CASE Current(room)[b] = Current(s)[b]
      BY <2>11, <3>1
    <3>2. CASE Lost(s, room, c, b)
      <4>1. LineOf(b) # l
        BY <2>12, <3>2
      <4>2. \A d \in Cores : Found(r, d, LineOf(b)) = Found(room, d, LineOf(b))
        BY <2>5, <2>9, <4>1
      <4> QED
        BY <3>2, <4>1, <4>2 DEF Lost
    <3> QED
      BY <2>2, <3>1, <3>2
  <2>15. Filled(s, c) # Slots => \A b \in Addresses : Current(r)[b] = Current(s)[b]
    BY <2>2, <2>11
  <2>16. \A d \in Cores : \A m : Found(r, d, m) # {} => Found(s, d, m) # {} \/ m = l
    BY <2>2, <2>5, <2>9
  <2>17. LoadedValue(s, c, a) = Current(s)[a]
    BY <1>3, <2>9, <2>10, <2>13
  <2> QED
    BY <1>5, <2>9, <2>10, <2>13, <2>14, <2>15, <2>16, <2>17 DEF l
<1> QED
  BY <1>4, <1>5

----------------------------------------------------------------------------
(* The steps of a store *)

(* The snoop of a write takes a line away from the other cores. *)
LEMMA SnoopWriteKeeps ==
  ASSUME NEW s, Good(s), NEW c \in Cores, NEW l \in Lines, Found(s, c, l) # {},
         NEW r, r = SnoopWrite(s, c, l)
  PROVE  /\ Good(r)
         /\ \A d \in Cores : \A m : Found(r, d, m) = IF d # c /\ m = l THEN {} ELSE Found(s, d, m)
         /\ \A a \in Addresses : Current(r)[a] = Current(s)[a]
<1> DEFINE f == [d \in Cores |->
                   IF d = c THEN s.cache[d]
                   ELSE [i \in Slots |-> IF i \in Found(s, d, l) THEN Empty ELSE s.cache[d][i]]]
<1>0. s \in CacheStates
  BY DEF Good
<1>1. r = [s EXCEPT !.cache = f]
  BY DEF SnoopWrite
<1>2. \A d \in Cores, j \in Slots :
        f[d][j] = IF d # c /\ j \in Found(s, d, l) THEN Empty ELSE s.cache[d][j]
  OBVIOUS
<1>3. f \in [Cores -> [Slots -> CacheLine \cup {Empty}]]
  <2>1. \A d \in Cores : f[d] \in [Slots -> CacheLine \cup {Empty}]
    <3> TAKE d \in Cores
    <3>1. s.cache[d] \in [Slots -> CacheLine \cup {Empty}]
      BY <1>0 DEF CacheStates
    <3>2. CASE d = c
      BY <3>1, <3>2
    <3>3. CASE d # c
      <4>1. f[d] = [i \in Slots |-> IF i \in Found(s, d, l) THEN Empty ELSE s.cache[d][i]]
        BY <3>3
      <4> HIDE DEF f
      <4> QED
        BY <3>1, <4>1
    <3> QED
      BY <3>2, <3>3
  <2> QED
    BY <2>1
<1> HIDE DEF f
<1>4. r \in CacheStates /\ r.mem = s.mem /\ r.cache = f
  BY <1>0, <1>1, <1>3 DEF CacheStates
<1>5. ASSUME NEW d \in Cores, NEW m, NEW j
      PROVE  /\ j \in Found(r, d, m) <=> j \in Found(s, d, m) /\ ~(d # c /\ m = l)
             /\ j \in Found(r, d, m) => r.cache[d][j] = s.cache[d][j]
  <2>1. /\ j \in Found(r, d, m) <=> j \in Slots /\ r.cache[d][j] \in CacheLine /\ r.cache[d][j].line = m
        /\ j \in Found(s, d, m) <=> j \in Slots /\ s.cache[d][j] \in CacheLine /\ s.cache[d][j].line = m
        /\ j \in Found(s, d, l) <=> j \in Slots /\ s.cache[d][j] \in CacheLine /\ s.cache[d][j].line = l
    BY <1>0, <1>4, FoundSlots
  <2>2. Empty \notin CacheLine
    BY <1>0, SlotTypes, CacheAssumption DEF Slots, CacheLine, Empty, Mesi
  <2>3. j \in Slots => r.cache[d][j] = IF d # c /\ j \in Found(s, d, l) THEN Empty ELSE s.cache[d][j]
    BY <1>2, <1>4
  <2> QED
    BY <2>1, <2>2, <2>3
<1>6. \A d \in Cores : \A m : Found(r, d, m) = IF d # c /\ m = l THEN {} ELSE Found(s, d, m)
  <2> TAKE d \in Cores
  <2> TAKE m
  <2>1. \A j : j \in Found(r, d, m) <=> j \in Found(s, d, m) /\ ~(d # c /\ m = l)
    BY <1>5
  <2> QED
    BY <2>1
<1>7. OneWriter(r)
  BY <1>5 DEF Good, OneWriter
<1>8. HitsAgree(r)
  BY <1>5 DEF Good, HitsAgree
<1>9. CleanLines(r)
  BY <1>4, <1>5 DEF Good, CleanLines
<1>10. Good(r)
  BY <1>4, <1>7, <1>8, <1>9 DEF Good
<1>11. ASSUME NEW a \in Addresses PROVE Current(r)[a] = Current(s)[a]
  <2>1. /\ \A d \in Cores : \A j \in Found(s, d, LineOf(a)) :
             Current(s)[a] = s.cache[d][j].data[WordOf(a)]
        /\ (\A d \in Cores : Found(s, d, LineOf(a)) = {}) => Current(s)[a] = s.mem[a]
    BY CurrentValue
  <2>2. /\ \A d \in Cores : \A j \in Found(r, d, LineOf(a)) :
             Current(r)[a] = r.cache[d][j].data[WordOf(a)]
        /\ (\A d \in Cores : Found(r, d, LineOf(a)) = {}) => Current(r)[a] = r.mem[a]
    BY <1>10, CurrentValue
  <2>3. CASE \E d \in Cores : Found(r, d, LineOf(a)) # {}
    <3>1. PICK d \in Cores : Found(r, d, LineOf(a)) # {}
      BY <2>3
    <3>2. PICK j : j \in Found(r, d, LineOf(a))
      BY <3>1
    <3> QED
      BY <1>5, <2>1, <2>2, <3>2
  <2>4. CASE \A d \in Cores : Found(r, d, LineOf(a)) = {}
    <3>1. LineOf(a) # l
      BY <1>6, <2>4
    <3>2. \A d \in Cores : Found(s, d, LineOf(a)) = {}
      BY <1>6, <2>4, <3>1
    <3> QED
      BY <1>4, <2>1, <2>2, <2>4, <3>2
  <2> QED
    BY <2>3, <2>4
<1> QED
  BY <1>6, <1>10, <1>11

(* The caches after the assignments that end CacheWriteDirect. *)
Modified(s, c, i, l, w, v) ==
  [s EXCEPT !.cache[c][i] = [state |-> "MODIFIED", line |-> l,
                             data |-> [@.data EXCEPT ![w] = v]]]

(* Only the slot the writer modifies changes. *)
LEMMA SlotModified ==
  ASSUME NEW s \in CacheStates, NEW c \in Cores, NEW i \in Slots, NEW l \in Lines,
         s.cache[c][i] \in CacheLine, NEW w \in Words, NEW v \in Values,
         NEW r, r = Modified(s, c, i, l, w, v)
  PROVE  /\ r \in CacheStates /\ r.mem = s.mem
         /\ \A d \in Cores, j \in Slots :
              ~(d = c /\ j = i) => r.cache[d][j] = s.cache[d][j]
         /\ r.cache[c][i] \in CacheLine
         /\ r.cache[c][i].line = l
         /\ r.cache[c][i].state = "MODIFIED"
         /\ r.cache[c][i].data = [s.cache[c][i].data EXCEPT ![w] = v]
<1> DEFINE n == [s.cache[c][i].data EXCEPT ![w] = v]
           x == [state |-> "MODIFIED", line |-> l, data |-> n]
<1>1. n \in [Words -> Values]
  BY DEF CacheLine
<1>2. r = [s EXCEPT !.cache[c][i] = x]
  BY DEF Modified, CacheStates
<1> HIDE DEF n
<1>3. x \in CacheLine /\ x.line = l /\ x.state = "MODIFIED" /\ x.data = n
  BY <1>1 DEF CacheLine, Mesi
<1> HIDE DEF x
<1>4. /\ r \in CacheStates /\ r.mem = s.mem
      /\ \A d \in Cores, j \in Slots :
           r.cache[d][j] = IF d = c /\ j = i THEN x ELSE s.cache[d][j]
  <2>1. x \in CacheLine \cup {Empty}
    BY <1>3
  <2> QED
    BY <1>2, <2>1, SlotSet
<1>5. r.cache[c][i] = x
  BY <1>4
<1> QED
  BY <1>3, <1>4, <1>5 DEF n

(* A core that has a line for itself writes it. *)
LEMMA ModifyKeeps ==
  ASSUME NEW s, Good(s), NEW c \in Cores, NEW a \in Addresses, NEW v \in Values,
         NEW i \in Found(s, c, LineOf(a)),
         \A d \in Cores : d # c => Found(s, d, LineOf(a)) = {},
         NEW r, r = Modified(s, c, i, LineOf(a), WordOf(a), v)
  PROVE  /\ Good(r)
         /\ \A d \in Cores : \A m : Found(r, d, m) = Found(s, d, m)
         /\ Current(r) = [Current(s) EXCEPT ![a] = v]
<1> DEFINE l == LineOf(a)
<1>0. s \in CacheStates /\ l \in Lines /\ WordOf(a) \in Words
  BY WordsOfLines DEF Good
<1>1. i \in Slots /\ s.cache[c][i] \in CacheLine /\ s.cache[c][i].line = l
  BY <1>0, FoundSlots
<1>2. /\ r \in CacheStates /\ r.mem = s.mem
      /\ \A d \in Cores, j \in Slots :
           ~(d = c /\ j = i) => r.cache[d][j] = s.cache[d][j]
      /\ r.cache[c][i] \in CacheLine /\ r.cache[c][i].line = l
      /\ r.cache[c][i].state = "MODIFIED"
      /\ r.cache[c][i].data = [s.cache[c][i].data EXCEPT ![WordOf(a)] = v]
  BY <1>0, <1>1, SlotModified
<1>3. ASSUME NEW d \in Cores, NEW m, NEW j
      PROVE  /\ j \in Found(r, d, m) <=> j \in Found(s, d, m)
             /\ j \in Found(s, d, m) /\ ~(d = c /\ j = i) =>
                  r.cache[d][j] = s.cache[d][j] /\ j \in Slots
             /\ j \in Found(s, d, m) /\ d = c /\ j = i => m = l
  <2>1. /\ j \in Found(r, d, m) <=> j \in Slots /\ r.cache[d][j] \in CacheLine /\ r.cache[d][j].line = m
        /\ j \in Found(s, d, m) <=> j \in Slots /\ s.cache[d][j] \in CacheLine /\ s.cache[d][j].line = m
    BY <1>0, <1>2, FoundSlots
  <2> QED
    BY <1>1, <1>2, <2>1
<1>4. \A d \in Cores : \A m : Found(r, d, m) = Found(s, d, m)
  <2> TAKE d \in Cores
  <2> TAKE m
  <2>1. \A j : j \in Found(r, d, m) <=> j \in Found(s, d, m)
    BY <1>3
  <2> QED
    BY <2>1
(* The writer's slot is the only one with the line. *)
<1>5. \A d \in Cores : \A j \in Found(s, d, l) : d = c /\ j = i
  BY <1>0 DEF Good, OneWriter
<1>6. OneWriter(r)
  <2> SUFFICES ASSUME NEW m \in Lines, NEW d \in Cores, NEW f \in Cores,
                      NEW k \in Found(s, d, m), NEW j \in Found(s, f, m)
               PROVE  (d = f /\ k = j) \/ (d # f /\ r.cache[d][k].state = "SHARED")
    BY <1>4 DEF OneWriter
  <2>1. CASE m = l
    BY <1>5, <2>1
  <2>2. CASE m # l
    BY <1>3, <2>2 DEF Good, OneWriter
  <2> QED
    BY <2>1, <2>2
<1>7. HitsAgree(r)
  <2> SUFFICES ASSUME NEW m \in Lines, NEW d \in Cores, NEW f \in Cores,
                      NEW k \in Found(s, d, m), NEW j \in Found(s, f, m)
               PROVE  r.cache[d][k].data = r.cache[f][j].data
    BY <1>4 DEF HitsAgree
  <2>1. CASE m = l
    BY <1>5, <2>1
  <2>2. CASE m # l
    BY <1>3, <2>2 DEF Good, HitsAgree
  <2> QED
    BY <2>1, <2>2
<1>8. CleanLines(r)
  <2> SUFFICES ASSUME NEW m \in Lines, NEW d \in Cores, NEW k \in Found(s, d, m),
                      r.cache[d][k].state = "EXCLUSIVE", NEW w \in Words
               PROVE  r.cache[d][k].data[w] = r.mem[AddressOf(m, w)]
    BY <1>4 DEF CleanLines
  <2>1. ~(d = c /\ k = i)
    BY <1>2
  <2> QED
    BY <1>2, <1>3, <2>1 DEF Good, CleanLines
<1>9. Good(r)
  BY <1>2, <1>6, <1>7, <1>8 DEF Good
<1>10. ASSUME NEW b \in Addresses
       PROVE  Current(r)[b] = IF b = a THEN v ELSE Current(s)[b]
  <2>1. /\ \A d \in Cores : \A j \in Found(s, d, LineOf(b)) :
             Current(s)[b] = s.cache[d][j].data[WordOf(b)]
        /\ (\A d \in Cores : Found(s, d, LineOf(b)) = {}) => Current(s)[b] = s.mem[b]
    BY CurrentValue
  <2>2. /\ \A d \in Cores : \A j \in Found(r, d, LineOf(b)) :
             Current(r)[b] = r.cache[d][j].data[WordOf(b)]
        /\ (\A d \in Cores : Found(r, d, LineOf(b)) = {}) => Current(r)[b] = r.mem[b]
    BY <1>9, CurrentValue
  <2>3. CASE LineOf(b) = l
    <3>1. i \in Found(s, c, LineOf(b)) /\ i \in Found(r, c, LineOf(b))
      BY <1>4, <2>3
    <3>2. /\ Current(s)[b] = s.cache[c][i].data[WordOf(b)]
          /\ Current(r)[b] = r.cache[c][i].data[WordOf(b)]
      BY <2>1, <2>2, <3>1
    <3>3. /\ WordOf(b) \in Words /\ AddressOf(LineOf(b), WordOf(b)) = b
          /\ AddressOf(l, WordOf(a)) = a
      BY WordsOfLines
    <3>4. WordOf(b) = WordOf(a) <=> b = a
      BY <2>3, <3>3
    <3>5. s.cache[c][i].data \in [Words -> Values]
      BY <1>1 DEF CacheLine
    <3> QED
      BY <1>0, <1>2, <3>2, <3>3, <3>4, <3>5
  <2>4. CASE LineOf(b) # l
    <3>1. \A d \in Cores : \A j \in Found(s, d, LineOf(b)) : r.cache[d][j] = s.cache[d][j]
      BY <1>3, <2>4
    <3>2. CASE \A d \in Cores : Found(s, d, LineOf(b)) = {}
      BY <1>2, <1>4, <2>1, <2>2, <2>4, <3>2
    <3>3. CASE \E d \in Cores : Found(s, d, LineOf(b)) # {}
      <4>1. PICK d \in Cores : Found(s, d, LineOf(b)) # {}
        BY <3>3
      <4>2. PICK j : j \in Found(s, d, LineOf(b))
        BY <4>1
      <4>3. Current(r)[b] = Current(s)[b]
        BY <1>4, <2>1, <2>2, <3>1, <4>2
      <4> QED
        BY <2>4, <4>3
    <3> QED
      BY <3>2, <3>3
  <2> QED
    BY <2>3, <2>4
<1>11. Current(r) = [Current(s) EXCEPT ![a] = v]
  <2>1. /\ Current(r) = [b \in Addresses |-> Current(r)[b]]
        /\ Current(s) = [b \in Addresses |-> Current(s)[b]]
    BY DEF Current
  <2> QED
    BY <1>10, <2>1, Zenon
<1> QED
  BY <1>4, <1>9, <1>11

(* A store keeps the caches coherent, and its address has the new value.   *)
LEMMA CacheWriteKeeps ==
  ASSUME NEW s, Good(s), NEW c \in Cores, NEW a \in Addresses, NEW v \in Values,
         NEW r, r = CacheWriteDirect(s, c, a, v)
  PROVE  /\ Good(r)
         /\ Current(r) = [Current(CacheLoad(s, c, a)) EXCEPT ![a] = v]
         /\ Found(r, c, LineOf(a)) # {}
         /\ \A d \in Cores : \A m :
              m # LineOf(a) => Found(r, d, m) = Found(CacheLoad(s, c, a), d, m)
<1> DEFINE l == LineOf(a)
           loaded == CacheLoad(s, c, a)
           i == CacheFind(loaded, c, l)
           alone == IF loaded.cache[c][i].state = "SHARED" THEN SnoopWrite(loaded, c, l)
                    ELSE loaded
<1>1. l \in Lines /\ Good(loaded) /\ Holds(loaded, c, l)
  BY WordsOfLines, CacheLoadKeeps
<1>2. r = Modified(alone, c, i, l, WordOf(a), v)
  BY DEF CacheWriteDirect, Modified
<1>3. i \in Found(loaded, c, l)
  BY <1>1, CacheFindFinds
<1> HIDE DEF loaded, i
<1>4. /\ Good(alone) /\ i \in Found(alone, c, l)
      /\ \A d \in Cores : d # c => Found(alone, d, l) = {}
      /\ \A d \in Cores : \A m : m # l => Found(alone, d, m) = Found(loaded, d, m)
      /\ \A b \in Addresses : Current(alone)[b] = Current(loaded)[b]
  <2>1. CASE loaded.cache[c][i].state = "SHARED"
    <3>1. alone = SnoopWrite(loaded, c, l) /\ Found(loaded, c, l) # {}
      BY <1>3, <2>1
    <3> HIDE DEF alone
    <3>2. /\ Good(alone)
          /\ \A d \in Cores : \A m : Found(alone, d, m) = IF d # c /\ m = l THEN {} ELSE Found(loaded, d, m)
          /\ \A b \in Addresses : Current(alone)[b] = Current(loaded)[b]
      BY <1>1, <3>1, SnoopWriteKeeps
    <3> QED
      BY <1>3, <3>2
  <2>2. CASE loaded.cache[c][i].state # "SHARED"
    <3>1. \A d \in Cores : d # c => Found(loaded, d, l) = {}
      BY <1>1, <1>3, <2>2 DEF Good, OneWriter
    <3>2. alone = loaded
      BY <2>2
    <3> QED
      BY <1>1, <1>3, <3>1, <3>2
  <2> QED
    BY <2>1, <2>2
<1>5. Current(alone) = Current(loaded)
  <2>1. /\ Current(alone) = [b \in Addresses |-> Current(alone)[b]]
        /\ Current(loaded) = [b \in Addresses |-> Current(loaded)[b]]
    BY DEF Current
  <2> QED
    BY <1>4, <2>1, Zenon
<1> HIDE DEF alone
<1>6. /\ Good(r)
      /\ \A d \in Cores : \A m : Found(r, d, m) = Found(alone, d, m)
      /\ Current(r) = [Current(alone) EXCEPT ![a] = v]
  BY <1>2, <1>4, ModifyKeeps
<1> QED
  BY <1>4, <1>5, <1>6 DEF loaded

----------------------------------------------------------------------------
(* The inductive invariant *)

(* The values the cores see have their type. *)
LEMMA CurrentType ==
  ASSUME NEW s, Good(s)
  PROVE  Current(s) \in [Addresses -> Values]
<1>1. ASSUME NEW a \in Addresses PROVE Current(s)[a] \in Values
  <2>0. s \in CacheStates /\ WordOf(a) \in Words
    BY WordsOfLines DEF Good
  <2>1. CASE \A d \in Cores : Found(s, d, LineOf(a)) = {}
    <3>1. Current(s)[a] = s.mem[a]
      BY <2>1, CurrentValue
    <3> QED
      BY <2>0, <3>1 DEF CacheStates
  <2>2. CASE \E d \in Cores : Found(s, d, LineOf(a)) # {}
    <3>0. PICK d \in Cores : Found(s, d, LineOf(a)) # {}
      BY <2>2
    <3>1. PICK j : j \in Found(s, d, LineOf(a))
      BY <3>0
    <3>2. Current(s)[a] = s.cache[d][j].data[WordOf(a)]
      BY <3>1, CurrentValue
    <3>3. s.cache[d][j] \in CacheLine
      BY <2>0, <3>1, FoundSlots
    <3> QED
      BY <2>0, <3>2, <3>3 DEF CacheLine
  <2> QED
    BY <2>1, <2>2
<1>2. Current(s) = [a \in Addresses |-> Current(s)[a]]
  BY DEF Current
<1> QED
  BY <1>1, <1>2, Zenon

(* Empty caches are coherent, and every core sees the memory. *)
LEMMA ColdCachesGood ==
  Good(ColdCaches) /\ (\A c, l : Found(ColdCaches, c, l) = {} \/ c \notin Cores)
<1>1. ColdCaches \in CacheStates
  BY CacheAssumption DEF ColdCaches, CacheStates
<1>2. ASSUME NEW c \in Cores, NEW l PROVE Found(ColdCaches, c, l) = {}
  BY DEF Found, Filled, ColdCaches
<1> QED
  BY <1>1, <1>2 DEF Good, OneWriter, HitsAgree, CleanLines

(* Only lines of this program's addresses are in a cache. *)
LinesUsed == \A d \in Cores, l \in Lines : Found(sys, d, l) # {} => \E a \in used : l = LineOf(a)

IInv == TypeOK /\ Good(sys) /\ LinesUsed

(* The invariant holds at the start. *)
LEMMA InitIInv == Init => IInv
<1> SUFFICES ASSUME Init PROVE IInv
  OBVIOUS
<1>1. Good(sys) /\ LinesUsed
  BY ColdCachesGood DEF Init, LinesUsed
<1>2. TypeOK
  <2>1. latest \in [Addresses -> Values] /\ result \in [Cores -> Values]
    BY CacheAssumption DEF Init, ColdCaches
  <2>2. used \subseteq Addresses
    BY DEF Init
  <2> QED
    BY <1>1, <2>1, <2>2 DEF TypeOK, Good
<1> QED
  BY <1>1, <1>2 DEF IInv

(* A load or a store leaves the caches coherent and uses no other line. *)
LEMMA StepKeeps ==
  ASSUME NEW s, Good(s), NEW c \in Cores, NEW a \in Addresses, NEW v \in Values,
         NEW r, r = CacheLoad(s, c, a) \/ r = CacheWriteDirect(s, c, a, v)
  PROVE  /\ Good(r)
         /\ \A d \in Cores, l \in Lines :
              Found(r, d, l) # {} => Found(s, d, l) # {} \/ l = LineOf(a)
<1> DEFINE loaded == CacheLoad(s, c, a)
<1>1. /\ Good(loaded)
      /\ \A d \in Cores : \A l : Found(loaded, d, l) # {} => Found(s, d, l) # {} \/ l = LineOf(a)
  BY CacheLoadKeeps
<1>2. CASE r = CacheWriteDirect(s, c, a, v)
  <2>1. Good(r) /\ \A d \in Cores : \A m : m # LineOf(a) => Found(r, d, m) = Found(loaded, d, m)
    BY <1>2, CacheWriteKeeps
  <2> HIDE DEF loaded
  <2> QED
    BY <1>1, <2>1
<1> QED
  BY <1>1, <1>2

(* Every step keeps the invariant. *)
LEMMA NextIInv == IInv /\ [Next]_vars => IInv'
<1> SUFFICES ASSUME IInv, [Next]_vars PROVE IInv'
  OBVIOUS
<1>0. /\ used \subseteq Addresses /\ result \in [Cores -> Values]
      /\ latest \in [Addresses -> Values] /\ Good(sys)
  BY DEF IInv, TypeOK
<1>1. ASSUME NEW c \in Cores, NEW a \in used, NEW v \in Values, used' = used,
             sys' = CacheLoad(sys, c, a) \/ sys' = CacheWriteDirect(sys, c, a, v)
      PROVE  Good(sys') /\ LinesUsed'
  <2>1. /\ Good(sys')
        /\ \A d \in Cores, l \in Lines :
             Found(sys', d, l) # {} => Found(sys, d, l) # {} \/ l = LineOf(a)
    <3>1. a \in Addresses
      BY <1>0
    <3> QED
      BY <1>0, <1>1, <3>1, StepKeeps
  <2> QED
    BY <1>1, <2>1 DEF IInv, LinesUsed
<1>2. ASSUME NEW c \in Cores, NEW a \in used, Load(c, a), used' = used PROVE IInv'
  <2>1. Good(sys') /\ LinesUsed'
    BY <1>1, <1>2, CacheAssumption DEF Load
  <2>2. result' \in [Cores -> Values]
    <3>1. a \in Addresses
      BY <1>0
    <3>2. LoadedValue(sys, c, a) = Current(sys)[a]
      BY <1>0, <3>1, CacheLoadKeeps
    <3>3. LoadedValue(sys, c, a) \in Values
      BY <1>0, <3>1, <3>2, CurrentType
    <3> QED
      BY <1>0, <1>2, <3>3 DEF Load
  <2> QED
    BY <1>0, <1>2, <2>1, <2>2 DEF IInv, TypeOK, Load, Good
<1>3. ASSUME NEW c \in Cores, NEW a \in used, NEW v \in Values, Write(c, a, v), used' = used
      PROVE  IInv'
  <2>1. Good(sys') /\ LinesUsed'
    BY <1>1, <1>3 DEF Write
  <2>2. latest' \in [Addresses -> Values]
    BY <1>0, <1>3 DEF Write
  <2> QED
    BY <1>0, <1>3, <2>1, <2>2 DEF IInv, TypeOK, Write, Good
<1>4. CASE UNCHANGED vars
  BY <1>4 DEF vars, IInv, TypeOK, LinesUsed
<1> QED
  BY <1>2, <1>3, <1>4 DEF Next

(* The invariant holds in every behaviour. *)
THEOREM Invariant == Spec => []IInv
BY InitIInv, NextIInv, PTL DEF Spec

(* Coherence: after any interleaving of fills, evictions and snoops at     *)
(* most one core can write a line without asking the bus, and every copy   *)
(* of a line holds the same data (CacheLoad, CacheWriteDirect, CacheSnoop).*)
THEOREM CoherentCorrect == Spec => []Coherent
<1>1. IInv => Coherent
  BY GoodIsCoherent DEF IInv, Coherent
<1> QED
  BY <1>1, Invariant, PTL

----------------------------------------------------------------------------
(* What an eviction may lose *)

(* Core by core and slot by slot, a lost address had SHARED copies only    *)
(* and has none left.                                                      *)
LEMMA LostCopies ==
  ASSUME NEW s, NEW r, NEW c \in Cores, NEW a, Lost(s, r, c, a)
  PROVE  /\ {s.cache[p[1]][p[2]].state : p \in Copies(s, LineOf(a))} = {"SHARED"}
         /\ Copies(r, LineOf(a)) = {}
<1> DEFINE l == LineOf(a)
<1>1. Copies(r, l) = {}
  BY DEF Lost, Copies
<1>2. \A p \in Copies(s, l) : s.cache[p[1]][p[2]].state = "SHARED"
  BY DEF Lost, Copies
<1>3. PICK i : i \in Found(s, c, l)
  BY DEF Lost
<1>4. <<c, i>> \in Copies(s, l)
  BY <1>3 DEF Copies, Found, Filled
<1> QED
  BY <1>1, <1>2, <1>4

(* The values of all addresses over a load or a store of a. *)
LEMMA StepValues ==
  ASSUME NEW s, Good(s), NEW c \in Cores, NEW a \in Addresses, NEW v \in Values,
         NEW r, NEW b \in Addresses
  PROVE  /\ r = CacheLoad(s, c, a) /\ Current(r)[b] # Current(s)[b] => Lost(s, r, c, b)
         /\ r = CacheWriteDirect(s, c, a, v) =>
              IF b = a THEN Current(r)[b] = v
              ELSE Current(r)[b] # Current(s)[b] => Lost(s, r, c, b)
<1> DEFINE loaded == CacheLoad(s, c, a)
<1>1. /\ Good(loaded)
      /\ Current(loaded)[a] = Current(s)[a]
      /\ Current(loaded)[b] = Current(s)[b] \/ (LineOf(b) # LineOf(a) /\ Lost(s, loaded, c, b))
  BY CacheLoadKeeps
<1>2. CASE r = CacheWriteDirect(s, c, a, v)
  <2>1. /\ Current(r) = [Current(loaded) EXCEPT ![a] = v]
        /\ \A d \in Cores : \A m : m # LineOf(a) => Found(r, d, m) = Found(loaded, d, m)
    BY <1>2, CacheWriteKeeps
  <2>2. Current(loaded) \in [Addresses -> Values]
    BY <1>1, CurrentType
  <2> HIDE DEF loaded
  <2>3. b = a => Current(r)[b] = v
    BY <2>1, <2>2
  <2>4. ASSUME b # a, Current(r)[b] # Current(s)[b] PROVE Lost(s, r, c, b)
    <3>1. Current(loaded)[b] # Current(s)[b]
      BY <2>1, <2>2, <2>4
    <3>2. LineOf(b) # LineOf(a) /\ Lost(s, loaded, c, b)
      BY <1>1, <3>1
    <3> QED
      BY <2>1, <3>2 DEF Lost
  <2>5. r = CacheLoad(s, c, a) /\ Current(r)[b] # Current(s)[b] => Lost(s, r, c, b)
    BY <1>1 DEF loaded
  <2> QED
    BY <2>3, <2>4, <2>5
<1>3. CASE r # CacheWriteDirect(s, c, a, v)
  BY <1>1, <1>3
<1> QED
  BY <1>2, <1>3

(* "Write-back if dirty" (cpu_isa.c:373), as far as it goes: an address    *)
(* that holds the value written last to it loses it only when the last     *)
(* copies of its line were SHARED and the last of them is evicted.         *)
THEOREM LossCorrect == Spec => LossOnlyWhenShared
<1> DEFINE Kept == \A a \in Addresses :
                     Current(sys)[a] = latest[a] /\ Current(sys')[a] # latest'[a] =>
                       StatesOf(a) = {"SHARED"} /\ Copies(sys', LineOf(a)) = {}
<1>1. ASSUME IInv, [Next]_vars PROVE [Kept]_vars
  <2>0. /\ used \subseteq Addresses /\ latest \in [Addresses -> Values] /\ Good(sys)
    BY <1>1 DEF IInv, TypeOK
  <2> SUFFICES ASSUME Next, NEW b \in Addresses,
                      Current(sys)[b] = latest[b], Current(sys')[b] # latest'[b]
               PROVE  StatesOf(b) = {"SHARED"} /\ Copies(sys', LineOf(b)) = {}
    BY <1>1
  <2>1. PICK c \in Cores, a \in used : Load(c, a) \/ \E v \in Values : Write(c, a, v)
    BY DEF Next
  <2>2. a \in Addresses
    BY <2>0
  <2>3. CASE Load(c, a)
    <3>1. sys' = CacheLoad(sys, c, a) /\ latest' = latest
      BY <2>3 DEF Load
    <3>2. Lost(sys, sys', c, b)
      BY <2>0, <2>2, <3>1, StepValues, CacheAssumption
    <3> QED
      BY <3>2, LostCopies DEF StatesOf
  <2>4. ASSUME NEW v \in Values, Write(c, a, v)
        PROVE  StatesOf(b) = {"SHARED"} /\ Copies(sys', LineOf(b)) = {}
    <3>1. sys' = CacheWriteDirect(sys, c, a, v) /\ latest' = [latest EXCEPT ![a] = v]
      BY <2>4 DEF Write
    <3>2. IF b = a THEN Current(sys')[b] = v
          ELSE Current(sys')[b] # Current(sys)[b] => Lost(sys, sys', c, b)
      BY <2>0, <2>2, <3>1, StepValues
    <3>3. latest'[b] = IF b = a THEN v ELSE latest[b]
      BY <2>0, <2>2, <3>1
    <3>4. Lost(sys, sys', c, b)
      BY <3>2, <3>3
    <3> QED
      BY <3>4, LostCopies DEF StatesOf
  <2> QED
    BY <2>1, <2>3, <2>4
<1> QED
  BY <1>1, Invariant, PTL DEF Spec, LossOnlyWhenShared

----------------------------------------------------------------------------
(* The caches implement one memory *)

(* A cache that has to make room holds as many lines as it has slots, none *)
(* of them the one it is about to load.                                    *)
LEMMA RoomWhileFits ==
  ASSUME IInv, Fits, NEW c \in Cores, NEW a \in used, ~Holds(sys, c, LineOf(a))
  PROVE  Filled(sys, c) # Slots
<1> DEFINE U == {LineOf(b) : b \in used}
           V == U \ {LineOf(a)}
           f == [i \in Slots |-> sys.cache[c][i].line]
<1>0. used \subseteq Addresses /\ sys \in CacheStates /\ Good(sys)
  BY DEF IInv, TypeOK
<1> SUFFICES ASSUME Filled(sys, c) = Slots PROVE FALSE
  OBVIOUS
<1>1. ASSUME NEW i \in Slots
      PROVE  i \in Found(sys, c, f[i]) /\ f[i] \in Lines
  <2>1. i \in Filled(sys, c)
    OBVIOUS
  <2>2. i \in Found(sys, c, f[i])
    BY <2>1 DEF Found
  <2>3. sys.cache[c][i] \in CacheLine
    BY <1>0, <2>2, FoundSlots
  <2> QED
    BY <2>2, <2>3 DEF CacheLine
<1>2. ASSUME NEW i \in Slots PROVE f[i] \in V
  <2>1. f[i] \in U
    BY <1>1 DEF IInv, LinesUsed
  <2>2. f[i] # LineOf(a)
    BY <1>1 DEF Holds
  <2> QED
    BY <2>1, <2>2
<1>3. ASSUME NEW i \in Slots, NEW j \in Slots, f[i] = f[j] PROVE i = j
  <2> HIDE DEF f
  <2>1. i \in Found(sys, c, f[i]) /\ j \in Found(sys, c, f[i]) /\ f[i] \in Lines
    BY <1>1, <1>3
  <2> QED
    BY <1>0, <2>1 DEF Good, OneWriter
<1>4. f \in [Slots -> V]
  BY <1>2
<1>5. f \in Injection(Slots, V)
  <2> HIDE DEF f, V
  <2> QED
    BY <1>3, <1>4 DEF Injection, IsInjective
<1>6. IsFiniteSet(U) /\ LineOf(a) \in U
  <2>1. IsFiniteSet(used)
    BY <1>0, MemoryAssumption, FS_Subset
  <2>2. IsFiniteSet(U)
    <3> DEFINE g == [b \in used |-> LineOf(b)]
    <3>1. g \in [used -> U] /\ \A l \in U : \E b \in used : g[b] = l
      OBVIOUS
    <3>2. g \in Surjection(used, U)
      <4> HIDE DEF g, U
      <4> QED
        BY <3>1 DEF Surjection
    <3> HIDE DEF g, U
    <3> QED
      BY <2>1, <3>2, FS_Surjection
  <2> QED
    BY <2>2
<1>7. IsFiniteSet(V) /\ Cardinality(V) = Cardinality(U) - 1 /\ Cardinality(U) \in Nat
  BY <1>6, FS_RemoveElement, FS_CardinalityType
<1>8. IsFiniteSet(Slots) /\ Cardinality(Slots) = CACHE_LINES
  <2>1. 0 \in Int /\ CACHE_LINES - 1 \in Int /\ 0 <= CACHE_LINES - 1
    BY CacheAssumption
  <2>2. IsFiniteSet(Slots) /\ Cardinality(Slots) = CACHE_LINES - 1 - 0 + 1
    BY <2>1, FS_Interval DEF Slots
  <2> QED
    BY <2>2, CacheAssumption
<1>9. Cardinality(Slots) <= Cardinality(V)
  BY <1>5, <1>7, <1>8, FS_Injection
<1>10. Cardinality(U) <= CACHE_LINES
  BY DEF Fits
<1> HIDE DEF U, V
<1> QED
  BY <1>7, <1>8, <1>9, <1>10, CacheAssumption

(* While no cache has to evict, the cores cannot tell the caches from one  *)
(* memory they share: every load returns the value written last.           *)
THEOREM CachesImplementMemory == Spec => ImplementsMemory
<1>1. Init => (Fits => Flat!Init)
  <2> SUFFICES ASSUME Init PROVE Flat!Init
    OBVIOUS
  <2>1. Good(sys) /\ result \in [Cores -> Values]
    BY InitIInv DEF IInv, TypeOK
  <2> QED
    BY <2>1, CurrentType DEF Flat!Init
<1>2. ASSUME IInv, [Next]_vars
      PROVE  [Fits => Flat!Next]_<<Current(sys), result>>
  <2>0. used \subseteq Addresses /\ Good(sys)
    BY <1>2 DEF IInv, TypeOK
  <2>1. CASE UNCHANGED vars
    BY <2>1 DEF vars
  <2>2. ASSUME Fits, NEW c \in Cores, NEW a \in used,
               Load(c, a) \/ \E v \in Values : Write(c, a, v)
        PROVE  Flat!Next
    <3> DEFINE loaded == CacheLoad(sys, c, a)
    <3>0. a \in Addresses
      BY <2>0
    <3>1. Holds(sys, c, LineOf(a)) \/ Filled(sys, c) # Slots
      BY <1>2, <2>2, RoomWhileFits
    <3>2. /\ \A b \in Addresses : Current(loaded)[b] = Current(sys)[b]
          /\ Good(loaded) /\ LoadedValue(sys, c, a) = Current(sys)[a]
      BY <2>0, <3>0, <3>1, CacheLoadKeeps
    <3>3. Current(loaded) = Current(sys)
      <4>1. /\ Current(loaded) = [b \in Addresses |-> Current(loaded)[b]]
            /\ Current(sys) = [b \in Addresses |-> Current(sys)[b]]
        BY DEF Current
      <4> HIDE DEF loaded
      <4> QED
        BY <3>2, <4>1, Zenon
    <3>4. CASE Load(c, a)
      <4>1. Current(sys') = Current(sys) /\ result' = [result EXCEPT ![c] = Current(sys)[a]]
        BY <3>2, <3>3, <3>4 DEF Load
      <4> QED
        BY <3>0, <4>1 DEF Flat!Next, Flat!Load
    <3>5. ASSUME NEW v \in Values, Write(c, a, v) PROVE Flat!Next
      <4>1. sys' = CacheWriteDirect(sys, c, a, v) /\ result' = result
        BY <3>5 DEF Write
      <4>2. Current(sys') = [Current(loaded) EXCEPT ![a] = v]
        BY <2>0, <3>0, <4>1, CacheWriteKeeps
      <4>3. Current(sys') = [Current(sys) EXCEPT ![a] = v]
        BY <3>3, <4>2
      <4> QED
        BY <3>0, <4>1, <4>3 DEF Flat!Next, Flat!Write
    <3> QED
      BY <2>2, <3>4, <3>5
  <2> QED
    BY <1>2, <2>1, <2>2 DEF Next
<1> QED
  BY <1>1, <1>2, Invariant, PTL DEF Spec, ImplementsMemory

=============================================================================
