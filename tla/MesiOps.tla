-------------------------------- MODULE MesiOps --------------------------------
(***************************************************************************)
(* The caches of firmwareLearning/cpu_isa.c.  A state of them is a record  *)
(* with the slots of each core and the main memory; every operator returns *)
(* the state after the routine it is named for.                            *)
(*                                                                         *)
(* Addresses count words.  What an INVALID slot still holds is never read  *)
(* (CacheFind) and is left out.                                            *)
(***************************************************************************)
EXTENDS Integers

CONSTANTS NUM_CORES, CACHE_LINES, CACHE_LINE_DATA_WORDS, Addresses, Values

Cores == 0 .. NUM_CORES - 1
Slots == 0 .. CACHE_LINES - 1
Words == 0 .. CACHE_LINE_DATA_WORDS - 1
LineOf(a) == a \div CACHE_LINE_DATA_WORDS
WordOf(a) == a % CACHE_LINE_DATA_WORDS
Lines == {LineOf(a) : a \in Addresses}
AddressOf(l, w) == l * CACHE_LINE_DATA_WORDS + w

\* The memory is a number of whole lines.
ASSUME CacheAssumption ==
    /\ NUM_CORES \in Nat \ {0} /\ CACHE_LINES \in Nat \ {0}
    /\ CACHE_LINE_DATA_WORDS \in Nat \ {0}
    /\ 0 \in Values /\ Addresses \subseteq Nat
    /\ \A l \in Lines, w \in Words : AddressOf(l, w) \in Addresses

Mesi == {"EXCLUSIVE", "SHARED", "MODIFIED"}
Empty == [state |-> "INVALID"]
CacheLine == [state: Mesi, line: Lines, data: [Words -> Values]]
CacheStates == [cache: [Cores -> [Slots -> CacheLine \cup {Empty}]],
                mem: [Addresses -> Values]]

ColdCaches == [cache |-> [c \in Cores |-> [i \in Slots |-> Empty]],
               mem |-> [a \in Addresses |-> 0]]

Filled(s, c) == {i \in Slots : s.cache[c][i] # Empty}
\* The slot CacheFind returns is the one in Found.
Found(s, c, l) == {i \in Filled(s, c) : s.cache[c][i].line = l}
Holds(s, c, l) == Found(s, c, l) # {}
CacheFind(s, c, l) == CHOOSE i \in Found(s, c, l) : TRUE

\* Mutant: nothing is written back.
EvictSilently(s, c, i) == [s EXCEPT !.cache[c][i] = Empty]

\* Only a MODIFIED line is written back.
CacheEvictLine(s, c, i) ==
    LET victim == s.cache[c][i]
    IN  [cache |-> [s.cache EXCEPT ![c][i] = Empty],
         mem |-> [a \in Addresses |->
                    IF victim.state = "MODIFIED" /\ LineOf(a) = victim.line
                    THEN victim.data[WordOf(a)] ELSE s.mem[a]]]

\* The victim of a full cache is always slot 0.
CacheGetEmpty(s, c) == IF Filled(s, c) = Slots THEN CacheEvictLine(s, c, 0) ELSE s
EmptySlot(s, c) == CHOOSE i \in Slots \ Filled(s, c) :
                      \A j \in Slots \ Filled(s, c) : i <= j

\* Mutant: an EXCLUSIVE copy does not notice the other reader.
SnoopReadModifiedOnly(s, c, l) ==
    [s EXCEPT !.cache = [d \in Cores |->
        IF d = c THEN s.cache[d]
        ELSE [i \in Slots |-> IF i \in Found(s, d, l) /\ s.cache[d][i].state = "MODIFIED"
                              THEN [s.cache[d][i] EXCEPT !.state = "SHARED"]
                              ELSE s.cache[d][i]]]]

\* BusRd: every copy becomes SHARED, a MODIFIED one without a write-back.
SnoopRead(s, c, l) ==
    [s EXCEPT !.cache = [d \in Cores |->
        IF d = c THEN s.cache[d]
        ELSE [i \in Slots |-> IF i \in Found(s, d, l)
                              THEN [s.cache[d][i] EXCEPT !.state = "SHARED"]
                              ELSE s.cache[d][i]]]]

\* Mutant: the other copies stay.
SnoopWriteNothing(s, c, l) == s

\* BusRdX: every other copy becomes INVALID; the dirty data it would show is
\* not used, as the writer is SHARED and has it.
SnoopWrite(s, c, l) ==
    [s EXCEPT !.cache = [d \in Cores |->
        IF d = c THEN s.cache[d]
        ELSE [i \in Slots |-> IF i \in Found(s, d, l) THEN Empty ELSE s.cache[d][i]]]]

\* The cores whose snoop sets snoop_hit, and the last of them, whose data stays.
Responders(s, c, l) == {d \in Cores \ {c} : Holds(s, d, l)}
LastOf(ds) == CHOOSE d \in ds : \A e \in ds : e <= d

\* Mutant: the data the snoop returned is ignored.
FillLineFromMemory(s, c, l) ==
    [state |-> IF Responders(s, c, l) # {} THEN "SHARED" ELSE "EXCLUSIVE", line |-> l,
     data |-> [w \in Words |-> s.mem[AddressOf(l, w)]]]

\* The line a miss fills: from another cache if one answers, else from memory.
FillLine(s, c, l) ==
    IF Responders(s, c, l) # {}
    THEN LET d == LastOf(Responders(s, c, l))
         IN  [state |-> "SHARED", line |-> l, data |-> s.cache[d][CacheFind(s, d, l)].data]
    ELSE [state |-> "EXCLUSIVE", line |-> l,
          data |-> [w \in Words |-> s.mem[AddressOf(l, w)]]]

\* CacheLoad: the caches after it, and the value it returns.
CacheLoad(s, c, a) ==
    IF Holds(s, c, LineOf(a)) THEN s
    ELSE LET room == CacheGetEmpty(s, c)
             snooped == SnoopRead(room, c, LineOf(a))
         IN  [snooped EXCEPT !.cache[c][EmptySlot(room, c)] = FillLine(room, c, LineOf(a))]

ValueIn(s, c, a) == s.cache[c][CacheFind(s, c, LineOf(a))].data[WordOf(a)]
LoadedValue(s, c, a) == ValueIn(CacheLoad(s, c, a), c, a)

CacheWriteDirect(s, c, a, v) ==
    LET l == LineOf(a)
        loaded == CacheLoad(s, c, a)
        i == CacheFind(loaded, c, l)
        alone == IF loaded.cache[c][i].state = "SHARED" THEN SnoopWrite(loaded, c, l)
                 ELSE loaded
    IN  [alone EXCEPT !.cache[c][i] = [state |-> "MODIFIED", line |-> l,
                                       data |-> [@.data EXCEPT ![WordOf(a)] = v]]]

\* The value of an address: that of a copy, or of memory if there is none.
Current(s) ==
    [a \in Addresses |-> IF \E c \in Cores : Holds(s, c, LineOf(a))
                         THEN ValueIn(s, CHOOSE c \in Cores : Holds(s, c, LineOf(a)), a)
                         ELSE s.mem[a]]

------------------------------------------------------------------------------
Copies(s, l) == {p \in Cores \X Slots : p[2] \in Found(s, p[1], l)}

\* A core has a line at most once; an EXCLUSIVE or MODIFIED copy is the only
\* one (CacheSnoop).
SingleWriter(s) ==
    \A l \in Lines : \A p, q \in Copies(s, l) :
        p # q => /\ p[1] # q[1]
                 /\ s.cache[p[1]][p[2]].state = "SHARED"

\* All copies of a line hold the same data, and an EXCLUSIVE one that of memory.
CopiesAgree(s) ==
    \A l \in Lines : \A p \in Copies(s, l) :
        /\ \A q \in Copies(s, l) : s.cache[p[1]][p[2]].data = s.cache[q[1]][q[2]].data
        /\ s.cache[p[1]][p[2]].state = "EXCLUSIVE" =>
              \A w \in Words : s.cache[p[1]][p[2]].data[w] = s.mem[AddressOf(l, w)]
================================================================================
