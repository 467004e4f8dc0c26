------------------------------- MODULE MesiCache -------------------------------
(* The caches of cpu_isa.c driven by any sequence of loads and drained stores   *)
(* of the cores: what the bus serialises (CacheLoad, CacheWriteDirect).         *)
EXTENDS MesiOps, FiniteSets

ASSUME MemoryAssumption == IsFiniteSet(Addresses)

VARIABLES used,    \* the addresses this program uses
          sys,     \* the caches and the main memory
          result,  \* what each core loaded last
          latest   \* history: the value written last to each address

vars == <<used, sys, result, latest>>

\* BUS and CORE start zeroed.
Init == /\ used \in SUBSET Addresses \ {{}}
        /\ sys = ColdCaches
        /\ latest = ColdCaches.mem
        /\ result = [c \in Cores |-> 0]

Load(c, a) == /\ sys' = CacheLoad(sys, c, a)
              /\ result' = [result EXCEPT ![c] = LoadedValue(sys, c, a)]
              /\ UNCHANGED latest

Write(c, a, v) == /\ sys' = CacheWriteDirect(sys, c, a, v)
                  /\ latest' = [latest EXCEPT ![a] = v]
                  /\ UNCHANGED result

Next == /\ \E c \in Cores, a \in used :
               Load(c, a) \/ \E v \in Values : Write(c, a, v)
        /\ UNCHANGED used

Spec == Init /\ [][Next]_vars

------------------------------------------------------------------------------
\* The caches and the memory have their types (CACHE, BUS).
TypeOK == /\ used \subseteq Addresses
          /\ sys \in CacheStates
          /\ result \in [Cores -> Values]
          /\ latest \in [Addresses -> Values]

\* After any interleaving of fills, evictions and snoops at most one core can
\* write a line without asking the bus, and a hit returns what every other hit
\* on the line would.
Coherent == TypeOK /\ SingleWriter(sys) /\ CopiesAgree(sys)

\* "Write-back if dirty" (cpu_isa.c:373), as far as it goes: an address keeps
\* the value written last to it when its line leaves a cache, unless the line
\* was SHARED.
StatesOf(a) == {sys.cache[p[1]][p[2]].state : p \in Copies(sys, LineOf(a))}
LossOnlyWhenShared ==
    [][\A a \in Addresses : Current(sys)[a] = latest[a] /\ Current(sys')[a] # latest'[a] =>
           StatesOf(a) = {"SHARED"} /\ Copies(sys', LineOf(a)) = {}]_vars

\* While no cache has to evict, the cores cannot tell the caches from one
\* memory they share: every load returns the value written last.
Fits == Cardinality({LineOf(a) : a \in used}) <= CACHE_LINES
Flat == INSTANCE CoherentMemory WITH memory <- Current(sys)
ImplementsMemory == /\ Fits => Flat!Init
                    /\ [][Fits => Flat!Next]_<<Current(sys), result>>
================================================================================
