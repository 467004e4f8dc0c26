---------------------------- MODULE CoherentMemory ----------------------------
(* What the caches of cpu_isa.c promise: one memory that every core reads and *)
(* writes at once, as if no core had a cache.                                 *)
CONSTANTS Cores, Addresses, Values

VARIABLES memory, \* the value of each address
          result  \* what each core loaded last

Init == /\ memory \in [Addresses -> Values]
        /\ result \in [Cores -> Values]

Load(c, a) == /\ result' = [result EXCEPT ![c] = memory[a]]
              /\ UNCHANGED memory

Write(c, a, v) == /\ memory' = [memory EXCEPT ![a] = v]
                  /\ UNCHANGED result

Next == \E c \in Cores, a \in Addresses :
            Load(c, a) \/ \E v \in Values : Write(c, a, v)

Spec == Init /\ [][Next]_<<memory, result>>
===============================================================================
