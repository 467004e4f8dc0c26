-------------------------- MODULE StoreBufferedMemory --------------------------
(* What a program of cpu_isa.c can observe of the memory: each core has a FIFO  *)
(* of stores, which reach the one memory in order and all at once at a fence;   *)
(* loads read the memory and not the buffer.                                    *)
EXTENDS Sequences, SequencesExt
CONSTANTS Cores, Addresses, Values

VARIABLES memory,  \* the value of each address
          buffer,  \* stores [addr, data] not yet in memory, oldest first
          loaded   \* what each core loaded last

vars == <<memory, buffer, loaded>>

Init == /\ memory = [a \in Addresses |-> 0]
        /\ buffer = [c \in Cores |-> <<>>]
        /\ loaded = [c \in Cores |-> 0]

Load(c, a) == /\ loaded' = [loaded EXCEPT ![c] = memory[a]]
              /\ UNCHANGED <<memory, buffer>>

Store(c, a, v) == /\ buffer' = [buffer EXCEPT ![c] = Append(@, [addr |-> a, data |-> v])]
                  /\ UNCHANGED <<memory, loaded>>

Flush(c) ==
    /\ memory' = FoldLeft(LAMBDA m, e : [m EXCEPT ![e.addr] = e.data], memory, buffer[c])
    /\ buffer' = [buffer EXCEPT ![c] = <<>>]
    /\ UNCHANGED loaded

Next == \E c \in Cores :
            \/ \E a \in Addresses : Load(c, a) \/ \E v \in Values : Store(c, a, v)
            \/ Flush(c)

Spec == Init /\ [][Next]_vars
================================================================================
