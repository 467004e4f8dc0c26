--------------------------------- MODULE MCCpu ---------------------------------
(* The cores of cpu_isa.c on litmus programs.  Addresses 0 and 1 share a line,  *)
(* 2 begins another one.                                                        *)
EXTENDS CpuIsa

I(op, dest, src, mode, imm) == [op |-> op, dest |-> dest, src |-> src, mode |-> mode, imm |-> imm]
Set(r, v) == I("LIC", r, 0, 0, v)
FENCE == I("FENCE", 0, 0, 0, 0)
HALT == I("HALT", 0, 0, 0, 0)
LoadAt(r, a) == I("LOAD", r, 0, 0, a)
StoreAt(r, a) == I("STORE", r, 0, 0, a)

\* Instructions before a program that shift it against the other core.
Delay(n) == [i \in 1 .. n |-> Set(0, 0)]
Pair(p, q) == [c \in {0, 1} |-> IF c = 0 THEN p ELSE q]

\* main's programs: the data is published before the flag, the other core waits
\* for the flag and reads the data.
Producer(data, flag) ==
    <<Set(0, data), Set(1, flag), Set(2, 42), Set(3, 1),
      I("STORE", 2, 0, 1, 0), FENCE, I("STORE", 3, 1, 1, 0), FENCE, HALT>>
Consumer(data, flag, n) ==
    <<Set(0, flag), Set(1, data), Set(2, 0), I("LOAD", 3, 0, 1, 0),
      I("CMP", 3, 2, 0, 0), I("JEQ", 0, 0, 0, n + 4), I("LOAD", 4, 1, 1, 0), HALT>>
\* The consumer has the data in its cache already, or not.
Before == {Delay(n) : n \in 0 .. 3} \cup {<<LoadAt(4, 0)>> \o Delay(n) : n \in {0, 1, 10}}
MessagePassing ==
    {Pair(Delay(n) \o Producer(0, flag), first \o Consumer(0, flag, Len(first))) :
        n \in 0 .. 3, flag \in {1, 2}, first \in Before}

\* Each core publishes its own word and then reads the other's.
Publisher(mine, other) == <<Set(1, 1), StoreAt(1, mine), FENCE, LoadAt(3, other), HALT>>
StoreThenLoad ==
    {Pair(Delay(n) \o first \o Publisher(0, other), Delay(k) \o Publisher(other, 0)) :
        n \in 0 .. 2, k \in 0 .. 2, other \in {1, 2}, first \in {<<>>, <<LoadAt(3, 2)>>}}

\* Counts down with every jump but the one main uses; a wrong flag ends in a trap.
CountDown ==
    <<Set(0, 2), Set(1, 1), Set(2, 0), I("SUB", 0, 1, 0, 0), I("CMP", 0, 2, 0, 0),
      I("JNE", 0, 0, 0, 4), I("CMP", 1, 0, 0, 0), I("JGT", 0, 0, 0, 10), I("JMP", 0, 0, 0, 9),
      I("CMP", 0, 1, 0, 0), I("JLT", 0, 0, 0, 13), I("JMP", 0, 0, 0, 12), I("ADD", 0, 1, 0, 0),
      I("JMP", 0, 0, 0, 16), I("JMP", 0, 0, 0, 15), HALT>>
LitmusPrograms == MessagePassing \cup StoreThenLoad \cup {Pair(CountDown, CountDown)}

\* Any three instructions on one core and any two on the other, and one store
\* more than the buffer holds.
Menu == {StoreAt(1, 0), StoreAt(1, 2), LoadAt(3, 0), FENCE, I("LOCK_INC", 0, 0, 0, 0),
         I("CMPXCHG", 1, 0, 0, 0)}
ManyStores(n) == Pair(<<Set(1, 1)>> \o [i \in 1 .. n |-> StoreAt(1, 0)] \o <<FENCE, HALT>>, <<HALT>>)
ShortPrograms ==
    {Pair(<<Set(1, 1), i, j, k, HALT>>, <<l, m, HALT>>) :
        i \in Menu, j \in Menu, k \in Menu, l \in Menu, m \in Menu} \cup {ManyStores(5)}

AllPrograms == LitmusPrograms \cup ShortPrograms

\* "expected 42" (cpu_isa.c:932): a core that has seen the flag sees the data
\* stored before it.  With a fence between a core's store and its load, at
\* least one of two cores that each publish and then look sees the other.  All
\* programs stay within their instructions, the memory and the store buffers.
LitmusOutcomes ==
    /\ TypeOK
    /\ core[1].halted /\ program \in MessagePassing => core[1].regs[4] = 42
    /\ AllHalted /\ program \in StoreThenLoad =>
         core[0].regs[3] = 1 \/ core[1].regs[3] = 1
================================================================================
