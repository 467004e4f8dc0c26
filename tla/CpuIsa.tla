-------------------------------- MODULE CpuIsa --------------------------------
(***************************************************************************)
(* The cores of firmwareLearning/cpu_isa.c: Step runs one micro-operation  *)
(* of a core, main steps the cores in turn until all have halted, flushes  *)
(* their store buffers and writes the MODIFIED lines back.                 *)
(*                                                                         *)
(* A micro-operation of the source is the pair of the opcode and the stage *)
(* the instruction is in (LOAD_ADDR is opcode LOAD in stage "ADDR").       *)
(* Instructions are records in a program per core, apart from the data.    *)
(***************************************************************************)
EXTENDS MesiOps, Sequences, SequencesExt

CONSTANTS
    STORE_BUFFER_SIZE,
    Programs,          \* each a function from the cores to sequences of instructions
    Registers, EXP,    \* EXP is the expected value of CMPXCHG
    WORD               \* registers hold 0 .. WORD - 1

ASSUME CpuAssumption == /\ STORE_BUFFER_SIZE \in Nat \ {0} /\ EXP \in Registers
                        /\ \A p \in Programs : DOMAIN p = Cores

VARIABLES
    program,
    core,     \* CORE: registers, flags, stage
    buffer,   \* STORE_BUFFER: stores [addr, data], oldest first
    sys,      \* the caches and the memory (module MesiOps)
    owner,    \* BUS: locked_owner, -1 while the bus is not locked
    turn,     \* the core main steps or flushes next
    phase,    \* main: "run", "flush", "write back", "end"
    loaded    \* history: what each core loaded last

vars == <<program, core, buffer, sys, owner, turn, phase, loaded>>

Locked == {"LOCK_INC", "CMPXCHG"}
Jumps == {"JMP", "JEQ", "JNE", "JLT", "JGT"}

ColdCore == [regs |-> [r \in Registers |-> 0], pc |-> 1, halted |-> FALSE,
             zero |-> FALSE, sign |-> FALSE, stage |-> "FETCH",
             instr |-> [op |-> "HALT"], addr |-> 0, temp |-> 0]

Init == /\ program \in Programs
        /\ core = [c \in Cores |-> ColdCore]
        /\ buffer = [c \in Cores |-> <<>>]
        /\ sys = ColdCaches
        /\ owner = -1 /\ turn = 0 /\ phase = "run"
        /\ loaded = [c \in Cores |-> 0]

------------------------------------------------------------------------------
(* One step of a core.                                                      *)

AllHalted == \A c \in Cores : core[c].halted
NextTurn == turn' = IF turn + 1 \in Cores THEN turn + 1 ELSE 0

\* c is stepped, not halted and not stalled by the bus lock, in the stage.
In(c, stage) ==
    /\ phase = "run" /\ turn = c /\ ~core[c].halted /\ owner \in {-1, c}
    /\ core[c].stage = stage
    /\ NextTurn /\ UNCHANGED <<program, phase>>

Op(c) == core[c].instr.op
Become(c, fields) ==
    core' = [core EXCEPT ![c] = [x \in DOMAIN core[c] |->
                                   IF x \in DOMAIN fields THEN fields[x] ELSE core[c][x]]]

\* The operand of an address or a jump: the immediate, or a register in mode 1.
Operand(c) == IF core[c].instr.mode = 0 THEN core[c].instr.imm
              ELSE core[c].regs[core[c].instr.src]
Dest(c) == core[c].regs[core[c].instr.dest]
Src(c) == core[c].regs[core[c].instr.src]

Fetch(c) == /\ In(c, "FETCH")
            /\ Become(c, [instr |-> program[c][core[c].pc], pc |-> core[c].pc + 1,
                          stage |-> "DECODE"])
            /\ UNCHANGED <<buffer, sys, owner, loaded>>

FirstStage(op) == IF op \in {"LOAD", "STORE"} \cup Locked THEN "ADDR"
                  ELSE IF op = "LIC" THEN "WB" ELSE "EXEC"

Decode(c) == /\ In(c, "DECODE")
             /\ Become(c, [stage |-> FirstStage(Op(c))])
             /\ UNCHANGED <<buffer, sys, owner, loaded>>

\* LOAD_ADDR, STORE_ADDR, LOCK_INC_ADDR, CMPXCHG_ADDR.
Address(c) == /\ In(c, "ADDR")
              /\ Become(c, [addr |-> Operand(c),
                            stage |-> IF Op(c) = "STORE" THEN "STORE" ELSE "LOAD"])
              /\ owner' = IF Op(c) \in Locked THEN c ELSE owner
              /\ UNCHANGED <<buffer, sys, loaded>>

\* LOAD_MEM, LOCK_INC_LOAD, CMPXCHG_LOAD.
Load(c) ==
    LET value == LoadedValue(sys, c, core[c].addr)
    IN  /\ In(c, "LOAD")
        /\ sys' = CacheLoad(sys, c, core[c].addr)
        /\ Become(c, [temp |-> value,
                      stage |-> CASE Op(c) = "LOAD" -> "WB"
                                  [] Op(c) = "LOCK_INC" -> "STORE"
                                  [] Op(c) = "CMPXCHG" -> "COMPARE"])
        /\ loaded' = [loaded EXCEPT ![c] = value]
        /\ UNCHANGED <<buffer, owner>>

\* LOAD_WB, LIC_WB, ADD_WB, SUB_WB.
WriteBack(c) ==
    LET value == IF Op(c) = "LIC" THEN core[c].instr.imm ELSE core[c].temp
    IN  /\ In(c, "WB")
        /\ Become(c, [regs |-> [core[c].regs EXCEPT ![core[c].instr.dest] = value],
                      stage |-> "FETCH"])
        /\ UNCHANGED <<buffer, sys, owner, loaded>>

Arithmetic(c) ==
    /\ In(c, "EXEC") /\ Op(c) \in {"ADD", "SUB"}
    /\ Become(c, [temp |-> (IF Op(c) = "ADD" THEN Dest(c) + Src(c)
                            ELSE Dest(c) - Src(c)) % WORD,
                  stage |-> "WB"])
    /\ UNCHANGED <<buffer, sys, owner, loaded>>

Compare(c) == /\ In(c, "EXEC") /\ Op(c) = "CMP"
              /\ Become(c, [zero |-> Dest(c) = Src(c), sign |-> Dest(c) < Src(c),
                            stage |-> "FETCH"])
              /\ UNCHANGED <<buffer, sys, owner, loaded>>

Taken(c) == LET r == core[c]
            IN  CASE Op(c) = "JMP" -> TRUE
                  [] Op(c) = "JEQ" -> r.zero
                  [] Op(c) = "JNE" -> ~r.zero
                  [] Op(c) = "JLT" -> r.sign
                  [] Op(c) = "JGT" -> ~r.zero /\ ~r.sign

Jump(c) == /\ In(c, "EXEC") /\ Op(c) \in Jumps
           /\ Become(c, [pc |-> IF Taken(c) THEN Operand(c) ELSE core[c].pc,
                         stage |-> "FETCH"])
           /\ UNCHANGED <<buffer, sys, owner, loaded>>

\* StoreBufferPush returns without the store when the buffer is full.
StoreBufferPush(c, a, v) ==
    IF Len(buffer[c]) >= STORE_BUFFER_SIZE THEN UNCHANGED buffer
    ELSE buffer' = [buffer EXCEPT ![c] = Append(@, [addr |-> a, data |-> v])]

\* STORE_MEM, LOCK_INC_STORE, CMPXCHG_STORE: into the core's own buffer, and the
\* bus is released.
Store(c) ==
    LET value == IF Op(c) = "LOCK_INC" THEN (core[c].temp + 1) % WORD ELSE Dest(c)
    IN  /\ In(c, "STORE")
        /\ StoreBufferPush(c, core[c].addr, value)
        /\ Become(c, [temp |-> IF Op(c) = "LOCK_INC" THEN value ELSE core[c].temp,
                      zero |-> core[c].zero \/ Op(c) = "CMPXCHG",
                      stage |-> "FETCH"])
        /\ owner' = IF Op(c) \in Locked THEN -1 ELSE owner
        /\ UNCHANGED <<sys, loaded>>

CmpxchgCompare(c) ==
    /\ In(c, "COMPARE")
    /\ IF core[c].temp = core[c].regs[EXP]
       THEN Become(c, [stage |-> "STORE"])
       ELSE Become(c, [regs |-> [core[c].regs EXCEPT ![EXP] = core[c].temp],
                       zero |-> FALSE, stage |-> "FAIL"])
    /\ UNCHANGED <<buffer, sys, owner, loaded>>

\* Mutant: the failing path leaves the bus locked.
CmpxchgFailLocked(c) == /\ In(c, "FAIL")
                        /\ Become(c, [stage |-> "FETCH"])
                        /\ UNCHANGED <<buffer, sys, owner, loaded>>

CmpxchgFail(c) == /\ In(c, "FAIL")
                  /\ Become(c, [stage |-> "FETCH"])
                  /\ owner' = -1
                  /\ UNCHANGED <<buffer, sys, loaded>>

\* Mutant: one drain instead of all.
FlushStoreBufferOnce(c) ==
    IF buffer[c] = <<>> THEN UNCHANGED <<sys, buffer>>
    ELSE /\ sys' = CacheWriteDirect(sys, c, Head(buffer[c]).addr, Head(buffer[c]).data)
         /\ buffer' = [buffer EXCEPT ![c] = Tail(@)]

\* FlushStoreBuffer: DrainStoreBuffer until the buffer is empty.
FlushStoreBuffer(c) ==
    /\ sys' = FoldLeft(LAMBDA s, e : CacheWriteDirect(s, c, e.addr, e.data), sys, buffer[c])
    /\ buffer' = [buffer EXCEPT ![c] = <<>>]

\* Mutant: a fence that only takes its time.
FenceIdle(c) == /\ In(c, "EXEC") /\ Op(c) = "FENCE"
                /\ Become(c, [stage |-> "FETCH"])
                /\ UNCHANGED <<buffer, sys, owner, loaded>>

Fence(c) == /\ In(c, "EXEC") /\ Op(c) = "FENCE"
            /\ FlushStoreBuffer(c)
            /\ Become(c, [stage |-> "FETCH"])
            /\ UNCHANGED <<owner, loaded>>

Halt(c) == /\ In(c, "EXEC") /\ Op(c) = "HALT"
           /\ Become(c, [halted |-> TRUE])
           /\ UNCHANGED <<buffer, sys, owner, loaded>>

\* Step returns at once: the core has halted, or another one has locked the bus.
Stall(c) == /\ phase = "run" /\ turn = c /\ ~(turn = 0 /\ AllHalted)
            /\ core[c].halted \/ owner \notin {-1, c}
            /\ NextTurn
            /\ UNCHANGED <<program, core, buffer, sys, owner, phase, loaded>>

Step(c) ==
    \/ Fetch(c) \/ Decode(c) \/ Address(c) \/ Load(c) \/ WriteBack(c) \/ Arithmetic(c)
    \/ Compare(c) \/ Jump(c) \/ Store(c) \/ CmpxchgCompare(c) \/ CmpxchgFail(c)
    \/ Fence(c) \/ Halt(c) \/ Stall(c)

------------------------------------------------------------------------------
(* The rest of main.                                                        *)

LoopEnds == /\ phase = "run" /\ turn = 0 /\ AllHalted
            /\ phase' = "flush"
            /\ UNCHANGED <<program, core, buffer, sys, owner, turn, loaded>>

FinalFlush(c) == /\ phase = "flush" /\ turn = c
                 /\ FlushStoreBuffer(c)
                 /\ NextTurn
                 /\ phase' = IF turn + 1 \in Cores THEN "flush" ELSE "write back"
                 /\ UNCHANGED <<program, core, owner, loaded>>

\* Only MODIFIED lines reach the memory.
WriteBackModified ==
    /\ phase = "write back" /\ phase' = "end"
    /\ sys' = [sys EXCEPT !.mem = [a \in Addresses |->
                 LET dirty == {c \in Cores : \E i \in Found(sys, c, LineOf(a)) :
                                                sys.cache[c][i].state = "MODIFIED"}
                 IN  IF dirty = {} THEN @[a] ELSE ValueIn(sys, LastOf(dirty), a)]]
    /\ UNCHANGED <<program, core, buffer, owner, turn, loaded>>

Terminating == phase = "end" /\ UNCHANGED vars

Next == (\E c \in Cores : Step(c) \/ FinalFlush(c)) \/ LoopEnds \/ WriteBackModified
            \/ Terminating

Spec == Init /\ [][Next]_vars

\* main is one thread and goes on to the next core, or to its next loop, until
\* it ends.  Every other step of Next changes turn or phase.
MainGoesOn == phase # "end" /\ turn' \in Cores /\ phase' \in {"run", "flush", "write back", "end"}
FairSpec == Spec /\ WF_<<turn, phase>>(MainGoesOn)

------------------------------------------------------------------------------
(* Properties.                                                              *)

\* The cores, buffers, caches and the bus have their types (CORE, STORE_BUFFER,
\* BUS).
TypeOK ==
    /\ \A c \in Cores : /\ core[c].regs \in [Registers -> 0 .. WORD - 1]
                        /\ core[c].pc \in 1 .. Len(program[c]) + 1
                        /\ core[c].addr \in Addresses /\ core[c].temp \in 0 .. WORD - 1
                        /\ Len(buffer[c]) <= STORE_BUFFER_SIZE
    /\ sys \in CacheStates
    /\ owner \in Cores \cup {-1} /\ turn \in Cores

InLocked(c) == Op(c) \in Locked /\ core[c].stage \in {"LOAD", "STORE", "COMPARE", "FAIL"}

\* The bus is locked for exactly the core that is between the address and the
\* end of a LOCK_INC or CMPXCHG: no path leaves it locked, and no other core is
\* inside a locked operation at the time.
BusLockExact == \A c \in Cores : owner = c <=> InLocked(c)

\* The cores see one memory behind FIFO store buffers: caches, snoops and the
\* order of steps add nothing to that (as long as no buffer is full and no
\* cache evicts).
Buffered == INSTANCE StoreBufferedMemory WITH memory <- Current(sys)
ImplementsBufferedMemory == Buffered!Spec

\* Every program that cannot loop, or waits for what another core publishes
\* with a fence, halts; no lock or stale copy holds a core up for ever.
ProgramsHalt == <>(phase = "end")
================================================================================
