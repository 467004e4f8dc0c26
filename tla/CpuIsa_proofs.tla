---------------------------- MODULE CpuIsa_proofs ----------------------------
(***************************************************************************)
(* Proofs about the bus lock of cpu_isa.c, for every program, every number *)
(* of cores and every size of the caches and buffers: LOCK_INC and CMPXCHG *)
(* exclude each other and every other instruction.                         *)
(***************************************************************************)
EXTENDS CpuIsa, TLAPS

Fields == {"regs", "pc", "halted", "zero", "sign", "stage", "instr", "addr", "temp"}

\* A core has its fields; a core at the memory stages of an instruction runs one
\* that has them, a halted core does not leave its HALT, and main leaves its first
\* loop when all have halted.
CoresFormed ==
    /\ DOMAIN core = Cores /\ DOMAIN buffer = Cores
    /\ phase # "run" => AllHalted
    /\ \A c \in Cores :
         /\ Fields \subseteq DOMAIN core[c]
         /\ core[c].stage = "ADDR" => Op(c) \in {"LOAD", "STORE"} \cup Locked
         /\ core[c].stage = "LOAD" => Op(c) \in {"LOAD"} \cup Locked
         /\ core[c].halted => core[c].stage = "EXEC"

IInv == owner \in Cores \cup {-1} /\ CoresFormed /\ BusLockExact

\* While a core is inside a locked operation no other core does anything: its
\* registers, stage and store buffer stay, and the caches and the memory change
\* by the steps of that core only.
LockedAlone ==
    [][\A c \in Cores : InLocked(c) =>
         /\ \A d \in Cores \ {c} : core'[d] = core[d] /\ buffer'[d] = buffer[d]
         /\ turn # c => UNCHANGED <<core, buffer, sys>>]_vars

------------------------------------------------------------------------------
(* What a step does to its core.                                             *)

(* No core has the number of the free bus. *)
LEMMA NobodyOwns == -1 \notin Cores
BY CacheAssumption DEF Cores

(* A core that becomes something keeps its other fields, and the other cores *)
(* stay as they are.                                                         *)
LEMMA Becomes ==
  ASSUME CoresFormed, NEW c \in Cores, NEW fields, Become(c, fields)
  PROVE  /\ DOMAIN core' = Cores
         /\ \A d \in Cores \ {c} : core'[d] = core[d]
         /\ Fields \subseteq DOMAIN core'[c]
         /\ \A x \in Fields : core'[c][x] = IF x \in DOMAIN fields THEN fields[x] ELSE core[c][x]
<1>1. DOMAIN core = Cores /\ Fields \subseteq DOMAIN core[c]
  BY DEF CoresFormed
<1>2. core' = [core EXCEPT ![c] = [x \in DOMAIN core[c] |->
                 IF x \in DOMAIN fields THEN fields[x] ELSE core[c][x]]]
  BY DEF Become
<1>3. /\ DOMAIN core' = Cores /\ \A d \in Cores \ {c} : core'[d] = core[d]
      /\ core'[c] = [x \in DOMAIN core[c] |-> IF x \in DOMAIN fields THEN fields[x] ELSE core[c][x]]
  BY <1>1, <1>2
<1> QED
  BY <1>1, <1>3

(* The stage, the instruction and the halt flag of a core after its step.    *)
After(c, stage, instr, halted) ==
    /\ DOMAIN core' = Cores /\ \A d \in Cores \ {c} : core'[d] = core[d]
    /\ Fields \subseteq DOMAIN core'[c]
    /\ core'[c].stage = stage /\ core'[c].instr = instr /\ core'[c].halted = halted

(* A step changes the stage, the instruction and the halt flag to what its   *)
(* action names.                                                             *)
LEMMA Changes ==
  ASSUME CoresFormed, NEW c \in Cores, NEW fields, Become(c, fields)
  PROVE  After(c, IF "stage" \in DOMAIN fields THEN fields.stage ELSE core[c].stage,
                  IF "instr" \in DOMAIN fields THEN fields.instr ELSE core[c].instr,
                  IF "halted" \in DOMAIN fields THEN fields.halted ELSE core[c].halted)
<1>1. {"stage", "instr", "halted"} \subseteq Fields
  BY DEF Fields
<1> QED
  BY <1>1, Becomes DEF After
(* A flush empties the buffer of its core and no other. *)
LEMMA FlushedBuffer ==
  ASSUME NEW c \in Cores, DOMAIN buffer = Cores, FlushStoreBuffer(c)
  PROVE  DOMAIN buffer' = Cores /\ \A d \in Cores \ {c} : buffer'[d] = buffer[d]
<1>1. buffer' = [buffer EXCEPT ![c] = <<>>]
  BY Zenon DEF FlushStoreBuffer
<1> QED
  BY <1>1

------------------------------------------------------------------------------
(* The invariant.                                                            *)

InsideLocked(stage, instr) ==
    instr.op \in Locked /\ stage \in {"LOAD", "STORE", "COMPARE", "FAIL"}

(* The bus is free, or locked for the core that may step.                    *)
LEMMA OwnerOf ==
  ASSUME IInv, NEW c \in Cores, owner \in {-1, c}
  PROVE  owner = IF InsideLocked(core[c].stage, core[c].instr) THEN c ELSE -1
BY NobodyOwns DEF IInv, BusLockExact, InLocked, InsideLocked, Op

(* A step keeps the invariant if it leaves the bus locked exactly when it    *)
(* leaves its core inside a locked operation.                                *)
LEMMA StepKeeps ==
  ASSUME IInv, NEW c \in Cores, NEW stage, NEW instr, NEW halted,
         After(c, stage, instr, halted), DOMAIN buffer' = Cores,
         phase = "run", phase' = "run", owner \in {-1, c},
         stage = "ADDR" => instr.op \in {"LOAD", "STORE"} \cup Locked,
         stage = "LOAD" => instr.op \in {"LOAD"} \cup Locked,
         halted => stage = "EXEC",
         owner' = IF InsideLocked(stage, instr) THEN c ELSE -1
  PROVE  IInv'
<1>1. \A d \in Cores \ {c} : owner # d /\ core'[d] = core[d]
  BY NobodyOwns DEF After
<1>2. /\ core'[c].stage = stage /\ core'[c].instr = instr /\ core'[c].halted = halted
      /\ DOMAIN core' = Cores /\ Fields \subseteq DOMAIN core'[c]
  BY DEF After
<1>3. CoresFormed'
  <2>1. ASSUME NEW d \in Cores
        PROVE  /\ Fields \subseteq DOMAIN core'[d]
               /\ core'[d].stage = "ADDR" => core'[d].instr.op \in {"LOAD", "STORE"} \cup Locked
               /\ core'[d].stage = "LOAD" => core'[d].instr.op \in {"LOAD"} \cup Locked
               /\ core'[d].halted => core'[d].stage = "EXEC"
    <3>1. CASE d = c
      BY <1>2, <3>1
    <3>2. CASE d # c
      BY <1>1, <3>2 DEF IInv, CoresFormed, Op
    <3> QED
      BY <3>1, <3>2
  <2> QED
    BY <1>2, <2>1 DEF CoresFormed, Op
<1>4. owner' \in Cores \cup {-1}
  OBVIOUS
<1>5. BusLockExact'
  <2>1. ASSUME NEW d \in Cores
        PROVE  owner' = d <=> core'[d].instr.op \in Locked
                              /\ core'[d].stage \in {"LOAD", "STORE", "COMPARE", "FAIL"}
    <3>1. CASE d = c
      BY <1>2, <3>1, NobodyOwns DEF InsideLocked
    <3>2. CASE d # c
      <4>1. owner # d /\ ~InLocked(d)
        BY <1>1, <3>2 DEF IInv, BusLockExact
      <4> QED
        BY <1>1, <3>2, <4>1, NobodyOwns DEF InLocked, Op
    <3> QED
      BY <3>1, <3>2
  <2> QED
    BY <2>1 DEF BusLockExact, InLocked, Op
<1> QED
  BY <1>3, <1>4, <1>5 DEF IInv

(* Every step of a core keeps the invariant. *)
LEMMA CoreSteps ==
  ASSUME IInv, NEW c \in Cores, Step(c)
  PROVE  IInv'
<1> DEFINE stage == core[c].stage
           instr == core[c].instr
           halted == core[c].halted
<1>0. /\ DOMAIN core = Cores /\ DOMAIN buffer = Cores /\ CoresFormed
      /\ stage = "ADDR" => instr.op \in {"LOAD", "STORE"} \cup Locked
      /\ stage = "LOAD" => instr.op \in {"LOAD"} \cup Locked
  BY DEF IInv, CoresFormed, Op
<1>i. ASSUME NEW s, In(c, s)
      PROVE  /\ phase = "run" /\ phase' = "run" /\ owner \in {-1, c} /\ stage = s /\ ~halted
             /\ owner = IF InsideLocked(stage, instr) THEN c ELSE -1
  BY <1>i, OwnerOf DEF In
<1>1. CASE Fetch(c)
  <2>1. In(c, "FETCH") /\ UNCHANGED <<buffer, owner>>
    BY <1>1 DEF Fetch
  <2>2. PICK i : After(c, "DECODE", i, halted)
    <3> DEFINE f == [instr |-> program[c][core[c].pc], pc |-> core[c].pc + 1, stage |-> "DECODE"]
    <3>1. Become(c, f)
      BY <1>1 DEF Fetch
    <3>2. "stage" \in DOMAIN f /\ f.stage = "DECODE" /\ "instr" \in DOMAIN f /\ "halted" \notin DOMAIN f
      OBVIOUS
    <3> HIDE DEF f
    <3> QED
      BY <1>0, <3>1, <3>2, Changes
  <2> QED
    BY <1>0, <1>i, <2>1, <2>2, StepKeeps DEF InsideLocked
<1>2. CASE Decode(c)
  <2>1. In(c, "DECODE") /\ UNCHANGED <<buffer, owner>>
    BY <1>2 DEF Decode
  <2>2. After(c, FirstStage(instr.op), instr, halted)
    BY <1>0, <1>2, Changes DEF Decode, Op
  <2>3. /\ FirstStage(instr.op) \in {"ADDR", "WB", "EXEC"}
        /\ FirstStage(instr.op) = "ADDR" => instr.op \in {"LOAD", "STORE"} \cup Locked
    BY DEF FirstStage
  <2> QED
    BY <1>0, <1>i, <2>1, <2>2, <2>3, StepKeeps DEF InsideLocked
<1>3. CASE Address(c)
  <2> DEFINE next == IF instr.op = "STORE" THEN "STORE" ELSE "LOAD"
  <2>1. /\ In(c, "ADDR") /\ UNCHANGED buffer
        /\ owner' = IF instr.op \in Locked THEN c ELSE owner
    BY <1>3 DEF Address, Op
  <2>2. After(c, next, instr, halted)
    BY <1>0, <1>3, Changes DEF Address, Op
  <2>3. next = "LOAD" => instr.op \in {"LOAD"} \cup Locked
    BY <1>0, <1>i, <2>1
  <2>4. owner' = IF InsideLocked(next, instr) THEN c ELSE -1
    BY <1>i, <2>1 DEF InsideLocked, Locked
  <2> QED
    BY <1>0, <1>i, <2>1, <2>2, <2>3, <2>4, StepKeeps
<1>4. CASE Load(c)
  <2>1. In(c, "LOAD") /\ UNCHANGED <<buffer, owner>>
    BY <1>4 DEF Load
  <2>2. PICK next \in {"WB", "STORE", "COMPARE"} :
           /\ After(c, next, instr, halted)
           /\ next = "WB" <=> instr.op = "LOAD"
    <3>1. instr.op \in {"LOAD", "LOCK_INC", "CMPXCHG"}
      BY <1>0, <1>i, <2>1 DEF Locked
    <3>2. CASE instr.op = "LOAD"
      <4>1. After(c, "WB", instr, halted)
        BY <1>0, <1>4, <3>2, Changes DEF Load, Op
      <4> QED
        BY <3>2, <4>1
    <3>3. CASE instr.op = "LOCK_INC"
      <4>1. After(c, "STORE", instr, halted)
        BY <1>0, <1>4, <3>3, Changes DEF Load, Op
      <4> QED
        BY <3>3, <4>1
    <3>4. CASE instr.op = "CMPXCHG"
      <4>1. After(c, "COMPARE", instr, halted)
        BY <1>0, <1>4, <3>4, Changes DEF Load, Op
      <4> QED
        BY <3>4, <4>1
    <3> QED
      BY <3>1, <3>2, <3>3, <3>4
  <2>3. InsideLocked(next, instr) <=> InsideLocked(stage, instr)
    BY <1>0, <1>i, <2>1, <2>2 DEF InsideLocked, Locked
  <2> QED
    BY <1>0, <1>i, <2>1, <2>2, <2>3, StepKeeps
<1>5. CASE WriteBack(c)
  <2>1. In(c, "WB") /\ UNCHANGED <<buffer, owner>>
    BY <1>5 DEF WriteBack
  <2>2. After(c, "FETCH", instr, halted)
    BY <1>0, <1>5, Changes DEF WriteBack
  <2> QED
    BY <1>0, <1>i, <2>1, <2>2, StepKeeps DEF InsideLocked
<1>6. CASE Arithmetic(c)
  <2>1. In(c, "EXEC") /\ UNCHANGED <<buffer, owner>>
    BY <1>6 DEF Arithmetic
  <2>2. After(c, "WB", instr, halted)
    BY <1>0, <1>6, Changes DEF Arithmetic
  <2> QED
    BY <1>0, <1>i, <2>1, <2>2, StepKeeps DEF InsideLocked
<1>7. CASE Compare(c)
  <2>1. In(c, "EXEC") /\ UNCHANGED <<buffer, owner>>
    BY <1>7 DEF Compare
  <2>2. After(c, "FETCH", instr, halted)
    BY <1>0, <1>7, Changes DEF Compare
  <2> QED
    BY <1>0, <1>i, <2>1, <2>2, StepKeeps DEF InsideLocked
<1>8. CASE Jump(c)
  <2>1. In(c, "EXEC") /\ UNCHANGED <<buffer, owner>>
    BY <1>8 DEF Jump
  <2>2. After(c, "FETCH", instr, halted)
    BY <1>0, <1>8, Changes DEF Jump
  <2> QED
    BY <1>0, <1>i, <2>1, <2>2, StepKeeps DEF InsideLocked
<1>9. CASE Store(c)
  <2>1. /\ In(c, "STORE") /\ owner' = IF instr.op \in Locked THEN -1 ELSE owner
    BY <1>9 DEF Store, Op
  <2>2. After(c, "FETCH", instr, halted)
    BY <1>0, <1>9, Changes DEF Store
  <2>3. DOMAIN buffer' = Cores
    BY <1>0, <1>9 DEF Store, StoreBufferPush
  <2>4. owner' = -1
    BY <1>i, <2>1 DEF InsideLocked
  <2> QED
    BY <1>0, <1>i, <2>1, <2>2, <2>3, <2>4, StepKeeps DEF InsideLocked
<1>10. CASE CmpxchgCompare(c)
  <2>1. In(c, "COMPARE") /\ UNCHANGED <<buffer, owner>>
    BY <1>10 DEF CmpxchgCompare
  <2>2. After(c, "STORE", instr, halted) \/ After(c, "FAIL", instr, halted)
    BY <1>0, <1>10, Changes DEF CmpxchgCompare
  <2>3. /\ InsideLocked("STORE", instr) <=> InsideLocked(stage, instr)
        /\ InsideLocked("FAIL", instr) <=> InsideLocked(stage, instr)
    BY <1>i, <2>1 DEF InsideLocked
  <2> QED
    BY <1>0, <1>i, <2>1, <2>2, <2>3, StepKeeps
<1>11. CASE CmpxchgFail(c)
  <2>1. In(c, "FAIL") /\ UNCHANGED buffer /\ owner' = -1
    BY <1>11 DEF CmpxchgFail
  <2>2. After(c, "FETCH", instr, halted)
    BY <1>0, <1>11, Changes DEF CmpxchgFail
  <2> QED
    BY <1>0, <1>i, <2>1, <2>2, StepKeeps DEF InsideLocked
<1>12. CASE Fence(c)
  <2>1. In(c, "EXEC") /\ UNCHANGED owner /\ DOMAIN buffer' = Cores
    BY <1>0, <1>12, FlushedBuffer DEF Fence
  <2>2. After(c, "FETCH", instr, halted)
    BY <1>0, <1>12, Changes DEF Fence
  <2> QED
    BY <1>0, <1>i, <2>1, <2>2, StepKeeps DEF InsideLocked
<1>13. CASE Halt(c)
  <2>1. In(c, "EXEC") /\ UNCHANGED <<buffer, owner>>
    BY <1>13 DEF Halt
  <2>2. PICK halt : After(c, "EXEC", instr, halt)
    <3> DEFINE f == [halted |-> TRUE]
    <3>1. Become(c, f)
      BY <1>13 DEF Halt
    <3>2. "stage" \notin DOMAIN f /\ "instr" \notin DOMAIN f /\ "halted" \in DOMAIN f
      OBVIOUS
    <3> HIDE DEF f
    <3>3. After(c, stage, instr, f.halted)
      BY <1>0, <3>1, <3>2, Changes
    <3>4. stage = "EXEC"
      BY <1>i, <2>1
    <3> QED
      BY <3>3, <3>4
  <2> QED
    BY <1>0, <1>i, <2>1, <2>2, StepKeeps DEF InsideLocked
<1>14. CASE Stall(c)
  BY <1>14 DEF Stall, IInv, CoresFormed, BusLockExact, InLocked, Op, AllHalted
<1> QED
  BY <1>1, <1>2, <1>3, <1>4, <1>5, <1>6, <1>7, <1>8, <1>9, <1>10, <1>11, <1>12, <1>13, <1>14 DEF Step

(* The rest of main leaves the cores and the bus alone.                      *)
LEMMA NextIInv == IInv /\ [Next]_vars => IInv'
<1> SUFFICES ASSUME IInv, [Next]_vars PROVE IInv'
  OBVIOUS
<1>1. ASSUME NEW c \in Cores, Step(c) PROVE IInv'
  BY <1>1, CoreSteps
<1>2. ASSUME UNCHANGED <<core, owner>>, DOMAIN buffer' = DOMAIN buffer, phase' # "run" => AllHalted
      PROVE  IInv'
  BY <1>2 DEF IInv, CoresFormed, BusLockExact, InLocked, Op, AllHalted
<1>3. ASSUME NEW c \in Cores, FinalFlush(c) PROVE IInv'
  BY <1>2, <1>3, FlushedBuffer DEF FinalFlush, IInv, CoresFormed
<1>4. CASE LoopEnds
  BY <1>2, <1>4 DEF LoopEnds
<1>5. CASE WriteBackModified
  BY <1>2, <1>5 DEF WriteBackModified, IInv, CoresFormed
<1>6. CASE UNCHANGED vars
  BY <1>2, <1>6 DEF vars, IInv, CoresFormed
<1> QED
  BY <1>1, <1>3, <1>4, <1>5, <1>6 DEF Next, Terminating

(* The cores start at a fetch, with the bus free. *)
LEMMA InitIInv == Init => IInv
BY NobodyOwns DEF Init, IInv, CoresFormed, BusLockExact, InLocked, Op, ColdCore, Fields

(* The inductive invariant of the bus lock. *)
THEOREM Invariant == Spec => []IInv
BY InitIInv, NextIInv, PTL DEF Spec

(* Whatever programs the cores run: the bus is locked for a core exactly     *)
(* from the address of its LOCK_INC or CMPXCHG to its store or its failed    *)
(* comparison, and for one core at a time (Step, BUS).                       *)
THEOREM BusLockCorrect == Spec => []BusLockExact
<1>1. IInv => BusLockExact
  BY DEF IInv
<1> QED
  BY <1>1, Invariant, PTL

(* While a core is inside a locked operation the others are stalled: they    *)
(* keep their registers and their store buffers, and neither load from nor   *)
(* flush to the caches (Step).                                               *)
THEOREM LockedAloneCorrect == Spec => LockedAlone
<1>1. IInv /\ [Next]_vars =>
        [\A c \in Cores : InLocked(c) =>
           /\ \A d \in Cores \ {c} : core'[d] = core[d] /\ buffer'[d] = buffer[d]
           /\ turn # c => UNCHANGED <<core, buffer, sys>>]_vars
  <2> SUFFICES ASSUME IInv, Next, NEW c \in Cores, InLocked(c)
               PROVE  /\ \A d \in Cores \ {c} : core'[d] = core[d] /\ buffer'[d] = buffer[d]
                      /\ turn # c => UNCHANGED <<core, buffer, sys>>
    BY DEF vars
  <2>0. /\ owner = c /\ ~core[c].halted /\ phase = "run" /\ ~AllHalted
        /\ CoresFormed /\ DOMAIN buffer = Cores
    BY DEF IInv, BusLockExact, InLocked, CoresFormed, AllHalted
  <2>1. ASSUME NEW d \in Cores, Step(d), d # c
        PROVE  UNCHANGED <<core, buffer, sys>>
    BY <2>0, <2>1, NobodyOwns, Zenon DEF Step, In, Stall, Fetch, Decode, Address, Load, WriteBack, Arithmetic,
       Compare, Jump, Store, CmpxchgCompare, CmpxchgFail, Fence, Halt
  <2>2. CASE Step(c)
    <3>1. turn = c
      BY <2>2, Zenon DEF Step, In, Stall, Fetch, Decode, Address, Load, WriteBack, Arithmetic,
         Compare, Jump, Store, CmpxchgCompare, CmpxchgFail, Fence, Halt
    <3>2. core' = core \/ \E fields : Become(c, fields)
      BY <2>2, Zenon DEF Step, Stall, Fetch, Decode, Address, Load, WriteBack, Arithmetic,
         Compare, Jump, Store, CmpxchgCompare, CmpxchgFail, Fence, Halt
    <3>3. \A d \in Cores \ {c} : core'[d] = core[d]
      BY <2>0, <3>2, Becomes
    <3>4. \A d \in Cores \ {c} : buffer'[d] = buffer[d]
      BY <2>0, <2>2, FlushedBuffer, Zenon DEF Step, Stall, Fetch, Decode, Address, Load, WriteBack,
         Arithmetic, Compare, Jump, Store, CmpxchgCompare, CmpxchgFail, Fence, Halt, StoreBufferPush
    <3> QED
      BY <3>1, <3>3, <3>4
  <2> QED
    BY <2>0, <2>1, <2>2 DEF Next, FinalFlush, LoopEnds, WriteBackModified, Terminating, vars
<1> QED
  BY <1>1, Invariant, PTL DEF Spec, LockedAlone

=============================================================================
