----------------------- MODULE KernelIrqlObjects_proofs -----------------------
(***************************************************************************)
(* Proofs about two parts of the third stage of the kernel: nested         *)
(* interrupts and the DPC queue (KernelIrql), and the lifetimes of objects *)
(* (KernelObjects).                                                        *)
(* The first hold for every set of interrupt levels and every number of    *)
(* calls an ISR makes, where a DPC routine causes neither an interrupt nor *)
(* a DPC, as none of the source does (DpcCalls = 0); the others for every  *)
(* number of processes, handles, objects and pointers held by callers.     *)
(***************************************************************************)
EXTENDS KernelIrql, KernelObjects, FiniteSetTheorems, SequenceTheorems, TLAPS

----------------------------------------------------------------------------
(* Stacks *)

(* Leaving the innermost activity keeps the others. *)
LEMMA FrontElements ==
  ASSUME NEW S, NEW s \in Seq(S), s # <<>>
  PROVE  /\ Len(s) \in Nat \ {0} /\ DOMAIN s = 1..Len(s)
         /\ Front(s) \in Seq(S) /\ Len(Front(s)) = Len(s) - 1
         /\ \A i \in 1..(Len(s) - 1) : Front(s)[i] = s[i]
         /\ Front(s) = <<>> <=> Len(s) = 1
         /\ Last(s) = s[Len(s)] /\ Last(s) \in S
<1>1. Len(s) \in Nat \ {0} /\ DOMAIN s = 1..Len(s) /\ \A i \in 1..Len(s) : s[i] \in S
  BY EmptySeq, LenProperties, ElementOfSeq
<1>2. /\ SubSeq(s, 1, Len(s) - 1) \in Seq(S)
      /\ Len(SubSeq(s, 1, Len(s) - 1)) = Len(s) - 1
      /\ \A i \in 1..(Len(s) - 1) : SubSeq(s, 1, Len(s) - 1)[i] = s[i]
  BY <1>1, SubSeqProperties, SMT
<1>3. SubSeq(s, 1, Len(s) - 1) = <<>> <=> Len(s) = 1
  <2> DEFINE t == SubSeq(s, 1, Len(s) - 1)
  <2>1. t = <<>> <=> Len(t) = 0
    BY <1>2, EmptySeq
  <2>2. Len(t) = Len(s) - 1
    BY <1>2
  <2> HIDE DEF t
  <2>3. t = <<>> <=> Len(s) = 1
    BY <1>1, <2>1, <2>2
  <2> QED
    BY <2>3 DEF t
<1> QED
  BY <1>1, <1>2, <1>3 DEF Front, Last

(* Entering one puts it on top of them. *)
LEMMA AppendElements ==
  ASSUME NEW S, NEW s \in Seq(S), NEW e \in S
  PROVE  /\ Append(s, e) \in Seq(S) /\ Append(s, e) # <<>>
         /\ Len(s) \in Nat /\ Len(Append(s, e)) = Len(s) + 1
         /\ \A i \in 1..Len(s) : Append(s, e)[i] = s[i]
         /\ Append(s, e)[Len(s) + 1] = e
BY AppendProperties, LenProperties

(* Two activities, one inside the other. *)
LEMMA TwoElements ==
  ASSUME NEW a, NEW b
  PROVE  Append(<<a>>, b) = <<a, b>> /\ Front(<<a, b>>) = <<a>>
<1> DEFINE S == {a, b}
           one == <<a>>
           two == <<a, b>>
<1>1. /\ one \in Seq(S) /\ Len(one) = 1 /\ one[1] = a
      /\ two \in Seq(S) /\ Len(two) = 2 /\ two # <<>> /\ two[1] = a /\ two[2] = b
      /\ a \in S /\ b \in S
  OBVIOUS
<1> HIDE DEF S, one, two
<1>2. Append(one, b) = two
  <2>1. /\ Append(one, b) \in Seq(S) /\ Len(Append(one, b)) = 2
        /\ Append(one, b)[1] = a /\ Append(one, b)[2] = b
    <3>1. /\ Append(one, b) \in Seq(S) /\ Len(Append(one, b)) = Len(one) + 1
          /\ \A i \in 1..Len(one) : Append(one, b)[i] = one[i]
          /\ Append(one, b)[Len(one) + 1] = b
      <4>1. one \in Seq(S) /\ b \in S
        BY <1>1
      <4> QED
        BY <4>1, AppendElements
    <3> QED
      BY <1>1, <3>1
  <2>2. \A i \in 1..2 : Append(one, b)[i] = two[i]
    BY <1>1, <2>1
  <2> QED
    BY <1>1, <2>1, <2>2, SeqEqual
<1>3. Front(two) = one
  <2>1. Front(two) \in Seq(S) /\ Len(Front(two)) = 1 /\ Front(two)[1] = a
    <3>1. /\ Front(two) \in Seq(S) /\ Len(Front(two)) = Len(two) - 1
          /\ \A i \in 1..(Len(two) - 1) : Front(two)[i] = two[i]
      BY <1>1, FrontElements
    <3> QED
      BY <1>1, <3>1
  <2>2. \A i \in 1..1 : Front(two)[i] = one[i]
    BY <1>1, <2>1
  <2> QED
    BY <1>1, <2>1, <2>2, SeqEqual
<1> QED
  BY <1>2, <1>3 DEF one, two

----------------------------------------------------------------------------
(* What main is inside of.  It runs itself, or is inside ISRs only, each   *)
(* with its level on the IRQL stack, or the outermost ISR has returned and *)
(* PopIrql drains the DPC queue, inside a DPC routine or between two.      *)

IsrFrames == [kind : {"isr"}, left : Nat]

MainRuns ==
  calls = <<>> /\ irqlStack = <<>> /\ dpcCount = 0 /\ currentIrql = PASSIVE_LEVEL

IsrRuns ==
  /\ calls \in Seq(IsrFrames) /\ calls # <<>>
  /\ irqlStack \in Seq(InterruptLevels) /\ Len(irqlStack) = Len(calls)
  /\ \A i, j \in 1..Len(irqlStack) : i < j => irqlStack[i] < irqlStack[j]
  /\ currentIrql = irqlStack[Len(irqlStack)]
  /\ dpcCount \in Nat

DrainRuns ==
  /\ calls = <<Drain(PASSIVE_LEVEL)>>
  /\ irqlStack = <<>> /\ currentIrql = DISPATCH_LEVEL /\ dpcCount \in Nat

DpcRuns ==
  /\ calls = <<Drain(PASSIVE_LEVEL), Dpc(0)>>
  /\ irqlStack = <<>> /\ currentIrql = DISPATCH_LEVEL /\ dpcCount \in Nat

IInv == MainRuns \/ IsrRuns \/ DrainRuns \/ DpcRuns

(* Which activity runs, by the frame on top. *)
LEMMA TopOfCalls ==
  /\ MainRuns => InMain /\ ~In("isr") /\ ~In("dpc") /\ ~In("drain") /\ ~Calling
  /\ IsrRuns => ~InMain /\ In("isr") /\ ~In("dpc") /\ ~In("drain")
  /\ DrainRuns => ~InMain /\ ~In("isr") /\ ~In("dpc") /\ In("drain") /\ ~Calling
  /\ DpcRuns => ~InMain /\ ~In("isr") /\ In("dpc") /\ ~In("drain") /\ ~Calling
<1>1. MainRuns => InMain /\ ~In("isr") /\ ~In("dpc") /\ ~In("drain") /\ ~Calling
  BY DEF MainRuns, InMain, In, Calling
<1>2. IsrRuns => ~InMain /\ In("isr") /\ ~In("dpc") /\ ~In("drain")
  <2> SUFFICES ASSUME IsrRuns PROVE ~InMain /\ In("isr") /\ ~In("dpc") /\ ~In("drain")
    OBVIOUS
  <2>1. calls # <<>> /\ Last(calls) \in IsrFrames
    BY FrontElements DEF IsrRuns
  <2>2. Last(calls).kind = "isr"
    BY <2>1 DEF IsrFrames
  <2> QED
    BY <2>1, <2>2 DEF InMain, In
<1>3. DrainRuns => ~InMain /\ ~In("isr") /\ ~In("dpc") /\ In("drain") /\ ~Calling
  BY DEF DrainRuns, InMain, In, Calling, Drain, Last
<1>4. DpcRuns => ~InMain /\ ~In("isr") /\ In("dpc") /\ ~In("drain") /\ ~Calling
  BY DEF DpcRuns, InMain, In, Calling, Dpc, Drain, Last
<1> QED
  BY <1>1, <1>2, <1>3, <1>4

(* An ISR or main starts another ISR at a higher level. *)
LEMMA EntersIsr ==
  ASSUME MainRuns \/ IsrRuns, NEW level \in InterruptLevels, level > currentIrql,
         PushIrql(level), dpcCount' \in Nat,
         NEW below \in Seq(IsrFrames), Len(below) = Len(calls),
         NEW n \in Nat, calls' = Append(below, Isr(n))
  PROVE  IsrRuns'
<1>1. irqlStack \in Seq(InterruptLevels) /\ Len(irqlStack) = Len(calls)
  BY DEF MainRuns, IsrRuns
<1>2. Isr(n) \in IsrFrames
  BY DEF Isr, IsrFrames
<1>3. /\ irqlStack' = Append(irqlStack, level) /\ currentIrql' = level
  BY DEF PushIrql
<1>4. /\ irqlStack' \in Seq(InterruptLevels)
      /\ Len(irqlStack) \in Nat /\ Len(irqlStack') = Len(irqlStack) + 1
      /\ \A i \in 1..Len(irqlStack) : irqlStack'[i] = irqlStack[i]
      /\ irqlStack'[Len(irqlStack) + 1] = level
  BY <1>1, <1>3, AppendElements
<1>5. calls' \in Seq(IsrFrames) /\ calls' # <<>> /\ Len(calls') = Len(calls) + 1
  BY <1>2, AppendElements
<1>6. \A i \in 1..Len(irqlStack) : irqlStack[i] < level
  <2>1. InterruptLevels \subseteq Nat /\ level \in Nat
    BY IrqlAssumption DEF DIRQL, MACHINE_CHECK
  <2>2. CASE MainRuns
    BY <2>2, <1>4, EmptySeq DEF MainRuns
  <2>3. CASE IsrRuns
    <3>1. \A i \in 1..Len(irqlStack) : irqlStack[i] \in Nat
      BY <1>1, <2>1, ElementOfSeq
    <3>2. Len(irqlStack) \in 1..Len(irqlStack) /\ irqlStack[Len(irqlStack)] < level
      BY <1>1, <1>4, <2>3, EmptySeq DEF IsrRuns
    <3>3. \A i \in 1..Len(irqlStack) :
            i < Len(irqlStack) => irqlStack[i] < irqlStack[Len(irqlStack)]
      BY <2>3, <3>2 DEF IsrRuns
    <3> QED
      BY <1>4, <2>1, <3>1, <3>2, <3>3, SMTT(20)
  <2> QED
    BY <2>2, <2>3
<1>7. ASSUME NEW i \in 1..Len(irqlStack'), NEW j \in 1..Len(irqlStack'), i < j
      PROVE  irqlStack'[i] < irqlStack'[j]
  <2>1. CASE j = Len(irqlStack) + 1
    BY <1>4, <1>6, <1>7, <2>1
  <2>2. CASE j # Len(irqlStack) + 1
    <3>1. i \in 1..Len(irqlStack) /\ j \in 1..Len(irqlStack)
      <4>1. Len(irqlStack) \in Nat /\ Len(irqlStack') = Len(irqlStack) + 1
        BY <1>4
      <4> QED
        BY <1>7, <2>2, <4>1
    <3>2. MainRuns => Len(irqlStack) = 0
      BY EmptySeq DEF MainRuns
    <3>3. IsrRuns
      BY <1>4, <3>1, <3>2
    <3> QED
      BY <1>4, <1>7, <3>1, <3>3 DEF IsrRuns
  <2> QED
    BY <2>1, <2>2
<1> QED
  BY <1>1, <1>3, <1>4, <1>5, <1>7 DEF IsrRuns

(* A call made by an ISR leaves one less to make. *)
LEMMA IsrCallsOne ==
  ASSUME IsrRuns, Calling
  PROVE  /\ Called \in Seq(IsrFrames) /\ Len(Called) = Len(calls) /\ Called # <<>>
         /\ \A i \in 1..Len(calls) :
              Called[i].left = IF i = Len(calls) THEN calls[i].left - 1 ELSE calls[i].left
<1> DEFINE n == Len(calls)
<1>1. /\ n \in Nat \ {0} /\ DOMAIN calls = 1..n /\ calls[n] \in IsrFrames
      /\ calls \in Seq(IsrFrames) /\ calls[n].left > 0
  BY FrontElements DEF IsrRuns, Calling
<1> DEFINE f == [calls[n] EXCEPT !.left = @ - 1]
<1>2. f \in IsrFrames /\ f.left = calls[n].left - 1
  BY <1>1 DEF IsrFrames
<1>3. Called = [calls EXCEPT ![n] = f]
  BY DEF Called
<1> HIDE DEF f
<1>4. /\ [calls EXCEPT ![n] = f] \in Seq(IsrFrames)
      /\ Len([calls EXCEPT ![n] = f]) = n
      /\ \A j \in 1..n : [calls EXCEPT ![n] = f][j] = IF j = n THEN f ELSE calls[j]
  BY <1>1, <1>2, ExceptSeq
<1>5. Called # <<>>
  BY <1>1, <1>3, <1>4, EmptySeq
<1>6. \A i \in 1..n : Called[i].left = IF i = n THEN calls[i].left - 1 ELSE calls[i].left
  BY <1>1, <1>2, <1>3, <1>4
<1> QED
  BY <1>3, <1>4, <1>5, <1>6

(* A masked interrupt and a queued DPC leave the nesting as it is. *)
LEMMA IsrCallKeeps ==
  ASSUME IInv, Calling, calls' = Called, dpcCount' \in {dpcCount, dpcCount + 1},
         UNCHANGED <<currentIrql, irqlStack>>
  PROVE  IsrRuns /\ IsrRuns'
<1>1. IsrRuns
  BY TopOfCalls DEF IInv
<1> QED
  BY <1>1, IsrCallsOne DEF IsrRuns

(* An interrupt puts one more ISR, and its level, on top. *)
LEMMA TriggerInterruptKeeps ==
  ASSUME IInv, NEW level \in InterruptLevels, TriggerInterrupt(level)
  PROVE  /\ IsrRuns'
         /\ \/ MainRuns /\ calls' = <<Isr(IsrCalls)>>
            \/ IsrRuns /\ Calling /\ calls' = Append(Called, Isr(IsrCalls))
<1>1. /\ level > currentIrql /\ PushIrql(level) /\ dpcCount' = dpcCount
      /\ \/ InMain /\ calls' = <<Isr(IsrCalls)>>
         \/ Calling /\ calls' = Append(Called, Isr(IsrCalls))
  BY DEF TriggerInterrupt
<1>2. IsrCalls \in Nat
  BY IrqlAssumption
<1>3. CASE InMain
  <2>1. MainRuns /\ ~Calling
    BY <1>3, TopOfCalls DEF IInv
  <2>2. calls' = Append(<<>>, Isr(IsrCalls)) /\ <<>> \in Seq(IsrFrames) /\ Len(<<>>) = Len(calls)
    BY <1>1, <2>1 DEF MainRuns
  <2>3. dpcCount' \in Nat
    BY <1>1, <2>1 DEF MainRuns
  <2> QED
    BY <1>1, <1>2, <2>1, <2>2, <2>3, EntersIsr
<1>4. CASE Calling
  <2>1. IsrRuns /\ ~InMain
    BY <1>4, TopOfCalls DEF IInv
  <2>2. Called \in Seq(IsrFrames) /\ Len(Called) = Len(calls)
    BY <1>4, <2>1, IsrCallsOne
  <2>3. dpcCount' \in Nat /\ calls' = Append(Called, Isr(IsrCalls))
    BY <1>1, <2>1 DEF IsrRuns
  <2>4. IsrRuns'
    BY <1>1, <1>2, <2>1, <2>2, <2>3, EntersIsr
  <2> QED
    BY <1>4, <2>1, <2>3, <2>4
<1> QED
  BY <1>1, <1>3, <1>4

(* The thread that starts an I/O becomes an ISR at DIRQL. *)
LEMMA StartIoOperationKeeps ==
  ASSUME IInv, StartIoOperation
  PROVE  MainRuns /\ IsrRuns' /\ calls' = <<Isr(0)>> /\ dpcCount' = 1
<1>1. MainRuns /\ InMain
  BY TopOfCalls DEF IInv, StartIoOperation
<1>2. PushIrql(DIRQL) /\ dpcCount' = dpcCount + 1 /\ calls' = <<Isr(0)>>
  BY DEF StartIoOperation
<1>3. DIRQL \in InterruptLevels /\ DIRQL > currentIrql /\ dpcCount' = 1
  BY <1>1, <1>2, IrqlAssumption DEF MainRuns, DIRQL, PASSIVE_LEVEL
<1>4. calls' = Append(<<>>, Isr(0)) /\ <<>> \in Seq(IsrFrames) /\ Len(<<>>) = Len(calls)
  BY <1>1, <1>2 DEF MainRuns
<1>5. dpcCount' \in Nat /\ 0 \in Nat
  BY <1>3
<1>6. IsrRuns'
  BY <1>1, <1>2, <1>3, <1>4, <1>5, EntersIsr
<1> QED
  BY <1>1, <1>2, <1>3, <1>6

(* PopIrql returns to the interrupted ISR; from the outermost it drains.   *)
LEMMA PopIrqlKeeps ==
  ASSUME IInv, PopIrql
  PROVE  /\ IsrRuns /\ dpcCount' = dpcCount
         /\ \/ DrainRuns'
            \/ IsrRuns' /\ calls' = Front(calls)
<1> DEFINE level == NewLevel(Front(irqlStack))
<1>1. IsrRuns
  BY TopOfCalls DEF IInv, PopIrql
<1>2. /\ irqlStack' = Front(irqlStack) /\ dpcCount' = dpcCount
      /\ IF Drains(currentIrql, level)
         THEN currentIrql' = DISPATCH_LEVEL /\ calls' = Append(Front(calls), Drain(level))
         ELSE currentIrql' = level /\ calls' = Front(calls)
  BY DEF PopIrql, Returned
<1>3. /\ Len(calls) \in Nat \ {0} /\ Front(calls) \in Seq(IsrFrames)
      /\ Len(Front(calls)) = Len(calls) - 1 /\ (Front(calls) = <<>> <=> Len(calls) = 1)
  BY <1>1, FrontElements DEF IsrRuns
<1>4. /\ irqlStack \in Seq(InterruptLevels) /\ irqlStack # <<>> /\ Len(irqlStack) = Len(calls)
  BY <1>1, <1>3, EmptySeq DEF IsrRuns
<1>5. /\ Front(irqlStack) \in Seq(InterruptLevels)
      /\ Len(Front(irqlStack)) = Len(irqlStack) - 1
      /\ \A i \in 1..(Len(irqlStack) - 1) : Front(irqlStack)[i] = irqlStack[i]
      /\ Front(irqlStack) = <<>> <=> Len(irqlStack) = 1
      /\ currentIrql \in InterruptLevels
  BY <1>1, <1>4, FrontElements DEF IsrRuns
<1>6. \A l \in InterruptLevels : l \in Nat /\ l > DISPATCH_LEVEL /\ ~(l < DISPATCH_LEVEL)
  BY IrqlAssumption DEF DIRQL, MACHINE_CHECK, DISPATCH_LEVEL
<1>7. CASE Len(calls) = 1
  <2>1. level = PASSIVE_LEVEL /\ Front(irqlStack) = <<>> /\ Front(calls) = <<>>
    BY <1>3, <1>4, <1>5, <1>7 DEF NewLevel
  <2>2. Drains(currentIrql, level)
    BY <1>5, <1>6, <2>1 DEF Drains, PASSIVE_LEVEL, DISPATCH_LEVEL
  <2> QED
    BY <1>1, <1>2, <2>1, <2>2 DEF IsrRuns, DrainRuns
<1>8. CASE Len(calls) # 1
  <2>1. Front(irqlStack) # <<>> /\ Front(calls) # <<>>
    BY <1>3, <1>4, <1>5, <1>8
  <2>2. /\ level = Front(irqlStack)[Len(Front(irqlStack))]
        /\ level \in InterruptLevels
    BY <1>5, <2>1, FrontElements DEF NewLevel
  <2>3. ~Drains(currentIrql, level)
    BY <1>6, <2>2 DEF Drains
  <2>4. currentIrql' = level /\ calls' = Front(calls)
    BY <1>2, <2>3
  <2>5. \A i, j \in 1..Len(irqlStack') : i < j => irqlStack'[i] < irqlStack'[j]
    <3>1. \A i \in 1..Len(irqlStack') : i \in 1..Len(irqlStack) /\ irqlStack'[i] = irqlStack[i]
      BY <1>2, <1>3, <1>4, <1>5
    <3> QED
      BY <1>1, <3>1 DEF IsrRuns
  <2>6. IsrRuns'
    BY <1>1, <1>2, <1>3, <1>4, <1>5, <2>1, <2>2, <2>4, <2>5 DEF IsrRuns
  <2> QED
    BY <1>1, <1>2, <2>4, <2>6
<1> QED
  BY <1>7, <1>8

(* The drain enters a DPC routine... *)
LEMMA DrainOneKeeps ==
  ASSUME IInv, DpcCalls = 0, DrainOne
  PROVE  DpcRuns'
<1>1. DrainRuns
  BY TopOfCalls DEF IInv, DrainOne
<1>2. calls' = Append(<<Drain(PASSIVE_LEVEL)>>, Dpc(0))
  BY <1>1 DEF DrainRuns, DrainOne
<1>3. dpcCount' \in Nat /\ UNCHANGED <<currentIrql, irqlStack>>
  BY <1>1 DEF DrainRuns, DrainOne
<1> QED
  BY <1>1, <1>2, <1>3, TwoElements DEF DrainRuns, DpcRuns

(* ...comes back from it... *)
LEMMA DpcReturnsKeeps ==
  ASSUME IInv, DpcReturns
  PROVE  DrainRuns'
<1>1. DpcRuns
  BY TopOfCalls DEF IInv, DpcReturns
<1>2. Front(<<Drain(PASSIVE_LEVEL), Dpc(0)>>) = <<Drain(PASSIVE_LEVEL)>>
  BY TwoElements
<1> QED
  BY <1>1, <1>2 DEF DpcRuns, DrainRuns, DpcReturns, Returned

(* ...and leaves main with an empty queue. *)
LEMMA DrainEndsKeeps ==
  ASSUME IInv, DrainEnds
  PROVE  MainRuns'
<1>1. DrainRuns
  BY TopOfCalls DEF IInv, DrainEnds
<1>2. Front(<<Drain(PASSIVE_LEVEL)>>) = <<>> /\ Last(<<Drain(PASSIVE_LEVEL)>>).back = PASSIVE_LEVEL
  BY DEF Front, Last, Drain
<1> QED
  BY <1>1, <1>2 DEF DrainRuns, MainRuns, DrainEnds, Returned

(* Every step keeps the nesting well formed. *)
LEMMA NextInvariant == DpcCalls = 0 /\ IInv /\ [Next]_vars => IInv'
<1> SUFFICES ASSUME DpcCalls = 0, IInv, [Next]_vars PROVE IInv'
  OBVIOUS
<1>1. CASE UNCHANGED vars
  BY <1>1 DEF vars, IInv, MainRuns, IsrRuns, DrainRuns, DpcRuns
<1>2. ASSUME NEW level \in InterruptLevels, TriggerMasked(level)
      PROVE  IInv'
  BY <1>2, IsrCallKeeps DEF TriggerMasked, IInv
<1>3. ASSUME NEW level \in InterruptLevels, TriggerInterrupt(level)
      PROVE  IInv'
  BY <1>3, TriggerInterruptKeeps DEF IInv
<1>4. CASE QueueDpc
  BY <1>4, IsrCallKeeps DEF QueueDpc, IInv
<1>5. CASE StartIoOperation
  BY <1>5, StartIoOperationKeeps DEF IInv
<1>6. CASE PopIrql
  BY <1>6, PopIrqlKeeps DEF IInv
<1>7. CASE DrainOne
  BY <1>7, DrainOneKeeps DEF IInv
<1>8. CASE DpcReturns
  BY <1>8, DpcReturnsKeeps DEF IInv
<1>9. CASE DrainEnds
  BY <1>9, DrainEndsKeeps DEF IInv
<1> QED
  BY <1>1, <1>2, <1>3, <1>4, <1>5, <1>6, <1>7, <1>8, <1>9 DEF Next

(* Main is interrupted by ISRs only, each with its level on the stack, or  *)
(* drains the DPC queue, or runs itself with an empty one.                 *)
THEOREM Invariant == ASSUME DpcCalls = 0 PROVE Spec => []IInv
<1>1. Init => IInv
  BY DEF Init, IInv, MainRuns
<1>2. IInv /\ [Next]_vars => IInv'
  BY NextInvariant
<1> QED
  BY <1>1, <1>2, PTL DEF Spec

----------------------------------------------------------------------------
(* The level of each activity *)

(* The IRQL stack is as high as there are ISRs. *)
LEMMA StackCountsIsrs ==
  ASSUME IInv
  PROVE  Len(irqlStack) = Cardinality({i \in DOMAIN calls : calls[i].kind = "isr"})
<1> DEFINE isrs == {i \in DOMAIN calls : calls[i].kind = "isr"}
<1>1. CASE IsrRuns
  <2>1. DOMAIN calls = 1..Len(calls) /\ Len(calls) \in Nat
    BY <1>1, LenProperties DEF IsrRuns
  <2>2. \A i \in 1..Len(calls) : calls[i] \in IsrFrames
    BY <1>1, ElementOfSeq DEF IsrRuns
  <2>3. isrs = 1..Len(calls)
    BY <2>1, <2>2 DEF IsrFrames
  <2>4. Cardinality(1..Len(calls)) = Len(calls)
    <3> DEFINE n == Len(calls)
    <3>1. n \in Nat
      BY <2>1
    <3> HIDE DEF n
    <3>2. Cardinality(1..n) = IF 1 > n THEN 0 ELSE n - 1 + 1
      BY <3>1, FS_Interval
    <3>3. Cardinality(1..n) = n
      BY <3>1, <3>2
    <3> QED
      BY <3>3 DEF n
  <2> QED
    BY <1>1, <2>3, <2>4 DEF IsrRuns
<1>2. CASE ~IsrRuns
  <2>1. irqlStack = <<>> /\ isrs = {}
    BY <1>2 DEF IInv, MainRuns, DrainRuns, DpcRuns, Drain, Dpc
  <2> QED
    BY <2>1, FS_EmptySet
<1> QED
  BY <1>1, <1>2

(* The level of each activity, from what it is inside of. *)
LEMMA LevelFromInvariant == IInv => LevelOfActivity
<1> SUFFICES ASSUME IInv PROVE LevelOfActivity
  OBVIOUS
<1>1. InMain => currentIrql = PASSIVE_LEVEL /\ dpcCount = 0 /\ irqlStack = <<>>
  BY TopOfCalls DEF IInv, MainRuns
<1>2. In("isr") => irqlStack # <<>> /\ currentIrql = Last(irqlStack)
  <2> SUFFICES ASSUME In("isr") PROVE irqlStack # <<>> /\ currentIrql = Last(irqlStack)
    OBVIOUS
  <2>1. IsrRuns
    BY TopOfCalls DEF IInv
  <2>2. Len(calls) \in Nat \ {0}
    BY <2>1, FrontElements DEF IsrRuns
  <2>3. irqlStack # <<>>
    BY <2>1, <2>2, EmptySeq DEF IsrRuns
  <2> QED
    BY <2>1, <2>3 DEF IsrRuns, Last
<1>3. In("dpc") \/ In("drain") => currentIrql = DISPATCH_LEVEL
  BY TopOfCalls DEF IInv, DrainRuns, DpcRuns
<1>4. \A i \in DOMAIN calls : calls[i].kind = "drain" => i = 1
  <2>1. CASE IsrRuns
    <3>1. \A i \in DOMAIN calls : calls[i] \in IsrFrames
      BY <2>1, LenProperties, ElementOfSeq DEF IsrRuns
    <3> QED
      BY <3>1 DEF IsrFrames
  <2>2. CASE ~IsrRuns
    BY <2>2 DEF IInv, MainRuns, DrainRuns, DpcRuns, Drain, Dpc
  <2> QED
    BY <2>1, <2>2
<1> QED
  BY <1>1, <1>2, <1>3, <1>4, StackCountsIsrs DEF LevelOfActivity

(* An ISR runs at the level on top of the IRQL stack, DPCs at              *)
(* DISPATCH_LEVEL, main at PASSIVE_LEVEL; only the outermost interrupt     *)
(* drains, and no DPC is left behind when main goes on.                    *)
THEOREM LevelCorrect == ASSUME DpcCalls = 0 PROVE Spec => []LevelOfActivity
BY Invariant, LevelFromInvariant, PTL

----------------------------------------------------------------------------
(* Room in the IRQL stack and in the DPC queue.  Levels rise from DIRQL to *)
(* MACHINE_CHECK, so at most three ISRs nest: a call still to be made by   *)
(* the outermost may end in IsrCalls^2 DPCs, by the next in IsrCalls, by   *)
(* the innermost in one.                                                   *)

Left(i) == IF i \in DOMAIN calls THEN calls[i].left ELSE 0

Budget ==
  IsrRuns =>
    /\ \A i \in 1..3 : Left(i) \in 0..IsrCalls
    /\ dpcCount + Left(1) * (IsrCalls * IsrCalls) + Left(2) * IsrCalls + Left(3) <= MAX_QUEUE

QueueSuffices ==
  /\ DpcCalls = 0
  /\ MAX_NESTING >= 3
  /\ MAX_QUEUE >= 1 /\ MAX_QUEUE >= IsrCalls * IsrCalls * IsrCalls

(* The n-th level on the stack is at least DIRQL + n - 1. *)
LEMMA AtMostThreeNest ==
  ASSUME IsrRuns
  PROVE  /\ Len(irqlStack) \in 1..3
         /\ \A i \in 1..Len(irqlStack) : irqlStack[i] \in (DIRQL + i - 1)..MACHINE_CHECK
<1> DEFINE n == Len(irqlStack)
<1>1. n \in Nat \ {0}
  BY FrontElements DEF IsrRuns
<1>2. \A i \in 1..n : irqlStack[i] \in 3..5
  BY <1>1, IrqlAssumption, ElementOfSeq DEF IsrRuns, DIRQL, MACHINE_CHECK
<1>3. n >= 2 => irqlStack[1] < irqlStack[2]
  BY <1>1 DEF IsrRuns
<1>4. n >= 3 => irqlStack[2] < irqlStack[3]
  BY <1>1 DEF IsrRuns
<1>5. n >= 4 => irqlStack[3] < irqlStack[4]
  BY <1>1 DEF IsrRuns
<1>6. n <= 3
  <2> SUFFICES ASSUME n >= 4 PROVE FALSE
    BY <1>1
  <2>1. 1 \in 1..n /\ 2 \in 1..n /\ 3 \in 1..n /\ 4 \in 1..n
    BY <1>1
  <2> QED
    BY <1>1, <1>2, <1>3, <1>4, <1>5, <2>1
<1>7. \A i \in 1..n : irqlStack[i] \in (3 + i - 1)..5
  BY <1>1, <1>2, <1>3, <1>4, <1>6
<1>8. n \in 1..3
  <2> HIDE DEF n
  <2> QED
    BY <1>1, <1>6
<1> QED
  BY <1>7, <1>8 DEF DIRQL, MACHINE_CHECK

(* Arithmetic of the budget: a call less of the ISR at depth n pays for    *)
(* one DPC, or for all calls of an ISR at depth n + 1.                     *)
LEMMA CallPays ==
  ASSUME NEW k \in Nat, NEW q \in Nat, NEW d \in Nat,
         NEW a \in 0..k, NEW b \in 0..k, NEW c \in 0..k,
         d + a * (k * k) + b * k + c <= q
  PROVE  /\ a > 0 => /\ d + 1 + (a - 1) * (k * k) + b * k + c <= q
                     /\ b = 0 => d + (a - 1) * (k * k) + k * k + c <= q
         /\ b > 0 => /\ d + 1 + a * (k * k) + (b - 1) * k + c <= q
                     /\ c = 0 => d + a * (k * k) + (b - 1) * k + k <= q
         /\ c > 0 => d + 1 + a * (k * k) + b * k + (c - 1) <= q
<1> DEFINE w == k * k
<1>1. w \in Nat /\ a \in Nat /\ b \in Nat /\ c \in Nat
  OBVIOUS
<1>2. (a - 1) * w = a * w - w /\ (b - 1) * k = b * k - k /\ a * w \in Nat /\ b * k \in Nat
  BY <1>1
<1>3. a > 0 \/ b > 0 \/ c > 0 => k >= 1 /\ w >= 1
  OBVIOUS
<1>4. a > 0 => a * w >= w
  BY <1>1, <1>2
<1>5. b > 0 => b * k >= k
  BY <1>1, <1>2
<1> HIDE DEF w
<1>6. d + a * w + b * k + c <= q
  BY DEF w
<1>7. /\ a > 0 => /\ d + 1 + (a - 1) * w + b * k + c <= q
                  /\ b = 0 => d + (a - 1) * w + w + c <= q
      /\ b > 0 => /\ d + 1 + a * w + (b - 1) * k + c <= q
                  /\ c = 0 => d + a * w + (b - 1) * k + k <= q
      /\ c > 0 => d + 1 + a * w + b * k + (c - 1) <= q
  BY <1>1, <1>2, <1>3, <1>4, <1>5, <1>6
<1> QED
  BY <1>7 DEF w

(* At most three frames, and what each leaves to be called. *)
LeftByDepth ==
  /\ Len(calls) \in 1..3
  /\ \A i \in 1..4 : Left(i) = IF i <= Len(calls) THEN calls[i].left ELSE 0

(* While ISRs run, the depths up to the stack's height have calls left. *)
LEMMA LeftInIsrs == IsrRuns => LeftByDepth
<1> SUFFICES ASSUME IsrRuns PROVE LeftByDepth
  OBVIOUS
<1>1. DOMAIN calls = 1..Len(calls) /\ Len(calls) \in 1..3
  BY AtMostThreeNest, LenProperties DEF IsrRuns
<1> QED
  BY <1>1 DEF Left, LeftByDepth

(* A call takes one from what the running ISR has left; if it ends in      *)
(* another ISR, that one starts with all its calls.                        *)
LEMMA LeftAfterCall ==
  ASSUME IsrRuns, Calling, calls' = Called
  PROVE  /\ Len(calls) \in 1..3 /\ Left(Len(calls)) > 0
         /\ \A i \in 1..3 : Left(i)' = IF i = Len(calls) THEN Left(i) - 1 ELSE Left(i)
<1> DEFINE n == Len(calls)
<1>1. n \in 1..3 /\ \A i \in 1..3 : Left(i) = IF i <= n THEN calls[i].left ELSE 0
  BY LeftInIsrs DEF LeftByDepth
<1>2. /\ Len(Called) = n /\ Called \in Seq(IsrFrames)
      /\ \A i \in 1..n : Called[i].left = IF i = n THEN calls[i].left - 1 ELSE calls[i].left
  BY IsrCallsOne
<1>3. DOMAIN calls' = 1..n
  BY <1>2, LenProperties
<1>4. \A i \in 1..3 : Left(i)' = IF i <= n THEN Called[i].left ELSE 0
  BY <1>1, <1>3 DEF Left
<1>5. Left(n) > 0
  BY <1>1 DEF Calling, Last
<1>6. \A i \in 1..3 : Left(i)' = IF i = n THEN Left(i) - 1 ELSE Left(i)
  <2> HIDE DEF n
  <2> QED
    BY <1>1, <1>2, <1>4
<1> QED
  BY <1>1, <1>5, <1>6

(* An interrupt takes a call from its caller and brings a full ISR. *)
LEMMA LeftAfterInterrupt ==
  ASSUME IsrRuns, Calling, NEW k \in Nat, calls' = Append(Called, Isr(k)), IsrRuns'
  PROVE  /\ Len(calls) \in 1..2 /\ Left(Len(calls)) > 0
         /\ Left(Len(calls) + 1) = 0
         /\ \A i \in 1..3 : Left(i)' = IF i = Len(calls) THEN Left(i) - 1
                                       ELSE IF i = Len(calls) + 1 THEN k ELSE Left(i)
<1> DEFINE n == Len(calls)
<1>1. n \in 1..3 /\ \A i \in 1..4 : Left(i) = IF i <= n THEN calls[i].left ELSE 0
  BY LeftInIsrs DEF LeftByDepth
<1>2. (IsrRuns => LeftByDepth)'
  BY LeftInIsrs, PTL
<1>3. Len(calls') \in 1..3 /\ \A i \in 1..4 : Left(i)' = IF i <= Len(calls') THEN calls'[i].left ELSE 0
  BY <1>2 DEF LeftByDepth
<1>4. /\ Len(Called) = n /\ Called \in Seq(IsrFrames)
      /\ \A i \in 1..n : Called[i].left = IF i = n THEN calls[i].left - 1 ELSE calls[i].left
  BY IsrCallsOne
<1>5. Isr(k) \in IsrFrames /\ Isr(k).left = k
  BY DEF Isr, IsrFrames
<1>6. /\ Len(calls') = n + 1 /\ \A i \in 1..n : calls'[i] = Called[i]
      /\ calls'[n + 1].left = k
  BY <1>4, <1>5, AppendElements
<1>7. Left(n) > 0
  BY <1>1 DEF Calling, Last
<1> HIDE DEF n
<1>8. n \in 1..2
  BY <1>1, <1>3, <1>6
<1>9. Left(n + 1) = 0
  BY <1>1, <1>8
<1>10. ASSUME NEW i \in 1..3
       PROVE  Left(i)' = IF i = n THEN Left(i) - 1 ELSE IF i = n + 1 THEN k ELSE Left(i)
  <2>1. Left(i)' = IF i <= n + 1 THEN calls'[i].left ELSE 0
    BY <1>3, <1>6
  <2>2. Left(i) = IF i <= n THEN calls[i].left ELSE 0
    BY <1>1
  <2>3. CASE i <= n
    BY <1>4, <1>6, <1>8, <2>1, <2>2, <2>3
  <2>4. CASE i = n + 1
    BY <1>6, <1>8, <2>1, <2>4
  <2>5. CASE i > n + 1
    BY <1>8, <2>1, <2>2, <2>5
  <2> QED
    BY <1>8, <2>3, <2>4, <2>5
<1> QED
  BY <1>7, <1>8, <1>9, <1>10 DEF n

(* While a call is left there is room for a DPC; and what is left may be   *)
(* given up.                                                               *)
LEMMA CallLeavesRoom ==
  ASSUME NEW k \in Nat, NEW q \in Nat, NEW d \in Nat,
         NEW a \in 0..k, NEW b \in 0..k, NEW c \in 0..k,
         d + a * (k * k) + b * k + c <= q
  PROVE  /\ a > 0 \/ b > 0 \/ c > 0 => d < q
         /\ \A a2 \in {a, 0}, b2 \in {b, 0}, c2 \in {c, 0} :
              d + a2 * (k * k) + b2 * k + c2 <= q
<1> DEFINE w == k * k
           x == a * w
           y == b * k
<1>1. w \in Nat /\ a \in Nat /\ b \in Nat /\ c \in Nat
  OBVIOUS
<1>2. x \in Nat /\ y \in Nat
  BY <1>1
<1>3. a > 0 \/ b > 0 \/ c > 0 => k >= 1 /\ w >= 1
  OBVIOUS
<1>4. a > 0 => x >= w
  BY <1>1
<1>5. b > 0 => y >= k
  BY <1>1
<1>6. d + x + y + c <= q
  OBVIOUS
<1>7. ASSUME NEW a2 \in {a, 0}, NEW b2 \in {b, 0}, NEW c2 \in {c, 0}
      PROVE  d + a2 * (k * k) + b2 * k + c2 <= q
  <2> DEFINE x2 == a2 * w
             y2 == b2 * k
  <2>1. x2 \in {x, 0} /\ y2 \in {y, 0}
    BY <1>1
  <2> HIDE DEF x, y, w, x2, y2
  <2>2. d + x2 + y2 + c2 <= q
    BY <1>1, <1>2, <1>6, <2>1
  <2> QED
    BY <2>2 DEF x2, y2, w
<1> HIDE DEF x, y, w
<1> QED
  BY <1>1, <1>2, <1>3, <1>4, <1>5, <1>6, <1>7

(* A DPC less in the queue. *)
LEMMA DpcLess ==
  ASSUME NEW k \in Nat, NEW q \in Nat, NEW d \in Nat,
         NEW a \in 0..k, NEW b \in 0..k, NEW c \in 0..k,
         d + 1 + a * (k * k) + b * k + c <= q
  PROVE  d + a * (k * k) + b * k + c <= q
<1> DEFINE w == k * k
           x == a * w
           y == b * k
<1>1. w \in Nat /\ a \in Nat /\ b \in Nat /\ c \in Nat
  OBVIOUS
<1>2. x \in Nat /\ y \in Nat /\ d + 1 + x + y + c <= q
  BY <1>1
<1> HIDE DEF x, y, w
<1>3. d + x + y + c <= q
  BY <1>1, <1>2
<1> QED
  BY <1>3 DEF x, y, w

(* The budget with the counts of the three depths named. *)
LEMMA BudgetOf ==
  ASSUME QueueSuffices, IsrRuns, Budget
  PROVE  /\ IsrCalls \in Nat /\ MAX_QUEUE \in Nat /\ dpcCount \in Nat
         /\ Left(1) \in 0..IsrCalls /\ Left(2) \in 0..IsrCalls /\ Left(3) \in 0..IsrCalls
         /\ dpcCount + Left(1) * (IsrCalls * IsrCalls) + Left(2) * IsrCalls + Left(3) <= MAX_QUEUE
BY IrqlAssumption DEF IsrRuns, Budget

(* An ISR that can still call something leaves room in the DPC queue. *)
LEMMA RoomForCall ==
  ASSUME QueueSuffices, IsrRuns, Budget, Calling
  PROVE  dpcCount < MAX_QUEUE
<1>1. LeftByDepth
  BY LeftInIsrs
<1>2. Left(1) > 0 \/ Left(2) > 0 \/ Left(3) > 0
  BY <1>1 DEF LeftByDepth, Calling, Last
<1>3. /\ IsrCalls \in Nat /\ MAX_QUEUE \in Nat /\ dpcCount \in Nat
      /\ Left(1) \in 0..IsrCalls /\ Left(2) \in 0..IsrCalls /\ Left(3) \in 0..IsrCalls
      /\ dpcCount + Left(1) * (IsrCalls * IsrCalls) + Left(2) * IsrCalls + Left(3) <= MAX_QUEUE
  BY BudgetOf
<1> DEFINE a == Left(1)  b == Left(2)  c == Left(3)  k == IsrCalls  d == dpcCount  q == MAX_QUEUE
<1>4. /\ k \in Nat /\ q \in Nat /\ d \in Nat /\ a \in 0..k /\ b \in 0..k /\ c \in 0..k
      /\ d + a * (k * k) + b * k + c <= q /\ (a > 0 \/ b > 0 \/ c > 0)
  BY <1>2, <1>3
<1> HIDE DEF a, b, c, k, d, q
<1>5. d < q
  BY <1>4, CallLeavesRoom
<1> QED
  BY <1>5 DEF d, q

(* A masked interrupt is a call less; a queued DPC is paid for by one.     *)
LEMMA CallKeepsBudget ==
  ASSUME QueueSuffices, IInv, Budget, Calling, calls' = Called,
         dpcCount' \in {dpcCount, dpcCount + 1}, UNCHANGED <<currentIrql, irqlStack>>
  PROVE  Budget'
<1>1. IsrRuns /\ IsrRuns'
  BY IsrCallKeeps
<1> DEFINE a == Left(1)  b == Left(2)  c == Left(3)  k == IsrCalls
           n == Len(calls)
<1>2. /\ k \in Nat /\ MAX_QUEUE \in Nat /\ dpcCount \in Nat
      /\ a \in 0..k /\ b \in 0..k /\ c \in 0..k
      /\ dpcCount + a * (k * k) + b * k + c <= MAX_QUEUE
  BY <1>1, BudgetOf
<1>3. n \in 1..3 /\ Left(n) > 0
  BY <1>1, LeftAfterCall
<1>4. /\ a' = IF 1 = n THEN a - 1 ELSE a
      /\ b' = IF 2 = n THEN b - 1 ELSE b
      /\ c' = IF 3 = n THEN c - 1 ELSE c
  BY <1>1, LeftAfterCall
<1>5. (n = 1 /\ a > 0) \/ (n = 2 /\ b > 0) \/ (n = 3 /\ c > 0)
  <2> HIDE DEF n
  <2> QED
    BY <1>3
<1> HIDE DEF a, b, c, n, k
<1>6. /\ a > 0 => dpcCount + 1 + (a - 1) * (k * k) + b * k + c <= MAX_QUEUE
      /\ b > 0 => dpcCount + 1 + a * (k * k) + (b - 1) * k + c <= MAX_QUEUE
      /\ c > 0 => dpcCount + 1 + a * (k * k) + b * k + (c - 1) <= MAX_QUEUE
  BY <1>2, CallPays
<1>7. a' \in 0..k /\ b' \in 0..k /\ c' \in 0..k
  BY <1>2, <1>4, <1>5
<1>8. dpcCount + 1 + a' * (k * k) + b' * k + c' <= MAX_QUEUE
  <2>1. CASE n = 1 /\ a > 0
    BY <1>4, <1>6, <2>1
  <2>2. CASE n = 2 /\ b > 0
    BY <1>4, <1>6, <2>2
  <2>3. CASE n = 3 /\ c > 0
    BY <1>4, <1>6, <2>3
  <2> QED
    BY <1>5, <2>1, <2>2, <2>3
<1>9. dpcCount' + a' * (k * k) + b' * k + c' <= MAX_QUEUE
  <2>1. CASE dpcCount' = dpcCount
    <3>1. dpcCount + a' * (k * k) + b' * k + c' <= MAX_QUEUE
      BY <1>2, <1>7, <1>8, DpcLess
    <3> QED
      BY <2>1, <3>1
  <2>2. CASE dpcCount' = dpcCount + 1
    BY <1>8, <2>2
  <2> QED
    BY <2>1, <2>2
<1> QED
  BY <1>7, <1>9 DEF a, b, c, k, Budget

(* An interrupt below the highest level is paid for by the ISR it enters.  *)
LEMMA InterruptKeepsBudget ==
  ASSUME QueueSuffices, IInv, Budget, NEW level \in InterruptLevels, TriggerInterrupt(level)
  PROVE  Budget'
<1> DEFINE a == Left(1)  b == Left(2)  c == Left(3)  k == IsrCalls
           n == Len(calls)
<1>1. k \in Nat /\ MAX_QUEUE \in Nat /\ k * k * k <= MAX_QUEUE /\ dpcCount' = dpcCount
  BY IrqlAssumption DEF QueueSuffices, TriggerInterrupt
<1>2. CASE MainRuns /\ calls' = <<Isr(k)>>
  <2>1. a' = k /\ b' = 0 /\ c' = 0
    BY <1>2 DEF Left, Isr
  <2>2. dpcCount' = 0
    BY <1>1, <1>2 DEF MainRuns
  <2> HIDE DEF a, b, c, k
  <2>3. /\ a' \in 0..k /\ b' \in 0..k /\ c' \in 0..k
        /\ dpcCount' + a' * (k * k) + b' * k + c' <= MAX_QUEUE
    BY <1>1, <2>1, <2>2
  <2> QED
    BY <2>3 DEF a, b, c, k, Budget
<1>3. CASE IsrRuns /\ Calling /\ calls' = Append(Called, Isr(k))
  <2>1. IsrRuns'
    BY TriggerInterruptKeeps
  <2>2. /\ dpcCount \in Nat /\ a \in 0..k /\ b \in 0..k /\ c \in 0..k
        /\ dpcCount + a * (k * k) + b * k + c <= MAX_QUEUE
    BY <1>3, BudgetOf
  <2>3. /\ n \in 1..2 /\ Left(n) > 0 /\ Left(n + 1) = 0
        /\ \A i \in 1..3 : Left(i)' = IF i = n THEN Left(i) - 1
                                      ELSE IF i = n + 1 THEN k ELSE Left(i)
    BY <1>1, <1>3, <2>1, LeftAfterInterrupt
  <2>4. \/ a > 0 /\ b = 0 /\ a' = a - 1 /\ b' = k /\ c' = c
        \/ b > 0 /\ c = 0 /\ a' = a /\ b' = b - 1 /\ c' = k
    <3> HIDE DEF n
    <3>1. n = 1 \/ n = 2
      BY <2>3
    <3>2. CASE n = 1
      BY <2>3, <3>2
    <3>3. CASE n = 2
      BY <2>3, <3>3
    <3> QED
      BY <3>1, <3>2, <3>3
  <2> HIDE DEF a, b, c, k
  <2>5. /\ a > 0 /\ b = 0 => dpcCount + (a - 1) * (k * k) + k * k + c <= MAX_QUEUE
        /\ b > 0 /\ c = 0 => dpcCount + a * (k * k) + (b - 1) * k + k <= MAX_QUEUE
    BY <1>1, <2>2, CallPays
  <2>6. a' \in 0..k /\ b' \in 0..k /\ c' \in 0..k
    BY <1>1, <2>2, <2>4
  <2>7. dpcCount' + a' * (k * k) + b' * k + c' <= MAX_QUEUE
    BY <1>1, <2>4, <2>5
  <2> QED
    BY <2>6, <2>7 DEF a, b, c, k, Budget
<1> QED
  BY <1>2, <1>3, TriggerInterruptKeeps

(* Returning to the interrupted ISR leaves what that one had left. *)
LEMMA PopKeepsBudget ==
  ASSUME QueueSuffices, IInv, Budget, PopIrql
  PROVE  Budget'
<1> DEFINE a == Left(1)  b == Left(2)  c == Left(3)  k == IsrCalls
           n == Len(calls)
<1>1. IsrRuns /\ dpcCount' = dpcCount
  BY PopIrqlKeeps
<1>2. CASE DrainRuns'
  <2>1. (DrainRuns => ~In("isr"))' /\ (IsrRuns => In("isr"))'
    BY TopOfCalls, PTL
  <2> QED
    BY <1>2, <2>1 DEF Budget
<1>3. CASE IsrRuns' /\ calls' = Front(calls)
  <2>1. /\ k \in Nat /\ MAX_QUEUE \in Nat /\ dpcCount \in Nat
        /\ a \in 0..k /\ b \in 0..k /\ c \in 0..k
        /\ dpcCount + a * (k * k) + b * k + c <= MAX_QUEUE
    BY <1>1, BudgetOf
  <2>2. /\ DOMAIN calls = 1..n /\ n \in Nat \ {0}
        /\ Front(calls) \in Seq(IsrFrames) /\ Len(Front(calls)) = n - 1
        /\ \A i \in 1..(n - 1) : Front(calls)[i] = calls[i]
    BY <1>1, FrontElements DEF IsrRuns
  <2>3. DOMAIN calls' = 1..(n - 1)
    BY <1>3, <2>2, LenProperties
  <2>4. \A i \in 1..3 : Left(i)' \in {Left(i), 0}
    BY <1>3, <2>2, <2>3 DEF Left
  <2>5. a' \in {a, 0} /\ b' \in {b, 0} /\ c' \in {c, 0}
    BY <2>4
  <2> HIDE DEF a, b, c, k, n
  <2>6. a' \in 0..k /\ b' \in 0..k /\ c' \in 0..k
    BY <2>1, <2>5
  <2>7. dpcCount + a' * (k * k) + b' * k + c' <= MAX_QUEUE
    BY <2>1, <2>5, CallLeavesRoom, ZenonT(40)
  <2>8. dpcCount' + a' * (k * k) + b' * k + c' <= MAX_QUEUE
    BY <1>1, <2>7
  <2> QED
    BY <2>6, <2>8 DEF a, b, c, k, Budget
<1> QED
  BY <1>2, <1>3, PopIrqlKeeps

(* Every step keeps within the budget of DPCs. *)
LEMMA NextBudget == QueueSuffices /\ IInv /\ Budget /\ [Next]_vars => Budget'
<1> SUFFICES ASSUME QueueSuffices, IInv, Budget, [Next]_vars PROVE Budget'
  OBVIOUS
<1> DpcCalls = 0
  BY DEF QueueSuffices
<1>0. (DrainRuns => ~IsrRuns)' /\ (DpcRuns => ~IsrRuns)' /\ (MainRuns => ~IsrRuns)'
  <2>1. (DrainRuns => ~IsrRuns) /\ (DpcRuns => ~IsrRuns) /\ (MainRuns => ~IsrRuns)
    BY TopOfCalls
  <2> QED
    BY TopOfCalls, PTL
<1>1. CASE UNCHANGED vars
  BY <1>1 DEF vars, Budget, IsrRuns, Left
<1>2. ASSUME NEW level \in InterruptLevels, TriggerMasked(level)
      PROVE  Budget'
  BY <1>2, CallKeepsBudget DEF TriggerMasked
<1>3. ASSUME NEW level \in InterruptLevels, TriggerInterrupt(level)
      PROVE  Budget'
  BY <1>3, InterruptKeepsBudget
<1>4. CASE QueueDpc
  BY <1>4, CallKeepsBudget DEF QueueDpc
<1>5. CASE StartIoOperation
  <2>1. calls' = <<Isr(0)>> /\ dpcCount' = 1 /\ IsrCalls \in Nat /\ MAX_QUEUE >= 1
    BY <1>5, StartIoOperationKeeps, IrqlAssumption DEF QueueSuffices
  <2>2. Left(1)' = 0 /\ Left(2)' = 0 /\ Left(3)' = 0
    BY <2>1 DEF Left, Isr
  <2>3. dpcCount' + Left(1)' * (IsrCalls * IsrCalls) + Left(2)' * IsrCalls + Left(3)' <= MAX_QUEUE
    BY <2>1, <2>2
  <2>4. \A i \in 1..3 : Left(i)' \in 0..IsrCalls
    BY <2>1, <2>2
  <2> QED
    BY <2>3, <2>4 DEF Budget
<1>6. CASE PopIrql
  BY <1>6, PopKeepsBudget
<1>7. CASE DrainOne
  BY <1>0, <1>7, DrainOneKeeps DEF Budget
<1>8. CASE DpcReturns
  BY <1>0, <1>8, DpcReturnsKeeps DEF Budget
<1>9. CASE DrainEnds
  BY <1>0, <1>9, DrainEndsKeeps DEF Budget
<1> QED
  BY <1>1, <1>2, <1>3, <1>4, <1>5, <1>6, <1>7, <1>8, <1>9 DEF Next

(* What main is inside of has the types of the stacks. *)
LEMMA TypeFromInvariant == IInv => TypeOK
<1> SUFFICES ASSUME IInv PROVE TypeOK
  OBVIOUS
<1>1. CASE MainRuns
  BY <1>1 DEF MainRuns, TypeOK, PASSIVE_LEVEL, MACHINE_CHECK
<1>2. CASE IsrRuns
  <2>1. currentIrql \in InterruptLevels
    BY <1>2, AtMostThreeNest, ElementOfSeq DEF IsrRuns
  <2>2. currentIrql \in PASSIVE_LEVEL..MACHINE_CHECK
    BY <2>1, IrqlAssumption DEF PASSIVE_LEVEL, DIRQL, MACHINE_CHECK
  <2>3. IsrFrames \subseteq Frames
    BY DEF IsrFrames, Frames
  <2>4. calls \in Seq(Frames)
    BY <1>2, <2>3, SeqMonotonic DEF IsrRuns
  <2> QED
    BY <1>2, <2>2, <2>4 DEF IsrRuns, TypeOK
<1>3. CASE DrainRuns \/ DpcRuns
  <2>1. Drain(PASSIVE_LEVEL) \in Frames /\ Dpc(0) \in Frames
    BY DEF Drain, Dpc, Frames, PASSIVE_LEVEL
  <2>2. <<Drain(PASSIVE_LEVEL)>> \in Seq(Frames) /\ <<Drain(PASSIVE_LEVEL), Dpc(0)>> \in Seq(Frames)
    BY <2>1
  <2>3. calls \in Seq(Frames)
    BY <1>3, <2>2 DEF DrainRuns, DpcRuns
  <2>4. irqlStack = <<>> /\ currentIrql = DISPATCH_LEVEL /\ dpcCount \in Nat
    BY <1>3 DEF DrainRuns, DpcRuns
  <2>5. irqlStack \in Seq(InterruptLevels)
    BY <2>4
  <2>6. currentIrql \in PASSIVE_LEVEL..MACHINE_CHECK
    BY <2>4 DEF PASSIVE_LEVEL, DISPATCH_LEVEL, MACHINE_CHECK
  <2> QED
    BY <2>3, <2>4, <2>5, <2>6 DEF TypeOK
<1> QED
  BY <1>1, <1>2, <1>3 DEF IInv

(* Within the budget no call finds a queue or a stack full. *)
LEMMA RoomFromInvariant == QueueSuffices /\ IInv /\ Budget => NoBugcheck
<1> SUFFICES ASSUME QueueSuffices, IInv, Budget PROVE NoBugcheck
  OBVIOUS
<1>1. TypeOK
  BY TypeFromInvariant
<1>2. CASE InMain
  <2>1. MainRuns /\ dpcCount < MAX_QUEUE
    BY <1>2, TopOfCalls, IrqlAssumption DEF IInv, QueueSuffices, MainRuns
  <2>2. \A level \in InterruptLevels : ~PushRefused(level)
    BY <2>1, IrqlAssumption DEF MainRuns, PushRefused, QueueSuffices
  <2> QED
    BY <1>1, <2>1, <2>2 DEF NoBugcheck
<1>3. CASE Calling
  <2>1. IsrRuns /\ dpcCount < MAX_QUEUE
    BY <1>3, TopOfCalls, RoomForCall DEF IInv
  <2>2. ASSUME NEW level \in InterruptLevels, level > currentIrql
        PROVE  ~PushRefused(level)
    <3>1. /\ Len(irqlStack) \in 1..3
          /\ \A i \in 1..Len(irqlStack) : irqlStack[i] \in (DIRQL + i - 1)..MACHINE_CHECK
      BY <2>1, AtMostThreeNest
    <3>2. level \in DIRQL..MACHINE_CHECK /\ currentIrql = irqlStack[Len(irqlStack)]
      BY <2>1, IrqlAssumption DEF IsrRuns
    <3>3. Len(irqlStack) # 3
      BY <2>2, <3>1, <3>2 DEF DIRQL, MACHINE_CHECK
    <3>4. ~(Len(irqlStack) >= MAX_NESTING)
      BY <3>1, <3>3, IrqlAssumption DEF QueueSuffices
    <3>5. ~(level <= Last(irqlStack))
      BY <2>2, <3>1, <3>2 DEF Last, DIRQL, MACHINE_CHECK
    <3> QED
      BY <3>4, <3>5 DEF PushRefused
  <2> QED
    BY <1>1, <2>1, <2>2 DEF NoBugcheck
<1>4. CASE ~InMain /\ ~Calling
  BY <1>1, <1>4 DEF NoBugcheck
<1> QED
  BY <1>2, <1>3, <1>4

(* A DPC queue of IsrCalls^3 places and an IRQL stack of three suffice: no *)
(* call of main, an ISR or a DPC finds the one full or is refused by the   *)
(* other.                                                                  *)
THEOREM NoBugcheckCorrect == ASSUME QueueSuffices PROVE Spec => []NoBugcheck
<1>1. DpcCalls = 0
  BY DEF QueueSuffices
<1>2. Init => IInv /\ Budget
  <2> SUFFICES ASSUME Init PROVE IInv /\ Budget
    OBVIOUS
  <2>1. MainRuns
    BY DEF Init, MainRuns
  <2> QED
    BY <2>1, TopOfCalls DEF IInv, Budget
<1>3. IInv /\ Budget /\ [Next]_vars => IInv' /\ Budget'
  BY <1>1, NextInvariant, NextBudget
<1>4. IInv /\ Budget => NoBugcheck
  BY RoomFromInvariant
<1> QED
  BY <1>2, <1>3, <1>4, PTL DEF Spec

----------------------------------------------------------------------------
(* Counting the handles of an object *)

(* The slots of one table that name an object. *)
NamingSlots(table, o) == {h \in Handles : table[h] = o}

(* The slots that name an object, with the tables as a parameter. *)
SlotsIn(tables, o) == {s \in Processes \X Handles : tables[s[1]][s[2]] = o}

(* A table names an object finitely often, and so do all tables together. *)
LEMMA SlotsFinite ==
  ASSUME NEW o, NEW table, NEW tables
  PROVE  /\ IsFiniteSet(SlotsIn(tables, o)) /\ Cardinality(SlotsIn(tables, o)) \in Nat
         /\ IsFiniteSet(NamingSlots(table, o)) /\ Named(table, o) \in Nat
         /\ Named(table, o) = Cardinality(NamingSlots(table, o))
<1>1. IsFiniteSet(Processes) /\ IsFiniteSet(Handles)
  BY ObjectAssumption, FS_Interval DEF Processes, Handles
<1>2. IsFiniteSet(Processes \X Handles)
  BY <1>1, FS_Product
<1>3. SlotsIn(tables, o) \in SUBSET (Processes \X Handles)
  BY DEF SlotsIn
<1>4. NamingSlots(table, o) \in SUBSET Handles
  BY DEF NamingSlots
<1>5. IsFiniteSet(SlotsIn(tables, o)) /\ IsFiniteSet(NamingSlots(table, o))
  BY <1>1, <1>2, <1>3, <1>4, FS_Subset
<1>6. Cardinality(SlotsIn(tables, o)) \in Nat /\ Cardinality(NamingSlots(table, o)) \in Nat
  BY <1>5, FS_CardinalityType
<1> QED
  BY <1>5, <1>6 DEF Named, NamingSlots

(* Writing another value into a slot adds one to the slots of that value   *)
(* and takes one from those of the old one.                                *)
LEMMA SlotWritten ==
  ASSUME NEW tables, NEW after, NEW p \in Processes, NEW h \in Handles, NEW o,
         after[p][h] # tables[p][h],
         \A q \in Processes, g \in Handles :
           <<q, g>> # <<p, h>> => after[q][g] = tables[q][g]
  PROVE  Cardinality(SlotsIn(after, o)) =
           IF o = after[p][h] THEN Cardinality(SlotsIn(tables, o)) + 1
           ELSE IF o = tables[p][h] THEN Cardinality(SlotsIn(tables, o)) - 1
           ELSE Cardinality(SlotsIn(tables, o))
<1> DEFINE slots == SlotsIn(tables, o)
<1>1. IsFiniteSet(slots)
  BY SlotsFinite
<1>2. <<p, h>> \in slots <=> o = tables[p][h]
  BY DEF SlotsIn
<1>3. SlotsIn(after, o) = IF o = after[p][h] THEN slots \cup {<<p, h>>} ELSE slots \ {<<p, h>>}
  BY DEF SlotsIn
<1> HIDE DEF slots
<1>4. /\ Cardinality(slots \cup {<<p, h>>}) =
           IF <<p, h>> \in slots THEN Cardinality(slots) ELSE Cardinality(slots) + 1
      /\ Cardinality(slots \ {<<p, h>>}) =
           IF <<p, h>> \in slots THEN Cardinality(slots) - 1 ELSE Cardinality(slots)
  BY <1>1, FS_AddElement, FS_RemoveElement
<1>5. Cardinality(SlotsIn(after, o)) =
        IF o = after[p][h] THEN Cardinality(slots) + 1
        ELSE IF o = tables[p][h] THEN Cardinality(slots) - 1
        ELSE Cardinality(slots)
  BY <1>2, <1>3, <1>4
<1> QED
  BY <1>5 DEF slots

(* Clearing a whole table takes away as many slots of an object as the     *)
(* table named it.                                                         *)
LEMMA TableCleared ==
  ASSUME NEW tables \in [Processes -> [Handles -> Objects \cup {NULL}]],
         NEW p \in Processes, NEW o \in Objects
  PROVE  Cardinality(SlotsIn([tables EXCEPT ![p] = NoHandles], o)) =
           Cardinality(SlotsIn(tables, o)) - Named(tables[p], o)
<1> DEFINE after == [tables EXCEPT ![p] = NoHandles]
           slots == SlotsIn(tables, o)
           mine == {p} \X NamingSlots(tables[p], o)
<1>1. SlotsIn(after, o) = slots \ mine
  <2>1. \A q \in Processes, g \in Handles :
          after[q][g] = IF q = p THEN NULL ELSE tables[q][g]
    BY DEF NoHandles
  <2>2. o # NULL
    BY ObjectAssumption
  <2> HIDE DEF after
  <2> QED
    BY <2>1, <2>2 DEF SlotsIn, NamingSlots
<1>2. slots \cap mine = mine
  BY DEF SlotsIn, NamingSlots
<1>3. Cardinality(mine) = Named(tables[p], o)
  <2>1. IsFiniteSet({p}) /\ Cardinality({p}) = 1
    BY FS_Singleton
  <2>2. /\ IsFiniteSet(NamingSlots(tables[p], o))
        /\ Cardinality(NamingSlots(tables[p], o)) = Named(tables[p], o)
        /\ Named(tables[p], o) \in Nat
    BY SlotsFinite
  <2>3. Cardinality(mine) = 1 * Cardinality(NamingSlots(tables[p], o))
    BY <2>1, <2>2, FS_Product
  <2> QED
    BY <2>2, <2>3
<1>4. Cardinality(slots \ mine) = Cardinality(slots) - Cardinality(slots \cap mine)
  <2>1. IsFiniteSet(slots)
    BY SlotsFinite
  <2> HIDE DEF slots, mine
  <2> QED
    BY <2>1, FS_Difference
<1> HIDE DEF after, slots, mine
<1>5. Cardinality(SlotsIn(after, o)) = Cardinality(slots) - Named(tables[p], o)
  BY <1>1, <1>2, <1>3, <1>4
<1> QED
  BY <1>5 DEF after, slots

----------------------------------------------------------------------------
(* LifetimeExact is inductive.  LifetimeInv states it with the tables as a        *)
(* parameter of the count.                                                 *)

HandleCount(o) == Cardinality(SlotsIn(handleTable, o))   \* = Cardinality(Slots(o))

ReferencesExact ==
  \A o \in Objects : refCount[o] = held[o] + HandleCount(o) /\ (alive[o] <=> refCount[o] > 0)

TablesExact ==
  \A p \in Processes : (p > processCount => ~exist[p]) /\ (~exist[p] => handleTable[p] = NoHandles)

LifetimeInv == ObjectsTypeOK /\ ReferencesExact /\ TablesExact

(* The invariant is LifetimeExact with its parts named. *)
LEMMA LifetimeInvIsExact == LifetimeInv => LifetimeExact
BY DEF LifetimeInv, ReferencesExact, TablesExact, HandleCount, LifetimeExact, Slots, SlotsIn

(* Tables name an object a natural number of times. *)
LEMMA HandleCountType == \A o : HandleCount(o) \in Nat /\ HandleCount(o)' \in Nat
BY SlotsFinite DEF HandleCount

(* As many ObDereferenceObject as references are gone keep the count, and  *)
(* free the object with the last of them.                                  *)
LEMMA DereferencedKeeps ==
  ASSUME LifetimeInv, NEW times \in [Objects -> Nat], Dereferenced(times),
         \A o \in Objects : refCount[o] = held'[o] + HandleCount(o)' + times[o],
         \A o \in Objects : held'[o] \in Nat
  PROVE  /\ ReferencesExact'
         /\ refCount' \in [Objects -> Nat] /\ alive' \in [Objects -> BOOLEAN]
<1>1. ASSUME NEW o \in Objects
      PROVE  /\ refCount'[o] = held'[o] + HandleCount(o)' /\ refCount'[o] \in Nat
             /\ alive'[o] <=> refCount'[o] > 0
  <2>1. refCount[o] \in Nat /\ times[o] \in Nat /\ held'[o] \in Nat /\ HandleCount(o)' \in Nat
    BY HandleCountType DEF LifetimeInv, ObjectsTypeOK
  <2>2. alive[o] <=> refCount[o] > 0
    BY DEF LifetimeInv, ReferencesExact
  <2>3. refCount'[o] = refCount[o] - times[o]
    BY DEF Dereferenced
  <2>4. alive'[o] <=> (alive[o] /\ ~(times[o] > 0 /\ refCount[o] = times[o]))
    BY DEF Dereferenced
  <2> QED
    BY <2>1, <2>2, <2>3, <2>4
<1>2. refCount' \in [Objects -> Nat]
  BY <1>1 DEF Dereferenced
<1>3. alive' \in [Objects -> BOOLEAN]
  BY DEF Dereferenced
<1> QED
  BY <1>1, <1>2, <1>3 DEF ReferencesExact

(* Each operation keeps counts, lifetimes and tables exact. *)
LEMMA CreateProcessKeeps ==
  ASSUME LifetimeInv, CreateProcess
  PROVE  LifetimeInv'
<1>1. /\ processCount' \in Processes /\ processCount' > processCount
      /\ processCount' = processCount + 1 /\ processCount \in Nat
  BY ObjectAssumption DEF LifetimeInv, ObjectsTypeOK, CreateProcess, Processes
<1>2. handleTable[processCount'] = NoHandles
  <2>1. \A q \in Processes : q > processCount => ~exist[q]
    BY DEF LifetimeInv, TablesExact
  <2> QED
    BY <1>1, <2>1 DEF LifetimeInv, TablesExact
<1>3. handleTable' = handleTable
  BY <1>1, <1>2 DEF LifetimeInv, ObjectsTypeOK, CreateProcess
<1>4. ObjectsTypeOK'
  BY <1>1, <1>3, ObjectAssumption DEF LifetimeInv, ObjectsTypeOK, CreateProcess, Processes
<1>5. ReferencesExact'
  BY <1>3 DEF LifetimeInv, ReferencesExact, HandleCount, CreateProcess
<1>6. \A q \in Processes : exist'[q] = (q = processCount' \/ exist[q])
  BY <1>1 DEF LifetimeInv, ObjectsTypeOK, CreateProcess
<1>7. \A q \in Processes : q > processCount' => q > processCount /\ q # processCount'
  BY <1>1, ObjectAssumption DEF Processes
<1>8. TablesExact'
  BY <1>3, <1>6, <1>7 DEF LifetimeInv, TablesExact
<1> QED
  BY <1>4, <1>5, <1>8 DEF LifetimeInv

(* A new object has the one reference of its creator. *)
LEMMA CreateMutexObjectKeeps ==
  ASSUME LifetimeInv, NEW o \in Objects, CreateMutexObject(o)
  PROVE  LifetimeInv'
<1>1. ObjectsTypeOK /\ ObjectsTypeOK'
  BY DEF LifetimeInv, ObjectsTypeOK, CreateMutexObject
<1>2. held[o] \in Nat /\ HandleCount(o) \in Nat
  BY <1>1, HandleCountType DEF ObjectsTypeOK
<1>3. refCount[o] = held[o] + HandleCount(o) /\ ~(refCount[o] > 0)
  BY DEF LifetimeInv, ReferencesExact, CreateMutexObject
<1>4. HandleCount(o) = 0
  BY <1>2, <1>3
<1>5. \A x \in Objects : HandleCount(x)' = HandleCount(x)
  BY DEF HandleCount, CreateMutexObject
<1>6. ReferencesExact'
  BY <1>1, <1>4, <1>5 DEF LifetimeInv, ObjectsTypeOK, ReferencesExact, CreateMutexObject
<1> QED
  BY <1>1, <1>6 DEF LifetimeInv, TablesExact, CreateMutexObject

(* A handle in a table is one reference more. *)
LEMMA ObInsertHandleKeeps ==
  ASSUME LifetimeInv, NEW p \in Processes, NEW o \in Objects, ObInsertHandle(p, o)
  PROVE  LifetimeInv'
<1>1. PICK h \in FreeSlot(p) : handleTable' = [handleTable EXCEPT ![p][h] = o]
  BY DEF ObInsertHandle
<1>2. h \in Handles /\ handleTable[p][h] = NULL /\ o # NULL /\ NULL \notin Objects
  BY ObjectAssumption DEF FreeSlot
<1>3. ObjectsTypeOK /\ ObjectsTypeOK'
  BY <1>1, <1>2 DEF LifetimeInv, ObjectsTypeOK, ObInsertHandle
<1>4. \A x \in Objects : HandleCount(x)' = HandleCount(x) + (IF x = o THEN 1 ELSE 0)
  <2> TAKE x \in Objects
  <2>1. /\ handleTable'[p][h] = o
        /\ \A q \in Processes, g \in Handles :
             <<q, g>> # <<p, h>> => handleTable'[q][g] = handleTable[q][g]
    BY <1>1, <1>2, <1>3 DEF ObjectsTypeOK
  <2>2. Cardinality(SlotsIn(handleTable', x)) =
          IF x = o THEN Cardinality(SlotsIn(handleTable, x)) + 1
          ELSE IF x = handleTable[p][h] THEN Cardinality(SlotsIn(handleTable, x)) - 1
          ELSE Cardinality(SlotsIn(handleTable, x))
    <3>1. handleTable'[p][h] # handleTable[p][h] /\ h \in Handles
      BY <1>2, <2>1
    <3>2. Cardinality(SlotsIn(handleTable', x)) =
            IF x = handleTable'[p][h] THEN Cardinality(SlotsIn(handleTable, x)) + 1
            ELSE IF x = handleTable[p][h] THEN Cardinality(SlotsIn(handleTable, x)) - 1
            ELSE Cardinality(SlotsIn(handleTable, x))
      BY <2>1, <3>1, SlotWritten
    <3> QED
      BY <2>1, <3>2
  <2>3. Cardinality(SlotsIn(handleTable, x)) \in Nat
    BY SlotsFinite
  <2> QED
    BY <1>1, <1>2, <2>2, <2>3 DEF HandleCount
<1>5. \A x \in Objects : /\ refCount'[x] = refCount[x] + (IF x = o THEN 1 ELSE 0)
                         /\ refCount[x] \in Nat /\ held[x] \in Nat /\ HandleCount(x) \in Nat
  BY <1>3, HandleCountType DEF ObjectsTypeOK, ObInsertHandle
<1>6. /\ held[o] > 0 /\ held' = held /\ alive' = alive /\ exist' = exist
      /\ processCount' = processCount
  BY DEF ObInsertHandle
<1>7. ReferencesExact'
  BY <1>4, <1>5, <1>6 DEF LifetimeInv, ReferencesExact
<1>8. \A q \in Processes : ~exist[q] => handleTable'[q] = handleTable[q]
  BY <1>1, <1>3 DEF ObInsertHandle, ObjectsTypeOK
<1> QED
  BY <1>3, <1>6, <1>7, <1>8 DEF LifetimeInv, TablesExact

(* So is a pointer taken through a handle. *)
LEMMA ObReferenceObjectByHandleKeeps ==
  ASSUME LifetimeInv, NEW p \in Processes, NEW h, ObReferenceObjectByHandle(p, h)
  PROVE  LifetimeInv'
<1> DEFINE o == ObjectOf(p, h)
<1>1. ObjectsTypeOK
  BY DEF LifetimeInv
<1>2. h \in Handles /\ o = handleTable[p][h] /\ o \in Objects
  BY <1>1 DEF ObReferenceObjectByHandle, ObjectOf, ObjectsTypeOK
<1>3. /\ refCount' = [refCount EXCEPT ![o] = @ + 1]
      /\ held' = [held EXCEPT ![o] = @ + 1]
      /\ UNCHANGED <<processCount, exist, handleTable, alive>>
  BY DEF ObReferenceObjectByHandle
<1> HIDE DEF o
<1>4. ObjectsTypeOK'
  BY <1>1, <1>2, <1>3 DEF ObjectsTypeOK
<1>5. HandleCount(o) # 0
  <2>1. <<p, h>> \in SlotsIn(handleTable, o)
    BY <1>2 DEF SlotsIn
  <2>2. IsFiniteSet(SlotsIn(handleTable, o)) /\ SlotsIn(handleTable, o) # {}
    BY <2>1, SlotsFinite
  <2> QED
    BY <2>2, FS_EmptySet DEF HandleCount
<1>6. \A x \in Objects : /\ refCount'[x] = refCount[x] + (IF x = o THEN 1 ELSE 0)
                         /\ held'[x] = held[x] + (IF x = o THEN 1 ELSE 0)
                         /\ refCount[x] \in Nat /\ held[x] \in Nat
                         /\ HandleCount(x)' = HandleCount(x) /\ HandleCount(x) \in Nat
  BY <1>1, <1>3, HandleCountType DEF ObjectsTypeOK, HandleCount
<1>7. ReferencesExact'
  BY <1>3, <1>5, <1>6 DEF LifetimeInv, ReferencesExact
<1> QED
  BY <1>3, <1>4, <1>7 DEF LifetimeInv, TablesExact

(* Giving a pointer back takes its reference away. *)
LEMMA ObDereferenceObjectKeeps ==
  ASSUME LifetimeInv, NEW o \in Objects, ObDereferenceObject(o)
  PROVE  LifetimeInv'
<1> DEFINE times == [x \in Objects |-> IF x = o THEN 1 ELSE 0]
<1>1. /\ ObjectsTypeOK /\ held[o] > 0 /\ Dereferenced(times)
      /\ held' = [held EXCEPT ![o] = @ - 1] /\ times \in [Objects -> Nat]
      /\ UNCHANGED <<processCount, exist, handleTable>>
  BY DEF ObDereferenceObject, LifetimeInv
<1>2. held' \in [Objects -> Nat]
  BY <1>1 DEF ObjectsTypeOK
<1>3. \A x \in Objects : refCount[x] = held'[x] + HandleCount(x)' + times[x]
  <2> TAKE x \in Objects
  <2>1. held[x] \in Nat /\ HandleCount(x) \in Nat /\ HandleCount(x)' = HandleCount(x)
    BY <1>1, HandleCountType DEF ObjectsTypeOK, HandleCount
  <2>2. held'[x] = held[x] - times[x] /\ times[x] \in {0, 1}
    BY <1>1 DEF ObjectsTypeOK
  <2>3. refCount[x] = held[x] + HandleCount(x)
    BY DEF LifetimeInv, ReferencesExact
  <2> HIDE DEF times
  <2> QED
    BY <2>1, <2>2, <2>3
<1> HIDE DEF times
<1>4. ReferencesExact' /\ refCount' \in [Objects -> Nat] /\ alive' \in [Objects -> BOOLEAN]
  <2>1. \A x \in Objects : held'[x] \in Nat
    BY <1>2
  <2> QED
    BY <1>1, <1>3, <2>1, DereferencedKeeps
<1> QED
  BY <1>1, <1>2, <1>4 DEF LifetimeInv, ObjectsTypeOK, TablesExact

(* Closing a handle takes the reference of its slot. *)
LEMMA ObCloseHandleKeeps ==
  ASSUME LifetimeInv, NEW p \in Processes, NEW h, ObCloseHandle(p, h)
  PROVE  LifetimeInv'
<1> DEFINE c == ObjectOf(p, h)
           times == [x \in Objects |-> IF x = c THEN 1 ELSE 0]
<1>1. ObjectsTypeOK /\ NULL \notin Objects
  BY ObjectAssumption DEF LifetimeInv
<1>2. h \in Handles /\ c = handleTable[p][h] /\ c \in Objects
  BY <1>1 DEF ObCloseHandle, ObjectOf, ObjectsTypeOK
<1>3. /\ handleTable' = [handleTable EXCEPT ![p][h] = NULL]
      /\ Dereferenced(times) /\ exist[p]
      /\ UNCHANGED <<processCount, exist, held>>
  BY DEF ObCloseHandle
<1>4. times \in [Objects -> Nat] /\ \A x \in Objects : times[x] = IF x = c THEN 1 ELSE 0
  OBVIOUS
<1> HIDE DEF c, times
<1>5. \A x \in Objects : refCount[x] = held'[x] + HandleCount(x)' + times[x]
  <2> TAKE x \in Objects
  <2>1. /\ handleTable'[p][h] = NULL
        /\ \A q \in Processes, g \in Handles :
             <<q, g>> # <<p, h>> => handleTable'[q][g] = handleTable[q][g]
    BY <1>1, <1>2, <1>3 DEF ObjectsTypeOK
  <2>2. Cardinality(SlotsIn(handleTable', x)) =
          IF x = NULL THEN Cardinality(SlotsIn(handleTable, x)) + 1
          ELSE IF x = handleTable[p][h] THEN Cardinality(SlotsIn(handleTable, x)) - 1
          ELSE Cardinality(SlotsIn(handleTable, x))
    <3>1. handleTable'[p][h] # handleTable[p][h] /\ h \in Handles
      BY <1>1, <1>2, <2>1
    <3>2. \A q \in Processes, g \in Handles :
            <<q, g>> # <<p, h>> => handleTable'[q][g] = handleTable[q][g]
      BY <2>1
    <3>3. Cardinality(SlotsIn(handleTable', x)) =
            IF x = handleTable'[p][h] THEN Cardinality(SlotsIn(handleTable, x)) + 1
            ELSE IF x = handleTable[p][h] THEN Cardinality(SlotsIn(handleTable, x)) - 1
            ELSE Cardinality(SlotsIn(handleTable, x))
      BY <3>1, <3>2, SlotWritten
    <3> QED
      BY <2>1, <3>3
  <2>3. HandleCount(x)' = HandleCount(x) - times[x]
    BY <1>1, <1>2, <1>4, <2>2, SlotsFinite DEF HandleCount
  <2>4. held[x] \in Nat /\ HandleCount(x) \in Nat /\ held'[x] = held[x] /\ times[x] \in Nat
    BY <1>1, <1>3, <1>4, HandleCountType DEF ObjectsTypeOK
  <2>5. refCount[x] = held[x] + HandleCount(x)
    BY DEF LifetimeInv, ReferencesExact
  <2> QED
    BY <2>3, <2>4, <2>5
<1>6. ReferencesExact' /\ refCount' \in [Objects -> Nat] /\ alive' \in [Objects -> BOOLEAN]
  <2>1. \A x \in Objects : held'[x] \in Nat
    BY <1>1, <1>3 DEF ObjectsTypeOK
  <2> QED
    BY <1>3, <1>4, <1>5, <2>1, DereferencedKeeps
<1>7. ObjectsTypeOK'
  BY <1>1, <1>2, <1>3, <1>6 DEF ObjectsTypeOK
<1>8. \A q \in Processes : ~exist[q] => handleTable'[q] = handleTable[q]
  BY <1>1, <1>3 DEF ObjectsTypeOK
<1> QED
  BY <1>3, <1>6, <1>7, <1>8 DEF LifetimeInv, TablesExact

(* The end of a process takes those of its whole table. *)
LEMMA DestroyProcessKeeps ==
  ASSUME LifetimeInv, NEW p \in Processes, DestroyProcess(p)
  PROVE  LifetimeInv'
<1> DEFINE times == [x \in Objects |-> Named(handleTable[p], x)]
<1>1. ObjectsTypeOK
  BY DEF LifetimeInv
<1>2. /\ handleTable' = [handleTable EXCEPT ![p] = NoHandles]
      /\ exist' = [exist EXCEPT ![p] = FALSE]
      /\ Dereferenced(times)
      /\ UNCHANGED <<processCount, held>>
  BY DEF DestroyProcess
<1>3. times \in [Objects -> Nat] /\ \A x \in Objects : times[x] = Named(handleTable[p], x)
  BY SlotsFinite
<1> HIDE DEF times
<1>4. \A x \in Objects : refCount[x] = held'[x] + HandleCount(x)' + times[x]
  <2> TAKE x \in Objects
  <2>1. handleTable \in [Processes -> [Handles -> Objects \cup {NULL}]]
    BY <1>1 DEF ObjectsTypeOK
  <2>2. HandleCount(x)' = HandleCount(x) - times[x]
    BY <1>2, <1>3, <2>1, TableCleared DEF HandleCount
  <2>3. held[x] \in Nat /\ HandleCount(x) \in Nat /\ held'[x] = held[x] /\ times[x] \in Nat
    BY <1>1, <1>2, <1>3, HandleCountType DEF ObjectsTypeOK
  <2>4. refCount[x] = held[x] + HandleCount(x)
    BY DEF LifetimeInv, ReferencesExact
  <2> QED
    BY <2>2, <2>3, <2>4
<1>5. ReferencesExact' /\ refCount' \in [Objects -> Nat] /\ alive' \in [Objects -> BOOLEAN]
  <2>1. \A x \in Objects : held'[x] \in Nat
    BY <1>1, <1>2 DEF ObjectsTypeOK
  <2> QED
    BY <1>2, <1>3, <1>4, <2>1, DereferencedKeeps
<1>6. NoHandles \in [Handles -> Objects \cup {NULL}]
  BY DEF NoHandles
<1>7. ObjectsTypeOK'
  BY <1>1, <1>2, <1>5, <1>6 DEF ObjectsTypeOK
<1>8. TablesExact'
  BY <1>1, <1>2 DEF LifetimeInv, ObjectsTypeOK, TablesExact
<1> QED
  BY <1>5, <1>7, <1>8 DEF LifetimeInv

(* Nothing is allocated at first. *)
LEMMA InitLifetime == ObjectsInit => LifetimeInv
<1> SUFFICES ASSUME ObjectsInit PROVE LifetimeInv
  OBVIOUS
<1>1. ObjectsTypeOK /\ TablesExact
  BY ObjectAssumption DEF ObjectsInit, ObjectsTypeOK, TablesExact, NoHandles
<1>2. \A o \in Objects : HandleCount(o) = 0
  <2> TAKE o \in Objects
  <2>1. SlotsIn(handleTable, o) = {}
    BY ObjectAssumption DEF ObjectsInit, NoHandles, SlotsIn
  <2> QED
    BY <2>1, FS_EmptySet DEF HandleCount
<1>3. ReferencesExact
  BY <1>2 DEF ObjectsInit, ReferencesExact
<1> QED
  BY <1>1, <1>3 DEF LifetimeInv

(* Every step keeps the invariant. *)
LEMMA NextLifetime == LifetimeInv /\ [ObjectsNext]_objectVars => LifetimeInv'
<1> SUFFICES ASSUME LifetimeInv, [ObjectsNext]_objectVars PROVE LifetimeInv'
  OBVIOUS
<1>1. CASE UNCHANGED objectVars
  BY <1>1 DEF objectVars, LifetimeInv, ObjectsTypeOK, ReferencesExact, HandleCount, TablesExact
<1>2. CASE CreateProcess
  BY <1>2, CreateProcessKeeps
<1>3. ASSUME NEW o \in Objects, CreateMutexObject(o) \/ ObDereferenceObject(o)
      PROVE  LifetimeInv'
  BY <1>3, CreateMutexObjectKeeps, ObDereferenceObjectKeeps
<1>4. ASSUME NEW p \in Processes, NEW o \in Objects, ObInsertHandle(p, o)
      PROVE  LifetimeInv'
  BY <1>4, ObInsertHandleKeeps
<1>5. ASSUME NEW p \in Processes, NEW h,
             ObReferenceObjectByHandle(p, h) \/ ObCloseHandle(p, h)
      PROVE  LifetimeInv'
  BY <1>5, ObReferenceObjectByHandleKeeps, ObCloseHandleKeeps
<1>6. ASSUME NEW p \in Processes, DestroyProcess(p)
      PROVE  LifetimeInv'
  BY <1>6, DestroyProcessKeeps
<1> QED
  BY <1>1, <1>2, <1>3, <1>4, <1>5, <1>6 DEF ObjectsNext

(* The reference count of an object is the number of the handles that name *)
(* it and of the pointers callers keep, and it is allocated exactly while  *)
(* there is one; a process that has ended has no handle.                   *)
THEOREM LifetimeCorrect == ObjectsSpec => []LifetimeExact
<1>1. ObjectsSpec => []LifetimeInv
  BY InitLifetime, NextLifetime, PTL DEF ObjectsSpec
<1>2. LifetimeInv => LifetimeExact
  BY LifetimeInvIsExact
<1> QED
  BY <1>1, <1>2, PTL
===============================================================================
