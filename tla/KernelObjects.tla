----------------------------- MODULE KernelObjects -----------------------------
(***************************************************************************)
(* Objects, handle tables and processes of BLUE_KERNEL/BlueKernel_lvl3.c,  *)
(* for any callers: several processes whose handles name the same objects, *)
(* and callers that keep the pointers they were given.  Memory that is     *)
(* freed may be given out again, so an object may be created more than     *)
(* once.                                                                   *)
(***************************************************************************)
EXTENDS Integers, FiniteSets

CONSTANTS
    MAX_PROCESSES, MAX_HANDLES,
    Objects, NULL,
    MaxHeld              \* bound: pointers to one object that callers keep

ASSUME ObjectAssumption ==
    NULL \notin Objects /\ MAX_PROCESSES \in Nat /\ MAX_HANDLES \in Nat

VARIABLES
    processCount,
    exist, handleTable,  \* PROCESS, per process
    alive, refCount,     \* KOBJECT, per object; alive: allocated
    held                 \* the pointers with a reference that callers still have
objectVars == <<processCount, exist, handleTable, alive, refCount, held>>

Processes == 1 .. MAX_PROCESSES
Handles == 0 .. MAX_HANDLES - 1
NoHandles == [h \in Handles |-> NULL]

ObjectsInit ==
    /\ processCount = 0
    /\ exist = [p \in Processes |-> FALSE]
    /\ handleTable = [p \in Processes |-> NoHandles]
    /\ alive = [o \in Objects |-> FALSE]
    /\ refCount = [o \in Objects |-> 0]
    /\ held = [o \in Objects |-> 0]

\* A full process table is a bugcheck.
CreateProcess ==
    /\ processCount < MAX_PROCESSES
    /\ processCount' = processCount + 1
    /\ exist' = [exist EXCEPT ![processCount'] = TRUE]
    /\ handleTable' = [handleTable EXCEPT ![processCount'] = NoHandles]
    /\ UNCHANGED <<alive, refCount, held>>

\* The creator keeps the first reference.
CreateMutexObject(o) ==
    /\ ~alive[o]
    /\ alive' = [alive EXCEPT ![o] = TRUE]
    /\ refCount' = [refCount EXCEPT ![o] = 1]
    /\ held' = [held EXCEPT ![o] = 1]
    /\ UNCHANGED <<processCount, exist, handleTable>>

------------------------------------------------------------------------------
\* The callers are threads of a process that exists, with pointers they have
\* references for.

\* How often a table names o, and the effect of that many ObDereferenceObject.
Named(table, o) == Cardinality({h \in Handles : table[h] = o})
Dereferenced(times) ==
    /\ refCount' = [o \in Objects |-> refCount[o] - times[o]]
    /\ alive' = [o \in Objects |-> alive[o] /\ ~(times[o] > 0 /\ refCount[o] = times[o])]

\* The first empty slot; a full handle table is a bugcheck.
FreeSlot(p) == {h \in Handles : /\ handleTable[p][h] = NULL
                                /\ \A g \in Handles : g < h => handleTable[p][g] # NULL}

ObInsertHandle(p, o) ==
    /\ exist[p] /\ held[o] > 0
    /\ \E h \in FreeSlot(p) : handleTable' = [handleTable EXCEPT ![p][h] = o]
    /\ refCount' = [refCount EXCEPT ![o] = @ + 1]
    /\ UNCHANGED <<processCount, exist, alive, held>>

\* The object that a handle names, if it is one: h may be any integer.
ObjectOf(p, h) == IF h \in Handles THEN handleTable[p][h] ELSE NULL

ObReferenceObjectByHandle(p, h) ==
    LET o == ObjectOf(p, h)
    IN  /\ exist[p] /\ o # NULL /\ held[o] < MaxHeld
        /\ refCount' = [refCount EXCEPT ![o] = @ + 1]
        /\ held' = [held EXCEPT ![o] = @ + 1]
        /\ UNCHANGED <<processCount, exist, handleTable, alive>>

\* A caller is done with its pointer.
ObDereferenceObject(o) ==
    /\ held[o] > 0
    /\ Dereferenced([x \in Objects |-> IF x = o THEN 1 ELSE 0])
    /\ held' = [held EXCEPT ![o] = @ - 1]
    /\ UNCHANGED <<processCount, exist, handleTable>>

ObCloseHandle(p, h) ==
    LET c == ObjectOf(p, h)
    IN  /\ exist[p] /\ c # NULL
        /\ handleTable' = [handleTable EXCEPT ![p][h] = NULL]
        /\ Dereferenced([x \in Objects |-> IF x = c THEN 1 ELSE 0])
        /\ UNCHANGED <<processCount, exist, held>>

\* Mutant: the walk over the table stops at the first empty slot.
DestroyProcessToGap(p) ==
    LET closed == {h \in Handles : \A g \in 0 .. h : handleTable[p][g] # NULL}
    IN  /\ exist[p] /\ exist' = [exist EXCEPT ![p] = FALSE]
        /\ handleTable' = [handleTable EXCEPT ![p] =
                              [h \in Handles |-> IF h \in closed THEN NULL ELSE @[h]]]
        /\ Dereferenced([x \in Objects |-> Cardinality({h \in closed : handleTable[p][h] = x})])
        /\ UNCHANGED <<processCount, held>>

\* Every handle is closed, however many of them name the same object.
DestroyProcess(p) ==
    /\ exist[p] /\ exist' = [exist EXCEPT ![p] = FALSE]
    /\ handleTable' = [handleTable EXCEPT ![p] = NoHandles]
    /\ Dereferenced([x \in Objects |-> Named(handleTable[p], x)])
    /\ UNCHANGED <<processCount, held>>

ObjectsNext ==
    \/ CreateProcess
    \/ \E o \in Objects : CreateMutexObject(o) \/ ObDereferenceObject(o)
    \/ \E p \in Processes :
         \/ \E o \in Objects : ObInsertHandle(p, o)
         \/ \E h \in -1 .. MAX_HANDLES : \/ ObReferenceObjectByHandle(p, h)
                                         \/ ObCloseHandle(p, h)
         \/ DestroyProcess(p)

ObjectsSpec == ObjectsInit /\ [][ObjectsNext]_objectVars

------------------------------------------------------------------------------
(* Properties.                                                              *)

ObjectsTypeOK ==
    /\ processCount \in 0 .. MAX_PROCESSES
    /\ exist \in [Processes -> BOOLEAN]
    /\ handleTable \in [Processes -> [Handles -> Objects \cup {NULL}]]
    /\ alive \in [Objects -> BOOLEAN]
    /\ refCount \in [Objects -> Nat] /\ held \in [Objects -> Nat]

Slots(o) == {s \in Processes \X Handles : handleTable[s[1]][s[2]] = o}

\* The count of an object is the number of its handles in all processes and of
\* the pointers callers keep, and it lives exactly as long as there is one: it
\* is neither freed under a handle nor kept without a reference.  A process
\* that exits leaves no handle behind, so what only its handles kept alive is
\* freed with it (DestroyProcess: "OBJECT DESTROYED").  Nor does a place of the
\* process table that CreateProcess has not reached yet have one.
LifetimeExact ==
    /\ ObjectsTypeOK
    /\ \A o \in Objects : /\ refCount[o] = held[o] + Cardinality(Slots(o))
                          /\ alive[o] <=> refCount[o] > 0
    /\ \A p \in Processes : /\ p > processCount => ~exist[p]
                           /\ ~exist[p] => handleTable[p] = NoHandles

================================================================================
