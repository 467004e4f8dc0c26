----------------------------- MODULE MCServices -----------------------------
(* The dispatcher under every group of routines of MCDispatcher, the       *)
(* threads of one boot being of one group.                                 *)
EXTENDS MCDispatcher, BootOrders

VARIABLE group      \* the group of this boot

Groups == [source |-> SourceRoutines, chain |-> ChainRoutines, client |-> ClientRoutines]
AllRoutines == UNION {Groups[g] : g \in DOMAIN Groups}

BootOfGroup ==
  /\ group' = group
  /\ threadCount' # threadCount => routine'[threadCount'] \in Groups[group]

GroupSpec ==
  /\ Init
  /\ order \in BootOrder
  /\ group \in DOMAIN Groups
  /\ [][Next /\ Ordered /\ BootOfGroup]_<<bootVars, group>>
=============================================================================
