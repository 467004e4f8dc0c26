----------------------------- MODULE BarDecoder -----------------------------
(* What a function's BARs promise to the software that assigns addresses:  *)
(* one base address per BAR, which becomes the requested address rounded   *)
(* down to a multiple of the BAR's size (an I/O BAR ignores the upper      *)
(* dword), and nothing an assignment of one BAR does changes another.      *)
EXTENDS Integers

CONSTANTS Dword, Addresses
VARIABLES bars, base

Init ==
    /\ base = [b \in DOMAIN bars |-> 0]

Assign(b, address) ==
    LET reach == IF bars[b].wide THEN address ELSE address % Dword
    IN  base' = [base EXCEPT ![b] = reach - (reach % bars[b].size)]

Next == /\ \E b \in DOMAIN bars, address \in Addresses : Assign(b, address)
        /\ UNCHANGED bars

Spec == Init /\ [][Next]_<<bars, base>>
=============================================================================
