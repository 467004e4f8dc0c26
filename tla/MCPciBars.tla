----------------------------- MODULE MCPciBars ------------------------------
(* Layouts for PciBars, with a dword of 256 values: BARs up to a page      *)
(* larger than a dword, every kind of BAR at every even slot.              *)
EXTENDS PciBars

Layout(a, b, c) == [i \in Slots |-> CASE i = 0 -> a [] i = 2 -> b [] i = 4 -> c [] OTHER -> NoBar]

MixedLayouts == {Layout(Mem64(32), IoBar(16), Mem32(64)), Layout(Mem32(128), Mem64(512), IoBar(32)),
                 Layout(IoBar(64), NoBar, Mem64(256)), Layout(NoBar, Mem32(16), Mem64(64))}

(* Bounds: the upper dword of an address is even.                          *)
EvenAddresses == {0, 48, 64, 208, 600, 1024, 1232}
=============================================================================
