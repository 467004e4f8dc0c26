------------------------------- MODULE MCPci --------------------------------
(* Instances of PciSystem and MmioRouter.  Sizes are scaled: 16 addresses  *)
(* for 0x1000, a dword of 1024 values, MMIO from the upper half of it.     *)
EXTENDS MmioRouter

Bars1(a) == [i \in Slots |-> IF i = 0 THEN a ELSE NoBar]
Bars2(a, c) == [i \in Slots |-> IF i = 0 THEN a ELSE IF i = 2 THEN c ELSE NoBar]
Endpoint(bars) == [header |-> 0, bars |-> bars]
Bridge(bars) == [header |-> 1, bars |-> bars]

(* The pool main installs: disk, net, gpu and bridge.                      *)
PciDevicePool ==
    <<0, 0, 0>> :> Endpoint(Bars1(Mem32(32))) @@ <<0, 1, 0>> :> Endpoint(Bars1(Mem64(64)))
        @@ <<1, 0, 0>> :> Endpoint(Bars2(Mem64(128), IoBar(16))) @@ <<0, 2, 0>> :> Bridge(Bars1(Mem32(64)))

(* Several functions per device, a hidden function, a bridge on bus 1.     *)
Multifunction ==
    <<0, 0, 0>> :> Bridge(Bars1(Mem32(32))) @@ <<0, 0, 1>> :> Endpoint(Bars2(IoBar(16), IoBar(16)))
        @@ <<0, 1, 1>> :> Endpoint(Bars1(Mem32(32))) @@ <<1, 0, 0>> :> Bridge(Bars1(Mem64(64)))
        @@ <<1, 2, 0>> :> Endpoint(Bars2(Mem64(32), Mem32(32))) @@ <<1, 2, 1>> :> Endpoint(Bars1(NoBar))
Unbridged == <<0, 1, 0>> :> Endpoint(Bars2(Mem64(64), IoBar(16))) @@ <<1, 0, 0>> :> Endpoint(Bars1(Mem32(32)))
        @@ <<0, 2, 0>> :> Endpoint(Bars1(Mem32(16)))
AllPools == {PciDevicePool, Multifunction, Unbridged}

(* Bounds: what software writes to the registers once all is enumerated.   *)
OnOrOff == {{}, {"mem", "io", "master", "parity"}}
LowMove == {256}
Window(base, limit) == base + 32 * limit
GpuWindows == [slot \in 3 .. 5 |-> CASE slot = 3 -> {Window(1, 1)}
                                   [] slot = 4 -> {0, Window(28, 31), Window(28, 0)}
                                   [] slot = 5 -> {Window(8, 11)}]
FirstAddresses == {32, 40, 256, 300, 512, 600, 900, 1024 + 256}

(* What follows the enumeration: nothing, or, with main's pool, the use of *)
(* every window and enable, or of the memory through one memory window.    *)
VARIABLE use
OneWindow == \E f \in Bridges, v \in {0, Window(28, 31)} : ProgramWindow(f, 4, v)

MCInit == Init /\ use \in {"nothing"} \cup
                       (IF Functions = DOMAIN PciDevicePool THEN {"windows", "memory"} ELSE {})
Uses == \/ use # "nothing" /\ Configure
        \/ use = "windows" /\ ProgramWindows
        \/ use = "memory" /\ (OneWindow \/ MmioWrites)
MCSpec == MCInit /\ [][(PciEnumerate \/ Uses) /\ UNCHANGED use]_<<pciVars, use>>
=============================================================================
