-------------------------------- MODULE MCIrq --------------------------------
(* The interrupt system on small pools of devices. *)
EXTENDS IrqSystem

Msi(d, c, v) == [device |-> d, msi |-> TRUE, cpu |-> c, vector |-> v]
Legacy(d, c, v) == [device |-> d, msi |-> FALSE, cpu |-> c, vector |-> v]

\* DevicePool with one device per kind of path: the timer has the highest
\* vector, the microphone has no MSI.
SourcePool == <<Msi("timer", 0, 3), Msi("keyboard", 0, 1), Legacy("microphone", 1, 2)>>

\* A second device without MSI takes the line over.
TwoOnTheLine == <<Msi("timer", 0, 3), Legacy("keyboard", 0, 1), Legacy("microphone", 1, 2)>>

\* Two devices with one vector on one CPU: a chain of two ISRs.
SharedVector == <<Msi("timer", 0, 3), Msi("keyboard", 1, 1), Msi("microphone", 1, 1)>>

\* Vectors the bitmap has no bit for, by MSI and through the I/O APIC; the
\* second one wraps to the vector of the keyboard.
WideVectors == <<Msi("timer", 1, 3), Msi("keyboard", 0, 1), Legacy("microphone", 0, 5)>>
WideMsi == <<Msi("timer", 0, 3), Msi("keyboard", 0, 4), Msi("microphone", 0, 2)>>

\* A vector that wraps to that of the timer, on the other CPU: its interrupts
\* call the ISR of the timer.
WideTimer == <<Msi("timer", 0, 3), Msi("keyboard", 0, 1), Legacy("microphone", 1, 7)>>

\* Two devices on one CPU, with vectors of their own.
OneCpu == <<Msi("timer", 1, 3), Msi("keyboard", 0, 1), Legacy("microphone", 0, 2)>>

SmallPools == {OneCpu, SourcePool, TwoOnTheLine, SharedVector, WideVectors, WideMsi,
               WideTimer}
==============================================================================
