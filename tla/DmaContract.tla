---------------------------- MODULE DmaContract ----------------------------
(* What the DMA arbitration of bus.rs promises a program that writes $4014:  *)
(* its next read, and everything after it, sees the whole page copied, each  *)
(* byte once and in order.  Byte OamSize - left is the next to be copied.    *)
EXTENDS Integers

CONSTANT OamSize

VARIABLES left,     \* bytes of the transfer asked for that are not copied yet
          stalled   \* the CPU is halted in a read

vars == <<left, stalled>>

Init == left = 0 /\ stalled = FALSE

\* A write, which no transfer delays, asks for a page or for a new one.
Ask == ~stalled /\ left' = OamSize /\ UNCHANGED stalled

Stall == ~stalled /\ stalled' = TRUE /\ UNCHANGED left

CopyByte == stalled /\ left > 0 /\ left' = left - 1 /\ UNCHANGED stalled

\* A read that had to wait completes; one that had not is no step at all.
ReadDone == stalled /\ left = 0 /\ stalled' = FALSE /\ UNCHANGED left

\* Console reset.
Abandon == ~stalled /\ left' = 0 /\ UNCHANGED stalled

Next == Ask \/ Stall \/ CopyByte \/ ReadDone \/ Abandon

Spec == Init /\ [][Next]_vars
=============================================================================
