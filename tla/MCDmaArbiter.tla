---------------------------- MODULE MCDmaArbiter ----------------------------
(* Small instances of DmaArbiter: a sample byte lasts nine cycles, longer    *)
(* than the longest fetch as 8 * 54 is in the code, and an OAM transfer has  *)
(* two bytes, the second of which selects the joypad port.                   *)
EXTENDS DmaArbiter

MCLengths == {1, 2}
MCPadIndices == {1}
=============================================================================
