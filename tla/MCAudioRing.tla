----------------------------- MODULE MCAudioRing -----------------------------
(* Small instances of AudioRing. *)
EXTENDS AudioRing

MCPushes == 1 .. 3
MCPeriods == 1 .. 3
=============================================================================
