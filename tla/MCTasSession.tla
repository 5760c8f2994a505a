---------------------------- MODULE MCTasSession ----------------------------
(* Small instances of TasSession: two controller rows, one of them blank. *)
EXTENDS TasSession

CONSTANTS r0, r1

MCInputs == {r0, r1}
MCIntervals == {1, 2}
MCFirst == {1}
MCClips == {<<r1>>}
=============================================================================
