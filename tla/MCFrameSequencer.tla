--------------------------- MODULE MCFrameSequencer ---------------------------
(* FrameSequencer with steps a few clocks apart, odd and even as on the chip. *)
EXTENDS FrameSequencer

MCFourStep == <<5, 9, 13, 16, 17, 18>>
MCFiveStep == <<5, 9, 13, 17, 21, 22>>
MCReloads == {1, 2}
=============================================================================
