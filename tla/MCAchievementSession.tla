------------------------ MODULE MCAchievementSession ------------------------
(* Two ROMs, two users, a ring that is never full with three events a frame.  *)
EXTENDS AchievementSession

MCUsers == {"ann", "bob"}
MCHashes == {"rom1", "rom2"}
=============================================================================
