------------------------------- MODULE MCRcPlay -------------------------------
(* The games and settings RcPlay is checked with. *)
EXTENDS RcPlayStates

Ach(core, target, values) ==
  [core |-> core, valid |-> TRUE, target |-> target, percent |-> FALSE, values |-> values]
Plain    == Ach(TRUE, 0, {})
Board(g, hits) == [group |-> g, fromHits |-> hits, valid |-> TRUE, hidden |-> FALSE]
Game(achs, boards, hardcore, may) ==
  [achs |-> achs, boards |-> boards, hardcore |-> hardcore, encore |-> FALSE, softBoards |-> FALSE,
   unofficial |-> TRUE, had |-> {}, may |-> may]

\* Two achievements, and a server that fails.
Awards == Game(<<Plain, Plain>>, <<>>, TRUE, {"fail"})
\* A player who loads the game again with requests open.
Again == Game(<<Plain>>, <<>>, TRUE, {"fail", "reload"})
\* One to be had in both modes, in a game that is loaded again.
Both == Game(<<Plain>>, <<>>, FALSE, {"fail", "toggle", "reload"})
\* A player who signs out with requests open.
SignsOut == Game(<<Plain>>, <<>>, TRUE, {"fail", "out"})
Enters == Game(<<>>, <<Board("score", FALSE)>>, TRUE, {"fail", "out"})
\* A measured achievement, and one that the console cannot run, in both modes.
Modes == Game(<<Plain, [Ach(TRUE, 4, {1, 3}) EXCEPT !.percent = TRUE], [Plain EXCEPT !.valid = FALSE, !.core = FALSE]>>,
              <<>>, FALSE, {"toggle"})
\* Two attempts that may share a tracker.
Attempts(hits) == Game(<<>>, <<Board("time", hits), Board("time", hits)>>, TRUE, {})
\* Everything that can be saved.
Saves == Game(<<Ach(TRUE, 4, {1})>>, <<Board("time", FALSE)>>, FALSE, {"save", "toggle"})
\* Unlocks that are had already, to be had again.
Encore == [Game(<<Plain>>, <<Board("score", FALSE)>>, FALSE, {"toggle"}) EXCEPT !.encore = TRUE, !.softBoards = TRUE, !.had = {<<1, FALSE>>}]
\* A player who pauses a lot.
Pauses == Game(<<>>, <<>>, TRUE, {"pause", "toggle"})
\* An unofficial achievement that is left out, before one that is not; a board
\* that is not listed, and one that the console cannot run.
Untested == [Game(<<[Plain EXCEPT !.core = FALSE], Plain>>,
                  <<[Board("score", FALSE) EXCEPT !.hidden = TRUE], [Board("time", FALSE) EXCEPT !.valid = FALSE]>>,
                  TRUE, {"fail"})
             EXCEPT !.unofficial = FALSE]

MCSetups == {Awards, Again, Both, SignsOut, Enters, Modes, Attempts(TRUE), Attempts(FALSE), Saves, Encore, Pauses, Untested}
===============================================================================
