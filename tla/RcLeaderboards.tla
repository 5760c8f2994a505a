---------------------------- MODULE RcLeaderboards ----------------------------
(* The leaderboards of a loaded game and the trackers that show the value of   *)
(* a running attempt. Leaderboards that measure the same thing share one. What *)
(* a frame makes of a leaderboard is RcTrigger's EvaluateLboard, of which only *)
(* the state and the value matter here.                                       *)
(*                                                                           *)
(* A leaderboard as the server sent it is [group, fromHits, valid, hidden]:    *)
(* those of one group have the same value and format.                         *)
EXTENDS RcAchievements

CONSTANT Values   \* what an attempt may measure

\* What rc_evaluate_lboard may give: the next state, the state reported, and
\* the value, which is zero unless an attempt runs or is over.
LboardOutcomes(state) ==
  LET quiet(s, r) == {[lboard |-> s, result |-> r, value |-> 0]}
      with(s) == {[lboard |-> s, result |-> s, value |-> v] : v \in Values}
  IN  CASE state \in {"waiting", "triggered", "canceled"} -> quiet(state, "inactive") \cup quiet("active", "active")
        [] state = "active"  -> quiet("active", "active") \cup with("started") \cup with("triggered")
        [] state = "started" -> with("started") \cup quiet("canceled", "canceled") \cup with("triggered")
        [] OTHER -> quiet(state, "inactive")

\* rc_reset_lboard
RestartedBoard(b) == [b EXCEPT !.lboard = "waiting"]

CopyLeaderboards(setup) ==
  [j \in DOMAIN setup.boards |-> [def |-> setup.boards[j], st |-> "inactive", lboard |-> "waiting",
                                  value |-> 0, tracker |-> 0, pending |-> "none"]]

InvalidateMemrefLeaderboards(c) ==
  [c EXCEPT !.boards = [j \in DOMAIN @ |-> IF c.boards[j].def.valid THEN c.boards[j]
                                           ELSE [c.boards[j] EXCEPT !.st = "disabled", !.lboard = "disabled"]]]

-----------------------------------------------------------------------------
(* Trackers [refs, group, fromHits, raw, pending, display]                    *)

\* Counted hits differ between attempts that began in different frames.
Shares(t, b) == t.refs > 0 /\ t.group = b.def.group /\ (t.raw # b.value => ~t.fromHits)

First(s) == CHOOSE k \in s : \A l \in s : k <= l

\* Mutant of AttachTracker: an attempt that joins is not counted.
AttachTrackerUncounted(c, j, k) ==
  LET t    == c.trackers[k]
      b    == c.boards[j]
      news == IF t.raw # b.value THEN {"update"} ELSE {}
  IN  [c EXCEPT !.boards[j].tracker = k,
                !.trackers[k] = [t EXCEPT !.raw = b.value, !.pending = (@ \cup news) \ {"hide"}],
                !.flags = IF news # {} THEN @ \cup {"tracker"} ELSE @]

\* The attempt of board j joins those that tracker k stands for.
AttachTracker(c, j, k) ==
  LET t    == c.trackers[k]
      b    == c.boards[j]
      news == IF t.raw # b.value THEN {"update"} ELSE {}
  IN  [c EXCEPT !.boards[j].tracker = k,
                !.trackers[k] = [t EXCEPT !.refs = @ + 1, !.raw = b.value, !.pending = (@ \cup news) \ {"hide"}],
                !.flags = IF news # {} THEN @ \cup {"tracker"} ELSE @]

\* A tracker nobody uses, or a new one, is taken for the attempt of board j.
ClaimTracker(c, j, k) ==
  LET b   == c.boards[j]
      new == [refs |-> 1, group |-> b.def.group, fromHits |-> b.def.fromHits, raw |-> b.value,
              pending |-> {"show"}, display |-> 0]
  IN  [c EXCEPT !.boards[j].tracker = k,
                !.trackers = IF k > Len(@) THEN Append(@, new) ELSE [@ EXCEPT ![k] = new],
                !.flags = @ \cup {"tracker"}]

AllocateTracker(c, j) ==
  LET shared == {k \in DOMAIN c.trackers : Shares(c.trackers[k], c.boards[j])}
      free   == {k \in DOMAIN c.trackers : c.trackers[k].refs = 0 /\ c.trackers[k].pending = {}}
  IN  IF shared # {} THEN AttachTracker(c, j, First(shared))
      ELSE ClaimTracker(c, j, IF free # {} THEN First(free) ELSE Len(c.trackers) + 1)

\* Mutant of ReleaseTracker: the tracker goes with the first attempt.
ReleaseTrackerEarly(c, j) ==
  LET k == c.boards[j].tracker
      t == c.trackers[k]
      d == [c EXCEPT !.boards[j].tracker = 0]
  IN  IF k = 0 THEN d
      ELSE [d EXCEPT !.trackers[k] = [t EXCEPT !.refs = @ - 1, !.pending = @ \cup {"hide"}],
                     !.flags = @ \cup {"tracker"}]

\* The last attempt to let go of a tracker hides it.
ReleaseTracker(c, j) ==
  LET k    == c.boards[j].tracker
      t    == c.trackers[k]
      d    == [c EXCEPT !.boards[j].tracker = 0]
      news == IF t.refs > 1 THEN {} ELSE {"hide"}
  IN  IF k = 0 THEN d
      ELSE [d EXCEPT !.trackers[k] = [t EXCEPT !.refs = @ - 1, !.pending = @ \cup news],
                     !.flags = IF news # {} THEN @ \cup {"tracker"} ELSE @]

UpdateTracker(c, j) ==
  LET k == c.boards[j].tracker
      t == c.trackers[k]
  IN  IF k = 0 \/ t.raw = c.boards[j].value THEN c
      ELSE [c EXCEPT !.trackers[k] = [t EXCEPT !.raw = c.boards[j].value, !.pending = @ \cup {"update"}],
                     !.flags = @ \cup {"tracker"}]

\* rc_client_raise_leaderboard_tracker_events, one of them: shown and hidden in
\* one frame is not shown at all.
RaiseTracker(c, k) ==
  LET t     == c.trackers[k]
      shows == IF t.pending \cap {"show", "update"} # {} THEN t.raw ELSE t.display
      d     == [c EXCEPT !.trackers[k] = [t EXCEPT !.pending = {}, !.display = shows]]
  IN  CASE {"hide", "show"} \subseteq t.pending -> d
        [] "hide" \in t.pending /\ "show" \notin t.pending -> Tell(d, <<"tracker_hide", k>>)
        [] "hide" \notin t.pending /\ "show" \in t.pending -> Tell(d, <<"tracker_show", k, shows>>)
        [] t.pending = {"update"} -> Tell(d, <<"tracker_update", k, shows>>)
        [] OTHER -> d

RaiseTrackerEvents(c) == After(RaiseTracker, c, Len(c.trackers))

-----------------------------------------------------------------------------
(* Activation                                                                 *)

\* rc_client_update_active_leaderboards
UpdateActiveLeaderboards(c) ==
  [c EXCEPT !.runningBoards = {j \in DOMAIN c.boards : c.boards[j].st \in {"active", "tracking"}}]

BoardsAllowed(c) == c.hardcore \/ c.setup.softBoards

\* rc_client_activate_leaderboards
Activated(b, allowed) ==
  CASE b.st = "inactive" /\ allowed -> [RestartedBoard(b) EXCEPT !.st = "active"]
    [] b.st # "disabled" /\ ~allowed -> [b EXCEPT !.st = "inactive"]
    [] OTHER -> b

ActivateLeaderboards(c) ==
  UpdateActiveLeaderboards([c EXCEPT !.boards = [j \in DOMAIN @ |-> Activated(c.boards[j], BoardsAllowed(c))]])

\* An attempt that ends lets go of its tracker.
LetGo(c, j) == IF c.boards[j].st = "tracking" THEN ReleaseTracker(c, j) ELSE c

DeactivateBoard(c, j) ==
  IF c.boards[j].st = "disabled" THEN c ELSE [LetGo(c, j) EXCEPT !.boards[j].st = "inactive"]

DeactivateLeaderboards(c) == [After(DeactivateBoard, c, Len(c.boards)) EXCEPT !.runningBoards = {}]

\* rc_client_subset_reset_leaderboards, one of them.
ResetBoard(c, j) ==
  LET d == LetGo(c, j)
  IN  IF c.boards[j].st \in {"inactive", "disabled"} THEN c
      ELSE [d EXCEPT !.boards[j] = [RestartedBoard(d.boards[j]) EXCEPT !.st = "active"]]

ResetLeaderboards(c) == After(ResetBoard, c, Len(c.boards))

-----------------------------------------------------------------------------
(* A frame                                                                    *)

\* Board j comes to the state st, and the host is owed the news.
BoardTo(c, j, st, news) ==
  [c EXCEPT !.boards[j] = [c.boards[j] EXCEPT !.st = st, !.pending = news], !.flags = @ \cup {"board"}]

\* rc_client_do_frame_process_leaderboards, one of them.
ProcessBoard(c, j, o) ==
  LET b    == c.boards[j]
      d    == [c EXCEPT !.boards[j] = [b EXCEPT !.lboard = o.lboard, !.value = o.value]]
      over == BoardTo(d, j, "active", "submitted")
  IN  IF b.st \in {"inactive", "disabled"} THEN c
      ELSE CASE o.result = "started" /\ b.lboard # "started" -> AllocateTracker(BoardTo(d, j, "tracking", "started"), j)
             [] o.result = "started" /\ b.lboard = "started" -> UpdateTracker(d, j)
             [] o.result = "canceled"  -> ReleaseTracker(BoardTo(d, j, "active", "failed"), j)
             [] o.result = "triggered" -> ReleaseTracker(IF b.lboard = "started" THEN UpdateTracker(over, j)
                                                         ELSE AllocateTracker(over, j), j)
             [] OTHER -> d

-----------------------------------------------------------------------------
(* Lists *)

\* rc_client_get_leaderboard_bucket
BoardBucket(b, grouping) ==
  CASE b.st = "disabled" -> "unsupported"
    [] b.st # "disabled" /\ grouping = "none" -> "all"
    [] OTHER -> IF b.st = "tracking" THEN "active" ELSE "inactive"

\* rc_client_create_leaderboard_list
LeaderboardList(c, grouping) ==
  LET kinds  == (IF grouping = "tracking" THEN {"active"} ELSE {}) \cup {"all", "inactive", "unsupported"}
      inside(b) == {j \in DOMAIN c.boards : ~c.boards[j].def.hidden /\ BoardBucket(c.boards[j], grouping) = b}
  IN  [b \in {x \in kinds : inside(x) # {}} |-> inside(b)]
=============================================================================
