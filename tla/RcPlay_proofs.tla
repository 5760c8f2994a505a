---------------------------- MODULE RcPlay_proofs ----------------------------
(* What the host of a game is shown, what the lists have and what hardcore    *)
(* allows, for every game, setup, pause delay and number of requests.         *)
(*                                                                           *)
(* A call of the host runs several loops over the achievements, leaderboards  *)
(* and trackers, one after the other, and ends by announcing what is pending. *)
(* Climb carries a claim from one step of a loop to the next. The definitions *)
(* that the claims are made of are in RcPlayStates.                           *)
EXTENDS RcPlayStates, FiniteSetTheorems, WellFoundedInduction, TLAPS

-----------------------------------------------------------------------------
(* What an event changes.                                                    *)

\* Of the host, an event changes what it is about.
LEMMA HearKeeps ==
  ASSUME NEW h, h = [x \in HostFields |-> h[x]], NEW e
  PROVE  LET g == Hear(h, e)
         IN  /\ g = [x \in HostFields |-> g[x]] /\ g.frames = h.frames
             /\ e[1] \notin {"challenge_show", "challenge_hide"} => g.challenges = h.challenges
             /\ e[1] \notin {"tracker_show", "tracker_update", "tracker_hide"} => g.trackers = h.trackers
             /\ e[1] \notin {"progress_show", "progress_update", "progress_hide"} => g.progress = h.progress
             /\ e[1] \notin {"disconnected", "reconnected"} => g.down = h.down
<1> DEFINE g == Hear(h, e)
<1>1. CASE e[1] \in {"challenge_show", "challenge_hide"}
  BY <1>1 DEF Hear, HostFields
<1>2. CASE e[1] \in {"tracker_show", "tracker_update"}
  <2>1. g = ShownTracker(h, e[2], e[3])
    BY <1>2 DEF Hear
  <2>2. QED
    BY <1>2, <2>1 DEF ShownTracker, HostFields
<1>3. CASE e[1] = "tracker_hide"
  <2>1. g = [h EXCEPT !.trackers = [x \in DOMAIN h.trackers \ {e[2]} |-> h.trackers[x]]]
    BY <1>3 DEF Hear
  <2>2. QED
    BY <1>3, <2>1 DEF HostFields
<1>4. CASE e[1] \in {"progress_show", "progress_update", "progress_hide"}
  BY <1>4 DEF Hear, HostFields
<1>5. CASE e[1] \in {"disconnected", "reconnected"}
  BY <1>5 DEF Hear, HostFields
<1>6. CASE e[1] \in {"reset", "completed", "request", "server_error"}
  BY <1>6 DEF Hear, HostFields
<1>7. CASE e[1] \notin {"challenge_show", "challenge_hide", "tracker_show", "tracker_update", "tracker_hide",
                         "progress_show", "progress_update", "progress_hide", "disconnected", "reconnected",
                         "reset", "completed", "request", "server_error"}
  <2>1. g = h
    BY <1>7 DEF Hear
  <2>2. QED
    BY <2>1
<1>8. QED
  BY <1>1, <1>2, <1>3, <1>4, <1>5, <1>6, <1>7

\* What an event leaves of a client.
LEMMA TellKeeps ==
  ASSUME NEW c, Shape(c), NEW e
  PROVE  LET d == Tell(c, e)
         IN  /\ Shape(d) /\ ModePart(d) = ModePart(c) /\ PausePart(d) = PausePart(c)
             /\ d.flags = c.flags /\ d.fault = c.fault
             /\ d.achs = c.achs /\ d.running = c.running
             /\ d.boards = c.boards /\ d.trackers = c.trackers /\ d.runningBoards = c.runningBoards
             /\ d.timer = c.timer /\ d.action = c.action /\ d.hides = c.hides
             /\ d.requests = c.requests /\ d.disconnect = c.disconnect
             /\ d.host = Hear(c.host, e)
             /\ e[1] \notin {"challenge_show", "challenge_hide"} => AchPart(d) = AchPart(c)
             /\ e[1] \notin {"tracker_show", "tracker_update", "tracker_hide"} => BoardPart(d) = BoardPart(c)
             /\ e[1] \notin {"progress_show", "progress_update", "progress_hide"} => ProgressPart(d) = ProgressPart(c)
             /\ e[1] \notin {"disconnected", "reconnected"} => ServerPart(d) = ServerPart(c)
<1> DEFINE d == Tell(c, e)
<1>1. d = [x \in Fields |-> IF x = "host" THEN Hear(c.host, e) ELSE c[x]]
  BY DEF Tell, Shape, Fields
<1>2. d.host = Hear(c.host, e) /\ \A x \in Fields : x # "host" => d[x] = c[x]
  BY <1>1 DEF Fields
<1>3. c.host = [x \in HostFields |-> c.host[x]]
  BY DEF Shape
<1>4. d.host = [x \in HostFields |-> d.host[x]] /\ d.host.frames = c.host.frames
  BY <1>2, <1>3, HearKeeps
<1>5. Shape(d)
  BY <1>1, <1>2, <1>4 DEF Shape
<1> HIDE DEF d
<1>6. /\ d.achs = c.achs /\ d.running = c.running
      /\ d.boards = c.boards /\ d.trackers = c.trackers /\ d.runningBoards = c.runningBoards
      /\ d.timer = c.timer /\ d.action = c.action /\ d.hides = c.hides
      /\ d.requests = c.requests /\ d.disconnect = c.disconnect /\ d.flags = c.flags /\ d.fault = c.fault
  BY <1>2 DEF Fields
<1>7. ModePart(d) = ModePart(c) /\ PausePart(d) = PausePart(c)
  BY <1>2, <1>4 DEF Fields, ModePart, PausePart
<1>8. /\ e[1] \notin {"challenge_show", "challenge_hide"} => AchPart(d) = AchPart(c)
      /\ e[1] \notin {"tracker_show", "tracker_update", "tracker_hide"} => BoardPart(d) = BoardPart(c)
  BY <1>2, <1>3, <1>6, HearKeeps DEF AchPart, BoardPart
<1>9. /\ e[1] \notin {"progress_show", "progress_update", "progress_hide"} => ProgressPart(d) = ProgressPart(c)
      /\ e[1] \notin {"disconnected", "reconnected"} => ServerPart(d) = ServerPart(c)
  BY <1>2, <1>3, <1>6, HearKeeps DEF ProgressPart, ServerPart
<1>10. QED
  BY <1>2, <1>5, <1>6, <1>7, <1>8, <1>9 DEF d

-----------------------------------------------------------------------------
(* What a step of a loop leaves.                                             *)

\* What two calls leave alone is left alone by both.
LEMMA LeavesTwice ==
  ASSUME NEW s, NEW c, NEW d, NEW e, Leaves(s, c, d), Leaves(s, d, e)
  PROVE  Leaves(s, c, e)
BY DEF Leaves

\* What does nothing leaves everything alone.
LEMMA LeavesItself == ASSUME NEW s, NEW c, Shape(c) PROVE Leaves(s, c, c)
BY DEF Leaves

\* A change of mode of one achievement leaves the rest of the client alone.
LEMMA ToggleLeaves ==
  ASSUME NEW c, Shape(c), NEW i, NEW bit PROVE Leaves("toggle", c, ToggleAchievement(c, i, bit))
<1> DEFINE t == Toggled(c, i, bit)
           d == [c EXCEPT !.achs[i] = t]
           e == Tell(d, <<"challenge_hide", i>>)
<1>1. Leaves("toggle", c, d)
  BY DEF Leaves, Shape, Fields, AchSteps, ProgressPart, ModePart, PausePart, BoardPart, ServerPart, NewFlags, TrackerSteps, BoardSteps, ServerSteps
<1>2. Leaves("toggle", d, e)
  <2>1. Shape(d) /\ <<"challenge_hide", i>>[1] = "challenge_hide"
    BY <1>1 DEF Leaves
  <2> HIDE DEF d
  <2>2. QED
    BY <2>1, TellKeeps, Zenon DEF Leaves, AchSteps, NewFlags, TrackerSteps, BoardSteps, ServerSteps
<1> HIDE DEF d
<1>3. ToggleAchievement(c, i, bit) \in {d, e}
  BY DEF ToggleAchievement, d
<1>4. QED
  BY <1>1, <1>2, <1>3, LeavesTwice

\* So does its part of a frame,
LEMMA ProcessLeaves ==
  ASSUME NEW c, Shape(c), NEW i, NEW o PROVE Leaves("process", c, ProcessAchievement(c, i, o))
BY DEF ProcessAchievement, Leaves, Shape, Fields, AchSteps, ProgressPart, ModePart, PausePart, BoardPart, ServerPart, NewFlags, TrackerSteps, BoardSteps, ServerSteps

\* its reset,
LEMMA ResetLeaves ==
  ASSUME NEW c, Shape(c), NEW i PROVE Leaves("reset", c, ResetAchievement(c, i))
BY DEF ResetAchievement, Leaves, Shape, Fields, AchSteps, ProgressPart, ModePart, PausePart, BoardPart, ServerPart, NewFlags, TrackerSteps, BoardSteps, ServerSteps

\* and its part of a restored state.
LEMMA RestoredLeaves ==
  ASSUME NEW c, Shape(c), NEW i PROVE Leaves("restored", c, AfterDeserializeAch(c, i))
BY DEF AfterDeserializeAch, Leaves, Shape, Fields, AchSteps, ProgressPart, ModePart, PausePart, BoardPart, ServerPart, NewFlags, TrackerSteps, BoardSteps, ServerSteps

\* A change of a leaderboard's state leaves all but the leaderboards alone.
LEMMA BoardToLeaves ==
  ASSUME NEW s \in TrackerSteps, NEW c, Shape(c), NEW j, NEW st, NEW news
  PROVE  Leaves(s, c, BoardTo(c, j, st, news))
BY DEF BoardTo, Leaves, Shape, Fields, TrackerSteps, BoardSteps, ServerSteps, ProgressPart, ModePart, PausePart, AchPart, ServerPart, NewFlags, AchSteps

\* So does finding a tracker for it,
LEMMA AllocateLeaves ==
  ASSUME NEW s \in TrackerSteps, NEW c, Shape(c), NEW j
  PROVE  Leaves(s, c, AllocateTracker(c, j))
<1>1. ASSUME NEW k PROVE Leaves(s, c, AttachTracker(c, j, k))
  BY DEF AttachTracker, Leaves, Shape, Fields, TrackerSteps, BoardSteps, ServerSteps, ProgressPart, ModePart, PausePart, AchPart, ServerPart, NewFlags, AchSteps
<1>2. ASSUME NEW k PROVE Leaves(s, c, ClaimTracker(c, j, k))
  BY DEF ClaimTracker, Leaves, Shape, Fields, TrackerSteps, BoardSteps, ServerSteps, ProgressPart, ModePart, PausePart, AchPart, ServerPart, NewFlags, AchSteps
<1>3. QED
  BY <1>1, <1>2 DEF AllocateTracker

\* letting go of it,
LEMMA ReleaseLeaves ==
  ASSUME NEW s \in TrackerSteps, NEW c, Shape(c), NEW j
  PROVE  Leaves(s, c, ReleaseTracker(c, j))
BY DEF ReleaseTracker, Leaves, Shape, Fields, TrackerSteps, BoardSteps, ServerSteps, ProgressPart, ModePart, PausePart, AchPart, ServerPart, NewFlags, AchSteps

\* and giving it a new value.
LEMMA UpdateLeaves ==
  ASSUME NEW s \in TrackerSteps, NEW c, Shape(c), NEW j
  PROVE  Leaves(s, c, UpdateTracker(c, j))
BY DEF UpdateTracker, Leaves, Shape, Fields, TrackerSteps, BoardSteps, ServerSteps, ProgressPart, ModePart, PausePart, AchPart, ServerPart, NewFlags, AchSteps

\* So does the end of an attempt,
LEMMA LetGoLeaves ==
  ASSUME NEW s \in TrackerSteps, NEW c, Shape(c), NEW j
  PROVE  Leaves(s, c, LetGo(c, j))
BY ReleaseLeaves, LeavesItself DEF LetGo

\* a change to softcore,
LEMMA DeactivateLeaves ==
  ASSUME NEW c, Shape(c), NEW j PROVE Leaves("deactivate", c, DeactivateBoard(c, j))
<1> DEFINE d == LetGo(c, j)
           e == [d EXCEPT !.boards[j].st = "inactive"]
<1>1. Leaves("deactivate", c, d)
  BY LetGoLeaves DEF TrackerSteps, BoardSteps, ServerSteps
<1> HIDE DEF d
<1>2. Leaves("deactivate", d, e)
  BY <1>1 DEF Leaves, Shape, Fields, BoardSteps, ProgressPart, ModePart, PausePart, AchPart, ServerPart, NewFlags, TrackerSteps, ServerSteps, AchSteps
<1>3. DeactivateBoard(c, j) \in {c, e}
  BY DEF DeactivateBoard, d
<1>4. QED
  BY <1>1, <1>2, <1>3, LeavesTwice, LeavesItself

\* a reset,
LEMMA ResetBoardLeaves ==
  ASSUME NEW c, Shape(c), NEW j PROVE Leaves("reset_board", c, ResetBoard(c, j))
<1> DEFINE d == LetGo(c, j)
           e == [d EXCEPT !.boards[j] = [RestartedBoard(d.boards[j]) EXCEPT !.st = "active"]]
<1>1. Leaves("reset_board", c, d)
  BY LetGoLeaves DEF TrackerSteps, BoardSteps, ServerSteps
<1> HIDE DEF d
<1>2. Leaves("reset_board", d, e)
  BY <1>1 DEF Leaves, Shape, Fields, BoardSteps, ProgressPart, ModePart, PausePart, AchPart, ServerPart, NewFlags, TrackerSteps, ServerSteps, AchSteps
<1>3. ResetBoard(c, j) \in {c, e}
  BY DEF ResetBoard, d
<1>4. QED
  BY <1>1, <1>2, <1>3, LeavesTwice, LeavesItself

\* A board whose record is replaced.
LEMMA BoardSetLeaves ==
  ASSUME NEW s \in TrackerSteps, NEW c, Shape(c), NEW j, NEW b
  PROVE  Leaves(s, c, [c EXCEPT !.boards[j] = b])
BY DEF Leaves, Shape, Fields, TrackerSteps, BoardSteps, ServerSteps, ProgressPart, ModePart, PausePart, AchPart, ServerPart, NewFlags, AchSteps

\* a leaderboard's part of a frame,
LEMMA ProcessBoardLeaves ==
  ASSUME NEW c, Shape(c), NEW j, NEW o PROVE Leaves("process_board", c, ProcessBoard(c, j, o))
<1> DEFINE s    == "process_board"
           b    == c.boards[j]
           d    == [c EXCEPT !.boards[j] = [b EXCEPT !.lboard = o.lboard, !.value = o.value]]
           begun == BoardTo(d, j, "tracking", "started")
           lost == BoardTo(d, j, "active", "failed")
           over == BoardTo(d, j, "active", "submitted")
<1>0. s \in TrackerSteps
  BY DEF TrackerSteps, BoardSteps, ServerSteps
<1>1. Leaves(s, c, d)
  BY <1>0, BoardSetLeaves, Zenon
<1>2. ProcessBoard(c, j, o) \in {c, d, AllocateTracker(begun, j), UpdateTracker(d, j), ReleaseTracker(lost, j),
                                 ReleaseTracker(UpdateTracker(over, j), j), ReleaseTracker(AllocateTracker(over, j), j)}
  BY DEF ProcessBoard
<1> HIDE DEF d
<1>3. Shape(d)
  BY <1>1 DEF Leaves
<1>4. Leaves(s, d, begun) /\ Leaves(s, d, lost) /\ Leaves(s, d, over)
  BY <1>0, <1>3, BoardToLeaves
<1> HIDE DEF begun, lost, over
<1>5. Shape(begun) /\ Shape(lost) /\ Shape(over)
  BY <1>4 DEF Leaves
<1>6. /\ Leaves(s, begun, AllocateTracker(begun, j)) /\ Leaves(s, over, AllocateTracker(over, j))
      /\ Leaves(s, over, UpdateTracker(over, j)) /\ Leaves(s, d, UpdateTracker(d, j)) /\ Leaves(s, lost, ReleaseTracker(lost, j))
  BY <1>0, <1>3, <1>5, AllocateLeaves, UpdateLeaves, ReleaseLeaves
<1>7. Shape(AllocateTracker(over, j)) /\ Shape(UpdateTracker(over, j))
  BY <1>6 DEF Leaves
<1>8. /\ Leaves(s, AllocateTracker(over, j), ReleaseTracker(AllocateTracker(over, j), j))
      /\ Leaves(s, UpdateTracker(over, j), ReleaseTracker(UpdateTracker(over, j), j))
  BY <1>0, <1>7, ReleaseLeaves
<1> HIDE DEF s
<1>9. /\ Leaves(s, d, AllocateTracker(begun, j)) /\ Leaves(s, d, AllocateTracker(over, j))
      /\ Leaves(s, d, UpdateTracker(over, j)) /\ Leaves(s, d, ReleaseTracker(lost, j))
  BY <1>4, <1>6, LeavesTwice
<1>10. /\ Leaves(s, d, ReleaseTracker(AllocateTracker(over, j), j)) /\ Leaves(s, d, ReleaseTracker(UpdateTracker(over, j), j))
  BY <1>8, <1>9, LeavesTwice
<1>11. Leaves(s, c, c)
  BY LeavesItself
<1>12. \A x \in {c, d, AllocateTracker(begun, j), UpdateTracker(d, j), ReleaseTracker(lost, j),
                 ReleaseTracker(UpdateTracker(over, j), j), ReleaseTracker(AllocateTracker(over, j), j)} : Leaves(s, c, x)
  BY <1>1, <1>6, <1>9, <1>10, <1>11, LeavesTwice
<1>13. QED
  BY <1>2, <1>12 DEF s

\* and of a restored state.
LEMMA RestoredBoardLeaves ==
  ASSUME NEW c, Shape(c), NEW j PROVE Leaves("restored_board", c, AfterDeserializeBoard(c, j))
<1> DEFINE s    == "restored_board"
           b    == c.boards[j]
           over == [c EXCEPT !.boards[j] = [b EXCEPT !.pending = "none", !.st = "active"]]
           runs == [c EXCEPT !.boards[j] = [b EXCEPT !.pending = "none", !.st = "tracking"]]
<1>0. s \in TrackerSteps
  BY DEF TrackerSteps, BoardSteps, ServerSteps
<1>1. Leaves(s, c, over) /\ Leaves(s, c, runs) /\ Leaves(s, c, c)
  BY <1>0, BoardSetLeaves, LeavesItself, Zenon
<1>2. AfterDeserializeBoard(c, j) \in {c, UpdateTracker(runs, j), AllocateTracker(runs, j), ReleaseTracker(over, j)}
  BY DEF AfterDeserializeBoard
<1> HIDE DEF over, runs
<1>3. Shape(over) /\ Shape(runs)
  BY <1>1 DEF Leaves
<1>4. Leaves(s, runs, UpdateTracker(runs, j)) /\ Leaves(s, runs, AllocateTracker(runs, j)) /\ Leaves(s, over, ReleaseTracker(over, j))
  BY <1>0, <1>3, AllocateLeaves, UpdateLeaves, ReleaseLeaves
<1> HIDE DEF s
<1>5. \A x \in {c, UpdateTracker(runs, j), AllocateTracker(runs, j), ReleaseTracker(over, j)} : Leaves(s, c, x)
  BY <1>1, <1>4, LeavesTwice
<1>6. QED
  BY <1>2, <1>5 DEF s

\* To announce a tracker changes it and the host's view of it, and nothing
\* else.
LEMMA RaiseTrackerLeaves ==
  ASSUME NEW c, Shape(c), NEW k PROVE Leaves("tracker", c, RaiseTracker(c, k))
<1> DEFINE s     == "tracker"
           t     == c.trackers[k]
           shows == IF t.pending \cap {"show", "update"} # {} THEN t.raw ELSE t.display
           d     == [c EXCEPT !.trackers[k] = [t EXCEPT !.pending = {}, !.display = shows]]
<1>1. Leaves(s, c, d)
  BY DEF Leaves, Shape, Fields, BoardSteps, ProgressPart, ModePart, PausePart, AchPart, ServerPart, NewFlags, TrackerSteps, ServerSteps, AchSteps
<1>2. RaiseTracker(c, k) \in {d, Tell(d, <<"tracker_hide", k>>), Tell(d, <<"tracker_show", k, shows>>), Tell(d, <<"tracker_update", k, shows>>)}
  BY DEF RaiseTracker
<1> HIDE DEF d, shows
<1>3. Shape(d)
  BY <1>1 DEF Leaves
<1>4. ASSUME NEW e, e[1] \in {"tracker_hide", "tracker_show", "tracker_update"} PROVE Leaves(s, d, Tell(d, e))
  BY <1>3, <1>4, TellKeeps DEF Leaves, BoardSteps, NewFlags, TrackerSteps, ServerSteps, AchSteps
<1>5. /\ Leaves(s, d, Tell(d, <<"tracker_hide", k>>)) /\ Leaves(s, d, Tell(d, <<"tracker_show", k, shows>>))
      /\ Leaves(s, d, Tell(d, <<"tracker_update", k, shows>>))
  BY <1>4
<1> HIDE DEF s
<1>6. Leaves(s, d, RaiseTracker(c, k))
  BY <1>2, <1>3, <1>5, LeavesItself
<1>7. QED
  BY <1>1, <1>6, LeavesTwice DEF s

\* The requests can change without anything that is loaded.
LEMMA RequestsLeave ==
  ASSUME NEW s \in ServerSteps, NEW c, Shape(c), NEW rs
  PROVE  Leaves(s, c, [c EXCEPT !.requests = rs])
BY DEF Leaves, Shape, Fields, AchSteps, BoardSteps, ServerSteps, ProgressPart, ModePart, PausePart, AchPart, BoardPart, NewFlags, TrackerSteps

\* So they do when one is sent,
LEMMA SendLeaves ==
  ASSUME NEW s \in ServerSteps, NEW c, Shape(c), NEW r
  PROVE  /\ Leaves(s, c, Send(c, r)) /\ AchPart(Send(c, r)) = AchPart(c) /\ BoardPart(Send(c, r)) = BoardPart(c)
         /\ Send(c, r).flags = c.flags
<1> DEFINE rest == c.requests \ {q \in c.requests : q.id = r.id}
           d    == [c EXCEPT !.requests = rest \cup {[r EXCEPT !.at = "sent"]}]
           e    == [c EXCEPT !.requests = rest]
<1>1. /\ Leaves(s, c, d) /\ AchPart(d) = AchPart(c) /\ BoardPart(d) = BoardPart(c) /\ d.flags = c.flags
      /\ Leaves(s, c, e) /\ AchPart(e) = AchPart(c) /\ BoardPart(e) = BoardPart(c) /\ e.flags = c.flags
  <2>1. ASSUME NEW rs PROVE LET f == [c EXCEPT !.requests = rs]
                            IN  AchPart(f) = AchPart(c) /\ BoardPart(f) = BoardPart(c) /\ f.flags = c.flags
    BY DEF Shape, Fields, AchPart, BoardPart
  <2>2. QED
    BY <2>1, RequestsLeave, Zenon
<1>2. Send(c, r) \in {Tell(d, <<"request", r>>), e}
  BY DEF Send
<1> HIDE DEF d, e
<1>3. Shape(d)
  BY <1>1 DEF Leaves
<1>4. /\ Leaves(s, d, Tell(d, <<"request", r>>)) /\ AchPart(Tell(d, <<"request", r>>)) = AchPart(d)
      /\ BoardPart(Tell(d, <<"request", r>>)) = BoardPart(d) /\ Tell(d, <<"request", r>>).flags = d.flags
  <2>1. <<"request", r>>[1] = "request"
    OBVIOUS
  <2>2. QED
    BY <1>3, <2>1, TellKeeps DEF Leaves, ServerSteps, NewFlags, TrackerSteps, BoardSteps, AchSteps
<1>5. QED
  BY <1>1, <1>2, <1>4, LeavesTwice

\* and when one is sent again.
LEMMA RetryLeaves ==
  ASSUME NEW c, Shape(c), NEW n PROVE Leaves("retry", c, RetryDue(c, n))
<1>1. "retry" \in ServerSteps
  BY DEF ServerSteps
<1>2. QED
  BY <1>1, SendLeaves, LeavesItself, Zenon DEF RetryDue, Retry

\* An unlock changes its achievement and the requests.
LEMMA AwardLeaves ==
  ASSUME NEW c, Shape(c), NEW i
  PROVE  Leaves("raise", c, AwardAchievement(c, i)) /\ AwardAchievement(c, i).flags = c.flags
<1> DEFINE a   == c.achs[i]
           had == IF c.hardcore THEN {"hard", "soft"} ELSE a.unlocked \cup {"soft"}
           d   == [c EXCEPT !.achs[i] = [a EXCEPT !.st = "unlocked", !.unlocked = had]]
           e   == Send(d, NewRequest(c, "award", c.achs[i].id))
<1>1. Leaves("raise", c, d) /\ d.flags = c.flags
  BY DEF Leaves, Shape, Fields, AchSteps, ServerSteps, ProgressPart, ModePart, PausePart, BoardPart, ServerPart, NewFlags, TrackerSteps, BoardSteps
<1>2. AwardAchievement(c, i) \in {d, e}
  BY DEF AwardAchievement
<1> HIDE DEF d
<1>3. Leaves("raise", d, e) /\ e.flags = d.flags
  <2>1. Shape(d) /\ "raise" \in ServerSteps
    BY <1>1 DEF Leaves, ServerSteps
  <2>2. QED
    BY <2>1, SendLeaves
<1>4. QED
  BY <1>1, <1>2, <1>3, LeavesTwice

\* So does announcing what an achievement has to say.
LEMMA RaiseLeaves ==
  ASSUME NEW c, Shape(c), NEW i PROVE Leaves("raise", c, RaiseAchievementEvents(c, i))
<1> DEFINE p == c.achs[i].pending
           a == AwardAchievement(c, i)
           d == IF "triggered" \in p THEN [a EXCEPT !.flags = @ \cup {"update_active"}] ELSE c
           e == CASE "hide" \in p -> Tell(d, <<"challenge_hide", i>>)
                  [] "hide" \notin p /\ "show" \in p -> Tell(d, <<"challenge_show", i>>)
                  [] OTHER -> d
           f == IF "triggered" \in p THEN Tell(e, <<"triggered", i>>) ELSE e
           g == [f EXCEPT !.achs[i] = [f.achs[i] EXCEPT !.pending = {}]]
<1>1. RaiseAchievementEvents(c, i) = g
  BY DEF RaiseAchievementEvents
<1>2. Leaves("raise", c, a)
  BY AwardLeaves
<1> HIDE DEF a
<1>3. Leaves("raise", c, d)
  <2>1. Leaves("raise", a, [a EXCEPT !.flags = @ \cup {"update_active"}])
    BY <1>2 DEF Leaves, Shape, Fields, AchSteps, ServerSteps, ProgressPart, ModePart, PausePart, BoardPart, ServerPart, NewFlags, TrackerSteps, BoardSteps
  <2>2. QED
    BY <1>2, <2>1, LeavesTwice, LeavesItself
<1> HIDE DEF d
<1>4. ASSUME NEW x, Shape(x), NEW what, what[1] \in {"challenge_hide", "challenge_show", "triggered"}
      PROVE  Leaves("raise", x, Tell(x, what))
  BY <1>4, TellKeeps DEF Leaves, AchSteps, ServerSteps, NewFlags, TrackerSteps, BoardSteps
<1>5. Leaves("raise", d, e) /\ Shape(d)
  <2>1. Shape(d)
    BY <1>3 DEF Leaves
  <2>2. Leaves("raise", d, Tell(d, <<"challenge_hide", i>>)) /\ Leaves("raise", d, Tell(d, <<"challenge_show", i>>)) /\ Leaves("raise", d, d)
    BY <1>4, <2>1, LeavesItself
  <2>3. QED
    BY <2>1, <2>2
<1> HIDE DEF e
<1>6. Leaves("raise", e, f) /\ Shape(e)
  <2>1. Shape(e)
    BY <1>5 DEF Leaves
  <2>2. Leaves("raise", e, Tell(e, <<"triggered", i>>)) /\ Leaves("raise", e, e)
    BY <1>4, <2>1, LeavesItself
  <2>3. QED
    BY <2>1, <2>2
<1> HIDE DEF f
<1>7. Leaves("raise", f, g)
  BY <1>6 DEF Leaves, Shape, Fields, AchSteps, ServerSteps, ProgressPart, ModePart, PausePart, BoardPart, ServerPart, NewFlags, TrackerSteps, BoardSteps
<1> HIDE DEF g
<1>8. QED
  BY <1>1, <1>3, <1>5, <1>6, <1>7, LeavesTwice

\* Announcing what a leaderboard has to say changes it and the requests.
LEMMA RaiseBoardLeaves ==
  ASSUME NEW c, Shape(c), NEW j, c.boards[j].pending \in {"none", "started", "failed", "submitted"}
  PROVE  BoardRaised(c, j, RaiseLeaderboardEvents(c, j))
<1> DEFINE p == c.boards[j].pending
           d == IF p = "submitted" THEN SubmitEntry(c, j) ELSE c
           e == Tell(d, <<p, j>>)
           f == [e EXCEPT !.boards[j] = [e.boards[j] EXCEPT !.pending = "none"]]
<1>1. Leaves("raise_board", c, d) /\ BoardPart(d) = BoardPart(c) /\ d.flags = c.flags
  <2>1. "raise_board" \in ServerSteps
    BY DEF ServerSteps
  <2>2. QED
    BY <2>1, SendLeaves, LeavesItself DEF SubmitEntry
<1>2. RaiseLeaderboardEvents(c, j) = IF p = "none" THEN c ELSE f
  BY DEF RaiseLeaderboardEvents
<1>3. CASE p = "none"
  BY <1>2, <1>3, LeavesItself DEF BoardRaised
<1>4. CASE p # "none"
  <2> HIDE DEF d
  <2>1. Leaves("raise_board", d, e) /\ BoardPart(e) = BoardPart(d) /\ e.flags = d.flags
    <3>1. Shape(d) /\ <<p, j>>[1] = p /\ p \in {"started", "failed", "submitted"}
      BY <1>1, <1>4 DEF Leaves
    <3>2. QED
      BY <3>1, TellKeeps DEF Leaves, BoardSteps, ServerSteps, NewFlags, TrackerSteps, AchSteps
  <2> HIDE DEF e
  <2>2. Leaves("raise_board", e, f) /\ f.trackers = e.trackers /\ f.runningBoards = e.runningBoards /\ f.flags = e.flags
        /\ f.host = e.host /\ f.boards = [e.boards EXCEPT ![j] = [e.boards[j] EXCEPT !.pending = "none"]]
    BY <2>1 DEF Leaves, Shape, Fields, BoardSteps, ServerSteps, ProgressPart, ModePart, PausePart, AchPart, ServerPart, NewFlags, TrackerSteps, AchSteps
  <2> HIDE DEF f
  <2>3. BoardPart(e) = BoardPart(c) /\ Leaves("raise_board", c, f)
    BY <1>1, <2>1, <2>2, LeavesTwice
  <2>5. e.boards = c.boards /\ e.trackers = c.trackers /\ e.runningBoards = c.runningBoards /\ e.host.trackers = c.host.trackers
    BY <2>3 DEF BoardPart
  <2>4. QED
    BY <1>1, <1>2, <1>4, <2>1, <2>2, <2>3, <2>5 DEF f, BoardRaised
<1>5. QED
  BY <1>3, <1>4

-----------------------------------------------------------------------------
(* The loops.                                                                *)

\* A set of numbers has a least one: every induction here is on a number of steps.
LEMMA LeastNumber ==
  ASSUME NEW T, T \subseteq Nat, T # {}
  PROVE  \E x \in T : \A y \in T : ~(y < x)
<1> DEFINE R == {p \in Nat \X Nat : p[1] < p[2]}
<1>1. IsWellFoundedOn(R, Nat)
  BY NatLessThanWellFounded DEF OpToRel, IsWellFoundedOn
<1>2. \E x \in T : \A y \in T : ~(<<y, x>> \in R)
  <2> HIDE DEF R
  <2> QED BY <1>1, WFMin
<1> QED BY <1>2


\* What holds before and is kept by every step holds all the way.
LEMMA Climb ==
  ASSUME NEW S, NEW m \in Nat, NEW n \in Nat, m \in S, \A k \in m .. n : k < n /\ k \in S => k + 1 \in S
  PROVE  \A k \in m .. n : k \in S
<1> DEFINE Bad == {k \in m .. n : k \notin S}
<1> SUFFICES ASSUME Bad # {} PROVE FALSE
  OBVIOUS
<1>1. PICK k \in Bad : \A l \in Bad : ~(l < k)
  <2>1. Bad \subseteq Nat
    OBVIOUS
  <2> HIDE DEF Bad
  <2>2. QED
    BY <2>1, LeastNumber
<1>2. k \in m .. n /\ k \notin S /\ k # m
  BY <1>1
<1>3. k - 1 \in m .. n /\ k - 1 < n /\ k - 1 \notin Bad /\ (k - 1) + 1 = k
  BY <1>1, <1>2
<1>4. QED
  BY <1>2, <1>3

\* However many steps there are, there is something after each of them.
LEMMA RunsExists ==
  ASSUME NEW w, NEW c, NEW n \in Nat
  PROVE  \E g : Runs(g, w, c, n)
<1> DEFINE Bad == {i \in Nat : ~ \E g : Runs(g, w, c, i)}
<1> SUFFICES ASSUME Bad # {} PROVE FALSE
  OBVIOUS
<1>1. PICK i \in Bad : \A k \in Bad : ~(k < i)
  <2>1. Bad \subseteq Nat
    OBVIOUS
  <2> HIDE DEF Bad
  <2>2. QED
    BY <2>1, LeastNumber
<1>2. i \in Nat /\ ~ \E g : Runs(g, w, c, i)
  BY <1>1
<1>3. i # 0
  <2> SUFFICES ASSUME i = 0 PROVE FALSE
    OBVIOUS
  <2> DEFINE g == [k \in 0 .. 0 |-> c]
  <2>1. \A k \in 0 .. 0 : k = 0
    OBVIOUS
  <2>2. g = [k \in 0 .. 0 |-> IF k = 0 THEN c ELSE Step(w, g[k - 1], k)]
    BY <2>1
  <2>3. Runs(g, w, c, 0)
    <3> HIDE DEF g
    <3>1. QED
      BY <2>2 DEF Runs
  <2>4. QED
    BY <1>2, <2>3
<1>4. PICK g : Runs(g, w, c, i - 1)
  BY <1>1, <1>2, <1>3
<1>5. \A k \in 0 .. i - 1 : g[k] = IF k = 0 THEN c ELSE Step(w, g[k - 1], k)
  BY <1>4 DEF Runs
<1> DEFINE h == [k \in 0 .. i |-> IF k < i THEN g[k] ELSE Step(w, g[i - 1], i)]
<1>6. \A k \in 0 .. i : h[k] = IF k = 0 THEN c ELSE Step(w, h[k - 1], k)
  <2> TAKE k \in 0 .. i
  <2>1. CASE k = i
    <3>1. k - 1 \in 0 .. i /\ k - 1 < i /\ k # 0
      BY <1>2, <1>3, <2>1
    <3>2. h[k - 1] = g[i - 1] /\ h[k] = Step(w, g[i - 1], i)
      BY <2>1, <3>1
    <3> HIDE DEF h
    <3>3. QED
      BY <2>1, <3>1, <3>2
  <2>2. CASE k # i /\ k # 0
    <3>1. k - 1 \in 0 .. i /\ k - 1 < i /\ k \in 0 .. i - 1 /\ k < i
      BY <1>2, <1>3, <2>2
    <3>2. h[k - 1] = g[k - 1] /\ h[k] = g[k]
      BY <3>1
    <3> HIDE DEF h
    <3>3. QED
      BY <1>5, <2>2, <3>1, <3>2
  <2>3. CASE k # i /\ k = 0
    <3>1. h[k] = g[k] /\ k \in 0 .. i - 1
      BY <1>2, <1>3, <2>3
    <3> HIDE DEF h
    <3>2. QED
      BY <1>5, <2>3, <3>1
  <2>4. QED
    BY <2>1, <2>2, <2>3
<1>7. h = [k \in 0 .. i |-> h[k]]
  OBVIOUS
<1> HIDE DEF h
<1>8. Runs(h, w, c, i)
  BY <1>6, <1>7 DEF Runs
<1>9. QED
  BY <1>2, <1>8


\* The states a loop goes through, one step after the other.
LEMMA RunsSteps ==
  ASSUME NEW g, NEW w, NEW c, NEW n \in Nat, Runs(g, w, c, n)
  PROVE  /\ g[0] = c /\ \A k \in 1 .. n : g[k] = Step(w, g[k - 1], k)
         /\ \A k \in 0 .. n : k < n => g[k + 1] = Step(w, g[k], k + 1)
<1>1. \A k \in 0 .. n : g[k] = IF k = 0 THEN c ELSE Step(w, g[k - 1], k)
  BY DEF Runs
<1>2. g[0] = c
  BY <1>1
<1>3. \A k \in 1 .. n : g[k] = Step(w, g[k - 1], k)
  BY <1>1
<1>4. ASSUME NEW k \in 0 .. n, k < n PROVE g[k + 1] = Step(w, g[k], k + 1)
  <2>1. k + 1 \in 1 .. n /\ (k + 1) - 1 = k
    BY <1>4
  <2>2. QED
    BY <1>3, <2>1
<1>5. QED
  BY <1>2, <1>3, <1>4

\* The loop over the achievements for a change of mode is a run of its steps.
LEMMA ToggleRan ==
  ASSUME NEW bit, NEW c, NEW n \in Nat PROVE Ran(<<"toggle", bit>>, c, n, Toggling(c, bit, n))
<1>1. PICK g : Runs(g, <<"toggle", bit>>, c, n)
  BY RunsExists
<1>2. g = [k \in 0 .. n |-> IF k = 0 THEN c ELSE ToggleAchievement(g[k - 1], k, bit)]
  BY <1>1 DEF Runs, Step
<1> DEFINE f == CHOOSE g_1 : g_1 = [k \in 0 .. n |-> IF k = 0 THEN c ELSE ToggleAchievement(g_1[k - 1], k, bit)]
<1>3. f = [k \in 0 .. n |-> IF k = 0 THEN c ELSE ToggleAchievement(f[k - 1], k, bit)]
  BY <1>2
<1>4. Toggling(c, bit, n) = f[n]
  BY DEF After, Toggling
<1> HIDE DEF f
<1>5. Runs(f, <<"toggle", bit>>, c, n)
  BY <1>3 DEF Runs, Step
<1>6. QED
  BY <1>4, <1>5 DEF Ran

\* So is that of a frame,
LEMMA ProcessRan ==
  ASSUME NEW os, NEW c, NEW n \in Nat PROVE Ran(<<"process", os>>, c, n, Processing(c, os, n))
<1>1. PICK g : Runs(g, <<"process", os>>, c, n)
  BY RunsExists
<1>2. g = [k \in 0 .. n |-> IF k = 0 THEN c ELSE ProcessAchievement(g[k - 1], k, os[k])]
  BY <1>1 DEF Runs, Step
<1> DEFINE f == CHOOSE g_1 : g_1 = [k \in 0 .. n |-> IF k = 0 THEN c ELSE ProcessAchievement(g_1[k - 1], k, os[k])]
<1>3. f = [k \in 0 .. n |-> IF k = 0 THEN c ELSE ProcessAchievement(f[k - 1], k, os[k])]
  BY <1>2
<1>4. Processing(c, os, n) = f[n]
  BY DEF After, Processing
<1> HIDE DEF f
<1>5. Runs(f, <<"process", os>>, c, n)
  BY <1>3 DEF Runs, Step
<1>6. QED
  BY <1>4, <1>5 DEF Ran

\* that of a reset,
LEMMA ResetRan ==
  ASSUME NEW c, NEW n \in Nat PROVE Ran(<<"reset">>, c, n, After(ResetAchievement, c, n))
<1>1. PICK g : Runs(g, <<"reset">>, c, n)
  BY RunsExists
<1>2. g = [k \in 0 .. n |-> IF k = 0 THEN c ELSE ResetAchievement(g[k - 1], k)]
  BY <1>1 DEF Runs, Step
<1> DEFINE f == CHOOSE g_1 : g_1 = [k \in 0 .. n |-> IF k = 0 THEN c ELSE ResetAchievement(g_1[k - 1], k)]
<1>3. f = [k \in 0 .. n |-> IF k = 0 THEN c ELSE ResetAchievement(f[k - 1], k)]
  BY <1>2
<1>4. After(ResetAchievement, c, n) = f[n]
  BY DEF After
<1> HIDE DEF f
<1>5. Runs(f, <<"reset">>, c, n)
  BY <1>3 DEF Runs, Step
<1>6. QED
  BY <1>4, <1>5 DEF Ran

\* that which announces,
LEMMA RaiseRan ==
  ASSUME NEW c, NEW n \in Nat PROVE Ran(<<"raise">>, c, n, After(RaiseAchievementEvents, c, n))
<1>1. PICK g : Runs(g, <<"raise">>, c, n)
  BY RunsExists
<1>2. g = [k \in 0 .. n |-> IF k = 0 THEN c ELSE RaiseAchievementEvents(g[k - 1], k)]
  BY <1>1 DEF Runs, Step
<1> DEFINE f == CHOOSE g_1 : g_1 = [k \in 0 .. n |-> IF k = 0 THEN c ELSE RaiseAchievementEvents(g_1[k - 1], k)]
<1>3. f = [k \in 0 .. n |-> IF k = 0 THEN c ELSE RaiseAchievementEvents(f[k - 1], k)]
  BY <1>2
<1>4. After(RaiseAchievementEvents, c, n) = f[n]
  BY DEF After
<1> HIDE DEF f
<1>5. Runs(f, <<"raise">>, c, n)
  BY <1>3 DEF Runs, Step
<1>6. QED
  BY <1>4, <1>5 DEF Ran

\* and that of a restored state.
LEMMA RestoredRan ==
  ASSUME NEW c, NEW n \in Nat PROVE Ran(<<"restored">>, c, n, After(AfterDeserializeAch, c, n))
<1>1. PICK g : Runs(g, <<"restored">>, c, n)
  BY RunsExists
<1>2. g = [k \in 0 .. n |-> IF k = 0 THEN c ELSE AfterDeserializeAch(g[k - 1], k)]
  BY <1>1 DEF Runs, Step
<1> DEFINE f == CHOOSE g_1 : g_1 = [k \in 0 .. n |-> IF k = 0 THEN c ELSE AfterDeserializeAch(g_1[k - 1], k)]
<1>3. f = [k \in 0 .. n |-> IF k = 0 THEN c ELSE AfterDeserializeAch(f[k - 1], k)]
  BY <1>2
<1>4. After(AfterDeserializeAch, c, n) = f[n]
  BY DEF After
<1> HIDE DEF f
<1>5. Runs(f, <<"restored">>, c, n)
  BY <1>3 DEF Runs, Step
<1>6. QED
  BY <1>4, <1>5 DEF Ran

\* So are the loops over the trackers,
LEMMA RaiseTrackerRan ==
  ASSUME NEW c, NEW n \in Nat PROVE Ran(<<"tracker">>, c, n, After(RaiseTracker, c, n))
<1>1. PICK g : Runs(g, <<"tracker">>, c, n)
  BY RunsExists
<1>2. g = [k \in 0 .. n |-> IF k = 0 THEN c ELSE RaiseTracker(g[k - 1], k)]
  BY <1>1 DEF Runs, Step
<1> DEFINE f == CHOOSE g_1 : g_1 = [k \in 0 .. n |-> IF k = 0 THEN c ELSE RaiseTracker(g_1[k - 1], k)]
<1>3. f = [k \in 0 .. n |-> IF k = 0 THEN c ELSE RaiseTracker(f[k - 1], k)]
  BY <1>2
<1>4. After(RaiseTracker, c, n) = f[n]
  BY DEF After
<1> HIDE DEF f
<1>5. Runs(f, <<"tracker">>, c, n)
  BY <1>3 DEF Runs, Step
<1>6. QED
  BY <1>4, <1>5 DEF Ran

\* and over the leaderboards: to let go of their trackers,
LEMMA LetGoRan ==
  ASSUME NEW c, NEW n \in Nat PROVE Ran(<<"let_go">>, c, n, After(LetGo, c, n))
<1>1. PICK g : Runs(g, <<"let_go">>, c, n)
  BY RunsExists
<1>2. g = [k \in 0 .. n |-> IF k = 0 THEN c ELSE LetGo(g[k - 1], k)]
  BY <1>1 DEF Runs, Step
<1> DEFINE f == CHOOSE g_1 : g_1 = [k \in 0 .. n |-> IF k = 0 THEN c ELSE LetGo(g_1[k - 1], k)]
<1>3. f = [k \in 0 .. n |-> IF k = 0 THEN c ELSE LetGo(f[k - 1], k)]
  BY <1>2
<1>4. After(LetGo, c, n) = f[n]
  BY DEF After
<1> HIDE DEF f
<1>5. Runs(f, <<"let_go">>, c, n)
  BY <1>3 DEF Runs, Step
<1>6. QED
  BY <1>4, <1>5 DEF Ran

\* to stop them,
LEMMA DeactivateRan ==
  ASSUME NEW c, NEW n \in Nat PROVE Ran(<<"deactivate">>, c, n, After(DeactivateBoard, c, n))
<1>1. PICK g : Runs(g, <<"deactivate">>, c, n)
  BY RunsExists
<1>2. g = [k \in 0 .. n |-> IF k = 0 THEN c ELSE DeactivateBoard(g[k - 1], k)]
  BY <1>1 DEF Runs, Step
<1> DEFINE f == CHOOSE g_1 : g_1 = [k \in 0 .. n |-> IF k = 0 THEN c ELSE DeactivateBoard(g_1[k - 1], k)]
<1>3. f = [k \in 0 .. n |-> IF k = 0 THEN c ELSE DeactivateBoard(f[k - 1], k)]
  BY <1>2
<1>4. After(DeactivateBoard, c, n) = f[n]
  BY DEF After
<1> HIDE DEF f
<1>5. Runs(f, <<"deactivate">>, c, n)
  BY <1>3 DEF Runs, Step
<1>6. QED
  BY <1>4, <1>5 DEF Ran

\* to reset them,
LEMMA ResetBoardRan ==
  ASSUME NEW c, NEW n \in Nat PROVE Ran(<<"reset_board">>, c, n, After(ResetBoard, c, n))
<1>1. PICK g : Runs(g, <<"reset_board">>, c, n)
  BY RunsExists
<1>2. g = [k \in 0 .. n |-> IF k = 0 THEN c ELSE ResetBoard(g[k - 1], k)]
  BY <1>1 DEF Runs, Step
<1> DEFINE f == CHOOSE g_1 : g_1 = [k \in 0 .. n |-> IF k = 0 THEN c ELSE ResetBoard(g_1[k - 1], k)]
<1>3. f = [k \in 0 .. n |-> IF k = 0 THEN c ELSE ResetBoard(f[k - 1], k)]
  BY <1>2
<1>4. After(ResetBoard, c, n) = f[n]
  BY DEF After
<1> HIDE DEF f
<1>5. Runs(f, <<"reset_board">>, c, n)
  BY <1>3 DEF Runs, Step
<1>6. QED
  BY <1>4, <1>5 DEF Ran

\* for a frame,
LEMMA ProcessBoardRan ==
  ASSUME NEW os, NEW c, NEW n \in Nat PROVE Ran(<<"process_board", os>>, c, n, ProcessingBoards(c, os, n))
<1>1. PICK g : Runs(g, <<"process_board", os>>, c, n)
  BY RunsExists
<1>2. g = [k \in 0 .. n |-> IF k = 0 THEN c ELSE ProcessBoard(g[k - 1], k, os[k])]
  BY <1>1 DEF Runs, Step
<1> DEFINE f == CHOOSE g_1 : g_1 = [k \in 0 .. n |-> IF k = 0 THEN c ELSE ProcessBoard(g_1[k - 1], k, os[k])]
<1>3. f = [k \in 0 .. n |-> IF k = 0 THEN c ELSE ProcessBoard(f[k - 1], k, os[k])]
  BY <1>2
<1>4. ProcessingBoards(c, os, n) = f[n]
  BY DEF After, ProcessingBoards
<1> HIDE DEF f
<1>5. Runs(f, <<"process_board", os>>, c, n)
  BY <1>3 DEF Runs, Step
<1>6. QED
  BY <1>4, <1>5 DEF Ran

\* to announce what they have to say,
LEMMA RaiseBoardRan ==
  ASSUME NEW c, NEW n \in Nat PROVE Ran(<<"raise_board">>, c, n, After(RaiseLeaderboardEvents, c, n))
<1>1. PICK g : Runs(g, <<"raise_board">>, c, n)
  BY RunsExists
<1>2. g = [k \in 0 .. n |-> IF k = 0 THEN c ELSE RaiseLeaderboardEvents(g[k - 1], k)]
  BY <1>1 DEF Runs, Step
<1> DEFINE f == CHOOSE g_1 : g_1 = [k \in 0 .. n |-> IF k = 0 THEN c ELSE RaiseLeaderboardEvents(g_1[k - 1], k)]
<1>3. f = [k \in 0 .. n |-> IF k = 0 THEN c ELSE RaiseLeaderboardEvents(f[k - 1], k)]
  BY <1>2
<1>4. After(RaiseLeaderboardEvents, c, n) = f[n]
  BY DEF After
<1> HIDE DEF f
<1>5. Runs(f, <<"raise_board">>, c, n)
  BY <1>3 DEF Runs, Step
<1>6. QED
  BY <1>4, <1>5 DEF Ran

\* and after a state was restored.
LEMMA RestoredBoardRan ==
  ASSUME NEW c, NEW n \in Nat PROVE Ran(<<"restored_board">>, c, n, After(AfterDeserializeBoard, c, n))
<1>1. PICK g : Runs(g, <<"restored_board">>, c, n)
  BY RunsExists
<1>2. g = [k \in 0 .. n |-> IF k = 0 THEN c ELSE AfterDeserializeBoard(g[k - 1], k)]
  BY <1>1 DEF Runs, Step
<1> DEFINE f == CHOOSE g_1 : g_1 = [k \in 0 .. n |-> IF k = 0 THEN c ELSE AfterDeserializeBoard(g_1[k - 1], k)]
<1>3. f = [k \in 0 .. n |-> IF k = 0 THEN c ELSE AfterDeserializeBoard(f[k - 1], k)]
  BY <1>2
<1>4. After(AfterDeserializeBoard, c, n) = f[n]
  BY DEF After
<1> HIDE DEF f
<1>5. Runs(f, <<"restored_board">>, c, n)
  BY <1>3 DEF Runs, Step
<1>6. QED
  BY <1>4, <1>5 DEF Ran

\* So is the loop over the scheduled calls,
LEMMA RetryRan ==
  ASSUME NEW due, NEW c, NEW n \in Nat PROVE Ran(<<"retry", due>>, c, n, Retrying(c, due, n))
<1>1. PICK g : Runs(g, <<"retry", due>>, c, n)
  BY RunsExists
<1>2. g = [k \in 0 .. n |-> IF k = 0 THEN c ELSE IF k \in due THEN RetryDue(g[k - 1], k) ELSE g[k - 1]]
  BY <1>1 DEF Runs, Step
<1> DEFINE f == CHOOSE g_1 : g_1 = [k \in 0 .. n |-> IF k = 0 THEN c ELSE IF k \in due THEN RetryDue(g_1[k - 1], k) ELSE g_1[k - 1]]
<1>3. f = [k \in 0 .. n |-> IF k = 0 THEN c ELSE IF k \in due THEN RetryDue(f[k - 1], k) ELSE f[k - 1]]
  BY <1>2
<1>4. Retrying(c, due, n) = f[n]
  BY DEF After, Retrying
<1> HIDE DEF f
<1>5. Runs(f, <<"retry", due>>, c, n)
  BY <1>3 DEF Runs, Step
<1>6. QED
  BY <1>4, <1>5 DEF Ran

\* and the one that copies the achievements of a new game.
LEMMA CopyRan ==
  ASSUME NEW setup, NEW c, NEW n \in Nat PROVE Ran(<<"copy", setup>>, c, n, Copying(c, setup, n))
<1>1. PICK g : Runs(g, <<"copy", setup>>, c, n)
  BY RunsExists
<1>2. g = [k \in 0 .. n |-> IF k = 0 THEN c ELSE CopyAchievement(g[k - 1], k, setup)]
  BY <1>1 DEF Runs, Step
<1> DEFINE f == CHOOSE g_1 : g_1 = [k \in 0 .. n |-> IF k = 0 THEN c ELSE CopyAchievement(g_1[k - 1], k, setup)]
<1>3. f = [k \in 0 .. n |-> IF k = 0 THEN c ELSE CopyAchievement(f[k - 1], k, setup)]
  BY <1>2
<1>4. Copying(c, setup, n) = f[n]
  BY DEF After, Copying
<1> HIDE DEF f
<1>5. Runs(f, <<"copy", setup>>, c, n)
  BY <1>3 DEF Runs, Step
<1>6. QED
  BY <1>4, <1>5 DEF Ran


\* A step of a loop leaves alone what is none of its business.
LEMMA StepLeaves ==
  ASSUME NEW w, w[1] \in AchSteps \cup TrackerSteps \cup {"tracker", "retry"}, NEW c, Shape(c), NEW k
  PROVE  Leaves(w[1], c, Step(w, c, k))
<1>1. CASE w[1] = "toggle"
  BY <1>1, ToggleLeaves DEF Step
<1>2. CASE w[1] = "process"
  BY <1>2, ProcessLeaves DEF Step
<1>3. CASE w[1] = "reset"
  BY <1>3, ResetLeaves DEF Step
<1>4. CASE w[1] = "raise"
  BY <1>4, RaiseLeaves DEF Step
<1>5. CASE w[1] = "restored"
  BY <1>5, RestoredLeaves DEF Step
<1>6. CASE w[1] = "tracker"
  BY <1>6, RaiseTrackerLeaves DEF Step
<1>7. CASE w[1] = "let_go"
  <2>1. "let_go" \in TrackerSteps
    BY DEF TrackerSteps, BoardSteps, ServerSteps
  <2>2. QED
    BY <1>7, <2>1, LetGoLeaves DEF Step
<1>8. CASE w[1] = "deactivate"
  BY <1>8, DeactivateLeaves DEF Step
<1>9. CASE w[1] = "reset_board"
  BY <1>9, ResetBoardLeaves DEF Step
<1>10. CASE w[1] = "process_board"
  BY <1>10, ProcessBoardLeaves DEF Step
<1>11. CASE w[1] = "restored_board"
  BY <1>11, RestoredBoardLeaves DEF Step
<1>12. CASE w[1] = "retry"
  BY <1>12, RetryLeaves, LeavesItself DEF Step
<1>13. QED
  BY <1>1, <1>2, <1>3, <1>4, <1>5, <1>6, <1>7, <1>8, <1>9, <1>10, <1>11, <1>12 DEF AchSteps, TrackerSteps, BoardSteps, ServerSteps

\* Between any two steps of a loop.
LEMMA RunsLeave ==
  ASSUME NEW w, w[1] \in AchSteps \cup TrackerSteps \cup {"tracker", "retry"}, NEW c, Shape(c), NEW n \in Nat,
         NEW g, Runs(g, w, c, n)
  PROVE  \A i \in 0 .. n : Shape(g[i]) /\ Leaves(w[1], c, g[i]) /\ \A j \in i .. n : Leaves(w[1], g[i], g[j])
<1>1. g[0] = c /\ \A k \in 0 .. n : k < n => g[k + 1] = Step(w, g[k], k + 1)
  BY RunsSteps
<1>2. ASSUME NEW i \in 0 .. n, Shape(g[i]) PROVE \A j \in i .. n : Leaves(w[1], g[i], g[j])
  <2> DEFINE S == {j \in i .. n : Leaves(w[1], g[i], g[j])}
  <2>1. i \in S
    BY <1>2, LeavesItself
  <2>2. ASSUME NEW k \in i .. n, k < n, k \in S PROVE k + 1 \in S
    <3>1. Leaves(w[1], g[i], g[k]) /\ k \in 0 .. n /\ k + 1 \in i .. n
      BY <2>2
    <3>2. Shape(g[k])
      BY <3>1 DEF Leaves
    <3>3. Leaves(w[1], g[k], g[k + 1])
      BY <1>1, <2>2, <3>1, <3>2, StepLeaves
    <3>4. QED
      BY <3>1, <3>3, LeavesTwice
  <2> HIDE DEF S
  <2>3. i \in Nat
    OBVIOUS
  <2>4. \A j \in i .. n : j \in S
    BY <2>1, <2>2, <2>3, Climb
  <2>5. QED
    BY <2>4 DEF S
<1>3. \A j \in 0 .. n : Leaves(w[1], c, g[j])
  <2>1. 0 \in 0 .. n
    OBVIOUS
  <2>2. QED
    BY <1>1, <1>2, <2>1
<1>4. \A j \in 0 .. n : Shape(g[j])
  BY <1>3 DEF Leaves
<1>5. QED
  BY <1>2, <1>3, <1>4

\* So does the whole loop.
LEMMA RanLeaves ==
  ASSUME NEW w, w[1] \in AchSteps \cup TrackerSteps \cup {"tracker", "retry"}, NEW c, Shape(c), NEW n \in Nat,
         NEW d, Ran(w, c, n, d)
  PROVE  Leaves(w[1], c, d)
<1>1. PICK g : Runs(g, w, c, n) /\ d = g[n]
  BY DEF Ran
<1>2. n \in 0 .. n
  OBVIOUS
<1>3. QED
  BY <1>1, <1>2, RunsLeave

-----------------------------------------------------------------------------
(* The loops over the achievements: each step changes one of them.           *)

\* To set one achievement changes no other.
LEMMA SetAchIsLocal ==
  ASSUME NEW c, Shape(c), NEW i, NEW a
  PROVE  /\ OnlyAch(c, [c EXCEPT !.achs[i] = a], i) /\ Shape([c EXCEPT !.achs[i] = a])
         /\ Lit([c EXCEPT !.achs[i] = a], i) <=> Lit(c, i)
         /\ i \in DOMAIN c.achs => [c EXCEPT !.achs[i] = a].achs[i] = a
         /\ [c EXCEPT !.achs[i] = a].flags = c.flags /\ [c EXCEPT !.achs[i] = a].running = c.running
BY DEF OnlyAch, Lit, IsAFunction, Shape, Fields

\* To tell the host of achievement i changes at most what it knows of i.
LEMMA TellOfAch ==
  ASSUME NEW c, Shape(c), NEW i, NEW e, e[1] \in {"challenge_hide", "challenge_show"} => e[2] = i
  PROVE  LET d == Tell(c, e)
         IN  /\ OnlyAch(c, d, i) /\ Shape(d) /\ d.flags = c.flags /\ d.running = c.running /\ d.achs = c.achs
             /\ Lit(d, i) <=> IF e[1] = "challenge_show" THEN TRUE ELSE IF e[1] = "challenge_hide" THEN FALSE ELSE Lit(c, i)
<1>1. /\ c.host = [y \in HostFields |-> c.host[y]] /\ Tell(c, e).achs = c.achs /\ Tell(c, e).host = Hear(c.host, e)
      /\ Shape(Tell(c, e)) /\ Tell(c, e).flags = c.flags /\ Tell(c, e).running = c.running
  BY TellKeeps DEF Shape
<1>2. CASE e[1] \notin {"challenge_hide", "challenge_show"}
  <2>1. Hear(c.host, e).challenges = c.host.challenges
    BY <1>1, <1>2, HearKeeps
  <2>2. QED
    BY <1>1, <1>2, <2>1 DEF OnlyAch, Lit
<1>3. CASE e[1] = "challenge_show"
  <2>1. Hear(c.host, e).challenges = c.host.challenges \cup {i}
    BY <1>1, <1>3 DEF Hear, HostFields
  <2>2. QED
    BY <1>1, <1>3, <2>1 DEF OnlyAch, Lit
<1>4. CASE e[1] = "challenge_hide"
  <2>1. Hear(c.host, e).challenges = c.host.challenges \ {i}
    BY <1>1, <1>4 DEF Hear, HostFields
  <2>2. QED
    BY <1>1, <1>4, <2>1 DEF OnlyAch, Lit
<1>5. QED
  BY <1>2, <1>3, <1>4

\* Two changes of one achievement are a change of that achievement.
LEMMA OnlyAchTwice ==
  ASSUME NEW c, NEW d, NEW e, NEW i, OnlyAch(c, d, i), OnlyAch(d, e, i)
  PROVE  OnlyAch(c, e, i)
BY DEF OnlyAch

\* No change is one as well.
LEMMA OnlyAchItself == ASSUME NEW c, NEW i PROVE OnlyAch(c, c, i)
BY DEF OnlyAch

\* A change of mode hides the challenge of an achievement that it unlocks.
LEMMA ToggleStep ==
  ASSUME NEW c, Shape(c), NEW i, NEW bit
  PROVE  LET d == ToggleAchievement(c, i, bit)
             t == Toggled(c, i, bit)
         IN  /\ OnlyAch(c, d, i)
             /\ i \in DOMAIN c.achs => d.achs[i] = t
             /\ Lit(d, i) <=> Lit(c, i) /\ ~(c.achs[i].st = "active" /\ t.st = "unlocked" /\ c.achs[i].trig = "primed")
             /\ d.flags = c.flags
<1> DEFINE t == Toggled(c, i, bit)
           x == [c EXCEPT !.achs[i] = t]
<1>1. ToggleAchievement(c, i, bit) = IF c.achs[i].st = "active" /\ t.st = "unlocked" /\ c.achs[i].trig = "primed"
                                     THEN Tell(x, <<"challenge_hide", i>>) ELSE x
  BY DEF ToggleAchievement
<1> HIDE DEF t, x
<1>2. OnlyAch(c, x, i) /\ Shape(x) /\ (Lit(x, i) <=> Lit(c, i)) /\ x.flags = c.flags /\ (i \in DOMAIN c.achs => x.achs[i] = t)
  BY SetAchIsLocal DEF x
<1>3. LET e == Tell(x, <<"challenge_hide", i>>)
      IN  OnlyAch(x, e, i) /\ e.flags = x.flags /\ e.achs = x.achs /\ ~Lit(e, i)
  BY <1>2, TellOfAch
<1>4. OnlyAch(c, Tell(x, <<"challenge_hide", i>>), i)
  BY <1>2, <1>3, OnlyAchTwice
<1>5. QED
  BY <1>1, <1>2, <1>3, <1>4 DEF t

\* What a frame makes of one achievement.
LEMMA ProcessStep ==
  ASSUME NEW c, Shape(c), NEW i, NEW o PROVE ProcessedAch(c, i, o, ProcessAchievement(c, i, o))
BY DEF ProcessAchievement, OnlyAch, IsAFunction, Lit, Shape, Fields, ProcessedAch

\* What a reset makes of one.
LEMMA ResetStep ==
  ASSUME NEW c, Shape(c), NEW i PROVE ResetAch(c, i, ResetAchievement(c, i))
BY DEF ResetAchievement, OnlyAch, IsAFunction, Lit, Shape, Fields, ResetAch

\* What is made of one after a state was restored.
LEMMA RestoredStep ==
  ASSUME NEW c, Shape(c), NEW i PROVE RestoredAch(c, i, AfterDeserializeAch(c, i))
BY DEF AfterDeserializeAch, OnlyAch, IsAFunction, Lit, Shape, Fields, Wants, RestoredAch

\* What an unlock makes of one.
LEMMA AwardStep ==
  ASSUME NEW c, Shape(c), NEW i
  PROVE  LET d == AwardAchievement(c, i)
             a == c.achs[i]
             had == IF c.hardcore THEN {"hard", "soft"} ELSE a.unlocked \cup {"soft"}
         IN  /\ OnlyAch(c, d, i) /\ (Lit(d, i) <=> Lit(c, i)) /\ d.running = c.running
             /\ i \in DOMAIN c.achs => d.achs[i] = [a EXCEPT !.st = "unlocked", !.unlocked = had]
<1> DEFINE a   == c.achs[i]
           had == IF c.hardcore THEN {"hard", "soft"} ELSE a.unlocked \cup {"soft"}
           b   == [a EXCEPT !.st = "unlocked", !.unlocked = had]
           d   == [c EXCEPT !.achs[i] = b]
           e   == Send(d, NewRequest(c, "award", a.id))
<1>1. AwardAchievement(c, i) \in {d, e}
  BY DEF AwardAchievement
<1> HIDE DEF b
<1>2. OnlyAch(c, d, i) /\ Shape(d) /\ (Lit(d, i) <=> Lit(c, i)) /\ d.running = c.running /\ (i \in DOMAIN c.achs => d.achs[i] = b)
  BY SetAchIsLocal
<1> HIDE DEF d
<1>3. AchPart(e) = AchPart(d)
  BY <1>2, SendLeaves DEF ServerSteps
<1>4. e.achs = d.achs /\ e.running = d.running /\ e.host.challenges = d.host.challenges
  BY <1>3 DEF AchPart
<1>5. OnlyAch(c, e, i) /\ (Lit(e, i) <=> Lit(c, i)) /\ e.running = c.running /\ (i \in DOMAIN c.achs => e.achs[i] = b)
  BY <1>2, <1>4 DEF OnlyAch, Lit
<1> HIDE DEF e
<1>6. QED
  BY <1>1, <1>2, <1>5 DEF b

\* What is left of one after it was announced, and whether its challenge is
\* shown then.
LEMMA RaiseStep ==
  ASSUME NEW c, Shape(c), NEW i \in DOMAIN c.achs,
         c.achs[i] = [x \in {"id", "def", "st", "unlocked", "trig", "soft", "measured", "pending"} |-> c.achs[i][x]]
  PROVE  LET d == RaiseAchievementEvents(c, i)
             a == c.achs[i]
         IN  /\ OnlyAch(c, d, i) /\ (Lit(d, i) <=> RaisedLit(a, Lit(c, i))) /\ d.running = c.running
             /\ d.achs[i] = Raised(a, c.hardcore)
             /\ d.flags = c.flags \cup (IF "triggered" \in a.pending THEN {"update_active"} ELSE {})
<1> DEFINE p == c.achs[i].pending
           a == AwardAchievement(c, i)
           u == [a EXCEPT !.flags = @ \cup {"update_active"}]
           d == IF "triggered" \in p THEN u ELSE c
           e == CASE "hide" \in p -> Tell(d, <<"challenge_hide", i>>)
                  [] "hide" \notin p /\ "show" \in p -> Tell(d, <<"challenge_show", i>>)
                  [] OTHER -> d
           f == IF "triggered" \in p THEN Tell(e, <<"triggered", i>>) ELSE e
           g == [f EXCEPT !.achs[i] = [f.achs[i] EXCEPT !.pending = {}]]
           b == IF "triggered" \in p
                THEN [c.achs[i] EXCEPT !.st = "unlocked", !.unlocked = IF c.hardcore THEN {"hard", "soft"} ELSE c.achs[i].unlocked \cup {"soft"}]
                ELSE c.achs[i]
           up == IF "triggered" \in p THEN {"update_active"} ELSE {}
<1>1. RaiseAchievementEvents(c, i) = g
  BY DEF RaiseAchievementEvents
<1>2. /\ OnlyAch(c, d, i) /\ (Lit(d, i) <=> Lit(c, i)) /\ d.running = c.running /\ Shape(d)
      /\ d.achs[i] = b /\ d.flags = c.flags \cup up
  <2>1. CASE "triggered" \in p
    <3>1. /\ OnlyAch(c, a, i) /\ (Lit(a, i) <=> Lit(c, i)) /\ a.running = c.running /\ Shape(a)
          /\ a.achs[i] = [c.achs[i] EXCEPT !.st = "unlocked", !.unlocked = IF c.hardcore THEN {"hard", "soft"} ELSE c.achs[i].unlocked \cup {"soft"}]
          /\ a.flags = c.flags
      BY AwardStep, AwardLeaves DEF Leaves
    <3> HIDE DEF a
    <3>2. Shape(u) /\ u.flags = a.flags \cup {"update_active"} /\ u.achs = a.achs /\ u.host = a.host /\ u.running = a.running
      BY <3>1 DEF Shape, Fields
    <3> HIDE DEF u
    <3>3. OnlyAch(c, u, i) /\ (Lit(u, i) <=> Lit(c, i))
      BY <3>1, <3>2 DEF OnlyAch, Lit
    <3>4. QED
      BY <2>1, <3>1, <3>2, <3>3
  <2>2. CASE "triggered" \notin p
    BY <2>2, OnlyAchItself
  <2>3. QED
    BY <2>1, <2>2
<1> HIDE DEF d, b
<1>3. LET x == Tell(d, <<"challenge_hide", i>>)
      IN  OnlyAch(c, x, i) /\ ~Lit(x, i) /\ x.running = c.running /\ Shape(x) /\ x.achs = d.achs /\ x.flags = d.flags
  BY <1>2, TellOfAch, OnlyAchTwice
<1>4. LET x == Tell(d, <<"challenge_show", i>>)
      IN  OnlyAch(c, x, i) /\ Lit(x, i) /\ x.running = c.running /\ Shape(x) /\ x.achs = d.achs /\ x.flags = d.flags
  BY <1>2, TellOfAch, OnlyAchTwice
<1>5. /\ OnlyAch(c, e, i) /\ (Lit(e, i) <=> RaisedLit(c.achs[i], Lit(c, i))) /\ e.running = c.running /\ Shape(e)
      /\ e.achs = d.achs /\ e.flags = d.flags
  BY <1>2, <1>3, <1>4 DEF RaisedLit
<1> HIDE DEF e
<1>6. /\ OnlyAch(c, f, i) /\ (Lit(f, i) <=> Lit(e, i)) /\ f.running = c.running /\ Shape(f)
      /\ f.achs = d.achs /\ f.flags = d.flags
  <2>1. LET x == Tell(e, <<"triggered", i>>)
        IN  OnlyAch(e, x, i) /\ (Lit(x, i) <=> Lit(e, i)) /\ x.running = e.running /\ Shape(x) /\ x.achs = e.achs /\ x.flags = e.flags
    BY <1>5, TellOfAch
  <2>2. QED
    BY <1>5, <2>1, OnlyAchTwice
<1> HIDE DEF f
<1>7. /\ OnlyAch(f, g, i) /\ (Lit(g, i) <=> Lit(f, i)) /\ g.running = f.running /\ Shape(g)
      /\ g.flags = f.flags /\ g.achs[i] = [f.achs[i] EXCEPT !.pending = {}]
  <2>1. i \in DOMAIN f.achs
    BY <1>2, <1>6 DEF OnlyAch
  <2> DEFINE r == [f.achs[i] EXCEPT !.pending = {}]
  <2> HIDE DEF r
  <2>2. LET y == [f EXCEPT !.achs[i] = r]
        IN  /\ OnlyAch(f, y, i) /\ (Lit(y, i) <=> Lit(f, i)) /\ y.running = f.running /\ Shape(y)
            /\ y.flags = f.flags /\ y.achs[i] = r
    BY <1>6, <2>1, SetAchIsLocal
  <2>3. QED
    BY <2>2 DEF r
<1> HIDE DEF g
<1>8. [b EXCEPT !.pending = {}] = Raised(c.achs[i], c.hardcore)
  BY DEF b, Raised
<1>9. QED
  BY <1>1, <1>2, <1>5, <1>6, <1>7, <1>8, OnlyAchTwice

\* A step of a loop over the achievements changes the one that it is at.
LEMMA AchStepIsLocal ==
  ASSUME NEW w, w[1] \in AchSteps \ {"raise"}, NEW c, Shape(c), NEW i PROVE OnlyAch(c, Step(w, c, i), i)
<1>1. CASE w[1] = "toggle"
  BY <1>1, ToggleStep DEF Step
<1>2. CASE w[1] = "process"
  BY <1>2, ProcessStep DEF Step, ProcessedAch
<1>3. CASE w[1] = "reset"
  BY <1>3, ResetStep DEF Step, ResetAch
<1>4. CASE w[1] = "restored"
  BY <1>4, RestoredStep DEF Step, RestoredAch
<1>5. QED
  BY <1>1, <1>2, <1>3, <1>4 DEF AchSteps

\* So after the loop each achievement is what its own step made of it.
LEMMA AchLoop ==
  ASSUME NEW w, w[1] \in AchSteps, NEW c, Shape(c), c.achs \in Seq(Achievements),
         NEW e, Ran(w, c, Len(c.achs), e)
  PROVE  \E g : AchLooped(w, c, g, e)
<1>0. PICK g : Runs(g, w, c, Len(c.achs)) /\ e = g[Len(c.achs)]
  BY DEF Ran
<1> DEFINE n == Len(c.achs)
           S == {k \in 0 .. n : /\ DOMAIN g[k].achs = DOMAIN c.achs /\ IsAFunction(g[k].achs) /\ g[k].running = c.running
                                /\ \A i \in k + 1 .. n : g[k].achs[i] = c.achs[i] /\ (Lit(g[k], i) <=> Lit(c, i))
                                /\ \A i \in 1 .. k : g[k].achs[i] = g[i].achs[i] /\ (Lit(g[k], i) <=> Lit(g[i], i))
                                /\ \A i : i \notin 1 .. n => (Lit(g[k], i) <=> Lit(c, i))}
<1>1. n \in Nat /\ DOMAIN c.achs = 1 .. n /\ IsAFunction(c.achs)
  BY DEF IsAFunction
<1>2. g[0] = c /\ (\A k \in 1 .. n : g[k] = Step(w, g[k - 1], k)) /\ \A k \in 0 .. n : k < n => g[k + 1] = Step(w, g[k], k + 1)
  BY <1>0, <1>1, RunsSteps
<1>3. \A i \in 0 .. n : Shape(g[i]) /\ Leaves(w[1], c, g[i]) /\ \A j \in i .. n : Leaves(w[1], g[i], g[j])
  BY <1>0, <1>1, RunsLeave
<1>4. 0 \in S
  BY <1>1, <1>2
<1>5. ASSUME NEW k \in 0 .. n, k < n, k \in S PROVE k + 1 \in S
  <2>1. k + 1 \in 1 .. n /\ k + 1 \in DOMAIN g[k].achs /\ Shape(g[k]) /\ g[k].achs[k + 1] = c.achs[k + 1]
    BY <1>1, <1>3, <1>5
  <2>2. OnlyAch(g[k], g[k + 1], k + 1)
    <3>1. CASE w[1] = "raise"
      <4>1. c.achs[k + 1] \in Achievements
        BY <1>1, <2>1
      <4>2. c.achs[k + 1] = [x \in {"id", "def", "st", "unlocked", "trig", "soft", "measured", "pending"} |-> c.achs[k + 1][x]]
        BY <4>1 DEF Achievements
      <4>3. g[k + 1] = RaiseAchievementEvents(g[k], k + 1)
        BY <1>2, <1>5, <3>1 DEF Step
      <4>4. QED
        BY <2>1, <4>2, <4>3, RaiseStep
    <3>2. CASE w[1] # "raise"
      <4>1. g[k + 1] = Step(w, g[k], k + 1)
        BY <1>2, <1>5
      <4>2. QED
        BY <2>1, <3>2, <4>1, AchStepIsLocal
    <3>3. QED
      BY <3>1, <3>2
  <2>3. DOMAIN g[k + 1].achs = DOMAIN c.achs /\ IsAFunction(g[k + 1].achs) /\ g[k + 1].running = c.running
    BY <1>5, <2>2 DEF OnlyAch
  <2>4. \A i \in k + 2 .. n : g[k + 1].achs[i] = c.achs[i] /\ (Lit(g[k + 1], i) <=> Lit(c, i))
    <3>1. \A i \in k + 2 .. n : i # k + 1 /\ i \in k + 1 .. n /\ i \in 1 .. n
      BY <1>1
    <3>2. QED
      BY <1>1, <1>5, <2>2, <3>1 DEF OnlyAch
  <2>5. \A i \in 1 .. k + 1 : g[k + 1].achs[i] = g[i].achs[i] /\ (Lit(g[k + 1], i) <=> Lit(g[i], i))
    <3>1. \A i \in 1 .. k + 1 : i # k + 1 => i \in 1 .. k /\ i \in 1 .. n
      BY <1>1, <1>5
    <3>2. DOMAIN g[k].achs = 1 .. n
      BY <1>1, <1>5
    <3>3. QED
      BY <1>5, <2>2, <3>1, <3>2 DEF OnlyAch
  <2>6. \A i : i \notin 1 .. n => (Lit(g[k + 1], i) <=> Lit(c, i))
    BY <1>5, <2>1, <2>2 DEF OnlyAch
  <2>7. k + 1 \in 0 .. n /\ (k + 1) + 1 = k + 2
    BY <1>5
  <2>8. QED
    BY <2>3, <2>4, <2>5, <2>6, <2>7
<1>6. \A k \in 0 .. n : k \in S
  <2> HIDE DEF S
  <2>1. QED
    BY <1>1, <1>4, <1>5, Climb
<1>7. ASSUME NEW i \in 1 .. n
      PROVE  /\ g[i] = Step(w, g[i - 1], i) /\ Shape(g[i - 1]) /\ Leaves(w[1], c, g[i - 1]) /\ Leaves(w[1], g[i], g[n])
             /\ g[i - 1].achs[i] = c.achs[i] /\ (Lit(g[i - 1], i) <=> Lit(c, i))
             /\ g[n].achs[i] = g[i].achs[i] /\ (Lit(g[n], i) <=> Lit(g[i], i)) /\ i \in DOMAIN g[i - 1].achs
  <2>1. i - 1 \in 0 .. n /\ i \in 0 .. n /\ n \in i .. n /\ n \in 0 .. n /\ i \in (i - 1) + 1 .. n
    BY <1>1
  <2>2. i - 1 \in S /\ n \in S
    BY <1>6, <2>1
  <2>3. QED
    BY <1>1, <1>2, <1>3, <2>1, <2>2
<1>8. n \in S
  BY <1>1, <1>6
<1>9. Leaves(w[1], c, g[n])
  BY <1>1, <1>3
<1>10. QED
  BY <1>0, <1>1, <1>2, <1>7, <1>8, <1>9 DEF AchLooped

-----------------------------------------------------------------------------
(* What whole passes over the achievements do.                               *)

\* The list of running achievements is that of the active ones once it is made
\* anew.
LEMMA UpdateActiveLists ==
  ASSUME NEW c, Shape(c)
  PROVE  LET d == UpdateActiveAchievements(c)
         IN  /\ LeavesRest(c, d) /\ d.flags = c.flags /\ d.achs = c.achs /\ d.host = c.host /\ Running(d)
BY DEF UpdateActiveAchievements, LeavesRest, Running, Shape, Fields, ProgressPart, ModePart, PausePart, BoardPart, ServerPart

\* An achievement whose mode has changed is unlocked if the player has it in
\* that mode.
LEMMA ToggledAch ==
  ASSUME NEW c, NEW i, NEW bit, c.achs[i] \in Achievements
  PROVE  LET a == c.achs[i]
             t == Toggled(c, i, bit)
         IN  /\ t \in Achievements
             /\ ~c.setup.encore /\ t.st # "disabled" => (t.st = "unlocked" <=> bit \in t.unlocked)
             /\ t.st = "active" /\ t.soft => a.soft
             /\ t.pending = a.pending
             /\ Wants(t) => Wants(a)
             /\ Wants(a) => (Wants(t) <=> ~(a.st = "active" /\ t.st = "unlocked" /\ a.trig = "primed"))
<1> DEFINE a == c.achs[i]
<1>1. /\ Restarted(a) \in Achievements /\ Restarted(a).trig = "waiting" /\ ~Restarted(a).soft
      /\ Restarted(a).pending = a.pending /\ Restarted(a).unlocked = a.unlocked
  <2>1. Unknown \in Int
    BY DEF Unknown
  <2>2. QED
    BY <2>1 DEF Restarted, Achievements
<1>2. CASE bit \notin a.unlocked /\ a.st \in {"unlocked", "inactive"}
  <2>1. Toggled(c, i, bit) = [Restarted(a) EXCEPT !.st = "active"]
    BY <1>2 DEF Toggled
  <2> DEFINE r == Restarted(a)
  <2> HIDE DEF r
  <2>2. [r EXCEPT !.st = "active"] \in Achievements /\ [r EXCEPT !.st = "active"].trig = r.trig
        /\ [r EXCEPT !.st = "active"].st = "active" /\ [r EXCEPT !.st = "active"].unlocked = r.unlocked
        /\ [r EXCEPT !.st = "active"].pending = r.pending /\ [r EXCEPT !.st = "active"].soft = r.soft
    BY <1>1 DEF Achievements, r
  <2>3. QED
    BY <1>1, <1>2, <2>1, <2>2 DEF r, Wants
<1>3. CASE bit \notin a.unlocked /\ a.st \notin {"unlocked", "inactive"}
  <2>1. Toggled(c, i, bit) = a
    BY <1>3 DEF Toggled
  <2>2. QED
    BY <1>3, <2>1 DEF Wants, Achievements
<1>4. CASE bit \in a.unlocked /\ (a.st \notin {"active", "inactive"} \/ c.setup.encore)
  <2>1. Toggled(c, i, bit) = a
    BY <1>4 DEF Toggled
  <2>2. QED
    BY <1>4, <2>1 DEF Wants, Achievements
<1>5. CASE bit \in a.unlocked /\ ~(a.st \notin {"active", "inactive"} \/ c.setup.encore)
  <2>1. Toggled(c, i, bit) = [a EXCEPT !.st = "unlocked", !.trig = IF TrigActive(@) THEN "triggered" ELSE @]
    BY <1>5 DEF Toggled
  <2>2. QED
    BY <1>5, <2>1 DEF Wants, Achievements
<1>6. QED
  BY <1>2, <1>3, <1>4, <1>5

\* So are they all after the loop, and the challenges shown are those that are
\* on.
LEMMA TogglesAchs ==
  ASSUME NEW c, Shape(c), c.achs \in Seq(Achievements), Challenges(c), NEW bit
  PROVE  LET d == ToggleHardcoreAchievements(c, bit)
         IN  /\ LeavesRest(c, d) /\ d.flags = c.flags
             /\ d.achs \in Seq(Achievements) /\ DOMAIN d.achs = DOMAIN c.achs
             /\ Running(d) /\ Challenges(d)
             /\ bit = Mode(c) => Standing(d)
             /\ \A i \in DOMAIN c.achs : d.achs[i].st = "active" /\ d.achs[i].soft => c.achs[i].soft
<1> DEFINE n == Len(c.achs)
           w == <<"toggle", bit>>
           z == Toggling(c, bit, n)
           d == UpdateActiveAchievements(z)
<1>0. n \in Nat /\ DOMAIN c.achs = 1 .. n /\ w[1] = "toggle" /\ w[1] \in AchSteps
  BY DEF AchSteps
<1>1. Ran(w, c, n, z)
  BY <1>0, ToggleRan
<1>2. ToggleHardcoreAchievements(c, bit) = d
  BY Zenon DEF ToggleHardcoreAchievements, Toggling
<1> HIDE DEF z, w, n
<1>14. PICK g : AchLooped(w, c, g, z)
  BY <1>0, <1>1, AchLoop DEF n
<1>3. Leaves("toggle", c, z)
  BY <1>0, <1>14 DEF AchLooped
<1>4. LeavesRest(c, z) /\ z.flags = c.flags
  BY <1>3 DEF Leaves, LeavesRest, NewFlags, TrackerSteps, BoardSteps, ServerSteps, AchSteps
<1>5. ASSUME NEW i \in 1 .. n
      PROVE  /\ z.achs[i] = Toggled(g[i - 1], i, bit) /\ g[i - 1].achs[i] = c.achs[i] /\ g[i - 1].setup = c.setup
             /\ (Lit(z, i) <=> Lit(c, i) /\ ~(c.achs[i].st = "active" /\ z.achs[i].st = "unlocked" /\ c.achs[i].trig = "primed"))
  <2>1. /\ g[i] = Step(w, g[i - 1], i) /\ Shape(g[i - 1]) /\ Leaves("toggle", c, g[i - 1])
        /\ g[i - 1].achs[i] = c.achs[i] /\ (Lit(g[i - 1], i) <=> Lit(c, i))
        /\ z.achs[i] = g[i].achs[i] /\ (Lit(z, i) <=> Lit(g[i], i)) /\ i \in DOMAIN g[i - 1].achs
    BY <1>0, <1>14 DEF AchLooped, n
  <2>2. g[i] = ToggleAchievement(g[i - 1], i, bit)
    BY <2>1 DEF Step, w
  <2>3. g[i].achs[i] = Toggled(g[i - 1], i, bit)
        /\ (Lit(g[i], i) <=> Lit(g[i - 1], i) /\ ~(c.achs[i].st = "active" /\ g[i].achs[i].st = "unlocked" /\ c.achs[i].trig = "primed"))
    BY <2>1, <2>2, ToggleStep
  <2>4. g[i - 1].setup = c.setup
    BY <2>1 DEF Leaves, ModePart
  <2>5. QED
    BY <2>1, <2>3, <2>4
<1>6. DOMAIN z.achs = 1 .. n /\ IsAFunction(z.achs) /\ \A i : i \notin 1 .. n => (Lit(z, i) <=> Lit(c, i))
  BY <1>0, <1>14 DEF AchLooped, n
<1>7. ASSUME NEW i \in 1 .. n
      PROVE  LET a == c.achs[i]
                 t == z.achs[i]
             IN  /\ t \in Achievements
                 /\ ~c.setup.encore /\ t.st # "disabled" => (t.st = "unlocked" <=> bit \in t.unlocked)
                 /\ t.st = "active" /\ t.soft => a.soft
                 /\ t.pending = {}
                 /\ Wants(t) <=> Lit(z, i)
  <2>1. c.achs[i] \in Achievements /\ c.achs[i].pending = {} /\ (Lit(c, i) <=> Wants(c.achs[i]))
    BY <1>0 DEF Challenges, Lit
  <2>2. LET a == c.achs[i]
            t == z.achs[i]
        IN  /\ t \in Achievements
            /\ ~c.setup.encore /\ t.st # "disabled" => (t.st = "unlocked" <=> bit \in t.unlocked)
            /\ t.st = "active" /\ t.soft => a.soft
            /\ t.pending = a.pending
            /\ Wants(t) => Wants(a)
            /\ Wants(a) => (Wants(t) <=> ~(a.st = "active" /\ t.st = "unlocked" /\ a.trig = "primed"))
    BY <1>5, <2>1, ToggledAch
  <2>3. QED
    BY <1>5, <2>1, <2>2
<1>8. z.achs \in Seq(Achievements)
  BY <1>0, <1>6, <1>7 DEF IsAFunction
<1>9. /\ LeavesRest(z, d) /\ d.flags = z.flags /\ d.achs = z.achs /\ d.host = z.host /\ Running(d)
  BY <1>4, UpdateActiveLists DEF LeavesRest
<1> HIDE DEF d
<1>10. LeavesRest(c, d)
  BY <1>4, <1>9 DEF LeavesRest
<1>11. Challenges(d)
  <2>1. \A i \in 1 .. n : i \in z.host.challenges <=> Wants(z.achs[i])
    BY <1>7 DEF Lit
  <2>2. \A i : i \notin 1 .. n => i \notin z.host.challenges
    BY <1>0, <1>6 DEF Lit, Challenges
  <2>3. z.host.challenges = {i \in 1 .. n : Wants(z.achs[i])}
    BY <2>1, <2>2
  <2>4. QED
    BY <1>6, <1>7, <1>9, <2>3 DEF Challenges
<1>12. bit = Mode(c) => Standing(d)
  <2>1. d.setup = c.setup /\ d.hardcore = c.hardcore
    BY <1>10 DEF LeavesRest, ModePart
  <2>2. QED
    BY <1>6, <1>7, <1>9, <2>1 DEF Standing, Mode
<1>13. QED
  BY <1>0, <1>2, <1>4, <1>6, <1>7, <1>8, <1>9, <1>10, <1>11, <1>12

\* What depends on the state of the achievements alone.
LEMMA StandingKept ==
  ASSUME NEW c, NEW d, ModePart(d) = ModePart(c), DOMAIN d.achs = DOMAIN c.achs, d.running = c.running,
         \A i \in DOMAIN c.achs : d.achs[i].st = c.achs[i].st /\ d.achs[i].unlocked = c.achs[i].unlocked,
         Standing(c), Running(c)
  PROVE  Standing(d) /\ Running(d)
BY DEF ModePart, Standing, Running, Mode

\* A frame's triggers.
LEMMA ProcessesAchs ==
  ASSUME NEW c, Shape(c), c.achs \in Seq(Achievements), Challenges(c), Standing(c), Running(c), Clean(c),
         ~c.waiting, c.hardcore \in BOOLEAN,
         NEW os, \A i \in DOMAIN c.achs : os[i] \in FrameOf(c.achs[i])
  PROVE  LET d == Processing(c, os, Len(c.achs)) IN Leaves("process", c, d) /\ Due(d)
<1> DEFINE n == Len(c.achs)
           w == <<"process", os>>
           d == Processing(c, os, n)
<1>0. n \in Nat /\ DOMAIN c.achs = 1 .. n /\ w[1] = "process" /\ w[1] \in AchSteps
  BY DEF AchSteps
<1>1. Ran(w, c, n, d)
  BY <1>0, ProcessRan
<1> HIDE DEF d, w, n
<1>2. PICK g : AchLooped(w, c, g, d)
  BY <1>0, <1>1, AchLoop DEF n
<1>3. Leaves("process", c, d)
  BY <1>0, <1>2 DEF AchLooped
<1>4. DOMAIN d.achs = 1 .. n /\ IsAFunction(d.achs) /\ \A i : i \notin 1 .. n => (Lit(d, i) <=> Lit(c, i))
  BY <1>0, <1>2 DEF AchLooped, n
<1>5. d.running = c.running
  BY <1>0, <1>2 DEF AchLooped
<1>6. ModePart(d) = ModePart(c) /\ c.flags \subseteq d.flags
  BY <1>3 DEF Leaves
<1>7. ASSUME NEW i \in 1 .. n
      PROVE  LET a == c.achs[i]
                 b == d.achs[i]
             IN  /\ a \in Achievements /\ b \in Achievements /\ b.st = a.st /\ b.unlocked = a.unlocked
                 /\ (RaisedLit(b, Lit(d, i)) <=> Wants(b))
                 /\ "triggered" \in b.pending => b.trig = "triggered"
                 /\ b.pending # {} => "achievement" \in d.flags
                 /\ c.hardcore => b.soft = a.soft
  <2> DEFINE a == c.achs[i]
             o == os[i]
             x == g[i - 1]
             leads == NewLead(x, i, o)
             news == (IF leads THEN {"update"} ELSE {}) \cup (IF o.trig # a.trig THEN Turned(a.trig, o.trig) ELSE {})
             b == IF a.st # "active" THEN a ELSE
                    [a EXCEPT !.trig = o.trig, !.measured = o.measured, !.soft = a.soft \/ ~c.hardcore, !.pending = a.pending \cup news]
  <2>1. a \in Achievements /\ a.pending = {} /\ (Lit(c, i) <=> Wants(a)) /\ o \in FrameOf(a)
    BY <1>0 DEF Challenges, Lit
  <2>2. /\ g[i] = Step(w, x, i) /\ Shape(x) /\ Leaves("process", c, x) /\ Leaves("process", g[i], d)
        /\ x.achs[i] = a /\ (Lit(x, i) <=> Lit(c, i))
        /\ d.achs[i] = g[i].achs[i] /\ (Lit(d, i) <=> Lit(g[i], i)) /\ i \in DOMAIN x.achs
    BY <1>0, <1>2 DEF AchLooped, n
  <2>3. g[i] = ProcessAchievement(x, i, o)
    BY <2>2 DEF Step, w
  <2>4. x.hardcore = c.hardcore
    BY <2>2 DEF Leaves, ModePart
  <2> HIDE DEF x, o, leads
  <2>5. d.achs[i] = b /\ (Lit(d, i) <=> Lit(c, i)) /\ (a.st = "active" /\ (leads \/ o.trig # a.trig) => "achievement" \in g[i].flags)
    <3>1. ProcessedAch(x, i, o, g[i])
      BY <2>2, <2>3, ProcessStep
    <3>2. x.achs[i] = a
      BY <2>2
    <3>3. QED
      BY <2>2, <2>4, <3>1, <3>2 DEF leads, ProcessedAch
  <2>6. g[i].flags \subseteq d.flags
    BY <2>2 DEF Leaves
  <2>7. a.st = "active" => o.trig \in {"waiting", "active", "paused", "primed", "triggered"} /\ o.measured \in Int
    <3>1. SUFFICES ASSUME a.st = "active" PROVE o.trig \in {"waiting", "active", "paused", "primed", "triggered"} /\ o.measured \in Int
      OBVIOUS
    <3>2. o \in TriggerOutcomes(a, a.def)
      BY <2>1, <3>1 DEF FrameOf
    <3>3. a.measured \in Int /\ a.def.values \subseteq Int
      BY <2>1 DEF Achievements, AchDefs
    <3>4. QED
      BY <3>2, <3>3 DEF TriggerOutcomes
  <2>8. news \in SUBSET {"hide", "show", "triggered", "update"}
        /\ ("triggered" \in news <=> o.trig # a.trig /\ o.trig = "triggered")
        /\ ("hide" \in news <=> o.trig # a.trig /\ a.trig = "primed")
        /\ ("show" \in news <=> o.trig # a.trig /\ o.trig = "primed")
        /\ (news # {} => leads \/ o.trig # a.trig)
    BY DEF Turned
  <2>9. CASE a.st # "active"
    BY <2>1, <2>5, <2>9 DEF Wants, RaisedLit, b
  <2>10. CASE a.st = "active"
    <3> HIDE DEF news, a
    <3>1. d.achs[i] = [a EXCEPT !.trig = o.trig, !.measured = o.measured, !.soft = a.soft \/ ~c.hardcore, !.pending = news]
      BY <2>1, <2>5, <2>10
    <3>2. /\ d.achs[i].trig = o.trig /\ d.achs[i].pending = news /\ d.achs[i].st = "active" /\ d.achs[i].unlocked = a.unlocked
          /\ d.achs[i].soft = (a.soft \/ ~c.hardcore)
      BY <2>1, <2>10, <3>1 DEF Achievements
    <3>3. d.achs[i] \in Achievements
      BY <2>1, <2>7, <2>8, <2>10, <3>1 DEF Achievements
    <3>4. RaisedLit(d.achs[i], Lit(d, i)) <=> Wants(d.achs[i])
      BY <2>1, <2>5, <2>8, <2>10, <3>2 DEF RaisedLit, Wants
    <3>5. c.hardcore => d.achs[i].soft = a.soft
      BY <2>1, <3>2 DEF Achievements
    <3>6. QED
      BY <2>1, <2>5, <2>6, <2>8, <2>10, <3>2, <3>3, <3>4, <3>5 DEF a
  <2>11. QED
    BY <2>9, <2>10
<1>8. Standing(d) /\ Running(d)
  BY <1>0, <1>4, <1>5, <1>6, <1>7, StandingKept
<1>9. Clean(d)
  BY <1>0, <1>4, <1>6, <1>7 DEF Clean, ModePart
<1>10. d.achs \in Seq(Achievements)
  BY <1>0, <1>4, <1>7 DEF IsAFunction
<1>11. d.host.challenges \subseteq 1 .. n
  BY <1>0, <1>4 DEF Challenges, Lit
<1>12. Due(d)
  BY <1>4, <1>7, <1>8, <1>9, <1>10, <1>11 DEF Due
<1>13. QED
  BY <1>3, <1>12 DEF d, n

\* An announced achievement is an achievement.
LEMMA RaisedAchTyped ==
  ASSUME NEW a \in Achievements, NEW hard \in BOOLEAN PROVE RaisedFrom(a, Raised(a, hard), hard)
BY DEF Raised, Achievements, RaisedFrom

\* The events of the achievements are raised.
LEMMA RaisesAchs ==
  ASSUME NEW c, Shape(c), c.achs \in Seq(Achievements), c.hardcore \in BOOLEAN,
         NEW d, Ran(<<"raise">>, c, Len(c.achs), d)
  PROVE  /\ Leaves("raise", c, d) /\ d.achs \in Seq(Achievements) /\ DOMAIN d.achs = DOMAIN c.achs
         /\ \A i \in DOMAIN c.achs : /\ d.achs[i] = Raised(c.achs[i], c.hardcore)
                                     /\ Lit(d, i) <=> RaisedLit(c.achs[i], Lit(c, i))
                                     /\ "triggered" \in c.achs[i].pending => "update_active" \in d.flags
         /\ \A i : i \notin DOMAIN c.achs => (Lit(d, i) <=> Lit(c, i))
         /\ d.running = c.running
<1> DEFINE n == Len(c.achs)
           w == <<"raise">>
<1>0. n \in Nat /\ DOMAIN c.achs = 1 .. n /\ w[1] = "raise" /\ w[1] \in AchSteps
  BY DEF AchSteps
<1>1. PICK g : AchLooped(w, c, g, d)
  BY <1>0, AchLoop
<1> HIDE DEF w, n
<1>2. Leaves("raise", c, d)
  BY <1>0, <1>1 DEF AchLooped
<1>3. DOMAIN d.achs = 1 .. n /\ IsAFunction(d.achs) /\ \A i : i \notin 1 .. n => (Lit(d, i) <=> Lit(c, i))
  BY <1>0, <1>1 DEF AchLooped, n
<1>4. ASSUME NEW i \in 1 .. n
      PROVE  /\ d.achs[i] = Raised(c.achs[i], c.hardcore) /\ (Lit(d, i) <=> RaisedLit(c.achs[i], Lit(c, i)))
             /\ "triggered" \in c.achs[i].pending => "update_active" \in d.flags
  <2> DEFINE x == g[i - 1]
  <2>1. /\ g[i] = Step(w, x, i) /\ Shape(x) /\ Leaves("raise", c, x) /\ Leaves("raise", g[i], d)
        /\ x.achs[i] = c.achs[i] /\ (Lit(x, i) <=> Lit(c, i))
        /\ d.achs[i] = g[i].achs[i] /\ (Lit(d, i) <=> Lit(g[i], i)) /\ i \in DOMAIN x.achs
    BY <1>0, <1>1 DEF AchLooped, n
  <2>2. g[i] = RaiseAchievementEvents(x, i)
    BY <2>1 DEF Step, w
  <2>3. x.hardcore = c.hardcore
    BY <2>1 DEF Leaves, ModePart
  <2> HIDE DEF x
  <2>4. x.achs[i] = [y \in {"id", "def", "st", "unlocked", "trig", "soft", "measured", "pending"} |-> x.achs[i][y]]
    <3>1. x.achs[i] \in Achievements
      BY <1>0, <2>1
    <3>2. QED
      BY <3>1 DEF Achievements
  <2>5. /\ OnlyAch(x, g[i], i) /\ (Lit(g[i], i) <=> RaisedLit(x.achs[i], Lit(x, i)))
        /\ g[i].achs[i] = Raised(x.achs[i], x.hardcore)
        /\ g[i].flags = x.flags \cup (IF "triggered" \in x.achs[i].pending THEN {"update_active"} ELSE {})
    BY <2>1, <2>2, <2>4, RaiseStep
  <2>6. g[i].flags \subseteq d.flags
    BY <2>1 DEF Leaves
  <2>7. "triggered" \in c.achs[i].pending => "update_active" \in d.flags
    BY <2>1, <2>5, <2>6
  <2>8. d.achs[i] = Raised(c.achs[i], c.hardcore)
    BY <2>1, <2>3, <2>5
  <2>9. Lit(d, i) <=> RaisedLit(c.achs[i], Lit(c, i))
    <3>1. RaisedLit(x.achs[i], Lit(x, i)) <=> RaisedLit(c.achs[i], Lit(c, i))
      BY <2>1 DEF RaisedLit
    <3>2. QED
      BY <2>1, <2>5, <3>1, Zenon
  <2>10. QED
    BY <2>7, <2>8, <2>9
<1>5. d.achs \in Seq(Achievements)
  <2>1. ASSUME NEW i \in 1 .. n PROVE d.achs[i] \in Achievements
    <3>1. c.achs[i] \in Achievements
      BY <1>0
    <3>2. RaisedFrom(c.achs[i], Raised(c.achs[i], c.hardcore), c.hardcore)
      BY <3>1, RaisedAchTyped
    <3>3. QED
      BY <1>4, <3>2, Zenon DEF RaisedFrom
  <2>2. QED
    BY <1>0, <1>3, <2>1 DEF IsAFunction
<1>6. d.running = c.running
  BY <1>1 DEF AchLooped
<1>7. QED
  BY <1>0, <1>2, <1>3, <1>4, <1>5, <1>6

\* With what is due, the challenges that are on are shown afterwards.
LEMMA RaisesDueAchs ==
  ASSUME NEW c, Shape(c), Due(c), c.hardcore \in BOOLEAN, NEW d,
         IF "achievement" \in c.flags THEN Ran(<<"raise">>, c, Len(c.achs), d) ELSE d = c
  PROVE  /\ Leaves("raise", c, d) /\ d.achs \in Seq(Achievements) /\ Standing(d) /\ Clean(d) /\ Challenges(d)
         /\ "update_active" \in d.flags \/ Running(d)
<1>1. CASE "achievement" \notin c.flags
  <2>1. d = c /\ \A i \in DOMAIN c.achs : c.achs[i].pending = {}
    BY <1>1 DEF Due
  <2>2. \A i \in DOMAIN c.achs : Lit(c, i) <=> Wants(c.achs[i])
    BY <2>1 DEF Due, RaisedLit
  <2>3. Challenges(c)
    BY <2>1, <2>2 DEF Due, Lit, Challenges
  <2>4. QED
    BY <2>1, <2>3, LeavesItself DEF Due
<1>2. CASE "achievement" \in c.flags
  <2>0. c.achs \in Seq(Achievements) /\ Ran(<<"raise">>, c, Len(c.achs), d)
    BY <1>2 DEF Due
  <2>1. /\ Leaves("raise", c, d) /\ d.achs \in Seq(Achievements) /\ DOMAIN d.achs = DOMAIN c.achs
        /\ \A i \in DOMAIN c.achs : /\ d.achs[i] = Raised(c.achs[i], c.hardcore)
                                    /\ Lit(d, i) <=> RaisedLit(c.achs[i], Lit(c, i))
                                    /\ "triggered" \in c.achs[i].pending => "update_active" \in d.flags
        /\ \A i : i \notin DOMAIN c.achs => (Lit(d, i) <=> Lit(c, i))
        /\ d.running = c.running
    BY <2>0, RaisesAchs
  <2>2. d.setup = c.setup /\ d.hardcore = c.hardcore /\ d.waiting = c.waiting
    BY <2>1 DEF Leaves, ModePart
  <2>3. ASSUME NEW i \in DOMAIN c.achs
        PROVE  LET a == c.achs[i]
                   b == d.achs[i]
               IN  /\ b.pending = {} /\ b.soft = a.soft /\ (Lit(d, i) <=> Wants(b))
                   /\ "triggered" \notin a.pending => b.st = a.st /\ b.unlocked = a.unlocked
                   /\ "triggered" \in a.pending => b.st = "unlocked" /\ Mode(c) \in b.unlocked
    <3> DEFINE a == c.achs[i]
               b == d.achs[i]
    <3>1. a \in Achievements
      BY <2>0
    <3>2. RaisedFrom(a, b, c.hardcore)
      <4>1. RaisedFrom(a, Raised(a, c.hardcore), c.hardcore)
        BY <3>1, RaisedAchTyped
      <4>2. QED
        BY <2>1, <4>1, Zenon
    <3>3. (Lit(d, i) <=> Wants(a)) /\ ("triggered" \in a.pending => a.trig = "triggered")
      BY <2>1 DEF Due
    <3>4. QED
      BY <3>2, <3>3 DEF Wants, Mode, RaisedFrom
  <2>4. Standing(d)
    BY <2>1, <2>2, <2>3 DEF Due, Standing, Mode
  <2>5. Clean(d)
    BY <2>1, <2>2, <2>3 DEF Due, Clean
  <2>6. Challenges(d)
    <3>1. \A i : i \in d.host.challenges <=> i \in DOMAIN c.achs /\ Wants(d.achs[i])
      BY <2>1, <2>3 DEF Due, Lit
    <3>2. QED
      BY <2>1, <2>3, <3>1 DEF Challenges
  <2>7. "update_active" \in d.flags \/ Running(d)
    <3>1. SUFFICES ASSUME "update_active" \notin d.flags PROVE Running(d)
      OBVIOUS
    <3>2. \A i \in DOMAIN c.achs : d.achs[i].st = c.achs[i].st
      BY <2>1, <2>3, <3>1
    <3>3. QED
      BY <2>1, <3>2 DEF Due, Running
  <2>8. QED
    BY <2>1, <2>4, <2>5, <2>6, <2>7
<1>3. QED
  BY <1>1, <1>2

\* After a reset nothing is on, and nothing has been counted.
LEMMA ResetsAchs ==
  ASSUME NEW c, Shape(c), Ready(c)
  PROVE  LET d == ResetAchievements(c)
         IN  /\ Leaves("reset", c, d) /\ Held(d)
             /\ \A i \in DOMAIN d.achs : ~Wants(d.achs[i]) /\ (d.achs[i].st = "active" => ~d.achs[i].soft)
<1> DEFINE n == Len(c.achs)
           w == <<"reset">>
           d == ResetAchievements(c)
<1>0. c.achs \in Seq(Achievements) /\ n \in Nat /\ DOMAIN c.achs = 1 .. n /\ w[1] = "reset" /\ w[1] \in AchSteps
  BY DEF AchSteps, Ready
<1>1. Ran(w, c, n, d)
  BY <1>0, ResetRan DEF ResetAchievements
<1> HIDE DEF d, w, n
<1>2. PICK g : AchLooped(w, c, g, d)
  BY <1>0, <1>1, AchLoop DEF n
<1>3. Leaves("reset", c, d)
  BY <1>0, <1>2 DEF AchLooped
<1>4. DOMAIN d.achs = 1 .. n /\ IsAFunction(d.achs) /\ d.running = c.running /\ \A i : i \notin 1 .. n => (Lit(d, i) <=> Lit(c, i))
  BY <1>0, <1>2 DEF AchLooped, n
<1>5. ModePart(d) = ModePart(c)
  BY <1>3 DEF Leaves
<1>6. ASSUME NEW i \in 1 .. n
      PROVE  LET a == c.achs[i]
                 b == d.achs[i]
             IN  /\ b \in Achievements /\ b.st = a.st /\ b.unlocked = a.unlocked
                 /\ b.pending = (IF Lit(d, i) THEN {"hide"} ELSE {}) /\ (Lit(d, i) => b.st = "active")
                 /\ b.pending # {} => "achievement" \in d.flags
                 /\ ~Wants(b) /\ (b.st = "active" => ~b.soft)
  <2> DEFINE a == c.achs[i]
             x == g[i - 1]
             news == IF a.trig = "primed" THEN {"hide"} ELSE {}
  <2>1. /\ a \in Achievements /\ a.pending \subseteq {"hide"} /\ (Lit(c, i) <=> Wants(a))
        /\ a.pending # {} => "achievement" \in c.flags /\ Lit(c, i)
    BY <1>0 DEF Ready
  <2>2. /\ g[i] = Step(w, x, i) /\ Shape(x) /\ Leaves("reset", c, x) /\ Leaves("reset", g[i], d)
        /\ x.achs[i] = a /\ (Lit(x, i) <=> Lit(c, i))
        /\ d.achs[i] = g[i].achs[i] /\ (Lit(d, i) <=> Lit(g[i], i)) /\ i \in DOMAIN x.achs
    BY <1>0, <1>2 DEF AchLooped, n
  <2>3. g[i] = ResetAchievement(x, i)
    BY <2>2 DEF Step, w
  <2> HIDE DEF x
  <2>4. ResetAch(x, i, g[i])
    BY <2>2, <2>3, ResetStep
  <2>5. /\ d.achs[i] = IF a.st # "active" THEN a ELSE [Restarted(a) EXCEPT !.pending = @ \cup news]
        /\ (Lit(d, i) <=> Lit(c, i)) /\ (a.st = "active" /\ a.trig = "primed" => "achievement" \in g[i].flags)
    BY <2>2, <2>4 DEF ResetAch
  <2>6. g[i].flags \subseteq d.flags /\ c.flags \subseteq d.flags
    BY <1>3, <2>2 DEF Leaves
  <2>7. CASE a.st # "active"
    BY <2>1, <2>5, <2>6, <2>7 DEF Wants
  <2>8. CASE a.st = "active"
    <3>1. /\ Restarted(a) \in Achievements /\ Restarted(a).trig = "waiting" /\ ~Restarted(a).soft
          /\ Restarted(a).pending = a.pending /\ Restarted(a).unlocked = a.unlocked /\ Restarted(a).st = "active"
      <4>1. Unknown \in Int
        BY DEF Unknown
      <4>2. QED
        BY <2>1, <2>8, <4>1 DEF Restarted, Achievements
    <3> DEFINE r == Restarted(a)
    <3> HIDE DEF r
    <3>2. d.achs[i] = [r EXCEPT !.pending = a.pending \cup news]
      BY <2>5, <2>8, <3>1 DEF r
    <3>3. a.pending \cup news = IF Lit(c, i) THEN {"hide"} ELSE {}
      BY <2>1, <2>8 DEF Wants
    <3> HIDE DEF news
    <3>4. /\ d.achs[i] \in Achievements /\ d.achs[i].st = "active" /\ d.achs[i].unlocked = a.unlocked /\ d.achs[i].trig = "waiting"
          /\ ~d.achs[i].soft /\ d.achs[i].pending = IF Lit(c, i) THEN {"hide"} ELSE {}
      BY <3>1, <3>2, <3>3 DEF r, Achievements
    <3>5. QED
      BY <2>1, <2>5, <2>6, <2>8, <3>4 DEF Wants
  <2>9. QED
    BY <2>7, <2>8
<1>7. Standing(d) /\ Running(d)
  BY <1>0, <1>4, <1>5, <1>6, StandingKept DEF Ready
<1>8. d.achs \in Seq(Achievements)
  BY <1>0, <1>4, <1>6 DEF IsAFunction
<1>9. d.host.challenges \subseteq 1 .. n
  BY <1>0, <1>4 DEF Ready, Lit
<1>10. Held(d)
  BY <1>4, <1>6, <1>7, <1>8, <1>9 DEF Held
<1>11. QED
  BY <1>3, <1>4, <1>6, <1>10 DEF d

\* What is restored is looked at: a challenge that is still on stays as it is.
LEMMA RestoresAchs ==
  ASSUME NEW c, Shape(c), Held(c), Clean(c)
  PROVE  LET d == After(AfterDeserializeAch, c, Len(c.achs)) IN Leaves("restored", c, d) /\ Due(d)
<1> DEFINE n == Len(c.achs)
           w == <<"restored">>
           d == After(AfterDeserializeAch, c, n)
<1>0. c.achs \in Seq(Achievements) /\ n \in Nat /\ DOMAIN c.achs = 1 .. n /\ w[1] = "restored" /\ w[1] \in AchSteps
  BY DEF AchSteps, Held
<1>1. Ran(w, c, n, d)
  BY <1>0, RestoredRan
<1> HIDE DEF d, w, n
<1>2. PICK g : AchLooped(w, c, g, d)
  BY <1>0, <1>1, AchLoop DEF n
<1>3. Leaves("restored", c, d)
  BY <1>0, <1>2 DEF AchLooped
<1>4. DOMAIN d.achs = 1 .. n /\ IsAFunction(d.achs) /\ d.running = c.running /\ \A i : i \notin 1 .. n => (Lit(d, i) <=> Lit(c, i))
  BY <1>0, <1>2 DEF AchLooped, n
<1>5. ModePart(d) = ModePart(c)
  BY <1>3 DEF Leaves
<1>6. ASSUME NEW i \in 1 .. n
      PROVE  LET a == c.achs[i]
                 b == d.achs[i]
             IN  /\ b \in Achievements /\ b.st = a.st /\ b.unlocked = a.unlocked /\ b.soft = a.soft
                 /\ (RaisedLit(b, Lit(d, i)) <=> Wants(b)) /\ "triggered" \notin b.pending
                 /\ b.pending # {} => "achievement" \in d.flags
  <2> DEFINE a == c.achs[i]
             x == g[i - 1]
  <2>1. /\ a \in Achievements /\ a.pending = (IF Lit(c, i) THEN {"hide"} ELSE {}) /\ (Lit(c, i) => a.st = "active")
        /\ a.pending # {} => "achievement" \in c.flags
    BY <1>0 DEF Held
  <2>2. /\ g[i] = Step(w, x, i) /\ Shape(x) /\ Leaves("restored", c, x) /\ Leaves("restored", g[i], d)
        /\ x.achs[i] = a /\ (Lit(x, i) <=> Lit(c, i))
        /\ d.achs[i] = g[i].achs[i] /\ (Lit(d, i) <=> Lit(g[i], i)) /\ i \in DOMAIN x.achs
    BY <1>0, <1>2 DEF AchLooped, n
  <2>3. g[i] = AfterDeserializeAch(x, i)
    BY <2>2 DEF Step, w
  <2> HIDE DEF x
  <2>4. RestoredAch(x, i, g[i])
    BY <2>2, <2>3, RestoredStep
  <2>5. /\ d.achs[i] = IF ~Wants(a) THEN a
                       ELSE IF "hide" \in a.pending THEN [a EXCEPT !.pending = a.pending \ {"hide"}]
                       ELSE [a EXCEPT !.pending = a.pending \cup {"show"}]
        /\ (Lit(d, i) <=> Lit(c, i)) /\ (Wants(a) /\ "hide" \notin a.pending => "achievement" \in g[i].flags)
    BY <2>2, <2>4 DEF RestoredAch
  <2>6. g[i].flags \subseteq d.flags /\ c.flags \subseteq d.flags
    BY <1>3, <2>2 DEF Leaves
  <2> HIDE DEF a
  <2>7. CASE ~Wants(a)
    BY <2>1, <2>5, <2>6, <2>7 DEF RaisedLit, a
  <2>8. CASE Wants(a) /\ Lit(c, i)
    <3>1. d.achs[i] = [a EXCEPT !.pending = {}]
      BY <2>1, <2>5, <2>8
    <3>2. /\ d.achs[i] \in Achievements /\ d.achs[i].st = a.st /\ d.achs[i].unlocked = a.unlocked /\ d.achs[i].soft = a.soft
          /\ d.achs[i].trig = a.trig /\ d.achs[i].pending = {}
      BY <2>1, <3>1 DEF Achievements
    <3>3. QED
      BY <2>5, <2>8, <3>2 DEF RaisedLit, Wants, a
  <2>9. CASE Wants(a) /\ ~Lit(c, i)
    <3>1. d.achs[i] = [a EXCEPT !.pending = {"show"}]
      BY <2>1, <2>5, <2>9
    <3>2. /\ d.achs[i] \in Achievements /\ d.achs[i].st = a.st /\ d.achs[i].unlocked = a.unlocked /\ d.achs[i].soft = a.soft
          /\ d.achs[i].trig = a.trig /\ d.achs[i].pending = {"show"}
      BY <2>1, <3>1 DEF Achievements
    <3>3. "achievement" \in d.flags
      BY <2>1, <2>5, <2>6, <2>9
    <3>4. QED
      BY <2>5, <2>9, <3>2, <3>3 DEF RaisedLit, Wants, a
  <2>10. QED
    BY <2>7, <2>8, <2>9
<1>7. Standing(d) /\ Running(d)
  BY <1>0, <1>4, <1>5, <1>6, StandingKept DEF Held
<1>8. d.achs \in Seq(Achievements)
  BY <1>0, <1>4, <1>6 DEF IsAFunction
<1>9. d.host.challenges \subseteq 1 .. n
  BY <1>0, <1>4 DEF Held, Lit
<1>10. Clean(d)
  BY <1>0, <1>4, <1>5, <1>6 DEF Clean, ModePart
<1>11. Due(d)
  <2>1. \A i \in 1 .. n : "triggered" \in d.achs[i].pending => d.achs[i].trig = "triggered"
    BY <1>6
  <2>2. QED
    BY <1>4, <1>6, <1>7, <1>8, <1>9, <1>10, <2>1 DEF Due
<1>12. QED
  BY <1>3, <1>11 DEF d, n

\* What resetting leaves can be raised.
LEMMA HeldIsDue ==
  ASSUME NEW c, Held(c), Clean(c), \A i \in DOMAIN c.achs : ~Wants(c.achs[i])
  PROVE  Due(c)
<1>1. \A i \in DOMAIN c.achs : ~RaisedLit(c.achs[i], Lit(c, i)) /\ "triggered" \notin c.achs[i].pending
  BY DEF Held, RaisedLit
<1>2. QED
  BY <1>1 DEF Held, Due

\* When the challenges have been marked to be hidden, announcing them hides
\* them.
LEMMA MarkedIsHeld ==
  ASSUME NEW c, c.achs \in Seq(Achievements), Challenges(c), Standing(c), Running(c), NEW d, Marked(c, d), ModePart(d) = ModePart(c)
  PROVE  Held(d) /\ Ready(d) /\ \A i \in DOMAIN d.achs : /\ d.achs[i].soft = c.achs[i].soft /\ d.achs[i].st = c.achs[i].st
                                                           /\ d.achs[i].trig = c.achs[i].trig
<1>1. ASSUME NEW i \in DOMAIN c.achs
      PROVE  LET a == c.achs[i]
                 b == d.achs[i]
             IN  /\ b.st = a.st /\ b.unlocked = a.unlocked /\ b.soft = a.soft /\ b.trig = a.trig
                 /\ (Lit(d, i) <=> Wants(a)) /\ (Wants(b) <=> Wants(a))
                 /\ b.pending = (IF Wants(a) THEN {"hide"} ELSE {}) /\ (Wants(a) => b.st = "active")
                 /\ b.pending # {} => "achievement" \in d.flags
  <2>1. c.achs[i] \in Achievements /\ c.achs[i].pending = {} /\ (Lit(d, i) <=> Wants(c.achs[i]))
    BY DEF Challenges, Marked, Lit
  <2>2. d.achs[i] = IF Wants(c.achs[i]) THEN [c.achs[i] EXCEPT !.pending = {"hide"}] ELSE c.achs[i]
    BY DEF Marked
  <2>3. Wants(c.achs[i]) => "achievement" \in d.flags
    BY DEF Marked
  <2>4. CASE Wants(c.achs[i])
    BY <2>1, <2>2, <2>3, <2>4 DEF Achievements, Wants
  <2>5. CASE ~Wants(c.achs[i])
    <3>1. d.achs[i] = c.achs[i]
      BY <2>2, <2>5
    <3>2. QED
      BY <2>1, <2>5, <3>1
  <2>6. QED
    BY <2>4, <2>5
<1>2. Standing(d) /\ Running(d)
  BY <1>1, StandingKept DEF Marked
<1>3. d.host.challenges \subseteq DOMAIN d.achs /\ DOMAIN d.achs = DOMAIN c.achs /\ d.achs \in Seq(Achievements)
  BY DEF Challenges, Marked
<1>4. Held(d)
  BY <1>1, <1>2, <1>3 DEF Held
<1>5. Ready(d)
  BY <1>1, <1>2, <1>3 DEF Ready
<1>6. QED
  BY <1>1, <1>3, <1>4, <1>5

\* The achievements of a new game are blank.
LEMMA CopiesAchs ==
  ASSUME NEW setup \in Setups
  PROVE  LET s == CopyAchievements(setup) IN s \in Seq(Achievements) /\ \A i \in DOMAIN s : Blank(s[i])
<1> DEFINE n == Len(setup.achs)
           w == <<"copy", setup>>
           d == Copying(<<>>, setup, n)
           B == {a \in Achievements : Blank(a)}
<1>0. setup.achs \in Seq(AchDefs) /\ n \in Nat /\ DOMAIN setup.achs = 1 .. n
  BY SetupsAssumption
<1>1. Ran(w, <<>>, n, d)
  BY <1>0, CopyRan
<1>2. CopyAchievements(setup) = d
  BY Zenon DEF CopyAchievements, Copying
<1> HIDE DEF d
<1>3. PICK g : Runs(g, w, <<>>, n) /\ d = g[n]
  BY <1>1 DEF Ran
<1>4. g[0] = <<>> /\ \A k \in 0 .. n : k < n => g[k + 1] = CopyAchievement(g[k], k + 1, setup)
  <2> HIDE DEF n
  <2>1. g[0] = <<>> /\ \A k \in 0 .. n : k < n => g[k + 1] = Step(w, g[k], k + 1)
    BY <1>0, <1>3, RunsSteps
  <2>2. QED
    BY <2>1 DEF Step
<1> DEFINE S == {k \in 0 .. n : g[k] \in Seq(B)}
<1>5. 0 \in S
  <2>1. 0 \in 0 .. n
    BY <1>0
  <2>2. <<>> \in Seq(B)
    <3> HIDE DEF B
    <3>1. QED
      OBVIOUS
  <2>3. g[0] \in Seq(B)
    BY <1>4, <2>2
  <2>4. QED
    BY <2>1, <2>3
<1>6. ASSUME NEW k \in 0 .. n, k < n, k \in S PROVE k + 1 \in S
  <2> DEFINE def == setup.achs[k + 1]
             a == [id |-> k + 1, def |-> def, st |-> "inactive", unlocked |-> {}, trig |-> "waiting", soft |-> FALSE,
                   measured |-> IF def.target # 0 THEN Unknown ELSE 0, pending |-> {}]
  <2>1. k + 1 \in 1 .. n
    BY <1>0, <1>6
  <2>2. def \in AchDefs /\ k + 1 \in Nat
    BY <1>0, <2>1
  <2>3. Unknown \in Int
    BY DEF Unknown
  <2>4. g[k + 1] \in {g[k], Append(g[k], a)}
    BY <1>4, <1>6 DEF CopyAchievement
  <2>5. a \in B
    <3> HIDE DEF def
    <3>1. a \in Achievements
      BY <2>2, <2>3 DEF Achievements
    <3>2. QED
      BY <3>1 DEF Blank
  <2> HIDE DEF a, B
  <2>6. g[k + 1] \in Seq(B)
    <3>1. g[k] \in Seq(B)
      BY <1>6
    <3> DEFINE gk == g[k]
               gn == g[k + 1]
    <3>2. gk \in Seq(B) /\ gn \in {gk, Append(gk, a)}
      BY <2>4, <3>1
    <3> HIDE DEF gk, gn, S, n, w, def
    <3>3. gn \in Seq(B)
      BY <2>5, <3>2
    <3>4. QED
      BY <3>3 DEF gn
  <2>7. QED
    BY <2>1, <2>6
<1> HIDE DEF S
<1>7. \A k \in 0 .. n : k \in S
  <2> HIDE DEF n
  <2>1. QED
    BY <1>0, <1>5, <1>6, Climb
<1>8. d \in Seq(B)
  BY <1>0, <1>3, <1>7 DEF S
<1>9. QED
  BY <1>2, <1>8

\* Only the achievements are other ones.
LEMMA NewAchs ==
  ASSUME NEW c, Shape(c), NEW s
  PROVE  LET d == [c EXCEPT !.achs = s]
         IN  LeavesRest(c, d) /\ d.flags = c.flags /\ d.achs = s /\ d.running = c.running /\ d.host = c.host /\ d.server = c.server
BY DEF LeavesRest, Shape, Fields, ProgressPart, ModePart, PausePart, BoardPart, ServerPart

\* They still are, apart from what the player has,
LEMMA NewlyUnlocked ==
  ASSUME NEW c, Shape(c), c.achs \in Seq(Achievements), \A i \in DOMAIN c.achs : Blank(c.achs[i])
  PROVE  LET d == ApplyUnlocks(c)
         IN  /\ LeavesRest(c, d) /\ d.flags = c.flags /\ d.running = c.running /\ d.host = c.host
             /\ d.achs \in Seq(Achievements) /\ \A i \in DOMAIN d.achs : Blank(d.achs[i])
<1> DEFINE had(i) == IF <<c.achs[i].id, TRUE>> \in c.server THEN {"hard", "soft"}
                     ELSE IF <<c.achs[i].id, FALSE>> \in c.server THEN {"soft"} ELSE {}
           s == [i \in DOMAIN c.achs |-> [c.achs[i] EXCEPT !.unlocked = had(i)]]
           d == [c EXCEPT !.achs = s]
<1>1. ApplyUnlocks(c) = d
  BY DEF ApplyUnlocks
<1>2. ASSUME NEW i \in DOMAIN c.achs PROVE Blank(s[i])
  <2>1. Blank(c.achs[i]) /\ had(i) \in SUBSET {"hard", "soft"}
    OBVIOUS
  <2> HIDE DEF had
  <2>2. QED
    BY <2>1 DEF Blank, Achievements
<1>3. DOMAIN s = 1 .. Len(c.achs) /\ Len(c.achs) \in Nat /\ IsAFunction(s) /\ DOMAIN s = DOMAIN c.achs
  <2>1. DOMAIN s = DOMAIN c.achs /\ DOMAIN c.achs = 1 .. Len(c.achs) /\ Len(c.achs) \in Nat
    OBVIOUS
  <2>2. s = [i \in DOMAIN s |-> s[i]]
    BY Zenon
  <2>3. QED
    BY <2>1, <2>2 DEF IsAFunction
<1> HIDE DEF s
<1>4. s \in Seq(Achievements)
  BY <1>2, <1>3 DEF Blank, IsAFunction
<1>5. LeavesRest(c, d) /\ d.flags = c.flags /\ d.achs = s /\ d.running = c.running /\ d.host = c.host
  BY NewAchs
<1>6. QED
  BY <1>1, <1>2, <1>3, <1>4, <1>5

\* or the console cannot read.
LEMMA NewlyInvalid ==
  ASSUME NEW c, Shape(c), c.achs \in Seq(Achievements), \A i \in DOMAIN c.achs : Blank(c.achs[i])
  PROVE  LET d == InvalidateMemrefAchievements(c)
         IN  /\ LeavesRest(c, d) /\ d.flags = c.flags /\ d.running = c.running /\ d.host = c.host
             /\ d.achs \in Seq(Achievements) /\ \A i \in DOMAIN d.achs : Blank(d.achs[i])
<1> DEFINE s == [i \in DOMAIN c.achs |-> IF c.achs[i].def.valid THEN c.achs[i]
                                         ELSE [c.achs[i] EXCEPT !.st = "disabled", !.trig = "disabled"]]
           d == [c EXCEPT !.achs = s]
<1>1. InvalidateMemrefAchievements(c) = d
  BY DEF InvalidateMemrefAchievements
<1>2. ASSUME NEW i \in DOMAIN c.achs PROVE Blank(s[i])
  <2>1. Blank(c.achs[i])
    OBVIOUS
  <2>2. Blank([c.achs[i] EXCEPT !.st = "disabled", !.trig = "disabled"])
    BY <2>1 DEF Blank, Achievements
  <2>3. QED
    BY <2>1, <2>2
<1>3. DOMAIN s = 1 .. Len(c.achs) /\ Len(c.achs) \in Nat /\ IsAFunction(s) /\ DOMAIN s = DOMAIN c.achs
  <2>1. DOMAIN s = DOMAIN c.achs /\ DOMAIN c.achs = 1 .. Len(c.achs) /\ Len(c.achs) \in Nat
    OBVIOUS
  <2>2. s = [i \in DOMAIN s |-> s[i]]
    BY Zenon
  <2>3. QED
    BY <2>1, <2>2 DEF IsAFunction
<1> HIDE DEF s
<1>4. s \in Seq(Achievements)
  BY <1>2, <1>3 DEF Blank, IsAFunction
<1>5. LeavesRest(c, d) /\ d.flags = c.flags /\ d.achs = s /\ d.running = c.running /\ d.host = c.host
  BY NewAchs
<1>6. QED
  BY <1>1, <1>2, <1>3, <1>4, <1>5

\* The achievements of a game that has just been read are activated.
LEMMA ActivatesAchs ==
  ASSUME NEW c, Shape(c), c.achs \in Seq(Achievements), \A i \in DOMAIN c.achs : Blank(c.achs[i]), c.host.challenges = {}
  PROVE  LET d == ActivateAchievements(c)
         IN  LeavesRest(c, d) /\ d.flags = c.flags /\ d.achs \in Seq(Achievements) /\ AchInv(d)
<1>1. Challenges(c)
  BY DEF Challenges, Blank, Wants
<1> DEFINE bit == IF c.setup.encore THEN "none" ELSE Mode(c)
           d == ToggleHardcoreAchievements(c, bit)
<1>2. ActivateAchievements(c) = d
  BY DEF ActivateAchievements
<1> HIDE DEF bit
<1>3. /\ LeavesRest(c, d) /\ d.flags = c.flags
      /\ d.achs \in Seq(Achievements) /\ DOMAIN d.achs = DOMAIN c.achs
      /\ Running(d) /\ Challenges(d)
      /\ bit = Mode(c) => Standing(d)
      /\ \A i \in DOMAIN c.achs : d.achs[i].st = "active" /\ d.achs[i].soft => c.achs[i].soft
  BY <1>1, TogglesAchs
<1> HIDE DEF d
<1>4. d.setup = c.setup
  BY <1>3 DEF LeavesRest, ModePart
<1>5. Standing(d)
  BY <1>3, <1>4 DEF bit, Standing
<1>6. Clean(d)
  BY <1>3 DEF Clean, Blank
<1>7. QED
  BY <1>2, <1>3, <1>5, <1>6 DEF AchInv

-----------------------------------------------------------------------------
(* Raising what is pending, stage by stage.                                   *)

\* The events of the leaderboards are raised: nothing is pending for any.
LEMMA RaisesBoards ==
  ASSUME NEW c, Shape(c), c.boards \in Seq(Boards), NEW d, Ran(<<"raise_board">>, c, Len(c.boards), d)
  PROVE  /\ Leaves("raise_board", c, d) /\ d.trackers = c.trackers /\ d.runningBoards = c.runningBoards
         /\ d.host.trackers = c.host.trackers /\ d.flags = c.flags
         /\ d.boards = [j \in DOMAIN c.boards |-> [c.boards[j] EXCEPT !.pending = "none"]]
<1> DEFINE n == Len(c.boards)
           w == <<"raise_board">>
<1>0. n \in Nat /\ DOMAIN c.boards = 1 .. n /\ IsAFunction(c.boards)
  BY DEF IsAFunction
<1>01. ASSUME NEW j \in 1 .. n PROVE c.boards[j] \in Boards
  BY <1>0
<1>1. PICK g : Runs(g, w, c, n) /\ d = g[n]
  BY DEF Ran
<1> HIDE DEF n
<1>2. g[0] = c /\ \A k \in 0 .. n : k < n => g[k + 1] = RaiseLeaderboardEvents(g[k], k + 1)
  <2>1. g[0] = c /\ \A k \in 0 .. n : k < n => g[k + 1] = Step(w, g[k], k + 1)
    BY <1>0, <1>1, RunsSteps
  <2>2. QED
    BY <2>1 DEF Step
<1> DEFINE quiet(j) == [c.boards[j] EXCEPT !.pending = "none"]
           Till(x, k) == /\ Leaves("raise_board", c, x) /\ x.trackers = c.trackers /\ x.runningBoards = c.runningBoards
                         /\ x.host.trackers = c.host.trackers /\ x.flags = c.flags
                         /\ x.boards = [j \in 1 .. n |-> IF j <= k THEN quiet(j) ELSE c.boards[j]]
           S == {k \in 0 .. n : Till(g[k], k)}
<1>3. 0 \in S
  <2>1. c.boards = [j \in 1 .. n |-> c.boards[j]]
    BY <1>0 DEF IsAFunction
  <2>2. c.boards = [j \in 1 .. n |-> IF j <= 0 THEN quiet(j) ELSE c.boards[j]]
    BY <2>1
  <2> HIDE DEF quiet
  <2>3. QED
    BY <1>0, <1>2, <2>2, LeavesItself
<1>4. ASSUME NEW k \in 0 .. n, k < n, k \in S PROVE k + 1 \in S
  <2> DEFINE x == g[k]
             e == g[k + 1]
  <2>1. k + 1 \in 1 .. n /\ ~(k + 1 <= k) /\ Till(x, k)
    BY <1>0, <1>4
  <2>2. x.boards[k + 1] = c.boards[k + 1] /\ Shape(x)
    BY <2>1 DEF Leaves
  <2>3. x.boards[k + 1].pending \in {"none", "started", "failed", "submitted"}
    BY <1>01, <2>1, <2>2 DEF Boards
  <2>4. e = RaiseLeaderboardEvents(x, k + 1)
    BY <1>2, <1>4
  <2> HIDE DEF x, e
  <2>5. /\ Leaves("raise_board", x, e) /\ e.trackers = x.trackers /\ e.runningBoards = x.runningBoards
        /\ e.host.trackers = x.host.trackers /\ e.flags = x.flags
        /\ e.boards = IF x.boards[k + 1].pending = "none" THEN x.boards
                      ELSE [x.boards EXCEPT ![k + 1] = [x.boards[k + 1] EXCEPT !.pending = "none"]]
    <3>1. BoardRaised(x, k + 1, e)
      BY <2>2, <2>3, <2>4, RaiseBoardLeaves
    <3>2. QED
      BY <3>1 DEF BoardRaised
  <2>6. e.boards = [j \in 1 .. n |-> IF j <= k + 1 THEN quiet(j) ELSE c.boards[j]]
    <3>1. CASE x.boards[k + 1].pending = "none"
      <4>1. quiet(k + 1) = c.boards[k + 1]
        BY <1>01, <2>1, <2>2, <3>1 DEF Boards
      <4> HIDE DEF quiet
      <4>2. QED
        BY <1>0, <2>1, <2>5, <3>1, <4>1
    <3>2. CASE x.boards[k + 1].pending # "none"
      <4>1. e.boards = [x.boards EXCEPT ![k + 1] = quiet(k + 1)]
        BY <2>2, <2>5, <3>2
      <4> HIDE DEF quiet
      <4>2. QED
        BY <1>0, <2>1, <4>1
    <3>3. QED
      BY <3>1, <3>2
  <2> HIDE DEF quiet
  <2>7. Leaves("raise_board", c, e)
    BY <2>1, <2>5, LeavesTwice
  <2>8. Till(e, k + 1) /\ k + 1 \in 0 .. n
    BY <1>0, <2>1, <2>5, <2>6, <2>7
  <2>9. QED
    BY <2>8 DEF e
<1> HIDE DEF S
<1>5. n \in S
  <2>1. \A k \in 0 .. n : k \in S
    BY <1>0, <1>3, <1>4, Climb
  <2>2. n \in 0 .. n
    BY <1>0
  <2>3. QED
    BY <2>1, <2>2
<1>6. Till(d, n)
  <2> HIDE DEF Till
  <2> QED BY <1>1, <1>5 DEF S
<1>7. d.boards = [j \in DOMAIN c.boards |-> quiet(j)]
  <2> HIDE DEF quiet
  <2> QED BY <1>0, <1>6
<1>8. QED
  BY <1>6, <1>7

\* rc_client_raise_pending_events, stage by stage.
LEMMA RaisingStages == ASSUME NEW c PROVE RaisePendingEvents(c) = [RaisedLists(c) EXCEPT !.flags = {}]
BY Zenon DEF RaisePendingEvents, RaiseAchievements, RaiseLeaderboards, RaiseMastery, RaiseProgress, RaiseLists,
  RaiseTrackerEvents, RaisedTrackers, RaisedAchs, RaisedBoards, RaisedMastery, RaisedProgress, RaisedLists

\* First the trackers,
LEMMA StageTrackers ==
  ASSUME NEW c, Shape(c), c.trackers \in Seq(Trackers)
  PROVE  LET d == RaisedTrackers(c)
         IN  /\ Leaves("tracker", c, d) /\ d.flags = c.flags
             /\ IF "tracker" \in c.flags THEN Ran(<<"tracker">>, c, Len(c.trackers), d) ELSE d = c
<1>1. Len(c.trackers) \in Nat /\ <<"tracker">>[1] = "tracker"
  OBVIOUS
<1>2. "tracker" \in c.flags => Ran(<<"tracker">>, c, Len(c.trackers), RaisedTrackers(c))
  BY <1>1, RaiseTrackerRan, Zenon DEF RaisedTrackers
<1>3. "tracker" \notin c.flags => RaisedTrackers(c) = c
  BY DEF RaisedTrackers
<1>4. Leaves("tracker", c, RaisedTrackers(c))
  BY <1>1, <1>2, <1>3, RanLeaves, LeavesItself
<1>5. NewFlags("tracker") = {}
  BY DEF NewFlags, TrackerSteps, BoardSteps, ServerSteps
<1>6. QED
  BY <1>2, <1>3, <1>4, <1>5 DEF Leaves

\* then the achievements,
LEMMA StageAchs ==
  ASSUME NEW c, Shape(c), c.trackers \in Seq(Trackers), c.achs \in Seq(Achievements)
  PROVE  LET t == RaisedTrackers(c)
             d == RaisedAchs(c)
         IN  /\ Leaves("raise", t, d)
             /\ IF "achievement" \in t.flags THEN Ran(<<"raise">>, t, Len(t.achs), d) ELSE d = t
<1>1. Leaves("tracker", c, RaisedTrackers(c)) /\ RaisedTrackers(c).flags = c.flags
  BY StageTrackers
<1>2. RaisedTrackers(c).achs = c.achs /\ Shape(RaisedTrackers(c)) /\ Len(c.achs) \in Nat /\ <<"raise">>[1] = "raise"
  BY <1>1 DEF Leaves, AchPart, AchSteps
<1>3. "achievement" \in c.flags => Ran(<<"raise">>, RaisedTrackers(c), Len(c.achs), RaisedAchs(c))
  BY <1>2, RaiseRan, Zenon DEF RaisedAchs
<1>4. "achievement" \notin c.flags => RaisedAchs(c) = RaisedTrackers(c)
  BY DEF RaisedAchs
<1>5. Leaves("raise", RaisedTrackers(c), RaisedAchs(c))
  BY <1>2, <1>3, <1>4, RanLeaves, LeavesItself DEF AchSteps
<1>6. QED
  BY <1>1, <1>2, <1>3, <1>4, <1>5

\* then the leaderboards, whose news are forgotten when they are announced.
LEMMA StageBoards ==
  ASSUME NEW c, Shape(c), c.trackers \in Seq(Trackers), c.achs \in Seq(Achievements), c.boards \in Seq(Boards),
         RaisedTrackers(c).boards = c.boards
  PROVE  LET a == RaisedAchs(c)
             d == RaisedBoards(c)
         IN  /\ Leaves("raise_board", a, d) /\ d.flags = a.flags
             /\ d.trackers = a.trackers /\ d.runningBoards = a.runningBoards /\ d.host.trackers = a.host.trackers
             /\ d.boards = IF "board" \in c.flags THEN [j \in DOMAIN c.boards |-> [c.boards[j] EXCEPT !.pending = "none"]]
                           ELSE c.boards
             /\ IF "board" \in c.flags THEN Ran(<<"raise_board">>, a, Len(c.boards), d) ELSE d = a
<1> DEFINE a == RaisedAchs(c)
<1>1. Leaves("raise", RaisedTrackers(c), a)
  BY StageAchs
<1>2. a.boards = c.boards /\ Shape(a) /\ Len(c.boards) \in Nat
  BY <1>1 DEF Leaves, BoardPart, BoardSteps
<1>3. "board" \in c.flags => Ran(<<"raise_board">>, a, Len(c.boards), RaisedBoards(c))
  BY <1>2, RaiseBoardRan, Zenon DEF RaisedBoards
<1>4. "board" \notin c.flags => RaisedBoards(c) = a
  BY DEF RaisedBoards
<1> HIDE DEF a
<1>5. CASE "board" \in c.flags
  <2>1. Ran(<<"raise_board">>, a, Len(a.boards), RaisedBoards(c)) /\ a.boards \in Seq(Boards)
    BY <1>2, <1>3, <1>5
  <2> DEFINE d == RaisedBoards(c)
  <2>2. /\ Leaves("raise_board", a, d) /\ d.trackers = a.trackers /\ d.runningBoards = a.runningBoards
        /\ d.host.trackers = a.host.trackers /\ d.flags = a.flags
        /\ d.boards = [j \in DOMAIN a.boards |-> [a.boards[j] EXCEPT !.pending = "none"]]
    <3> HIDE DEF d
    <3> QED BY <1>2, <2>1, RaisesBoards DEF d
  <2>3. QED
    BY <1>2, <1>3, <1>5, <2>2 DEF a
<1>6. CASE "board" \notin c.flags
  BY <1>2, <1>4, <1>6, LeavesItself DEF a
<1>7. QED
  BY <1>5, <1>6

\* A host that hides a tracker shows the others as before.
LEMMA HideTracker ==
  ASSUME NEW h, h = [x \in HostFields |-> h[x]], NEW k, NEW v
  PROVE  HostShows(h, Hear(h, <<"tracker_hide", k>>), k, 0, v)
<1> DEFINE g == Hear(h, <<"tracker_hide", k>>)
<1>1. g = [h EXCEPT !.trackers = [x \in DOMAIN h.trackers \ {k} |-> h.trackers[x]]]
  BY DEF Hear
<1>2. g.trackers = [x \in DOMAIN h.trackers \ {k} |-> h.trackers[x]]
  BY <1>1 DEF HostFields
<1> HIDE DEF g
<1>3. QED
  BY <1>2 DEF HostShows, IsAFunction, g

\* A host that shows one shows its value, and the others as before.
LEMMA ShowTracker ==
  ASSUME NEW h, h = [x \in HostFields |-> h[x]], NEW k, NEW v, NEW n \in Nat, n > 0, NEW what \in {"tracker_show", "tracker_update"}
  PROVE  HostShows(h, Hear(h, <<what, k, v>>), k, n, v)
<1> DEFINE g == Hear(h, <<what, k, v>>)
<1>1. g = ShownTracker(h, k, v)
  BY DEF Hear
<1>2. g.trackers = [x \in DOMAIN h.trackers \cup {k} |-> IF x = k THEN v ELSE h.trackers[x]]
  BY <1>1 DEF HostFields, ShownTracker
<1> HIDE DEF g
<1>3. QED
  BY <1>2 DEF HostShows, IsAFunction, g

\* Once it is announced, a tracker is shown with its value if it has attempts,
\* and else it is not.
LEMMA RaiseTrackerStep ==
  ASSUME NEW c, Shape(c), NEW k \in DOMAIN c.trackers, c.trackers[k] \in Trackers, FitsAt(c, k),
         IsAFunction(c.trackers), IsAFunction(c.host.trackers)
  PROVE  TrackerRaised(c, k, RaiseTracker(c, k))
<1> DEFINE t     == c.trackers[k]
           shows == IF t.pending \cap {"show", "update"} # {} THEN t.raw ELSE t.display
           u     == [t EXCEPT !.pending = {}, !.display = shows]
           d     == [c EXCEPT !.trackers[k] = u]
           e     == RaiseTracker(c, k)
<1>0. Leaves("tracker", c, e)
  BY RaiseTrackerLeaves
<1>01. {"hide", "show"} \subseteq t.pending <=> "hide" \in t.pending /\ "show" \in t.pending
  OBVIOUS
<1>1. e = CASE {"hide", "show"} \subseteq t.pending -> d
            [] "hide" \in t.pending /\ "show" \notin t.pending -> Tell(d, <<"tracker_hide", k>>)
            [] "hide" \notin t.pending /\ "show" \in t.pending -> Tell(d, <<"tracker_show", k, shows>>)
            [] t.pending = {"update"} -> Tell(d, <<"tracker_update", k, shows>>)
            [] OTHER -> d
  BY DEF RaiseTracker
<1>2. u \in Trackers /\ u.pending = {} /\ u.refs = t.refs /\ u.group = t.group /\ u.fromHits = t.fromHits /\ u.raw = t.raw
  BY DEF Trackers
<1>3. /\ Shape(d) /\ d.boards = c.boards /\ d.runningBoards = c.runningBoards /\ d.host = c.host
      /\ DOMAIN d.trackers = DOMAIN c.trackers /\ IsAFunction(d.trackers) /\ d.trackers[k] = u
      /\ \A l : l # k => d.trackers[l] = c.trackers[l]
  <2> HIDE DEF u
  <2> QED BY DEF Shape, Fields, IsAFunction
<1>4. t.pending \in SUBSET {"show", "hide", "update"} /\ t.refs \in Nat
  BY DEF Trackers
<1>5. Fits(t, On(c, k), c.host.trackers[k])
  BY DEF FitsAt
<1>6. c.host = [x \in HostFields |-> c.host[x]]
  BY DEF Shape
<1> HIDE DEF d, u, e
<1> SUFFICES TrackerRaised(c, k, e)
  BY DEF e
<1> DEFINE Same(x) == x.boards = d.boards /\ x.trackers = d.trackers /\ x.runningBoards = d.runningBoards
<1>7. ASSUME Same(e), HostShows(c.host, e.host, k, t.refs, t.raw)
      PROVE  TrackerRaised(c, k, e)
  <2> HIDE DEF t
  <2>1. \A l : l # k => SameTracker(c, e, l)
    BY <1>3, <1>7 DEF HostShows, SameTracker, On
  <2>2. ShownAsIs(c, e, k)
    BY <1>2, <1>3, <1>7 DEF HostShows, ShownAsIs, On, t
  <2>3. QED
    BY <1>0, <1>3, <1>7, <2>1, <2>2 DEF HostShows, TrackerRaised
<1>8. ASSUME NEW what PROVE Same(Tell(d, what)) /\ Tell(d, what).host = Hear(c.host, what)
  <2>1. /\ Tell(d, what).boards = d.boards /\ Tell(d, what).trackers = d.trackers
        /\ Tell(d, what).runningBoards = d.runningBoards /\ Tell(d, what).host = Hear(d.host, what)
    BY <1>3, TellKeeps
  <2>2. QED
    BY <1>3, <2>1
<1> HIDE DEF Same
<1>9. CASE {"hide", "show"} \subseteq t.pending
  <2>1. e = d
    BY <1>1, <1>9
  <2>2. t.refs = 0 /\ ~On(c, k)
    BY <1>4, <1>5, <1>9 DEF Fits
  <2>3. HostShows(c.host, e.host, k, t.refs, t.raw)
    BY <1>3, <2>1, <2>2 DEF HostShows, On
  <2>4. QED
    BY <1>7, <2>1, <2>3 DEF Same
<1>10. CASE "hide" \in t.pending /\ "show" \notin t.pending
  <2>1. e = Tell(d, <<"tracker_hide", k>>)
    BY <1>1, <1>10
  <2>2. t.refs = 0
    BY <1>4, <1>5, <1>10 DEF Fits
  <2>3. HostShows(c.host, e.host, k, t.refs, t.raw)
    BY <1>6, <1>8, <2>1, <2>2, HideTracker
  <2>4. QED
    BY <1>7, <1>8, <2>1, <2>3
<1>11. CASE "hide" \notin t.pending /\ "show" \in t.pending
  <2>1. e = Tell(d, <<"tracker_show", k, t.raw>>)
    BY <1>1, <1>11
  <2>2. t.refs > 0
    BY <1>4, <1>5, <1>11 DEF Fits
  <2>3. HostShows(c.host, e.host, k, t.refs, t.raw)
    <3> HIDE DEF t
    <3>1. HostShows(c.host, Hear(c.host, <<"tracker_show", k, t.raw>>), k, t.refs, t.raw)
      BY <1>4, <1>6, <2>2, ShowTracker
    <3>2. QED
      BY <1>8, <2>1, <3>1
  <2>4. QED
    BY <1>7, <1>8, <2>1, <2>3
<1>12. CASE t.pending = {"update"}
  <2>1. e = Tell(d, <<"tracker_update", k, t.raw>>)
    BY <1>1, <1>12
  <2>2. t.refs > 0
    BY <1>4, <1>5, <1>12 DEF Fits
  <2>3. HostShows(c.host, e.host, k, t.refs, t.raw)
    <3> HIDE DEF t
    <3>1. HostShows(c.host, Hear(c.host, <<"tracker_update", k, t.raw>>), k, t.refs, t.raw)
      BY <1>4, <1>6, <2>2, ShowTracker
    <3>2. QED
      BY <1>8, <2>1, <3>1
  <2>4. QED
    BY <1>7, <1>8, <2>1, <2>3
<1>13. CASE t.pending = {}
  <2>1. e = d
    BY <1>1, <1>13
  <2>2. On(c, k) <=> t.refs > 0
    BY <1>4, <1>5, <1>13 DEF Fits
  <2>3. On(c, k) => c.host.trackers[k] = t.raw
    BY <1>4, <1>5, <1>13, <2>2 DEF Fits
  <2>4. HostShows(c.host, e.host, k, t.refs, t.raw)
    BY <1>3, <2>1, <2>2, <2>3 DEF HostShows, On
  <2>5. QED
    BY <1>7, <2>1, <2>4 DEF Same
<1>14. QED
  BY <1>4, <1>9, <1>10, <1>11, <1>12, <1>13
\* What raising the events of all the trackers leaves in d: the host shows those
\* that somebody uses, with their values.
TrackersAsIs(c, d) ==
  /\ Leaves("tracker", c, d) /\ d.boards = c.boards /\ d.runningBoards = c.runningBoards
  /\ DOMAIN d.trackers = DOMAIN c.trackers /\ IsAFunction(d.trackers) /\ IsAFunction(d.host.trackers)
  /\ \A k \in DOMAIN c.trackers : ShownAsIs(c, d, k)
  /\ \A k : k \notin DOMAIN c.trackers => ~On(d, k)

\* After the loop all of them are.
LEMMA RaisesTrackers ==
  ASSUME NEW c, Shape(c), Tracked(c), NEW d, Ran(<<"tracker">>, c, Len(c.trackers), d)
  PROVE  TrackersAsIs(c, d)
<1> DEFINE n == Len(c.trackers)
           w == <<"tracker">>
<1>01. c.trackers \in Seq(Trackers) /\ IsAFunction(c.host.trackers) /\ DOMAIN c.host.trackers \subseteq DOMAIN c.trackers
       /\ \A k \in DOMAIN c.trackers : FitsAt(c, k)
  BY DEF Tracked, BoardTypes, IsAFunction
<1>0. n \in Nat /\ DOMAIN c.trackers = 1 .. n /\ IsAFunction(c.trackers)
  BY <1>01 DEF IsAFunction
<1>02. ASSUME NEW k \in 1 .. n PROVE c.trackers[k] \in Trackers
  BY <1>0, <1>01
<1>1. PICK g : Runs(g, w, c, n) /\ d = g[n]
  BY DEF Ran
<1> HIDE DEF n
<1>2. g[0] = c /\ \A k \in 0 .. n : k < n => g[k + 1] = RaiseTracker(g[k], k + 1)
  <2>1. g[0] = c /\ \A k \in 0 .. n : k < n => g[k + 1] = Step(w, g[k], k + 1)
    BY <1>0, <1>1, RunsSteps
  <2>2. QED
    BY <2>1 DEF Step
<1> DEFINE Till(x, k) == /\ Leaves("tracker", c, x) /\ x.boards = c.boards /\ x.runningBoards = c.runningBoards
                         /\ DOMAIN x.trackers = DOMAIN c.trackers /\ IsAFunction(x.trackers) /\ IsAFunction(x.host.trackers)
                         /\ \A l \in 1 .. k : ShownAsIs(c, x, l)
                         /\ \A l : l \notin 1 .. k => SameTracker(c, x, l)
           S == {k \in 0 .. n : Till(g[k], k)}
<1>3. 0 \in S
  <2>1. \A l : SameTracker(c, c, l)
    BY DEF SameTracker
  <2>2. QED
    BY <1>0, <1>01, <1>2, <2>1, LeavesItself
<1>4. ASSUME NEW k \in 0 .. n, k < n, k \in S PROVE k + 1 \in S
  <2> DEFINE x == g[k]
             e == g[k + 1]
             m == k + 1
  <2>1. m \in 1 .. n /\ m \notin 1 .. k /\ Till(x, k) /\ k \in Nat
    BY <1>0, <1>4
  <2>2. SameTracker(c, x, m) /\ Shape(x) /\ FitsAt(c, m) /\ c.trackers[m] \in Trackers
    BY <1>0, <1>01, <1>02, <2>1 DEF Leaves
  <2>3. FitsAt(x, m) /\ x.trackers[m] \in Trackers /\ m \in DOMAIN x.trackers
    BY <1>0, <2>1, <2>2 DEF FitsAt, Fits, SameTracker
  <2>4. e = RaiseTracker(x, m)
    BY <1>2, <1>4
  <2> HIDE DEF x, e, m
  <2>5. TrackerRaised(x, m, e)
    BY <2>1, <2>2, <2>3, <2>4, RaiseTrackerStep
  <2>6. ASSUME NEW l \in 1 .. m PROVE ShownAsIs(c, e, l)
    <3>1. CASE l = m
      BY <2>2, <2>5, <3>1 DEF TrackerRaised, ShownAsIs, SameTracker
    <3>2. CASE l # m
      <4>1. l \in 1 .. k
        BY <2>1, <3>2 DEF m
      <4>2. ShownAsIs(c, x, l) /\ SameTracker(x, e, l)
        BY <2>1, <2>5, <3>2, <4>1 DEF TrackerRaised
      <4>3. QED
        BY <4>2 DEF ShownAsIs, SameTracker
    <3>3. QED
      BY <3>1, <3>2
  <2>7. ASSUME NEW l, l \notin 1 .. m PROVE SameTracker(c, e, l)
    <3>1. l # m /\ l \notin 1 .. k
      BY <2>1, <2>7 DEF m
    <3>2. SameTracker(c, x, l) /\ SameTracker(x, e, l)
      BY <2>1, <2>5, <3>1 DEF TrackerRaised
    <3>3. QED
      BY <3>2 DEF SameTracker
  <2>8. /\ Leaves("tracker", c, e) /\ e.boards = c.boards /\ e.runningBoards = c.runningBoards
        /\ DOMAIN e.trackers = DOMAIN c.trackers /\ IsAFunction(e.trackers) /\ IsAFunction(e.host.trackers)
    BY <2>1, <2>5, LeavesTwice DEF TrackerRaised
  <2>9. Till(e, m) /\ m \in 0 .. n
    BY <1>0, <2>1, <2>6, <2>7, <2>8
  <2>10. QED
    BY <2>9 DEF e, m
<1> HIDE DEF S
<1>5. n \in S
  <2>1. \A k \in 0 .. n : k \in S
    BY <1>0, <1>3, <1>4, Climb
  <2>2. n \in 0 .. n
    BY <1>0
  <2>3. QED
    BY <2>1, <2>2
<1>6. Till(d, n)
  <2> HIDE DEF Till
  <2> QED BY <1>1, <1>5 DEF S
<1>7. \A k : k \notin DOMAIN c.trackers => ~On(d, k)
  BY <1>0, <1>01, <1>6 DEF SameTracker, On
<1>8. QED
  BY <1>0, <1>6, <1>7 DEF TrackersAsIs

\* Whether there was anything to raise or not.
LEMMA RaisesDueTrackers ==
  ASSUME NEW c, Shape(c), Tracked(c), Announced(c)
  PROVE  TrackersAsIs(c, RaisedTrackers(c))
<1>1. c.trackers \in Seq(Trackers) /\ IsAFunction(c.host.trackers) /\ DOMAIN c.host.trackers \subseteq DOMAIN c.trackers
      /\ \A k \in DOMAIN c.trackers : FitsAt(c, k)
  BY DEF Tracked, BoardTypes, IsAFunction
<1>2. CASE "tracker" \in c.flags
  BY <1>1, <1>2, StageTrackers, RaisesTrackers
<1>3. CASE "tracker" \notin c.flags
  <2>1. RaisedTrackers(c) = c
    BY <1>3 DEF RaisedTrackers
  <2>2. ASSUME NEW k \in DOMAIN c.trackers PROVE ShownAsIs(c, c, k)
    <3>1. c.trackers[k] \in Trackers /\ c.trackers[k].pending = {} /\ FitsAt(c, k)
      BY <1>1, <1>3 DEF Announced
    <3>2. c.trackers[k].refs \in Nat
      BY <3>1 DEF Trackers
    <3>3. QED
      BY <3>1, <3>2 DEF FitsAt, Fits, ShownAsIs
  <2>3. IsAFunction(c.trackers)
    BY <1>1 DEF IsAFunction
  <2>4. QED
    BY <1>1, <2>1, <2>2, <2>3, LeavesItself DEF TrackersAsIs, On
<1>4. QED
  BY <1>2, <1>3

\* The trackers are what they were, and nothing is pending.
LEMMA AsIsIsTracked ==
  ASSUME NEW c, Tracked(c), NEW d, TrackersAsIs(c, d)
  PROVE  Tracked(d) /\ \A k \in DOMAIN d.trackers : d.trackers[k].pending = {} /\ d.trackers[k].raw = c.trackers[k].raw
<1>1. /\ d.boards = c.boards /\ DOMAIN d.trackers = DOMAIN c.trackers /\ IsAFunction(d.trackers) /\ IsAFunction(d.host.trackers)
      /\ \A k \in DOMAIN c.trackers : ShownAsIs(c, d, k)
      /\ \A k : k \notin DOMAIN c.trackers => ~On(d, k)
  BY DEF TrackersAsIs
<1>2. c.trackers \in Seq(Trackers) /\ BoardTypes(c)
  BY DEF Tracked, BoardTypes
<1>3. DOMAIN c.trackers = 1 .. Len(c.trackers) /\ Len(c.trackers) \in Nat
  BY <1>2
<1>4. d.trackers \in Seq(Trackers) /\ Len(d.trackers) = Len(c.trackers)
  BY <1>1, <1>3 DEF IsAFunction, ShownAsIs
<1>5. \A k \in DOMAIN c.trackers : FitsAt(d, k)
  <2> TAKE k \in DOMAIN c.trackers
  <2>0. c.trackers[k] \in Trackers
    BY <1>2
  <2>1. ShownAsIs(c, d, k) /\ c.trackers[k].refs \in Nat
    BY <1>1, <2>0 DEF Trackers
  <2>2. QED
    BY <2>1 DEF ShownAsIs, FitsAt, Fits
<1>6. \A k : Holders(d, k) = Holders(c, k)
  BY <1>1 DEF Holders
<1>7. DOMAIN d.host.trackers \subseteq DOMAIN d.trackers
  BY <1>1 DEF On
<1>8. BoardTypes(d)
  BY <1>1, <1>2, <1>4 DEF BoardTypes
<1>9. \A k \in DOMAIN d.trackers : d.trackers[k].refs = Cardinality(Holders(d, k)) /\ FitsAt(d, k)
  BY <1>1, <1>5, <1>6 DEF Tracked, ShownAsIs
<1>10. \A j \in DOMAIN d.boards : d.boards[j].tracker \in 0 .. Len(d.trackers)
  BY <1>1, <1>4 DEF Tracked
<1>11. \A j \in DOMAIN d.boards : d.boards[j].tracker # 0 =>
         /\ d.trackers[d.boards[j].tracker].group = d.boards[j].def.group
         /\ d.trackers[d.boards[j].tracker].fromHits = d.boards[j].def.fromHits
  <2> TAKE j \in DOMAIN d.boards
  <2> HAVE d.boards[j].tracker # 0
  <2>1. c.boards[j].tracker \in DOMAIN c.trackers
    BY <1>1, <1>3 DEF Tracked
  <2>2. QED
    BY <1>1, <2>1 DEF Tracked, ShownAsIs
<1>12. QED
  BY <1>1, <1>7, <1>8, <1>9, <1>10, <1>11 DEF Tracked, IsAFunction, ShownAsIs

\* The other events change nothing that the invariant is about.
LEMMA TellLeaves ==
  ASSUME NEW c, Shape(c), NEW e,
         e[1] \notin {"challenge_show", "challenge_hide", "tracker_show", "tracker_update", "tracker_hide", "progress_show",
                      "progress_update", "progress_hide", "disconnected", "reconnected"}
  PROVE  SameParts(c, Tell(c, e)) /\ Tell(c, e).flags = c.flags /\ Tell(c, e).fault = c.fault
BY TellKeeps DEF SameParts

\* Then the mastery is announced,
LEMMA StageMastery ==
  ASSUME NEW c, Shape(RaisedBoards(c))
  PROVE  LET d == RaisedMastery(c)
             b == RaisedBoards(c)
         IN  SameParts(b, d) /\ d.flags = b.flags /\ d.fault \in {b.fault, "mastery"}
<1> DEFINE b == RaisedBoards(c)
           x == [b EXCEPT !.mastery = "shown"]
           y == [b EXCEPT !.fault = "mastery"]
<1>1. RaisedMastery(c) \in {b, Tell(x, <<"completed">>), y}
  BY DEF RaisedMastery, RaiseMasteryEvent
<1> HIDE DEF b
<1>2. Shape(b)
  BY DEF b
<1>3. SameParts(b, x) /\ x.flags = b.flags /\ x.fault = b.fault
  BY <1>2 DEF SameParts, Shape, Fields, ModePart, PausePart, AchPart, BoardPart, ProgressPart, ServerPart
<1>4. SameParts(b, y) /\ y.flags = b.flags /\ y.fault = "mastery"
  BY <1>2 DEF SameParts, Shape, Fields, ModePart, PausePart, AchPart, BoardPart, ProgressPart, ServerPart
<1>5. SameParts(b, b)
  BY <1>2 DEF SameParts
<1> HIDE DEF x, y
<1>6. SameParts(x, Tell(x, <<"completed">>)) /\ Tell(x, <<"completed">>).flags = x.flags /\ Tell(x, <<"completed">>).fault = x.fault
  <2>1. Shape(x) /\ <<"completed">>[1] = "completed"
    BY <1>3 DEF SameParts
  <2>2. QED
    BY <2>1, TellLeaves
<1>7. SameParts(b, Tell(x, <<"completed">>))
  BY <1>3, <1>6 DEF SameParts
<1>8. QED
  BY <1>1, <1>3, <1>4, <1>5, <1>6, <1>7 DEF b

\* and the progress indicator is shown, updated or hidden.
LEMMA StageProgress ==
  ASSUME NEW c, Shape(RaisedMastery(c))
  PROVE  LET d == RaisedProgress(c)
             b == RaisedMastery(c)
         IN  /\ OnlyProgress(b, d) /\ d.flags = b.flags /\ d.fault = b.fault /\ d.timer = b.timer /\ d.hides = b.hides
             /\ IF "progress" \in c.flags THEN d.action = "none" /\ d.host.progress = (b.action # "hide")
                ELSE d.action = b.action /\ d.host.progress = b.host.progress
<1> DEFINE b == RaisedMastery(c)
           d == RaisedProgress(c)
           x == [b EXCEPT !.action = "none"]
           what == CASE b.action = "show" -> "progress_show" [] b.action = "hide" -> "progress_hide"
                     [] OTHER -> "progress_update"
           y == Tell(x, <<what>>)
<1>1. d = IF "progress" \in c.flags THEN y ELSE b
  BY DEF RaisedProgress, RaiseProgressTrackerEvents
<1> HIDE DEF b, d
<1>2. Shape(b)
  BY DEF b
<1>3. SUFFICES /\ OnlyProgress(b, d) /\ d.flags = b.flags /\ d.fault = b.fault /\ d.timer = b.timer /\ d.hides = b.hides
               /\ IF "progress" \in c.flags THEN d.action = "none" /\ d.host.progress = (b.action # "hide")
                  ELSE d.action = b.action /\ d.host.progress = b.host.progress
  BY DEF b, d
<1>4. /\ OnlyProgress(b, x) /\ x.flags = b.flags /\ x.fault = b.fault /\ x.timer = b.timer /\ x.hides = b.hides
      /\ x.action = "none" /\ x.host = b.host
  BY <1>2 DEF OnlyProgress, Shape, Fields, ModePart, PausePart, AchPart, BoardPart, ServerPart
<1>5. what \in {"progress_show", "progress_hide", "progress_update"} /\ (what = "progress_hide" <=> b.action = "hide")
  OBVIOUS
<1> HIDE DEF x, what
<1>6. <<what>>[1] = what /\ Shape(x) /\ x.host = [z \in HostFields |-> x.host[z]]
  BY <1>4 DEF OnlyProgress, Shape
<1>7. /\ Shape(y) /\ ModePart(y) = ModePart(x) /\ PausePart(y) = PausePart(x) /\ y.flags = x.flags /\ y.fault = x.fault
      /\ y.timer = x.timer /\ y.action = x.action /\ y.hides = x.hides /\ y.host = Hear(x.host, <<what>>)
      /\ AchPart(y) = AchPart(x) /\ BoardPart(y) = BoardPart(x) /\ ServerPart(y) = ServerPart(x)
  <2> DEFINE e == <<what>>
  <2>1. e[1] \in {"progress_show", "progress_hide", "progress_update"}
    BY <1>5, <1>6
  <2>2. y = Tell(x, e)
    BY DEF y
  <2> HIDE DEF e, y
  <2>3. /\ Shape(y) /\ ModePart(y) = ModePart(x) /\ PausePart(y) = PausePart(x) /\ y.flags = x.flags /\ y.fault = x.fault
        /\ y.timer = x.timer /\ y.action = x.action /\ y.hides = x.hides /\ y.host = Hear(x.host, e)
    BY <1>6, <2>2, TellKeeps
  <2>4. AchPart(y) = AchPart(x) /\ BoardPart(y) = BoardPart(x) /\ ServerPart(y) = ServerPart(x)
    BY <1>6, <2>1, <2>2, TellKeeps
  <2>5. QED
    BY <2>3, <2>4 DEF e
<1>8. y.host.progress = (b.action # "hide")
  <2>1. CASE what = "progress_hide"
    <3>1. Hear(x.host, <<what>>).progress = FALSE
      BY <1>6, <2>1 DEF Hear, HostFields
    <3>2. QED
      BY <1>5, <1>7, <2>1, <3>1
  <2>2. CASE what # "progress_hide"
    <3>1. Hear(x.host, <<what>>).progress = TRUE
      BY <1>5, <1>6, <2>2 DEF Hear, HostFields
    <3>2. QED
      BY <1>5, <1>7, <2>2, <3>1
  <2>3. QED
    BY <2>1, <2>2
<1>9. OnlyProgress(b, y) /\ OnlyProgress(b, b)
  BY <1>2, <1>4, <1>7 DEF OnlyProgress
<1> HIDE DEF y
<1>10. QED
  BY <1>1, <1>4, <1>7, <1>8, <1>9

\* The stages, one after the other.
LEMMA StagesTo ==
  ASSUME NEW c, Raisable(c)
  PROVE  /\ TrackersAsIs(c, RaisedTrackers(c)) /\ RaisedTrackers(c).flags = c.flags
         /\ Leaves("raise", RaisedTrackers(c), RaisedAchs(c))
         /\ Leaves("raise_board", RaisedAchs(c), RaisedBoards(c)) /\ RaisedBoards(c).flags = RaisedAchs(c).flags
         /\ SameParts(RaisedBoards(c), RaisedMastery(c)) /\ RaisedMastery(c).flags = RaisedBoards(c).flags
         /\ OnlyProgress(RaisedMastery(c), RaisedProgress(c)) /\ RaisedProgress(c).flags = RaisedMastery(c).flags
         /\ Shape(RaisedTrackers(c)) /\ Shape(RaisedAchs(c)) /\ Shape(RaisedBoards(c)) /\ Shape(RaisedMastery(c))
         /\ Shape(RaisedProgress(c))
<1>1. Shape(c) /\ c.achs \in Seq(Achievements) /\ c.trackers \in Seq(Trackers) /\ c.boards \in Seq(Boards) /\ Tracked(c) /\ Announced(c)
  BY DEF Raisable, Tracked, BoardTypes
<1>2. TrackersAsIs(c, RaisedTrackers(c)) /\ RaisedTrackers(c).flags = c.flags /\ Shape(RaisedTrackers(c))
      /\ RaisedTrackers(c).boards = c.boards
  BY <1>1, RaisesDueTrackers, StageTrackers DEF TrackersAsIs, Leaves
<1>3. Leaves("raise", RaisedTrackers(c), RaisedAchs(c)) /\ Shape(RaisedAchs(c))
  BY <1>1, StageAchs DEF Leaves
<1>4. Leaves("raise_board", RaisedAchs(c), RaisedBoards(c)) /\ RaisedBoards(c).flags = RaisedAchs(c).flags /\ Shape(RaisedBoards(c))
  BY <1>1, <1>2, StageBoards DEF Leaves
<1>5. SameParts(RaisedBoards(c), RaisedMastery(c)) /\ RaisedMastery(c).flags = RaisedBoards(c).flags /\ Shape(RaisedMastery(c))
  BY <1>4, StageMastery DEF SameParts
<1>6. OnlyProgress(RaisedMastery(c), RaisedProgress(c)) /\ RaisedProgress(c).flags = RaisedMastery(c).flags /\ Shape(RaisedProgress(c))
  BY <1>5, StageProgress DEF OnlyProgress
<1>7. QED
  BY <1>2, <1>3, <1>4, <1>5, <1>6

\* The last stages: the lists, and no flags.
LEMMA StageLast ==
  ASSUME NEW c, Shape(RaisedProgress(c))
  PROVE  LET d == RaisePendingEvents(c)
             p == RaisedProgress(c)
         IN  /\ LeavesRest(p, d) /\ d.flags = {} /\ d.achs = p.achs /\ d.host = p.host
             /\ IF "update_active" \in p.flags THEN Running(d) ELSE d.running = p.running
<1> DEFINE p == RaisedProgress(c)
           l == RaisedLists(c)
           d == [l EXCEPT !.flags = {}]
<1>1. RaisePendingEvents(c) = d
  BY RaisingStages
<1>2. /\ LeavesRest(p, l) /\ l.achs = p.achs /\ l.host = p.host
      /\ IF "update_active" \in p.flags THEN Running(l) ELSE l.running = p.running
  <2>1. CASE "update_active" \in p.flags
    <3>1. l = UpdateActiveAchievements(p)
      BY <2>1 DEF RaisedLists
    <3> HIDE DEF p, l
    <3>2. Shape(p)
      BY DEF p
    <3>3. QED
      BY <2>1, <3>1, <3>2, UpdateActiveLists
  <2>2. CASE "update_active" \notin p.flags
    <3>1. l = p
      BY <2>2 DEF RaisedLists
    <3>2. QED
      BY <2>2, <3>1 DEF LeavesRest
  <2>3. QED
    BY <2>1, <2>2
<1> HIDE DEF p, l
<1>3. Shape(l)
  BY <1>2 DEF LeavesRest
<1>4. LeavesRest(l, d) /\ d.flags = {} /\ d.achs = l.achs /\ d.host = l.host /\ d.running = l.running
  BY <1>3 DEF LeavesRest, Shape, Fields, ProgressPart, ModePart, PausePart, BoardPart, ServerPart
<1> HIDE DEF d
<1>5. LeavesRest(p, d)
  BY <1>2, <1>4 DEF LeavesRest
<1>6. Running(l) => Running(d)
  BY <1>4 DEF Running
<1>7. QED
  BY <1>1, <1>2, <1>4, <1>5, <1>6 DEF p

\* Raising what is pending leaves the mode and the pause delay alone.
LEMMA RaisingLeaves ==
  ASSUME NEW c, Raisable(c)
  PROVE  LET d == RaisePendingEvents(c)
         IN  Shape(d) /\ ModePart(d) = ModePart(c) /\ PausePart(d) = PausePart(c) /\ d.flags = {}
             /\ d.fault \in {c.fault, "mastery"}
<1>0. Shape(RaisedBoards(c))
  BY StagesTo
<1>1. /\ Leaves("tracker", c, RaisedTrackers(c)) /\ Leaves("raise", RaisedTrackers(c), RaisedAchs(c))
      /\ Leaves("raise_board", RaisedAchs(c), RaisedBoards(c)) /\ SameParts(RaisedBoards(c), RaisedMastery(c))
      /\ OnlyProgress(RaisedMastery(c), RaisedProgress(c)) /\ Shape(RaisedProgress(c)) /\ Shape(RaisedMastery(c))
  BY StagesTo DEF TrackersAsIs
<1>2. /\ LeavesRest(RaisedProgress(c), RaisePendingEvents(c)) /\ RaisePendingEvents(c).flags = {}
      /\ RaisedProgress(c).fault = RaisedMastery(c).fault /\ RaisedMastery(c).fault \in {RaisedBoards(c).fault, "mastery"}
  BY <1>0, <1>1, StageLast, StageProgress, StageMastery
<1>3. QED
  BY <1>1, <1>2 DEF Leaves, SameParts, OnlyProgress, LeavesRest

\* The achievements: the challenges that are on are shown, and the list is made.
LEMMA RaisingAchs ==
  ASSUME NEW c, Raisable(c), Due(c)
  PROVE  AchInv(RaisePendingEvents(c))
<1> DEFINE t == RaisedTrackers(c)
           a == RaisedAchs(c)
           p == RaisedProgress(c)
           d == RaisePendingEvents(c)
<1>1. /\ Leaves("tracker", c, t) /\ Leaves("raise", t, a) /\ Shape(t) /\ Shape(a) /\ Shape(p) /\ t.flags = c.flags
      /\ Leaves("raise_board", a, RaisedBoards(c)) /\ SameParts(RaisedBoards(c), RaisedMastery(c))
      /\ OnlyProgress(RaisedMastery(c), p) /\ p.flags = a.flags
  BY StagesTo DEF TrackersAsIs
<1>2. IF "achievement" \in t.flags THEN Ran(<<"raise">>, t, Len(t.achs), a) ELSE a = t
  BY StageAchs DEF Raisable, Tracked, BoardTypes
<1>3. /\ LeavesRest(p, d) /\ d.achs = p.achs /\ d.host = p.host
      /\ IF "update_active" \in p.flags THEN Running(d) ELSE d.running = p.running
  BY <1>1, StageLast
<1> HIDE DEF t, a, p, d
<1>4. AchPart(t) = AchPart(c) /\ ModePart(t) = ModePart(c)
  BY <1>1 DEF Leaves, AchSteps
<1>5. Due(t) /\ t.hardcore \in BOOLEAN
  <2>1. t.achs = c.achs /\ t.running = c.running /\ t.host.challenges = c.host.challenges
        /\ t.setup = c.setup /\ t.hardcore = c.hardcore /\ t.waiting = c.waiting
    BY <1>4 DEF AchPart, ModePart
  <2>2. QED
    BY <1>1, <2>1 DEF Due, Lit, Standing, Mode, Running, Clean, Raisable
<1>6. /\ a.achs \in Seq(Achievements) /\ Standing(a) /\ Clean(a) /\ Challenges(a)
      /\ "update_active" \in a.flags \/ Running(a)
  BY <1>1, <1>2, <1>5, RaisesDueAchs
<1>7. AchPart(p) = AchPart(a) /\ ModePart(p) = ModePart(a)
  BY <1>1 DEF Leaves, SameParts, OnlyProgress, AchSteps
<1>8. /\ d.achs = a.achs /\ d.host.challenges = a.host.challenges /\ ModePart(d) = ModePart(a)
      /\ "update_active" \notin a.flags => d.running = a.running
  BY <1>1, <1>3, <1>7 DEF AchPart, LeavesRest
<1>9. d.setup = a.setup /\ d.hardcore = a.hardcore /\ d.waiting = a.waiting
  BY <1>8 DEF ModePart
<1>10. Running(d)
  BY <1>1, <1>3, <1>6, <1>8 DEF Running
<1>11. Standing(d) /\ Clean(d) /\ Challenges(d)
  BY <1>6, <1>8, <1>9 DEF Standing, Mode, Clean, Challenges
<1>12. QED
  BY <1>6, <1>8, <1>10, <1>11 DEF AchInv, d

\* After all stages the trackers have been announced and the host shows those
\* with attempts.
LEMMA RaisingTrackers ==
  ASSUME NEW c, Raisable(c)
  PROVE  LET d == RaisePendingEvents(c)
         IN  /\ Tracked(d) /\ Quieted(c, d)
             /\ \A k \in DOMAIN d.trackers : d.trackers[k].pending = {} /\ d.trackers[k].raw = c.trackers[k].raw
             /\ \A k : On(d, k) => k \in DOMAIN c.trackers /\ c.trackers[k].refs > 0
<1> DEFINE t == RaisedTrackers(c)
           a == RaisedAchs(c)
           b == RaisedBoards(c)
           p == RaisedProgress(c)
           d == RaisePendingEvents(c)
<1>1. /\ TrackersAsIs(c, t) /\ Leaves("raise", t, a) /\ SameParts(b, RaisedMastery(c)) /\ OnlyProgress(RaisedMastery(c), p)
      /\ Shape(p)
  BY StagesTo
<1>2. LeavesRest(p, d)
  BY <1>1, StageLast
<1>3. Tracked(c) /\ c.boards \in Seq(Boards) /\ c.trackers \in Seq(Trackers) /\ Shape(c) /\ c.achs \in Seq(Achievements)
  BY DEF Raisable, Tracked, BoardTypes
<1>4. t.boards = c.boards /\ t.runningBoards = c.runningBoards
  BY <1>1 DEF TrackersAsIs
<1>5. /\ b.trackers = a.trackers /\ b.runningBoards = a.runningBoards /\ b.host.trackers = a.host.trackers
      /\ b.boards = IF "board" \in c.flags THEN [j \in DOMAIN c.boards |-> [c.boards[j] EXCEPT !.pending = "none"]]
                    ELSE c.boards
  BY <1>3, <1>4, StageBoards
<1>6. Tracked(t) /\ \A k \in DOMAIN t.trackers : t.trackers[k].pending = {} /\ t.trackers[k].raw = c.trackers[k].raw
  BY <1>1, <1>3, AsIsIsTracked
<1> HIDE DEF t, a, b, p, d
<1>7. BoardPart(a) = BoardPart(t)
  BY <1>1 DEF Leaves, BoardSteps
<1>8. BoardPart(d) = BoardPart(b)
  BY <1>1, <1>2 DEF SameParts, OnlyProgress, LeavesRest
<1>9. d.trackers = t.trackers /\ d.runningBoards = c.runningBoards /\ d.host.trackers = t.host.trackers /\ d.boards = b.boards
  BY <1>4, <1>5, <1>7, <1>8 DEF BoardPart
<1>10. Quieted(c, d)
  BY <1>5, <1>9 DEF Quieted
<1>11. /\ DOMAIN d.boards = DOMAIN t.boards
       /\ \A j \in DOMAIN d.boards : d.boards[j].def = t.boards[j].def /\ d.boards[j].tracker = t.boards[j].tracker
                                     /\ d.boards[j] \in Boards
  <2>1. \A j \in DOMAIN c.boards : c.boards[j] \in Boards
    BY <1>3
  <2>2. ASSUME NEW j \in DOMAIN c.boards
        PROVE  d.boards[j].def = c.boards[j].def /\ d.boards[j].tracker = c.boards[j].tracker /\ d.boards[j] \in Boards
    BY <1>10, <2>1 DEF Quieted, Boards
  <2>3. QED
    BY <1>4, <1>10, <2>2 DEF Quieted
<1>12. d.boards \in Seq(Boards)
  <2>1. DOMAIN t.boards = 1 .. Len(t.boards) /\ Len(t.boards) \in Nat
    BY <1>3, <1>4
  <2>2. IsAFunction(d.boards)
    <3>1. IsAFunction(c.boards)
      BY <1>3 DEF IsAFunction
    <3>2. QED
      BY <1>5, <1>9, <3>1 DEF IsAFunction
  <2>3. QED
    BY <1>11, <2>1, <2>2 DEF IsAFunction
<1>13. \A k : Holders(d, k) = Holders(t, k)
  BY <1>11 DEF Holders
<1>14. BoardTypes(d)
  <2>1. \A i, j \in DOMAIN d.boards :
          d.boards[i].def.group = d.boards[j].def.group => d.boards[i].def.fromHits = d.boards[j].def.fromHits
    <3>1. \A i, j \in DOMAIN t.boards :
            t.boards[i].def.group = t.boards[j].def.group => t.boards[i].def.fromHits = t.boards[j].def.fromHits
      BY <1>6 DEF Tracked, BoardTypes
    <3>2. TAKE i, j \in DOMAIN d.boards
    <3>3. i \in DOMAIN t.boards /\ j \in DOMAIN t.boards /\ d.boards[i].def = t.boards[i].def /\ d.boards[j].def = t.boards[j].def
      BY <1>11
    <3>4. QED
      BY <3>1, <3>3
  <2>2. d.trackers \in Seq(Trackers)
    BY <1>6, <1>9 DEF Tracked, BoardTypes
  <2>3. QED
    BY <1>12, <2>1, <2>2 DEF BoardTypes
<1>15. /\ d.host.trackers = [k \in DOMAIN d.host.trackers |-> d.host.trackers[k]]
       /\ DOMAIN d.host.trackers \subseteq DOMAIN d.trackers
       /\ \A j \in DOMAIN d.boards : d.boards[j].tracker \in 0 .. Len(d.trackers)
       /\ \A k \in DOMAIN d.trackers : d.trackers[k].refs = Cardinality(Holders(d, k)) /\ FitsAt(d, k)
  BY <1>6, <1>9, <1>11, <1>13 DEF Tracked, FitsAt, On
<1>16. \A j \in DOMAIN d.boards : d.boards[j].tracker # 0 =>
         /\ d.trackers[d.boards[j].tracker].group = d.boards[j].def.group
         /\ d.trackers[d.boards[j].tracker].fromHits = d.boards[j].def.fromHits
  BY <1>6, <1>9, <1>11 DEF Tracked
<1>17. Tracked(d)
  BY <1>14, <1>15, <1>16 DEF Tracked
<1>18. \A k : On(d, k) => k \in DOMAIN c.trackers /\ c.trackers[k].refs > 0
  BY <1>1, <1>9 DEF TrackersAsIs, ShownAsIs, On
<1>19. QED
  BY <1>6, <1>9, <1>10, <1>17, <1>18 DEF d

\* The leaderboards are settled if they were fit to be announced.
LEMMA RaisingBoards ==
  ASSUME NEW c, Raisable(c), BoardsDue(c)
  PROVE  BoardInv(RaisePendingEvents(c))
<1> DEFINE d == RaisePendingEvents(c)
<1>1. /\ Tracked(d) /\ Quieted(c, d)
      /\ \A k \in DOMAIN d.trackers : d.trackers[k].pending = {} /\ d.trackers[k].raw = c.trackers[k].raw
  BY RaisingTrackers
<1> HIDE DEF d
<1>2. \A j \in DOMAIN c.boards : c.boards[j] \in Boards
  BY DEF Raisable, Tracked, BoardTypes
<1>3. ASSUME NEW j \in DOMAIN c.boards
      PROVE  d.boards[j].def = c.boards[j].def /\ d.boards[j].st = c.boards[j].st /\ d.boards[j].tracker = c.boards[j].tracker
             /\ d.boards[j].lboard = c.boards[j].lboard /\ d.boards[j].value = c.boards[j].value /\ d.boards[j].pending = "none"
  BY <1>1, <1>2 DEF Quieted, Boards, BoardsDue
<1>4. RunningBoards(d)
  BY <1>1, <1>3 DEF RunningBoards, BoardsDue, Quieted
<1>5. ASSUME NEW j \in DOMAIN d.boards PROVE Attached(d.boards[j]) /\ Valued(d, j) /\ d.boards[j].pending = "none"
  <2>1. j \in DOMAIN c.boards /\ Attached(c.boards[j]) /\ Valued(c, j)
    BY <1>1 DEF Quieted, BoardsDue
  <2>2. Attached(d.boards[j])
    BY <1>3, <2>1 DEF Attached
  <2>3. d.trackers \in Seq(Trackers) /\ d.boards[j].tracker \in 0 .. Len(d.trackers)
    BY <1>1 DEF Tracked, BoardTypes
  <2>4. d.boards[j].tracker # 0 => d.trackers[d.boards[j].tracker].raw = c.trackers[d.boards[j].tracker].raw
    BY <1>1, <2>3
  <2>5. QED
    BY <1>3, <2>1, <2>2, <2>4 DEF Valued, Attached
<1>6. QED
  BY <1>1, <1>4, <1>5 DEF BoardInv, d

\* So is the progress indicator.
LEMMA RaisingProgress ==
  ASSUME NEW c, Raisable(c), ProgressDue(c)
  PROVE  ProgressInv(RaisePendingEvents(c))
<1> DEFINE m == RaisedMastery(c)
           p == RaisedProgress(c)
           d == RaisePendingEvents(c)
<1>1. /\ Leaves("tracker", c, RaisedTrackers(c)) /\ Leaves("raise", RaisedTrackers(c), RaisedAchs(c))
      /\ Leaves("raise_board", RaisedAchs(c), RaisedBoards(c)) /\ SameParts(RaisedBoards(c), m)
      /\ OnlyProgress(m, p) /\ Shape(m) /\ Shape(p)
  BY StagesTo DEF TrackersAsIs
<1>2. /\ p.timer = m.timer /\ p.hides = m.hides
      /\ IF "progress" \in c.flags THEN p.action = "none" /\ p.host.progress = (m.action # "hide")
         ELSE p.action = m.action /\ p.host.progress = m.host.progress
  BY <1>1, StageProgress
<1>3. LeavesRest(p, d)
  BY <1>1, StageLast
<1> HIDE DEF m, p, d
<1>4. ProgressPart(m) = ProgressPart(c) /\ ModePart(p) = ModePart(c)
  BY <1>1 DEF Leaves, SameParts, OnlyProgress
<1>5. ProgressPart(d) = ProgressPart(p) /\ ModePart(d) = ModePart(c)
  BY <1>3, <1>4 DEF LeavesRest
<1>6. d.timer = c.timer /\ d.hides = c.hides /\ d.loaded = c.loaded /\ d.action = p.action /\ d.host.progress = p.host.progress
      /\ m.action = c.action /\ m.host.progress = c.host.progress
  BY <1>2, <1>4, <1>5 DEF ProgressPart, ModePart
<1>7. d.action = "none" /\ d.host.progress = d.timer
  <2>1. CASE "progress" \in c.flags
    BY <1>2, <1>6, <2>1 DEF ProgressDue
  <2>2. CASE "progress" \notin c.flags
    BY <1>2, <1>6, <2>2 DEF ProgressDue
  <2>3. QED
    BY <2>1, <2>2
<1>8. QED
  BY <1>6, <1>7 DEF ProgressInv, ProgressDue, d

-----------------------------------------------------------------------------
(* The requests.                                                             *)

\* What is said of the requests depends on them and the mode only.
LEMMA SameServer ==
  ASSUME NEW c, NEW d, ServerInv(c), ServerPart(d) = ServerPart(c), ModePart(d) = ModePart(c)
  PROVE  ServerInv(d)
<1>1. d.requests = c.requests /\ d.disconnect = c.disconnect /\ d.host.down = c.host.down
      /\ d.setup = c.setup /\ d.signed = c.signed
  BY DEF ServerPart, ModePart
<1>2. QED
  BY <1>1 DEF ServerInv, Queued

\* The numbers of n requests leave one of the first n + 1 free.
LEMMA FreshId ==
  ASSUME NEW R, R \subseteq Requests, IsFiniteSet(R)
  PROVE  \E n \in 1 .. Cardinality(R) + 1 : \A r \in R : r.id # n
<1> DEFINE ids == {r.id : r \in R}
           m == Cardinality(R)
<1>1. m \in Nat
  BY FS_CardinalityType
<1>2. IsFiniteSet(ids) /\ Cardinality(ids) <= m
  <2> DEFINE f == [r \in R |-> r.id]
  <2>1. f \in Surjection(R, ids)
    BY DEF Surjection
  <2> HIDE DEF f, ids
  <2>2. QED
    BY <2>1, FS_Surjection
<1>3. SUFFICES ASSUME \A n \in 1 .. m + 1 : \E r \in R : r.id = n PROVE FALSE
  OBVIOUS
<1>4. 1 .. m + 1 \subseteq ids
  BY <1>3
<1>5. Cardinality(1 .. m + 1) <= Cardinality(ids)
  BY <1>2, <1>4, FS_Subset
<1>6. Cardinality(1 .. m + 1) = m + 1
  BY <1>1, FS_Interval
<1>7. Cardinality(ids) \in Nat
  BY <1>2, FS_CardinalityType
<1>8. QED
  BY <1>1, <1>2, <1>5, <1>6, <1>7

\* A new request has a number of its own.
LEMMA NewIsFresh ==
  ASSUME NEW c, ServerInv(c), c.hardcore \in BOOLEAN, c.load \in Nat, NEW kind \in {"award", "submit"}, NEW of \in Nat
  PROVE  LET r == NewRequest(c, kind, of)
         IN  r \in Requests /\ \A q \in c.requests : q.id # r.id
<1> DEFINE P(n) == \A r \in c.requests : r.id # n
           n == CHOOSE n \in 1 .. Cardinality(c.requests) + 1 : P(n)
<1>1. c.requests \subseteq Requests /\ IsFiniteSet(c.requests)
  BY DEF ServerInv
<1>2. \E x \in 1 .. Cardinality(c.requests) + 1 : P(x)
  BY <1>1, FreshId
<1>3. n \in 1 .. Cardinality(c.requests) + 1 /\ P(n)
  <2> HIDE DEF P
  <2> QED BY <1>2
<1>4. Cardinality(c.requests) \in Nat
  BY <1>1, FS_CardinalityType
<1>5. NewRequest(c, kind, of) = [id |-> n, kind |-> kind, of |-> of, hard |-> c.hardcore, load |-> c.load, tries |-> 0, at |-> "sent"]
  BY DEF NewRequest
<1> HIDE DEF n
<1>6. n \in Nat \ {0}
  BY <1>3, <1>4
<1>7. QED
  BY <1>3, <1>5, <1>6 DEF Requests

\* A request that is sent, or sent again, keeps what is said of them.
LEMMA SendKeeps ==
  ASSUME NEW c, Shape(c), ServerInv(c), NEW r \in Requests, \A q \in c.requests : q.id = r.id /\ q.tries = 2 => r.tries = 2
  PROVE  ServerInv(Send(c, r))
<1> DEFINE rest == c.requests \ {q \in c.requests : q.id = r.id}
           s    == [r EXCEPT !.at = "sent"]
           new  == rest \cup {s}
           d    == [c EXCEPT !.requests = new]
           e    == [c EXCEPT !.requests = rest]
<1>1. s \in Requests /\ s.id = r.id /\ s.tries = r.tries /\ s.at = "sent"
  BY DEF Requests
<1>2. IsFiniteSet(rest) /\ IsFiniteSet(new)
  <2>1. IsFiniteSet(rest)
    BY FS_Subset DEF ServerInv
  <2> HIDE DEF rest, s
  <2>2. QED
    BY <2>1, FS_AddElement
<1>3. rest \subseteq c.requests /\ \A q \in rest : q.id # r.id
  OBVIOUS
<1>4. \A q \in c.requests : q.id # r.id => q \in rest
  OBVIOUS
<1> HIDE DEF rest, s
<1>5. d.requests = new /\ e.requests = rest /\ \A x \in {d, e} : x.disconnect = c.disconnect /\ x.host = c.host
      /\ x.setup = c.setup /\ x.signed = c.signed /\ Shape(x)
  BY DEF Shape, Fields
<1> HIDE DEF d, e
<1>6. CASE c.signed
  <2>1. ServerInv(d)
    <3>1. new \subseteq Requests /\ IsFiniteSet(new) /\ \A p, q \in new : p.id = q.id => p = q
      BY <1>1, <1>2, <1>3 DEF ServerInv
    <3>2. \A q \in new : q.at = "queued" => q.tries = 2 /\ q \in c.requests
      BY <1>1, <1>3 DEF ServerInv
    <3>3. (\E q \in c.requests : q.tries = 2) => \E q \in new : q.tries = 2
      BY <1>1, <1>4
    <3>4. QED
      BY <1>5, <3>1, <3>2, <3>3 DEF ServerInv, Queued
  <2>2. Shape(d) /\ <<"request", r>>[1] = "request"
    BY <1>5
  <2>3. ServerPart(Tell(d, <<"request", r>>)) = ServerPart(d) /\ ModePart(Tell(d, <<"request", r>>)) = ModePart(d)
    BY <2>2, TellKeeps
  <2>4. ServerInv(Tell(d, <<"request", r>>))
    BY <2>1, <2>3, SameServer
  <2>5. QED
    BY <1>6, <2>4 DEF Send, d, rest, s
<1>7. CASE ~c.signed
  <2>1. "out" \in c.setup.may
    BY <1>7 DEF ServerInv
  <2>2. ServerInv(e)
    BY <1>2, <1>3, <1>5, <2>1 DEF ServerInv, Queued
  <2>3. QED
    BY <1>7, <2>2 DEF Send, e, rest
<1>8. QED
  BY <1>6, <1>7

\* A request that waits is sent again.
LEMMA RetryKeeps ==
  ASSUME NEW c, Shape(c), ServerInv(c), NEW n
  PROVE  ServerInv(RetryDue(c, n))
<1> DEFINE P(r) == r.id = n /\ r.at = "queued"
           r == CHOOSE x \in c.requests : P(x)
<1>1. CASE \E x \in c.requests : P(x)
  <2>1. r \in c.requests /\ P(r)
    <3> HIDE DEF P
    <3> QED BY <1>1
  <2>2. RetryDue(c, n) = Send(c, r)
    BY <1>1 DEF RetryDue, Retry
  <2> HIDE DEF r
  <2>3. r \in Requests /\ \A q \in c.requests : q.id = r.id /\ q.tries = 2 => r.tries = 2
    BY <2>1 DEF ServerInv
  <2>4. QED
    BY <2>2, <2>3, SendKeeps
<1>2. CASE ~ \E x \in c.requests : P(x)
  BY <1>2 DEF RetryDue
<1>3. QED
  BY <1>1, <1>2

\* So do all retries that are due.
LEMMA RetriesKeep ==
  ASSUME NEW c, Shape(c), ServerInv(c), NEW due, NEW n \in Nat
  PROVE  LET d == Retrying(c, due, n) IN Leaves("retry", c, d) /\ ServerInv(d)
<1> DEFINE w == <<"retry", due>>
           d == Retrying(c, due, n)
<1>1. Ran(w, c, n, d)
  BY RetryRan
<1> HIDE DEF d
<1>2. PICK g : Runs(g, w, c, n) /\ d = g[n]
  BY <1>1 DEF Ran
<1>3. w[1] \in AchSteps \cup TrackerSteps \cup {"tracker", "retry"}
  OBVIOUS
<1>4. \A i \in 0 .. n : Shape(g[i]) /\ Leaves("retry", c, g[i])
  BY <1>2, <1>3, RunsLeave
<1>5. g[0] = c /\ \A k \in 0 .. n : k < n => g[k + 1] = IF k + 1 \in due THEN RetryDue(g[k], k + 1) ELSE g[k]
  <2>1. g[0] = c /\ \A k \in 0 .. n : k < n => g[k + 1] = Step(w, g[k], k + 1)
    BY <1>2, RunsSteps
  <2>2. QED
    BY <2>1 DEF Step
<1> DEFINE S == {k \in 0 .. n : ServerInv(g[k])}
<1>6. 0 \in S
  BY <1>5
<1>7. ASSUME NEW k \in 0 .. n, k < n, k \in S PROVE k + 1 \in S
  <2>1. ServerInv(g[k]) /\ Shape(g[k]) /\ k + 1 \in 0 .. n
    BY <1>4, <1>7
  <2>2. ServerInv(RetryDue(g[k], k + 1))
    BY <2>1, RetryKeeps
  <2>3. QED
    BY <1>5, <1>7, <2>1, <2>2
<1> HIDE DEF S
<1>8. \A k \in 0 .. n : k \in S
  BY <1>6, <1>7, Climb
<1>9. n \in 0 .. n
  OBVIOUS
<1>10. QED
  BY <1>2, <1>4, <1>8, <1>9 DEF S, d

\* To set the requests changes nothing else.
LEMMA SetRequests ==
  ASSUME NEW c, Shape(c), NEW R
  PROVE  LET d == [c EXCEPT !.requests = R]
         IN  OnlyServer(c, d) /\ d.requests = R /\ d.disconnect = c.disconnect /\ d.host = c.host /\ d.setup = c.setup
             /\ d.signed = c.signed /\ d.fault = c.fault
BY DEF OnlyServer, Shape, Fields, ModePart, PausePart, AchPart, BoardPart, ProgressPart

\* To set the state of the warning changes nothing else.
LEMMA SetDisconnect ==
  ASSUME NEW c, Shape(c), NEW s
  PROVE  LET d == [c EXCEPT !.disconnect = s]
         IN  OnlyServer(c, d) /\ d.requests = c.requests /\ d.disconnect = s /\ d.host = c.host /\ d.setup = c.setup
             /\ d.signed = c.signed /\ d.fault = c.fault
BY DEF OnlyServer, Shape, Fields, ModePart, PausePart, AchPart, BoardPart, ProgressPart

\* Two changes that are the server's are one.
LEMMA OnlyServerTwice ==
  ASSUME NEW c, NEW d, NEW e, OnlyServer(c, d), OnlyServer(d, e) PROVE OnlyServer(c, e)
BY DEF OnlyServer

\* The state of the warning follows the requests.
LEMMA UpdateKeeps ==
  ASSUME NEW c, Shape(c), Requested(c)
  PROVE  LET d == UpdateDisconnect(c) IN OnlyServer(c, d) /\ ServerInv(d) /\ d.fault = c.fault
<1> DEFINE waits == Queued(c)
           told == c.disconnect \in {"visible", "hiding"}
           s == CASE waits /\ told -> "visible" [] waits /\ ~told -> "showing" [] ~waits /\ told -> "hiding" [] OTHER -> "hidden"
           d == [c EXCEPT !.disconnect = s]
<1>1. UpdateDisconnect(c) = d
  BY DEF UpdateDisconnect, Queued
<1>2. /\ s \in {"hidden", "showing", "visible", "hiding"}
      /\ s \in {"visible", "hiding"} <=> told
      /\ s \in {"showing", "visible"} <=> waits
  OBVIOUS
<1> HIDE DEF s
<1>3. OnlyServer(c, d) /\ d.requests = c.requests /\ d.disconnect = s /\ d.host = c.host /\ d.setup = c.setup /\ d.signed = c.signed
      /\ d.fault = c.fault
  BY SetDisconnect
<1> HIDE DEF d
<1>4. Queued(c) => \E r \in d.requests : r.tries = 2
  BY <1>3 DEF Queued, Requested
<1>5. Queued(d) => Queued(c)
  BY <1>3 DEF Queued
<1>6. d.host.down = (d.disconnect \in {"visible", "hiding"})
  BY <1>2, <1>3 DEF Requested
<1>7. ServerInv(d)
  BY <1>2, <1>3, <1>4, <1>5, <1>6 DEF ServerInv, Requested
<1>8. QED
  BY <1>1, <1>3, <1>7

\* So it does when a request is done,
LEMMA SettledKeeps ==
  ASSUME NEW c, Shape(c), ServerInv(c), NEW r \in c.requests
  PROVE  LET d == Settled(c, r) IN OnlyServer(c, d) /\ ServerInv(d) /\ d.fault = c.fault
<1> DEFINE d == [c EXCEPT !.requests = c.requests \ {r}]
<1>1. Settled(c, r) = IF r.tries > 0 THEN UpdateDisconnect(d) ELSE d
  BY DEF Settled
<1>2. OnlyServer(c, d) /\ d.requests = c.requests \ {r} /\ d.disconnect = c.disconnect /\ d.host = c.host /\ d.setup = c.setup
      /\ d.signed = c.signed /\ d.fault = c.fault
  BY SetRequests
<1> HIDE DEF d
<1>3. Shape(d)
  BY <1>2 DEF OnlyServer
<1>4. IsFiniteSet(d.requests)
  BY <1>2, FS_Subset DEF ServerInv
<1>5. Requested(d)
  BY <1>2, <1>4 DEF Requested, ServerInv
<1>6. CASE r.tries > 0
  BY <1>1, <1>2, <1>3, <1>5, <1>6, UpdateKeeps, OnlyServerTwice
<1>7. CASE ~(r.tries > 0)
  <2>1. r.tries # 2
    BY <1>7
  <2>2. Queued(d) => Queued(c)
    BY <1>2 DEF Queued
  <2>3. (\E q \in c.requests : q.tries = 2) => \E q \in d.requests : q.tries = 2
    BY <1>2, <2>1
  <2>4. ServerInv(d)
    BY <1>2, <1>5, <2>2, <2>3 DEF ServerInv, Requested
  <2>5. QED
    BY <1>1, <1>2, <1>7, <2>4
<1>8. QED
  BY <1>6, <1>7

\* when one has failed,
LEMMA FailedKeeps ==
  ASSUME NEW c, Shape(c), ServerInv(c), NEW r \in c.requests
  PROVE  LET d == Failed(c, r) IN OnlyServer(c, d) /\ ServerInv(d) /\ d.fault = c.fault
<1>0. r \in Requests
  BY DEF ServerInv
<1>1. CASE r.tries = 0
  <2> DEFINE s == [r EXCEPT !.tries = 1]
  <2>1. s \in Requests /\ s.id = r.id
    BY <1>0 DEF Requests
  <2>2. Failed(c, r) = Send(c, s)
    BY <1>1 DEF Failed
  <2> HIDE DEF s
  <2>3. \A q \in c.requests : q.id = s.id => q.tries # 2
    BY <1>1, <2>1 DEF ServerInv
  <2>4. ServerInv(Send(c, s))
    BY <2>1, <2>3, SendKeeps
  <2>5. "retry" \in ServerSteps /\ NewFlags("retry") = {} /\ "retry" \notin AchSteps /\ "retry" \notin BoardSteps
    BY DEF ServerSteps, NewFlags, TrackerSteps, BoardSteps, AchSteps
  <2>6. Leaves("retry", c, Send(c, s))
    BY <2>5, SendLeaves
  <2>7. OnlyServer(c, Send(c, s)) /\ Send(c, s).fault = c.fault
    BY <2>5, <2>6 DEF Leaves, OnlyServer
  <2>8. QED
    BY <2>2, <2>4, <2>7
<1>2. CASE r.tries # 0
  <2> DEFINE s == [r EXCEPT !.tries = 2, !.at = "queued"]
             d == [c EXCEPT !.requests = (c.requests \ {r}) \cup {s}]
  <2>1. s \in Requests /\ s.id = r.id /\ s.tries = 2
    <3>1. s = [id |-> r.id, kind |-> r.kind, of |-> r.of, hard |-> r.hard, load |-> r.load, tries |-> 2, at |-> "queued"]
      <4> DEFINE q == [r EXCEPT !.tries = 2]
      <4>1. q = [id |-> r.id, kind |-> r.kind, of |-> r.of, hard |-> r.hard, load |-> r.load, tries |-> 2, at |-> r.at]
        BY <1>0 DEF Requests
      <4>2. s = [q EXCEPT !.at = "queued"]
        BY <1>0 DEF Requests
      <4> HIDE DEF q, s
      <4>3. QED
        BY <4>1, <4>2
    <3>2. r.id \in Nat \ {0} /\ r.kind \in {"award", "submit"} /\ r.of \in Nat /\ r.hard \in BOOLEAN /\ r.load \in Nat
      BY <1>0 DEF Requests
    <3> HIDE DEF s
    <3>3. QED
      BY <3>1, <3>2 DEF Requests
  <2>2. Failed(c, r) = UpdateDisconnect(d)
    BY <1>2 DEF Failed
  <2> HIDE DEF s
  <2>3. OnlyServer(c, d) /\ d.requests = (c.requests \ {r}) \cup {s} /\ d.disconnect = c.disconnect /\ d.host = c.host
        /\ d.setup = c.setup /\ d.signed = c.signed /\ d.fault = c.fault
    BY SetRequests
  <2> HIDE DEF d
  <2>4. IsFiniteSet(d.requests)
    <3>1. IsFiniteSet(c.requests \ {r})
      BY FS_Subset DEF ServerInv
    <3>2. QED
      BY <2>3, <3>1, FS_AddElement
  <2>5. \A p, q \in d.requests : p.id = q.id => p = q
    BY <2>1, <2>3 DEF ServerInv
  <2>6. Requested(d)
    BY <2>1, <2>3, <2>4, <2>5 DEF Requested, ServerInv
  <2>7. Shape(d)
    BY <2>3 DEF OnlyServer
  <2>8. QED
    BY <2>2, <2>3, <2>6, <2>7, UpdateKeeps, OnlyServerTwice
<1>3. QED
  BY <1>1, <1>2

\* and when the warning is shown or taken back.
LEMMA DisconnectKeeps ==
  ASSUME NEW c, Shape(c), ServerInv(c)
  PROVE  LET d == RaiseDisconnectEvents(c) IN OnlyServer(c, d) /\ ServerInv(d) /\ d.fault = c.fault
<1> DEFINE x(s) == [c EXCEPT !.disconnect = s]
<1>1. ASSUME NEW s, NEW what, what[1] \in {"disconnected", "reconnected"}
      PROVE  LET d == Tell(x(s), what)
             IN  OnlyServer(c, d) /\ d.requests = c.requests /\ d.disconnect = s /\ d.host = Hear(c.host, what) /\ d.setup = c.setup
                 /\ d.signed = c.signed /\ d.fault = c.fault
  <2> DEFINE y == x(s)
  <2>1. OnlyServer(c, y) /\ y.requests = c.requests /\ y.disconnect = s /\ y.host = c.host /\ y.setup = c.setup
        /\ y.signed = c.signed /\ y.fault = c.fault
    BY SetDisconnect
  <2> HIDE DEF y, x
  <2>2. Shape(y)
    BY <2>1 DEF OnlyServer
  <2> DEFINE d == Tell(y, what)
  <2>3. /\ Shape(d) /\ ModePart(d) = ModePart(y) /\ PausePart(d) = PausePart(y) /\ d.flags = y.flags /\ d.fault = y.fault
        /\ d.requests = y.requests /\ d.disconnect = y.disconnect /\ d.host = Hear(y.host, what)
    BY <2>2, TellKeeps
  <2>4. AchPart(d) = AchPart(y) /\ BoardPart(d) = BoardPart(y) /\ ProgressPart(d) = ProgressPart(y)
    BY <1>1, <2>2, TellKeeps
  <2> HIDE DEF d
  <2>5. OnlyServer(y, d)
    BY <2>3, <2>4 DEF OnlyServer
  <2>6. d.setup = c.setup /\ d.signed = c.signed
    BY <2>1, <2>3 DEF ModePart
  <2>7. QED
    BY <2>1, <2>3, <2>5, <2>6, OnlyServerTwice DEF d, y
<1> HIDE DEF x
<1>2. c.host = [y \in HostFields |-> c.host[y]]
  BY DEF Shape
<1>3. CASE c.disconnect = "showing"
  <2> DEFINE d == Tell(x("visible"), <<"disconnected">>)
  <2>1. RaiseDisconnectEvents(c) = d
    BY <1>3 DEF RaiseDisconnectEvents, x
  <2>2. OnlyServer(c, d) /\ d.requests = c.requests /\ d.disconnect = "visible" /\ d.host = Hear(c.host, <<"disconnected">>)
        /\ d.setup = c.setup /\ d.signed = c.signed /\ d.fault = c.fault
    <3>1. <<"disconnected">>[1] = "disconnected"
      OBVIOUS
    <3>2. QED
      BY <1>1, <3>1
  <2>3. Hear(c.host, <<"disconnected">>).down = TRUE
    BY <1>2 DEF Hear, HostFields
  <2> HIDE DEF d
  <2>4. ServerInv(d)
    BY <1>3, <2>2, <2>3 DEF ServerInv, Queued
  <2>5. QED
    BY <2>1, <2>2, <2>4
<1>4. CASE c.disconnect = "hiding"
  <2> DEFINE d == Tell(x("hidden"), <<"reconnected">>)
  <2>1. RaiseDisconnectEvents(c) = d
    BY <1>4 DEF RaiseDisconnectEvents, x
  <2>2. OnlyServer(c, d) /\ d.requests = c.requests /\ d.disconnect = "hidden" /\ d.host = Hear(c.host, <<"reconnected">>)
        /\ d.setup = c.setup /\ d.signed = c.signed /\ d.fault = c.fault
    <3>1. <<"reconnected">>[1] = "reconnected"
      OBVIOUS
    <3>2. QED
      BY <1>1, <3>1
  <2>3. Hear(c.host, <<"reconnected">>).down = FALSE
    BY <1>2 DEF Hear, HostFields
  <2> HIDE DEF d
  <2>4. ServerInv(d)
    <3>1. ~Queued(d) /\ d.disconnect \notin {"visible", "hiding"} /\ d.disconnect \notin {"visible", "showing"} /\ ~d.host.down
      BY <1>4, <2>2, <2>3 DEF ServerInv, Queued
    <3>2. d.host.down = FALSE /\ (d.disconnect \in {"visible", "hiding"}) = FALSE
      BY <2>2, <2>3
    <3>3. QED
      BY <2>2, <3>1, <3>2 DEF ServerInv
  <2>5. QED
    BY <2>1, <2>2, <2>4
<1>5. CASE c.disconnect \notin {"showing", "hiding"}
  <2>1. RaiseDisconnectEvents(c) = c
    BY <1>5 DEF RaiseDisconnectEvents
  <2>2. QED
    BY <2>1 DEF OnlyServer
<1>6. QED
  BY <1>3, <1>4, <1>5

\* An unlock sends one more request.
LEMMA AwardKeeps ==
  ASSUME NEW c, Shape(c), ServerInv(c), Counting(c), NEW i, c.achs[i].id \in Nat
  PROVE  ServerInv(AwardAchievement(c, i))
<1> DEFINE a   == c.achs[i]
           had == IF c.hardcore THEN {"hard", "soft"} ELSE a.unlocked \cup {"soft"}
           b   == [a EXCEPT !.st = "unlocked", !.unlocked = had]
           d   == [c EXCEPT !.achs[i] = b]
           r   == NewRequest(c, "award", c.achs[i].id)
<1>1. AwardAchievement(c, i) \in {d, Send(d, r)}
  BY DEF AwardAchievement
<1> HIDE DEF b
<1>2. SameRequests(c, d)
  BY DEF SameRequests, Shape, Fields, ServerPart, ModePart
<1>3. d.requests = c.requests
  BY <1>2 DEF SameRequests, ServerPart
<1> HIDE DEF d
<1>4. ServerInv(d)
  BY <1>2, SameServer DEF SameRequests
<1>5. r \in Requests /\ \A q \in c.requests : q.id # r.id
  BY NewIsFresh DEF Counting
<1> HIDE DEF r
<1>6. ServerInv(Send(d, r))
  BY <1>2, <1>3, <1>4, <1>5, SendKeeps DEF SameRequests
<1>7. QED
  BY <1>1, <1>4, <1>6

\* So does announcing an achievement at most.
LEMMA RaiseServer ==
  ASSUME NEW c, Shape(c), ServerInv(c), Counting(c), NEW i, c.achs[i].id \in Nat
  PROVE  ServerInv(RaiseAchievementEvents(c, i))
<1> DEFINE p == c.achs[i].pending
           a == AwardAchievement(c, i)
           d == IF "triggered" \in p THEN [a EXCEPT !.flags = @ \cup {"update_active"}] ELSE c
           e == CASE "hide" \in p -> Tell(d, <<"challenge_hide", i>>)
                  [] "hide" \notin p /\ "show" \in p -> Tell(d, <<"challenge_show", i>>)
                  [] OTHER -> d
           f == IF "triggered" \in p THEN Tell(e, <<"triggered", i>>) ELSE e
           g == [f EXCEPT !.achs[i] = [f.achs[i] EXCEPT !.pending = {}]]
<1>1. RaiseAchievementEvents(c, i) = g
  BY DEF RaiseAchievementEvents
<1>2. Shape(a) /\ ServerInv(a)
  BY AwardKeeps, AwardLeaves DEF Leaves
<1> HIDE DEF a
<1>3. Shape(d) /\ ServerInv(d)
  <2> DEFINE x == [a EXCEPT !.flags = @ \cup {"update_active"}]
  <2>1. SameRequests(a, x)
    BY <1>2 DEF SameRequests, Shape, Fields, ServerPart, ModePart
  <2> HIDE DEF x
  <2>2. Shape(x) /\ ServerInv(x)
    BY <1>2, <2>1, SameServer DEF SameRequests
  <2>3. d \in {x, c}
    BY DEF x
  <2>4. QED
    BY <2>2, <2>3
<1> HIDE DEF d
<1>4. ASSUME NEW x, Shape(x), ServerInv(x), NEW what, what[1] \in {"challenge_hide", "challenge_show", "triggered"}
      PROVE  Shape(Tell(x, what)) /\ ServerInv(Tell(x, what))
  <2>1. SameRequests(x, Tell(x, what))
    BY <1>4, TellKeeps DEF SameRequests
  <2>2. QED
    BY <1>4, <2>1, SameServer DEF SameRequests
<1>5. Shape(e) /\ ServerInv(e)
  <2>1. /\ Shape(Tell(d, <<"challenge_hide", i>>)) /\ ServerInv(Tell(d, <<"challenge_hide", i>>))
        /\ Shape(Tell(d, <<"challenge_show", i>>)) /\ ServerInv(Tell(d, <<"challenge_show", i>>))
    BY <1>3, <1>4
  <2>2. e \in {d, Tell(d, <<"challenge_hide", i>>), Tell(d, <<"challenge_show", i>>)}
    OBVIOUS
  <2>3. QED
    BY <1>3, <2>1, <2>2
<1> HIDE DEF e
<1>6. Shape(f) /\ ServerInv(f)
  <2>1. Shape(Tell(e, <<"triggered", i>>)) /\ ServerInv(Tell(e, <<"triggered", i>>))
    BY <1>4, <1>5
  <2>2. QED
    BY <1>5, <2>1
<1> HIDE DEF f
<1>7. SameRequests(f, g)
  BY <1>6 DEF SameRequests, Shape, Fields, ServerPart, ModePart
<1> HIDE DEF g
<1>8. QED
  BY <1>1, <1>6, <1>7, SameServer DEF SameRequests

\* After all are announced, the requests are as they should be.
LEMMA RaisesServer ==
  ASSUME NEW c, Shape(c), ServerInv(c), Counting(c), c.achs \in Seq(Achievements),
         NEW d, Ran(<<"raise">>, c, Len(c.achs), d)
  PROVE  ServerInv(d)
<1> DEFINE n == Len(c.achs)
           w == <<"raise">>
<1>1. n \in Nat /\ w[1] = "raise" /\ DOMAIN c.achs = 1 .. n
  OBVIOUS
<1>2. PICK g : AchLooped(w, c, g, d)
  <2>1. w[1] \in AchSteps /\ Ran(w, c, Len(c.achs), d)
    BY <1>1 DEF AchSteps
  <2> HIDE DEF w, n
  <2>2. QED
    BY <2>1, AchLoop
<1>3. g[0] = c /\ d = g[n]
  BY <1>2 DEF AchLooped
<1> DEFINE S == {k \in 0 .. n : ServerInv(g[k])}
<1>4. 0 \in S
  BY <1>1, <1>3
<1>5. ASSUME NEW k \in 0 .. n, k < n, k \in S PROVE k + 1 \in S
  <2> DEFINE m == k + 1
             x == g[k]
  <2>1. m \in 1 .. n /\ m - 1 = k /\ m \in 0 .. n
    BY <1>1, <1>5
  <2> HIDE DEF m
  <2>2. g[m] = Step(w, x, m) /\ Shape(x) /\ Leaves("raise", c, x) /\ x.achs[m] = c.achs[m]
    BY <1>1, <1>2, <2>1 DEF AchLooped
  <2> HIDE DEF x
  <2>3. g[m] = RaiseAchievementEvents(x, m)
    BY <2>2 DEF Step
  <2>4. c.achs[m].id \in Nat
    <3>1. c.achs[m] \in Achievements
      BY <1>1, <2>1
    <3>2. QED
      BY <3>1 DEF Achievements
  <2>5. Counting(x) /\ ServerInv(x)
    BY <1>5, <2>2 DEF Counting, Leaves, ModePart, x
  <2>6. ServerInv(g[m])
    BY <2>2, <2>3, <2>4, <2>5, RaiseServer
  <2>7. QED
    BY <2>1, <2>6 DEF m
<1> HIDE DEF S, n
<1>6. \A k \in 0 .. n : k \in S
  BY <1>1, <1>4, <1>5, Climb
<1>7. n \in 0 .. n
  BY <1>1
<1>8. QED
  BY <1>3, <1>6, <1>7 DEF S

\* Announcing a leaderboard sends one more at most.
LEMMA RaiseBoardServer ==
  ASSUME NEW c, Shape(c), ServerInv(c), Counting(c), NEW j \in Nat, c.boards[j].pending \in {"none", "started", "failed", "submitted"}
  PROVE  ServerInv(RaiseLeaderboardEvents(c, j))
<1> DEFINE p == c.boards[j].pending
           r == NewRequest(c, "submit", j)
           d == IF p = "submitted" THEN SubmitEntry(c, j) ELSE c
           what == <<p, j>>
           e == Tell(d, what)
           b == [e.boards[j] EXCEPT !.pending = "none"]
           f == [e EXCEPT !.boards[j] = b]
<1>1. RaiseLeaderboardEvents(c, j) = IF p = "none" THEN c ELSE f
  BY DEF RaiseLeaderboardEvents
<1>2. r \in Requests /\ \A q \in c.requests : q.id # r.id
  BY NewIsFresh DEF Counting
<1> HIDE DEF r
<1>3. ServerInv(Send(c, r)) /\ Shape(Send(c, r))
  <2>1. Leaves("retry", c, Send(c, r))
    BY SendLeaves DEF ServerSteps
  <2>2. QED
    BY <1>2, <2>1, SendKeeps DEF Leaves
<1>4. d \in {c, Send(c, r)}
  BY DEF SubmitEntry, r
<1> HIDE DEF d
<1>5. ServerInv(d) /\ Shape(d)
  BY <1>3, <1>4
<1>6. what[1] = p
  OBVIOUS
<1> HIDE DEF what, p
<1>7. CASE p # "none"
  <2>1. p \in {"started", "failed", "submitted"}
    BY <1>7 DEF p
  <2>2. SameRequests(d, e)
    BY <1>5, <1>6, <2>1, TellKeeps DEF SameRequests
  <2> HIDE DEF e, b
  <2>3. SameRequests(e, f)
    BY <2>2 DEF SameRequests, Shape, Fields, ServerPart, ModePart
  <2> HIDE DEF f
  <2>4. QED
    BY <1>1, <1>5, <1>7, <2>2, <2>3, SameServer DEF SameRequests
<1>8. QED
  BY <1>1, <1>7

\* After all leaderboards are announced, the requests are as they should be.
LEMMA RaisesBoardsServer ==
  ASSUME NEW c, Shape(c), ServerInv(c), Counting(c), c.boards \in Seq(Boards),
         NEW d, Ran(<<"raise_board">>, c, Len(c.boards), d)
  PROVE  ServerInv(d)
<1> DEFINE n == Len(c.boards)
           w == <<"raise_board">>
           kinds == {"none", "started", "failed", "submitted"}
<1>1. n \in Nat /\ DOMAIN c.boards = 1 .. n
  OBVIOUS
<1>2. PICK g : Runs(g, w, c, n) /\ d = g[n]
  BY DEF Ran
<1> HIDE DEF n
<1>3. g[0] = c /\ \A k \in 0 .. n : k < n => g[k + 1] = RaiseLeaderboardEvents(g[k], k + 1)
  <2>1. g[0] = c /\ \A k \in 0 .. n : k < n => g[k + 1] = Step(w, g[k], k + 1)
    BY <1>1, <1>2, RunsSteps
  <2>2. QED
    BY <2>1 DEF Step
<1>4. \A j \in 1 .. n : c.boards[j].pending \in kinds
  <2> TAKE j \in 1 .. n
  <2>1. c.boards[j] \in Boards
    BY <1>1
  <2>2. QED
    BY <2>1 DEF Boards
<1> DEFINE Till(x) == /\ ServerInv(x) /\ Leaves("raise_board", c, x) /\ DOMAIN x.boards = 1 .. n
                      /\ \A j \in 1 .. n : x.boards[j].pending \in kinds
           S == {k \in 0 .. n : Till(g[k])}
<1>5. 0 \in S
  BY <1>1, <1>3, <1>4, LeavesItself
<1>6. ASSUME NEW k \in 0 .. n, k < n, k \in S PROVE k + 1 \in S
  <2> DEFINE m == k + 1
             x == g[k]
             e == g[k + 1]
  <2>1. m \in 1 .. n /\ m \in 0 .. n /\ m \in Nat
    BY <1>1, <1>6
  <2>2. Till(x) /\ e = RaiseLeaderboardEvents(x, m)
    BY <1>3, <1>6
  <2> HIDE DEF m, x, e
  <2>3. Shape(x) /\ Counting(x)
    BY <2>2 DEF Leaves, ModePart, Counting
  <2>4. x.boards[m].pending \in kinds
    BY <2>1, <2>2
  <2>5. ServerInv(e) /\ BoardRaised(x, m, e)
    BY <2>1, <2>2, <2>3, <2>4, RaiseBoardServer, RaiseBoardLeaves
  <2>6. Leaves("raise_board", c, e)
    BY <2>2, <2>5, LeavesTwice DEF BoardRaised
  <2>7. \A j \in 1 .. n : e.boards[j].pending \in kinds
    <3> DEFINE b == [x.boards[m] EXCEPT !.pending = "none"]
    <3>1. e.boards = x.boards \/ e.boards = [x.boards EXCEPT ![m] = b]
      BY <2>5 DEF BoardRaised
    <3>2. x.boards[m].pending \in {"started", "failed", "submitted", "none"} => b.pending \in kinds \/ b = x.boards[m]
      OBVIOUS
    <3>3. b.pending \in kinds
      BY <2>4, <3>2
    <3> HIDE DEF b, kinds
    <3>4. QED
      BY <2>2, <3>1, <3>3
  <2>8. DOMAIN e.boards = 1 .. n
    BY <2>2, <2>5 DEF BoardRaised
  <2>9. Till(e)
    BY <2>5, <2>6, <2>7, <2>8
  <2>10. QED
    BY <2>1, <2>9 DEF e, m
<1> HIDE DEF S
<1>7. \A k \in 0 .. n : k \in S
  BY <1>1, <1>5, <1>6, Climb
<1>8. n \in 0 .. n
  BY <1>1
<1>9. QED
  BY <1>2, <1>7, <1>8 DEF S

\* The requests keep their order when what is pending is raised.
LEMMA RaisingServer ==
  ASSUME NEW c, Raisable(c), ServerInv(c), c.load \in Nat
  PROVE  ServerInv(RaisePendingEvents(c))
<1> DEFINE t == RaisedTrackers(c)
           a == RaisedAchs(c)
           b == RaisedBoards(c)
           p == RaisedProgress(c)
<1>1. /\ Leaves("tracker", c, t) /\ Leaves("raise", t, a) /\ Leaves("raise_board", a, b) /\ SameParts(b, RaisedMastery(c))
      /\ OnlyProgress(RaisedMastery(c), p) /\ Shape(t) /\ Shape(a) /\ Shape(p) /\ t.boards = c.boards /\ t.flags = c.flags
  BY StagesTo DEF TrackersAsIs
<1>2. c.boards \in Seq(Boards) /\ c.trackers \in Seq(Trackers) /\ Shape(c) /\ c.achs \in Seq(Achievements) /\ Counting(c)
  BY DEF Raisable, Tracked, BoardTypes, Counting
<1>3. /\ IF "achievement" \in t.flags THEN Ran(<<"raise">>, t, Len(t.achs), a) ELSE a = t
      /\ IF "board" \in c.flags THEN Ran(<<"raise_board">>, a, Len(c.boards), b) ELSE b = a
  BY <1>1, <1>2, StageAchs, StageBoards
<1>4. LeavesRest(p, RaisePendingEvents(c))
  BY <1>1, StageLast
<1> HIDE DEF t, a, b, p
<1>5. ServerPart(t) = ServerPart(c) /\ ModePart(t) = ModePart(c) /\ t.achs = c.achs
  BY <1>1 DEF Leaves, ServerSteps, AchSteps, AchPart
<1>6. ServerInv(t) /\ Counting(t)
  BY <1>2, <1>5, SameServer DEF ModePart, Counting
<1>7. ServerInv(a)
  BY <1>1, <1>2, <1>3, <1>5, <1>6, RaisesServer
<1>8. Counting(a) /\ a.boards = c.boards
  BY <1>1, <1>6 DEF Leaves, ModePart, Counting, BoardPart, BoardSteps
<1>9. ServerInv(b)
  BY <1>1, <1>2, <1>3, <1>7, <1>8, RaisesBoardsServer
<1>10. /\ ServerPart(RaisePendingEvents(c)) = ServerPart(b) /\ ModePart(RaisePendingEvents(c)) = ModePart(b)
  BY <1>1, <1>4 DEF SameParts, OnlyProgress, LeavesRest
<1>11. QED
  BY <1>9, <1>10, SameServer

-----------------------------------------------------------------------------
(* The trackers.                                                             *)

\* Two changes of one leaderboard, and its tracker, are a change of it.
LEMMA OnlyBoardTwice ==
  ASSUME NEW c, NEW d, NEW e, NEW j, NEW v, OnlyBoard(c, d, j, v), OnlyBoard(d, e, j, v)
  PROVE  OnlyBoard(c, e, j, v)
BY DEF OnlyBoard, RawsFrom

\* No change is one as well.
LEMMA OnlyBoardItself ==
  ASSUME NEW c, NEW j, NEW v, Shape(c), Tracked(c), Announced(c)
  PROVE  OnlyBoard(c, c, j, v)
BY DEF OnlyBoard, RawsFrom

\* What is said of the trackers, place by place.
LEMMA TrackerTypes ==
  ASSUME NEW c, Tracked(c)
  PROVE  /\ \A j \in DOMAIN c.boards : c.boards[j] \in Boards /\ c.boards[j].tracker \in Nat
                                       /\ (c.boards[j].tracker # 0 => c.boards[j].tracker \in DOMAIN c.trackers)
         /\ \A k \in DOMAIN c.trackers : c.trackers[k] \in Trackers /\ c.trackers[k].refs \in Nat /\ k \in Nat /\ k # 0
         /\ IsAFunction(c.boards) /\ IsAFunction(c.trackers)
         /\ Len(c.boards) \in Nat /\ DOMAIN c.boards = 1 .. Len(c.boards)
         /\ Len(c.trackers) \in Nat /\ DOMAIN c.trackers = 1 .. Len(c.trackers)
<1>1. c.boards \in Seq(Boards) /\ c.trackers \in Seq(Trackers)
  BY DEF Tracked, BoardTypes
<1>2. Len(c.boards) \in Nat /\ DOMAIN c.boards = 1 .. Len(c.boards) /\ Len(c.trackers) \in Nat /\ DOMAIN c.trackers = 1 .. Len(c.trackers)
  BY <1>1
<1>3. \A j \in DOMAIN c.boards : c.boards[j] \in Boards
  BY <1>1
<1>4. \A k \in DOMAIN c.trackers : c.trackers[k] \in Trackers
  BY <1>1
<1>5. IsAFunction(c.boards) /\ IsAFunction(c.trackers)
  BY <1>1 DEF IsAFunction
<1>6. ASSUME NEW j \in DOMAIN c.boards
      PROVE  c.boards[j].tracker \in Nat /\ (c.boards[j].tracker # 0 => c.boards[j].tracker \in DOMAIN c.trackers)
  <2>1. c.boards[j].tracker \in 0 .. Len(c.trackers)
    BY DEF Tracked
  <2>2. QED
    BY <1>2, <2>1
<1>7. ASSUME NEW k \in DOMAIN c.trackers PROVE c.trackers[k].refs \in Nat /\ k \in Nat /\ k # 0
  <2>1. c.trackers[k].refs \in Nat
    BY <1>4 DEF Trackers
  <2>2. QED
    BY <1>2, <2>1
<1>8. QED
  BY <1>2, <1>3, <1>4, <1>5, <1>6, <1>7

\* The boards that have a tracker are finitely many.
LEMMA HoldersFinite ==
  ASSUME NEW c, Tracked(c), NEW k
  PROVE  IsFiniteSet(Holders(c, k)) /\ Cardinality(Holders(c, k)) \in Nat
<1>1. IsFiniteSet(1 .. Len(c.boards)) /\ DOMAIN c.boards = 1 .. Len(c.boards)
  BY TrackerTypes, FS_Interval
<1>2. Holders(c, k) \subseteq 1 .. Len(c.boards)
  BY <1>1 DEF Holders
<1>3. QED
  BY <1>1, <1>2, FS_Subset, FS_CardinalityType

\* The trackers are as they should be when one leaderboard changes and the
\* trackers it had and has still fit.
LEMMA TrackedAgain ==
  ASSUME NEW c, Shape(c), Tracked(c), NEW j \in DOMAIN c.boards, NEW b \in Boards, NEW d, Refits(c, d, j, b)
  PROVE  /\ Tracked(d) /\ DOMAIN d.boards = DOMAIN c.boards /\ d.boards[j] = b
         /\ \A i \in DOMAIN c.boards : i # j => d.boards[i] = c.boards[i]
<1> USE DEF Refits
<1>1. /\ DOMAIN d.boards = DOMAIN c.boards /\ d.boards[j] = b
      /\ \A i \in DOMAIN c.boards : i # j => d.boards[i] = c.boards[i]
  OBVIOUS
<1>2. \A i \in DOMAIN c.boards : d.boards[i].def = c.boards[i].def
  BY <1>1
<1>3. d.boards \in Seq(Boards)
  BY DEF Tracked, BoardTypes
<1>4. BoardTypes(d)
  <2>1. \A i, l \in DOMAIN c.boards :
          c.boards[i].def.group = c.boards[l].def.group => c.boards[i].def.fromHits = c.boards[l].def.fromHits
    BY DEF Tracked, BoardTypes
  <2>2. ASSUME NEW i \in DOMAIN d.boards, NEW l \in DOMAIN d.boards, d.boards[i].def.group = d.boards[l].def.group
        PROVE  d.boards[i].def.fromHits = d.boards[l].def.fromHits
    <3>1. i \in DOMAIN c.boards /\ l \in DOMAIN c.boards /\ d.boards[i].def = c.boards[i].def /\ d.boards[l].def = c.boards[l].def
      BY <1>1, <1>2
    <3>2. QED
      BY <2>1, <2>2, <3>1
  <2>3. QED
    BY <1>3, <2>2 DEF BoardTypes
<1>5. ASSUME NEW i \in DOMAIN c.boards, d.boards[i].tracker # 0
      PROVE  /\ d.boards[i].tracker \in DOMAIN d.trackers
             /\ d.trackers[d.boards[i].tracker].group = d.boards[i].def.group
             /\ d.trackers[d.boards[i].tracker].fromHits = d.boards[i].def.fromHits
  <2>1. CASE i = j
    BY <1>1, <1>5, <2>1
  <2>2. CASE i # j
    BY <1>1, <1>5, <2>2, TrackerTypes DEF Tracked
  <2>3. QED
    BY <2>1, <2>2
<1>6. \A i \in DOMAIN d.boards : d.boards[i].tracker \in 0 .. Len(d.trackers)
  <2> TAKE i \in DOMAIN d.boards
  <2>1. d.boards[i] \in Boards
    BY <1>3
  <2>2. d.boards[i].tracker \in Nat
    BY <2>1 DEF Boards
  <2>3. DOMAIN d.trackers = 1 .. Len(d.trackers) /\ Len(d.trackers) \in Nat
    OBVIOUS
  <2>4. QED
    BY <1>1, <1>5, <2>2, <2>3
<1>7. DOMAIN d.host.trackers \subseteq DOMAIN d.trackers /\ d.host.trackers = [k \in DOMAIN d.host.trackers |-> d.host.trackers[k]]
  BY DEF Tracked
<1>8. Tracked(d)
  BY <1>1, <1>4, <1>5, <1>6, <1>7 DEF Tracked
<1>9. QED
  BY <1>1, <1>8

\* The record of board j is replaced, but for its tracker.
LEMMA SetBoard ==
  ASSUME NEW c, Shape(c), Tracked(c), Announced(c), NEW j \in DOMAIN c.boards, NEW b \in Boards, b.def = c.boards[j].def,
         b.tracker = c.boards[j].tracker, NEW f, c.flags \subseteq f, NEW v,
         NEW d, BoardSet(c, j, b, f, d)
  PROVE  OnlyBoard(c, d, j, v) /\ d.boards[j] = b /\ d.trackers = c.trackers /\ d.flags = f
<1>1. Shape(d) /\ d.host = c.host /\ d.boards = [c.boards EXCEPT ![j] = b] /\ d.trackers = c.trackers /\ d.flags = f
      /\ d.runningBoards = c.runningBoards
  BY DEF Shape, Fields, BoardSet
<1>2. \A k : Holders(d, k) = Holders(c, k)
  <2>1. DOMAIN d.boards = DOMAIN c.boards /\ \A i \in DOMAIN c.boards : d.boards[i].tracker = c.boards[i].tracker
    BY <1>1
  <2>2. QED
    BY <2>1 DEF Holders
<1>3. \A k \in DOMAIN d.trackers : d.trackers[k].refs = Cardinality(Holders(d, k)) /\ FitsAt(d, k)
  BY <1>1, <1>2 DEF Tracked, FitsAt, On
<1>4. d.trackers \in Seq(Trackers)
  BY <1>1 DEF Tracked, BoardTypes
<1>5. b.tracker # 0 => /\ b.tracker \in DOMAIN d.trackers
                       /\ d.trackers[b.tracker].group = b.def.group /\ d.trackers[b.tracker].fromHits = b.def.fromHits
  BY <1>1, TrackerTypes DEF Tracked
<1>6. /\ Tracked(d) /\ DOMAIN d.boards = DOMAIN c.boards /\ d.boards[j] = b
      /\ \A i \in DOMAIN c.boards : i # j => d.boards[i] = c.boards[i]
  <2>1. Refits(c, d, j, b)
    BY <1>1, <1>3, <1>4, <1>5, TrackerTypes DEF Refits
  <2>2. QED
    BY <2>1, TrackedAgain
<1>7. Announced(d) /\ RawsFrom(c, d, j, v)
  BY <1>1 DEF Announced, RawsFrom
<1>8. QED
  BY <1>1, <1>6, <1>7 DEF OnlyBoard

\* A tracker is replaced by one that fits.
LEMMA SetTracker ==
  ASSUME NEW c, Shape(c), Tracked(c), Announced(c), NEW j \in DOMAIN c.boards, NEW b,
         NEW k \in DOMAIN c.trackers, NEW t, NEW v, Suits(c, j, b, k, t, v),
         NEW f, c.flags \subseteq f, t.pending # {} => "tracker" \in f,
         NEW d, Replaces(c, j, b, k, t, f, d)
  PROVE  OnlyBoard(c, d, j, v) /\ d.boards[j] = b
<1>0. /\ b \in Boards /\ b.def = c.boards[j].def /\ t \in Trackers
      /\ c.boards[j].tracker \in {0, k} /\ b.tracker \in {0, k}
      /\ b.tracker = k => t.group = b.def.group /\ t.fromHits = b.def.fromHits
      /\ t.refs = Cardinality(HoldersWith(c, j, b.tracker, k))
      /\ Fits(t, On(c, k), c.host.trackers[k])
  BY DEF Suits
<1>1. /\ Shape(d) /\ d.host = c.host /\ d.runningBoards = c.runningBoards /\ d.flags = f
      /\ d.boards = [c.boards EXCEPT ![j] = b] /\ d.trackers = [c.trackers EXCEPT ![k] = t]
  BY DEF Replaces
<1>2. /\ DOMAIN d.boards = DOMAIN c.boards /\ d.boards[j] = b /\ \A i \in DOMAIN c.boards : i # j => d.boards[i] = c.boards[i]
      /\ DOMAIN d.trackers = DOMAIN c.trackers /\ d.trackers[k] = t
      /\ \A l \in DOMAIN c.trackers : l # k => d.trackers[l] = c.trackers[l]
  BY <1>1
<1>3. d.trackers \in Seq(Trackers)
  BY <1>0, <1>1 DEF Tracked, BoardTypes
<1>4. Holders(d, k) = HoldersWith(c, j, b.tracker, k)
  BY <1>2 DEF Holders, HoldersWith
<1>5. \A l : l # k /\ l # 0 => Holders(d, l) = Holders(c, l)
  BY <1>0, <1>2 DEF Holders
<1>6. \A l \in DOMAIN d.trackers : d.trackers[l].refs = Cardinality(Holders(d, l)) /\ FitsAt(d, l)
  <2> TAKE l \in DOMAIN d.trackers
  <2>1. CASE l = k
    BY <1>0, <1>1, <1>2, <1>4, <2>1 DEF FitsAt, On
  <2>2. CASE l # k
    <3>1. l # 0 /\ l \in DOMAIN c.trackers
      BY <1>2, TrackerTypes
    <3>2. Holders(d, l) = Holders(c, l) /\ d.trackers[l] = c.trackers[l]
      BY <1>2, <1>5, <2>2, <3>1
    <3>3. QED
      BY <1>1, <3>1, <3>2 DEF Tracked, FitsAt, On
  <2>3. QED
    BY <2>1, <2>2
<1>7. \A i \in DOMAIN c.boards : i # j /\ c.boards[i].tracker # 0 =>
            /\ d.trackers[c.boards[i].tracker].group = c.trackers[c.boards[i].tracker].group
            /\ d.trackers[c.boards[i].tracker].fromHits = c.trackers[c.boards[i].tracker].fromHits
  BY <1>2, TrackerTypes DEF Suits
<1>8. b.tracker # 0 => /\ b.tracker \in DOMAIN d.trackers
                       /\ d.trackers[b.tracker].group = b.def.group /\ d.trackers[b.tracker].fromHits = b.def.fromHits
  BY <1>0, <1>2
<1>9. Refits(c, d, j, b)
  BY <1>0, <1>1, <1>2, <1>3, <1>6, <1>7, <1>8 DEF Refits
<1>13. Tracked(d)
  BY <1>0, <1>9, TrackedAgain
<1>10. Announced(d)
  BY <1>1, <1>2 DEF Announced
<1>11. RawsFrom(c, d, j, v)
  BY <1>2, TrackerTypes DEF RawsFrom, Suits
<1>12. QED
  BY <1>0, <1>1, <1>2, <1>13, <1>10, <1>11 DEF OnlyBoard

\* The numbers of boards that have a tracker.
LEMMA HoldersCount ==
  ASSUME NEW c, Tracked(c), NEW j \in DOMAIN c.boards, NEW k, k # 0
  PROVE  /\ c.boards[j].tracker = k => /\ Cardinality(HoldersWith(c, j, k, k)) = Cardinality(Holders(c, k))
                                       /\ Cardinality(Holders(c, k)) > 0
                                       /\ Cardinality(HoldersWith(c, j, 0, k)) = Cardinality(Holders(c, k)) - 1
         /\ c.boards[j].tracker # k => Cardinality(HoldersWith(c, j, k, k)) = Cardinality(Holders(c, k)) + 1
         /\ Cardinality(Holders(c, k)) = 0 => \A i \in DOMAIN c.boards : c.boards[i].tracker # k
         /\ Cardinality(Holders(c, k)) > 0 => \E i \in DOMAIN c.boards : c.boards[i].tracker = k
<1>1. IsFiniteSet(Holders(c, k)) /\ Cardinality(Holders(c, k)) \in Nat
  BY HoldersFinite
<1>2. ASSUME c.boards[j].tracker = k
      PROVE  /\ Cardinality(HoldersWith(c, j, k, k)) = Cardinality(Holders(c, k))
             /\ Cardinality(Holders(c, k)) > 0
             /\ Cardinality(HoldersWith(c, j, 0, k)) = Cardinality(Holders(c, k)) - 1
  <2>1. HoldersWith(c, j, k, k) = Holders(c, k) /\ j \in Holders(c, k) /\ HoldersWith(c, j, 0, k) = Holders(c, k) \ {j}
    BY <1>2 DEF HoldersWith, Holders
  <2>2. Cardinality(Holders(c, k) \ {j}) = Cardinality(Holders(c, k)) - 1
    BY <1>1, <2>1, FS_RemoveElement
  <2>3. Cardinality(Holders(c, k)) > 0
    BY <1>1, <2>1, FS_EmptySet
  <2>4. QED
    BY <1>2, <2>1, <2>2, <2>3
<1>3. ASSUME c.boards[j].tracker # k
      PROVE  Cardinality(HoldersWith(c, j, k, k)) = Cardinality(Holders(c, k)) + 1
  <2>1. HoldersWith(c, j, k, k) = Holders(c, k) \cup {j} /\ j \notin Holders(c, k)
    BY <1>3 DEF HoldersWith, Holders
  <2>2. Cardinality(Holders(c, k) \cup {j}) = Cardinality(Holders(c, k)) + 1
    BY <1>1, <2>1, FS_AddElement
  <2>3. QED
    BY <2>1, <2>2
<1>4. Cardinality(Holders(c, k)) = 0 => \A i \in DOMAIN c.boards : c.boards[i].tracker # k
  BY <1>1, FS_EmptySet DEF Holders
<1>5. Cardinality(Holders(c, k)) > 0 => \E i \in DOMAIN c.boards : c.boards[i].tracker = k
  BY <1>1, FS_EmptySet DEF Holders
<1>6. /\ c.boards[j].tracker = k => /\ Cardinality(HoldersWith(c, j, k, k)) = Cardinality(Holders(c, k))
                                     /\ Cardinality(Holders(c, k)) > 0
                                     /\ Cardinality(HoldersWith(c, j, 0, k)) = Cardinality(Holders(c, k)) - 1
      /\ c.boards[j].tracker # k => Cardinality(HoldersWith(c, j, k, k)) = Cardinality(Holders(c, k)) + 1
  BY <1>2, <1>3
<1>7. QED
  BY <1>4, <1>5, <1>6

\* To let go of a tracker keeps them so, and it is hidden with its last
\* attempt.
LEMMA ReleaseStep ==
  ASSUME NEW c, Shape(c), Tracked(c), Announced(c), NEW j \in DOMAIN c.boards, NEW v
  PROVE  OnlyBoard(c, ReleaseTracker(c, j), j, v) /\ Released(c, j, ReleaseTracker(c, j))
<1> DEFINE k    == c.boards[j].tracker
           t    == c.trackers[k]
           b    == [c.boards[j] EXCEPT !.tracker = 0]
           news == IF t.refs > 1 THEN {} ELSE {"hide"}
           u    == [t EXCEPT !.refs = t.refs - 1, !.pending = t.pending \cup news]
           f    == IF news # {} THEN c.flags \cup {"tracker"} ELSE c.flags
           d    == ReleaseTracker(c, j)
<1>1. c.boards[j] \in Boards /\ k \in Nat /\ (k # 0 => k \in DOMAIN c.trackers) /\ IsAFunction(c.boards) /\ IsAFunction(c.trackers)
  BY TrackerTypes
<1>2. b \in Boards /\ b.def = c.boards[j].def /\ b.tracker = 0
  BY <1>1 DEF Boards
<1>3. CASE k = 0
  <2>1. d = [c EXCEPT !.boards[j].tracker = 0]
    BY <1>3 DEF ReleaseTracker
  <2>2. [c EXCEPT !.boards[j].tracker = 0] = [c EXCEPT !.boards[j] = b, !.flags = c.flags]
    BY DEF Shape, Fields
  <2> HIDE DEF b, d
  <2>3. OnlyBoard(c, d, j, v) /\ d.boards[j] = b /\ d.trackers = c.trackers
    <3> DEFINE g == c.flags
    <3>1. b.tracker = c.boards[j].tracker /\ c.flags \subseteq g
      BY <1>2, <1>3
    <3>2. BoardSet(c, j, b, g, d)
      BY <2>1, <2>2 DEF BoardSet
    <3>3. d.trackers = c.trackers
      BY <3>2 DEF BoardSet, Shape, Fields
    <3> HIDE DEF g, k, t, u, f
    <3>4. OnlyBoard(c, d, j, v) /\ d.boards[j] = b
      BY <1>2, <3>1, <3>2, SetBoard
    <3>5. QED
      BY <3>3, <3>4
  <2>4. QED
    BY <2>3 DEF Released, b, d
<1>4. CASE k # 0
  <2>1. k \in DOMAIN c.trackers /\ t \in Trackers /\ t.refs = Cardinality(Holders(c, k)) /\ t.refs \in Nat /\ FitsAt(c, k)
    BY <1>1, <1>4, TrackerTypes DEF Tracked
  <2>2. t.refs > 0 /\ Cardinality(HoldersWith(c, j, 0, k)) = t.refs - 1
    BY <1>4, <2>1, HoldersCount
  <2>3. /\ u \in Trackers /\ u.refs = t.refs - 1 /\ u.group = t.group /\ u.fromHits = t.fromHits /\ u.raw = t.raw
        /\ u.pending = t.pending \cup news
    <3>1. news \subseteq {"hide"} /\ t.refs - 1 \in Nat
      BY <2>1, <2>2
    <3> HIDE DEF news
    <3>2. QED
      BY <2>1, <3>1 DEF Trackers
  <2>4. Fits(u, On(c, k), c.host.trackers[k])
    BY <2>1, <2>2, <2>3 DEF Fits, FitsAt
  <2>5. Replaces(c, j, b, k, u, f, d)
    <3>1. d = [[c EXCEPT !.boards[j].tracker = 0] EXCEPT !.trackers[k] = u,
                  !.flags = IF news # {} THEN c.flags \cup {"tracker"} ELSE c.flags]
      BY <1>4 DEF ReleaseTracker, Shape, Fields
    <3> HIDE DEF u, news, d
    <3>2. QED
      BY <3>1 DEF Replaces, Shape, Fields
  <2>6. u.pending # {} => "tracker" \in f
    BY <2>1, <2>3 DEF Announced
  <2>7. c.flags \subseteq f
    OBVIOUS
  <2> HIDE DEF b, u, f, d
  <2>8. OnlyBoard(c, d, j, v) /\ d.boards[j] = b
    <3>1. Suits(c, j, b, k, u, v)
      BY <1>2, <1>4, <2>1, <2>2, <2>3, <2>4 DEF Suits
    <3>2. QED
      BY <2>1, <2>5, <2>6, <2>7, <3>1, SetTracker
  <2>9. \A l \in DOMAIN c.trackers : d.trackers[l].raw = c.trackers[l].raw
    BY <2>3, <2>5 DEF Replaces
  <2>10. QED
    BY <2>8, <2>9 DEF Released, b, d
<1>5. QED
  BY <1>3, <1>4

\* To update a tracker keeps them so, and it has the leaderboard's value.
LEMMA UpdateStep ==
  ASSUME NEW c, Shape(c), Tracked(c), Announced(c), NEW j \in DOMAIN c.boards
  PROVE  OnlyBoard(c, UpdateTracker(c, j), j, c.boards[j].value) /\ Updated(c, j, UpdateTracker(c, j))
<1> DEFINE k    == c.boards[j].tracker
           t    == c.trackers[k]
           b    == c.boards[j]
           v    == c.boards[j].value
           u    == [t EXCEPT !.raw = v, !.pending = t.pending \cup {"update"}]
           f    == c.flags \cup {"tracker"}
           d    == UpdateTracker(c, j)
<1>1. c.boards[j] \in Boards /\ k \in Nat /\ (k # 0 => k \in DOMAIN c.trackers) /\ IsAFunction(c.boards) /\ IsAFunction(c.trackers)
  BY TrackerTypes
<1>2. CASE k = 0 \/ t.raw = v
  <2>1. d = c
    BY <1>2 DEF UpdateTracker
  <2>2. OnlyBoard(c, c, j, v)
    BY OnlyBoardItself
  <2>3. QED
    BY <1>2, <2>1, <2>2 DEF Updated
<1>3. CASE k # 0 /\ t.raw # v
  <2>1. k \in DOMAIN c.trackers /\ t \in Trackers /\ t.refs = Cardinality(Holders(c, k)) /\ t.refs \in Nat /\ FitsAt(c, k)
    BY <1>1, <1>3, TrackerTypes DEF Tracked
  <2>2. t.refs > 0 /\ Cardinality(HoldersWith(c, j, k, k)) = t.refs
    BY <1>3, <2>1, HoldersCount
  <2>3. /\ u \in Trackers /\ u.refs = t.refs /\ u.group = t.group /\ u.fromHits = t.fromHits /\ u.raw = v
        /\ u.pending = t.pending \cup {"update"}
    BY <1>1, <2>1, <2>2 DEF Trackers, Boards
  <2>4. Fits(u, On(c, k), c.host.trackers[k])
    BY <2>1, <2>2, <2>3 DEF Fits, FitsAt
  <2>5. Replaces(c, j, b, k, u, f, d)
    <3>1. d = [c EXCEPT !.trackers[k] = u, !.flags = f]
      BY <1>3 DEF UpdateTracker, Shape, Fields
    <3>2. c.boards = [c.boards EXCEPT ![j] = b]
      BY <1>1 DEF IsAFunction
    <3> HIDE DEF u, b, d
    <3>3. QED
      BY <3>1, <3>2 DEF Replaces, Shape, Fields
  <2>6. "tracker" \in f /\ c.flags \subseteq f
    OBVIOUS
  <2>7. t.group = b.def.group /\ t.fromHits = b.def.fromHits
    BY <1>3 DEF Tracked
  <2>8. \A i \in DOMAIN c.boards : i # j /\ c.boards[i].tracker = k => c.boards[i].def.group = c.boards[j].def.group
    BY <1>3, <2>7 DEF Tracked
  <2>9. b \in Boards /\ b.def = c.boards[j].def /\ b.tracker = k
    BY <1>1
  <2> HIDE DEF u, f, d, b, v
  <2>10. OnlyBoard(c, d, j, v) /\ d.boards[j] = b
    <3>1. Suits(c, j, b, k, u, v)
      BY <2>1, <2>2, <2>3, <2>4, <2>7, <2>8, <2>9 DEF Suits
    <3>2. QED
      BY <2>1, <2>5, <2>6, <3>1, SetTracker
  <2>11. d.trackers[k].raw = v
    BY <2>1, <2>3, <2>5 DEF Replaces
  <2>12. QED
    BY <2>10, <2>11 DEF Updated, b, d, v
<1>4. QED
  BY <1>2, <1>3

\* The first of some numbers is one of them.
LEMMA FirstIsIn ==
  ASSUME NEW s, s \subseteq Nat, s # {} PROVE First(s) \in s
<1>1. PICK k \in s : \A l \in s : ~(l < k)
  BY LeastNumber
<1>2. \A l \in s : k <= l
  BY <1>1
<1>3. \E x \in s : \A l \in s : x <= l
  BY <1>2
<1>4. QED
  BY <1>3 DEF First

\* To share a tracker keeps them so.
LEMMA AttachStep ==
  ASSUME NEW c, Shape(c), Tracked(c), Announced(c), NEW j \in DOMAIN c.boards, c.boards[j].tracker = 0,
         NEW k \in DOMAIN c.trackers, Shares(c.trackers[k], c.boards[j]), NEW d, d = AttachTracker(c, j, k)
  PROVE  OnlyBoard(c, d, j, c.boards[j].value) /\ Allocated(c, j, d)
<1> DEFINE t    == c.trackers[k]
           b    == [c.boards[j] EXCEPT !.tracker = k]
           v    == c.boards[j].value
           news == IF t.raw # v THEN {"update"} ELSE {}
           u    == [t EXCEPT !.refs = t.refs + 1, !.raw = v, !.pending = (t.pending \cup news) \ {"hide"}]
           f    == IF news # {} THEN c.flags \cup {"tracker"} ELSE c.flags
<1>1. /\ c.boards[j] \in Boards /\ IsAFunction(c.boards) /\ IsAFunction(c.trackers) /\ t \in Trackers
      /\ t.refs = Cardinality(Holders(c, k)) /\ t.refs \in Nat /\ FitsAt(c, k) /\ k \in Nat /\ k # 0
  BY TrackerTypes DEF Tracked
<1>2. b \in Boards /\ b.def = c.boards[j].def /\ b.tracker = k
  BY <1>1 DEF Boards
<1>3. t.refs > 0 /\ t.group = c.boards[j].def.group
  BY <1>1 DEF Shares
<1>4. Cardinality(HoldersWith(c, j, k, k)) = t.refs + 1
  BY <1>1, HoldersCount
<1>5. PICK i \in DOMAIN c.boards : c.boards[i].tracker = k
  BY <1>1, <1>3, HoldersCount
<1>6. t.fromHits = c.boards[j].def.fromHits
  <2>1. t.group = c.boards[i].def.group /\ t.fromHits = c.boards[i].def.fromHits
    BY <1>1, <1>5 DEF Tracked
  <2>2. c.boards[i].def.group = c.boards[j].def.group => c.boards[i].def.fromHits = c.boards[j].def.fromHits
    BY DEF Tracked, BoardTypes
  <2>3. QED
    BY <1>3, <2>1, <2>2
<1>7. /\ u \in Trackers /\ u.refs = t.refs + 1 /\ u.group = t.group /\ u.fromHits = t.fromHits /\ u.raw = v
      /\ u.pending = (t.pending \cup news) \ {"hide"}
  <2>1. news \subseteq {"update"} /\ t.refs + 1 \in Nat /\ v \in Nat
    BY <1>1 DEF Boards
  <2> HIDE DEF news, v
  <2>2. QED
    BY <1>1, <2>1 DEF Trackers
<1>8. Fits(u, On(c, k), c.host.trackers[k])
  <2>1. CASE t.raw = v
    BY <1>1, <1>3, <1>7, <2>1 DEF Fits, FitsAt
  <2>2. CASE t.raw # v
    BY <1>1, <1>3, <1>7, <2>2 DEF Fits, FitsAt
  <2>3. QED
    BY <2>1, <2>2
<1>9. Replaces(c, j, b, k, u, f, d)
  <2>1. d = [c EXCEPT !.boards = [c.boards EXCEPT ![j] = b], !.trackers = [c.trackers EXCEPT ![k] = u], !.flags = f]
    BY DEF AttachTracker, Shape, Fields
  <2> HIDE DEF b, u, f
  <2>2. QED
    BY <2>1 DEF Replaces, Shape, Fields
<1>10. u.pending # {} => "tracker" \in f
  <2>1. CASE t.raw = v
    BY <1>1, <1>7, <2>1 DEF Announced
  <2>2. CASE t.raw # v
    BY <2>2
  <2>3. QED
    BY <2>1, <2>2
<1>11. c.flags \subseteq f
  OBVIOUS
<1>12. \A l \in DOMAIN c.boards : l # j /\ c.boards[l].tracker = k => c.boards[l].def.group = c.boards[j].def.group
  BY <1>1, <1>3 DEF Tracked
<1> HIDE DEF b, u, f, v
<1>13. Suits(c, j, b, k, u, v)
  BY <1>1, <1>2, <1>3, <1>4, <1>6, <1>7, <1>8, <1>12 DEF Suits
<1>14. OnlyBoard(c, d, j, v) /\ d.boards[j] = b
  BY <1>9, <1>10, <1>11, <1>13, SetTracker
<1>15. k \in DOMAIN d.trackers /\ d.trackers[k].raw = v
  BY <1>7, <1>9 DEF Replaces
<1>16. QED
  BY <1>1, <1>14, <1>15 DEF Allocated, b, v

\* A tracker that is new is yet to be shown.
LEMMA NewTrackerFits ==
  ASSUME NEW b \in Boards
  PROVE  LET u == NewTracker(b)
         IN  /\ u \in Trackers /\ u.refs = 1 /\ u.group = b.def.group /\ u.fromHits = b.def.fromHits /\ u.raw = b.value
             /\ u.pending = {"show"} /\ \A x : Fits(u, FALSE, x)
<1>1. b.def \in BoardDefs /\ b.value \in Nat
  BY DEF Boards
<1>2. b.def.group \in STRING /\ b.def.fromHits \in BOOLEAN
  BY <1>1 DEF BoardDefs
<1>3. QED
  BY <1>1, <1>2 DEF NewTracker, Trackers, Fits

\* A tracker nobody uses is taken.
LEMMA ClaimFree ==
  ASSUME NEW c, Shape(c), Tracked(c), Announced(c), NEW j \in DOMAIN c.boards, c.boards[j].tracker = 0,
         NEW k \in DOMAIN c.trackers, c.trackers[k].refs = 0, c.trackers[k].pending = {}, NEW d, d = ClaimTracker(c, j, k)
  PROVE  OnlyBoard(c, d, j, c.boards[j].value) /\ Allocated(c, j, d)
<1> DEFINE t    == c.trackers[k]
           b    == [c.boards[j] EXCEPT !.tracker = k]
           v    == c.boards[j].value
           u    == NewTracker(c.boards[j])
           f    == c.flags \cup {"tracker"}
<1>1. /\ c.boards[j] \in Boards /\ IsAFunction(c.boards) /\ IsAFunction(c.trackers) /\ t \in Trackers
      /\ t.refs = Cardinality(Holders(c, k)) /\ FitsAt(c, k) /\ k \in Nat /\ k # 0 /\ ~(k > Len(c.trackers))
  BY TrackerTypes DEF Tracked
<1>2. b \in Boards /\ b.def = c.boards[j].def /\ b.tracker = k
  BY <1>1 DEF Boards
<1>3. \A i \in DOMAIN c.boards : c.boards[i].tracker # k
  BY <1>1, HoldersCount
<1>4. Cardinality(HoldersWith(c, j, k, k)) = 1
  <2>1. HoldersWith(c, j, k, k) = {j}
    BY <1>3 DEF HoldersWith
  <2>2. QED
    BY <2>1, FS_Singleton
<1>5. ~On(c, k)
  BY <1>1 DEF FitsAt, Fits
<1>6. /\ u \in Trackers /\ u.refs = 1 /\ u.group = c.boards[j].def.group /\ u.fromHits = c.boards[j].def.fromHits /\ u.raw = v
      /\ u.pending = {"show"} /\ \A x : Fits(u, FALSE, x)
  BY <1>1, NewTrackerFits
<1>7. Fits(u, On(c, k), c.host.trackers[k])
  <2>1. On(c, k) = FALSE
    BY <1>5 DEF On
  <2>2. QED
    BY <1>6, <2>1
<1>8. Replaces(c, j, b, k, u, f, d)
  <2>1. d = [c EXCEPT !.boards = [c.boards EXCEPT ![j] = b], !.trackers = [c.trackers EXCEPT ![k] = u], !.flags = f]
    BY <1>1 DEF ClaimTracker, Shape, Fields, NewTracker
  <2> HIDE DEF b, u, f
  <2>2. QED
    BY <2>1 DEF Replaces, Shape, Fields
<1>9. "tracker" \in f /\ c.flags \subseteq f
  OBVIOUS
<1> HIDE DEF b, u, f, v
<1>10. Suits(c, j, b, k, u, v)
  BY <1>1, <1>2, <1>3, <1>4, <1>6, <1>7 DEF Suits
<1>11. OnlyBoard(c, d, j, v) /\ d.boards[j] = b
  BY <1>8, <1>9, <1>10, SetTracker
<1>12. k \in DOMAIN d.trackers /\ d.trackers[k].raw = v
  BY <1>6, <1>8 DEF Replaces
<1>13. QED
  BY <1>1, <1>11, <1>12 DEF Allocated, b, v

\* There is no such tracker, and another one is made.
LEMMA ClaimNew ==
  ASSUME NEW c, Shape(c), Tracked(c), Announced(c), NEW j \in DOMAIN c.boards, c.boards[j].tracker = 0,
         NEW d, d = ClaimTracker(c, j, Len(c.trackers) + 1)
  PROVE  OnlyBoard(c, d, j, c.boards[j].value) /\ Allocated(c, j, d)
<1> DEFINE k    == Len(c.trackers) + 1
           b    == [c.boards[j] EXCEPT !.tracker = k]
           v    == c.boards[j].value
           u    == NewTracker(c.boards[j])
           f    == c.flags \cup {"tracker"}
<1>1. /\ c.boards[j] \in Boards /\ IsAFunction(c.boards) /\ c.trackers \in Seq(Trackers) /\ Len(c.trackers) \in Nat
      /\ DOMAIN c.trackers = 1 .. Len(c.trackers)
      /\ \A i \in DOMAIN c.boards : c.boards[i].tracker \in Nat /\ c.boards[i].tracker <= Len(c.trackers)
      /\ DOMAIN c.host.trackers \subseteq DOMAIN c.trackers
  BY TrackerTypes DEF Tracked, BoardTypes
<1>2. b \in Boards /\ b.def = c.boards[j].def /\ b.tracker = k /\ k \in Nat /\ k > Len(c.trackers) /\ k # 0
  BY <1>1 DEF Boards
<1>3. (\A i \in DOMAIN c.boards : c.boards[i].tracker # k) /\ ~On(c, k)
  BY <1>1 DEF On
<1>4. /\ u \in Trackers /\ u.refs = 1 /\ u.group = c.boards[j].def.group /\ u.fromHits = c.boards[j].def.fromHits /\ u.raw = v
      /\ u.pending = {"show"} /\ \A x : Fits(u, FALSE, x)
  BY <1>1, NewTrackerFits
<1>5. /\ Shape(d) /\ d.host = c.host /\ d.boards = [c.boards EXCEPT ![j] = b] /\ d.trackers = Append(c.trackers, u) /\ d.flags = f
      /\ d.runningBoards = c.runningBoards
  <2>1. d = [c EXCEPT !.boards = [c.boards EXCEPT ![j] = b], !.trackers = Append(c.trackers, u), !.flags = f]
    BY <1>2 DEF ClaimTracker, Shape, Fields, NewTracker
  <2> HIDE DEF b, u, f
  <2>2. QED
    BY <2>1 DEF Shape, Fields
<1>6. /\ d.trackers \in Seq(Trackers) /\ DOMAIN d.trackers = 1 .. k /\ d.trackers[k] = u
      /\ \A l \in DOMAIN c.trackers : l \in DOMAIN d.trackers /\ d.trackers[l] = c.trackers[l]
  <2> HIDE DEF u
  <2>1. u \in Trackers
    BY <1>4
  <2>2. Append(c.trackers, u) \in Seq(Trackers) /\ Len(Append(c.trackers, u)) = Len(c.trackers) + 1
    BY <1>1, <2>1
  <2>3. DOMAIN d.trackers = 1 .. k
    BY <1>5, <2>2
  <2>4. d.trackers[k] = u /\ \A l \in 1 .. Len(c.trackers) : d.trackers[l] = c.trackers[l]
    BY <1>1, <1>5, <2>1
  <2>5. d.trackers \in Seq(Trackers)
    BY <1>5, <2>2
  <2>6. 1 .. Len(c.trackers) \subseteq 1 .. k
    BY <1>1
  <2>7. QED
    BY <1>1, <2>3, <2>4, <2>5, <2>6
<1>7. \A l \in DOMAIN d.trackers : l # k => l \in DOMAIN c.trackers /\ l # 0
  BY <1>1, <1>6
<1> HIDE DEF b, u, f, v, k
<1>8. DOMAIN d.boards = DOMAIN c.boards /\ d.boards[j] = b /\ \A i \in DOMAIN c.boards : i # j => d.boards[i] = c.boards[i]
  BY <1>5
<1>9. Holders(d, k) = {j} /\ \A l : l # k /\ l # 0 => Holders(d, l) = Holders(c, l)
  BY <1>2, <1>3, <1>8 DEF Holders
<1>10. ASSUME NEW l \in DOMAIN d.trackers PROVE d.trackers[l].refs = Cardinality(Holders(d, l)) /\ FitsAt(d, l)
  <2>1. CASE l = k
    <3>1. On(d, k) = FALSE
      BY <1>3, <1>5 DEF On
    <3>2. QED
      BY <1>4, <1>6, <1>9, <2>1, <3>1, FS_Singleton DEF FitsAt
  <2>2. CASE l # k
    <3>1. l \in DOMAIN c.trackers /\ l # 0 /\ d.trackers[l] = c.trackers[l] /\ Holders(d, l) = Holders(c, l)
      BY <1>6, <1>7, <1>9, <2>2
    <3>2. QED
      BY <1>5, <3>1 DEF Tracked, FitsAt, On
  <2>3. QED
    BY <2>1, <2>2
<1>11. Refits(c, d, j, b)
  BY <1>2, <1>4, <1>5, <1>6, <1>10, <1>8, <1>2, TrackerTypes DEF Refits
<1>12. Tracked(d)
  BY <1>2, <1>11, TrackedAgain
<1>13. Announced(d)
  BY <1>5 DEF Announced, f
<1>14. RawsFrom(c, d, j, v)
  BY <1>6, TrackerTypes DEF RawsFrom
<1>15. OnlyBoard(c, d, j, v)
  BY <1>2, <1>5, <1>8, <1>12, <1>13, <1>14 DEF OnlyBoard, f
<1>16. k \in DOMAIN d.trackers
  BY <1>2, <1>6
<1>17. QED
  BY <1>2, <1>4, <1>6, <1>8, <1>15, <1>16 DEF Allocated, b, v

\* An attempt gets a tracker that has its value.
LEMMA AllocateStep ==
  ASSUME NEW c, Shape(c), Tracked(c), Announced(c), NEW j \in DOMAIN c.boards, c.boards[j].tracker = 0
  PROVE  OnlyBoard(c, AllocateTracker(c, j), j, c.boards[j].value) /\ Allocated(c, j, AllocateTracker(c, j))
<1> DEFINE shared == {k \in DOMAIN c.trackers : Shares(c.trackers[k], c.boards[j])}
           free   == {k \in DOMAIN c.trackers : c.trackers[k].refs = 0 /\ c.trackers[k].pending = {}}
<1>1. DOMAIN c.trackers \subseteq Nat
  BY TrackerTypes
<1>2. CASE shared # {}
  <2>1. First(shared) \in shared
    <3>1. shared \subseteq Nat
      BY <1>1
    <3> HIDE DEF shared
    <3>2. QED
      BY <1>2, <3>1, FirstIsIn
  <2>2. AllocateTracker(c, j) = AttachTracker(c, j, First(shared))
    BY <1>2 DEF AllocateTracker
  <2>3. QED
    BY <2>1, <2>2, AttachStep
<1>3. CASE shared = {} /\ free # {}
  <2>1. First(free) \in free
    <3>1. free \subseteq Nat
      BY <1>1
    <3> HIDE DEF free
    <3>2. QED
      BY <1>3, <3>1, FirstIsIn
  <2>2. AllocateTracker(c, j) = ClaimTracker(c, j, First(free))
    BY <1>3 DEF AllocateTracker
  <2>3. QED
    BY <2>1, <2>2, ClaimFree
<1>4. CASE shared = {} /\ free = {}
  <2>1. AllocateTracker(c, j) = ClaimTracker(c, j, Len(c.trackers) + 1)
    BY <1>4 DEF AllocateTracker
  <2>2. QED
    BY <2>1, ClaimNew
<1>5. QED
  BY <1>2, <1>3, <1>4

-----------------------------------------------------------------------------
(* The loops over the leaderboards.                                          *)

\* The end of an attempt keeps them so.
LEMMA LetGoStep ==
  ASSUME NEW x, Shape(x), Tracked(x), Announced(x), NEW j \in DOMAIN x.boards, NEW v
  PROVE  OnlyBoard(x, LetGo(x, j), j, v) /\ LetGo(x, j).boards[j] = LetGoOf(x.boards[j])
<1>1. CASE x.boards[j].st = "tracking"
  <2>1. LetGo(x, j) = ReleaseTracker(x, j)
    BY <1>1 DEF LetGo
  <2>2. QED
    BY <1>1, <2>1, ReleaseStep DEF Released, LetGoOf
<1>2. CASE x.boards[j].st # "tracking"
  <2>1. LetGo(x, j) = x
    BY <1>2 DEF LetGo
  <2>2. QED
    BY <1>2, <2>1, OnlyBoardItself DEF LetGoOf
<1>3. QED
  BY <1>1, <1>2

\* A board that stops.
LEMMA QuietStep ==
  ASSUME NEW w, w[1] \in {"let_go", "deactivate", "reset_board"}, NEW x, Shape(x), Tracked(x), Announced(x), NEW j \in DOMAIN x.boards
  PROVE  OnlyBoard(x, Step(w, x, j), j, 0) /\ Step(w, x, j).boards[j] = Quiet(w[1], x.boards[j])
<1> DEFINE l == LetGo(x, j)
           b == x.boards[j]
<1>1. OnlyBoard(x, l, j, 0) /\ l.boards[j] = LetGoOf(b)
  BY LetGoStep
<1>2. OnlyBoard(x, x, j, 0)
  BY OnlyBoardItself
<1>3. Shape(l) /\ Tracked(l) /\ Announced(l) /\ j \in DOMAIN l.boards /\ l.boards[j] \in Boards
  <2> HIDE DEF l
  <2>1. Shape(l) /\ Tracked(l) /\ Announced(l) /\ j \in DOMAIN l.boards
    BY <1>1 DEF OnlyBoard
  <2>2. QED
    BY <2>1, TrackerTypes
<1>4. ASSUME NEW a \in Boards, a.def = l.boards[j].def, a.tracker = l.boards[j].tracker, NEW d, BoardSet(l, j, a, l.flags, d)
      PROVE  OnlyBoard(x, d, j, 0) /\ d.boards[j] = a
  <2> DEFINE f == l.flags
  <2>1. l.flags \subseteq f /\ BoardSet(l, j, a, f, d)
    BY <1>4
  <2> HIDE DEF l, f
  <2>2. OnlyBoard(l, d, j, 0) /\ d.boards[j] = a
    BY <1>3, <1>4, <2>1, SetBoard
  <2>3. QED
    BY <1>1, <2>2, OnlyBoardTwice
<1> HIDE DEF l
<1>5. CASE w[1] = "let_go"
  <2>1. Step(w, x, j) = l
    BY <1>5 DEF Step, l
  <2>2. QED
    BY <1>1, <1>5, <2>1 DEF Quiet
<1>6. CASE w[1] = "deactivate"
  <2> DEFINE a == [l.boards[j] EXCEPT !.st = "inactive"]
  <2>1. Step(w, x, j) = IF b.st = "disabled" THEN x ELSE [l EXCEPT !.boards[j].st = "inactive"]
    BY <1>6 DEF Step, DeactivateBoard, l
  <2>2. a \in Boards /\ a.def = l.boards[j].def /\ a.tracker = l.boards[j].tracker
    BY <1>3 DEF Boards
  <2>3. BoardSet(l, j, a, l.flags, [l EXCEPT !.boards[j].st = "inactive"])
    BY <1>3 DEF BoardSet, Shape, Fields
  <2> HIDE DEF a
  <2>4. OnlyBoard(x, [l EXCEPT !.boards[j].st = "inactive"], j, 0) /\ [l EXCEPT !.boards[j].st = "inactive"].boards[j] = a
    BY <1>4, <2>2, <2>3
  <2>5. QED
    BY <1>1, <1>2, <1>6, <2>1, <2>4 DEF Quiet, a
<1>7. CASE w[1] = "reset_board"
  <2> DEFINE a == [l.boards[j] EXCEPT !.lboard = "waiting", !.st = "active"]
             d == [l EXCEPT !.boards[j] = [RestartedBoard(l.boards[j]) EXCEPT !.st = "active"]]
  <2>1. Step(w, x, j) = IF b.st \in {"inactive", "disabled"} THEN x ELSE d
    BY <1>7 DEF Step, ResetBoard, l
  <2>2. a \in Boards /\ a.def = l.boards[j].def /\ a.tracker = l.boards[j].tracker
    BY <1>3 DEF Boards
  <2>3. [RestartedBoard(l.boards[j]) EXCEPT !.st = "active"] = a
    BY <1>3 DEF RestartedBoard, Boards
  <2>4. BoardSet(l, j, a, l.flags, d)
    <3> HIDE DEF a
    <3>1. d = [l EXCEPT !.boards[j] = a]
      BY <2>3
    <3>2. QED
      BY <1>3, <3>1 DEF BoardSet, Shape, Fields
  <2> HIDE DEF a, d
  <2>5. OnlyBoard(x, d, j, 0) /\ d.boards[j] = a
    BY <1>4, <2>2, <2>4
  <2>6. QED
    BY <1>1, <1>2, <1>7, <2>1, <2>5 DEF Quiet, a
<1>8. QED
  BY <1>5, <1>6, <1>7

\* What can come out of the frame of a board that is in play.
LEMMA OutcomesOfBoard ==
  ASSUME NEW b \in Boards, InPlay(b), NEW o \in FrameOfBoard(b)
  PROVE  /\ o.lboard \in LboardStates /\ o.value \in Nat
         /\ o.result \in {"inactive", "active", "started", "canceled", "triggered"}
         /\ o.result = "started" => o.lboard = "started"
         /\ o.result # "started" => o.lboard # "started"
         /\ o.result = "canceled" => b.lboard = "started"
         /\ o.result \in {"inactive", "active"} => b.lboard # "started"
<1>1. o \in LboardOutcomes(b.lboard)
  BY DEF FrameOfBoard, InPlay
<1> DEFINE quiet(s, r) == {[lboard |-> s, result |-> r, value |-> 0]}
           with(s) == {[lboard |-> s, result |-> s, value |-> v] : v \in Values}
<1>2. b.lboard \in LboardStates
  BY DEF Boards, LboardStates
<1>3. \A s, r : \A y \in quiet(s, r) : y.lboard = s /\ y.result = r /\ y.value = 0
  OBVIOUS
<1>4. \A s : \A y \in with(s) : y.lboard = s /\ y.result = s /\ y.value \in Nat
  BY ValuesAssumption
<1>5. o \in CASE b.lboard \in {"waiting", "triggered", "canceled"} -> quiet(b.lboard, "inactive") \cup quiet("active", "active")
              [] b.lboard = "active"  -> quiet("active", "active") \cup with("started") \cup with("triggered")
              [] b.lboard = "started" -> with("started") \cup quiet("canceled", "canceled") \cup with("triggered")
              [] OTHER -> quiet(b.lboard, "inactive")
  BY <1>1 DEF LboardOutcomes
<1> HIDE DEF quiet, with
<1>6. CASE b.lboard \in {"waiting", "triggered", "canceled"}
  <2>1. o \in quiet(b.lboard, "inactive") \/ o \in quiet("active", "active")
    BY <1>5, <1>6
  <2>2. QED
    BY <1>2, <1>3, <1>6, <2>1 DEF LboardStates
<1>7. CASE b.lboard = "active"
  <2>1. o \in quiet("active", "active") \/ o \in with("started") \/ o \in with("triggered")
    BY <1>5, <1>7
  <2>2. QED
    BY <1>3, <1>4, <1>7, <2>1 DEF LboardStates
<1>8. CASE b.lboard = "started"
  <2>1. o \in with("started") \/ o \in quiet("canceled", "canceled") \/ o \in with("triggered")
    BY <1>5, <1>8
  <2>2. QED
    BY <1>3, <1>4, <1>8, <2>1 DEF LboardStates
<1>9. CASE b.lboard = "disabled"
  <2>1. o \in quiet(b.lboard, "inactive")
    BY <1>5, <1>9
  <2>2. QED
    BY <1>2, <1>3, <1>9, <2>1 DEF LboardStates
<1>10. QED
  BY <1>2, <1>6, <1>7, <1>8, <1>9 DEF LboardStates

\* A leaderboard that changes and then finds a tracker.
LEMMA SetThenAllocate ==
  ASSUME NEW x, Shape(x), Tracked(x), Announced(x), NEW j \in DOMAIN x.boards, NEW b \in Boards, b.def = x.boards[j].def,
         b.tracker = x.boards[j].tracker, NEW f, x.flags \subseteq f, NEW d, BoardSet(x, j, b, f, d), b.tracker = 0,
         NEW e, e = AllocateTracker(d, j)
  PROVE  SetAllocated(x, j, b, f, d, e)
<1>1. OnlyBoard(x, d, j, b.value) /\ d.boards[j] = b /\ d.flags = f
  <2>1. OnlyBoard(x, d, j, b.value)
    BY SetBoard
  <2>2. d.boards[j] = b
    BY DEF BoardSet, Shape, Fields
  <2>3. d.flags = f
    BY DEF BoardSet, Shape, Fields
  <2>4. QED
    BY <2>1, <2>2, <2>3
<1>2. Shape(d) /\ Tracked(d) /\ Announced(d) /\ j \in DOMAIN d.boards
  BY <1>1 DEF OnlyBoard
<1>3. OnlyBoard(d, e, j, b.value) /\ Allocated(d, j, e)
  BY <1>1, <1>2, AllocateStep
<1>4. OnlyBoard(x, e, j, b.value)
  BY <1>1, <1>3, OnlyBoardTwice
<1>5. QED
  BY <1>1, <1>3, <1>4 DEF OnlyBoard, SetAllocated

\* One that changes and then updates its tracker.
LEMMA SetThenUpdate ==
  ASSUME NEW x, Shape(x), Tracked(x), Announced(x), NEW j \in DOMAIN x.boards, NEW b \in Boards, b.def = x.boards[j].def,
         b.tracker = x.boards[j].tracker, NEW f, x.flags \subseteq f, NEW d, BoardSet(x, j, b, f, d),
         NEW e, e = UpdateTracker(d, j)
  PROVE  SetUpdated(x, j, b, f, e)
<1>1. OnlyBoard(x, d, j, b.value) /\ d.boards[j] = b /\ d.flags = f
  <2>1. OnlyBoard(x, d, j, b.value)
    BY SetBoard
  <2>2. d.boards[j] = b
    BY DEF BoardSet, Shape, Fields
  <2>3. d.flags = f
    BY DEF BoardSet, Shape, Fields
  <2>4. QED
    BY <2>1, <2>2, <2>3
<1>2. Shape(d) /\ Tracked(d) /\ Announced(d) /\ j \in DOMAIN d.boards
  BY <1>1 DEF OnlyBoard
<1>3. OnlyBoard(d, e, j, b.value) /\ Updated(d, j, e)
  BY <1>1, <1>2, UpdateStep
<1>4. OnlyBoard(x, e, j, b.value)
  BY <1>1, <1>3, OnlyBoardTwice
<1>5. QED
  BY <1>1, <1>3, <1>4 DEF OnlyBoard, Updated, SetUpdated

\* One that changes and then lets go of it.
LEMMA SetThenRelease ==
  ASSUME NEW x, Shape(x), Tracked(x), Announced(x), NEW j \in DOMAIN x.boards, NEW b \in Boards, b.def = x.boards[j].def,
         b.tracker = x.boards[j].tracker, NEW f, x.flags \subseteq f, NEW d, BoardSet(x, j, b, f, d), NEW v,
         NEW e, e = ReleaseTracker(d, j)
  PROVE  SetReleased(x, j, b, f, v, e)
<1>1. OnlyBoard(x, d, j, v) /\ d.boards[j] = b /\ d.flags = f /\ d.trackers = x.trackers
  <2>1. OnlyBoard(x, d, j, v)
    BY SetBoard
  <2>2. d.boards[j] = b
    BY DEF BoardSet, Shape, Fields
  <2>3. d.trackers = x.trackers /\ d.flags = f
    BY DEF BoardSet, Shape, Fields
  <2>4. QED
    BY <2>1, <2>2, <2>3
<1>2. Shape(d) /\ Tracked(d) /\ Announced(d) /\ j \in DOMAIN d.boards
  BY <1>1 DEF OnlyBoard
<1>3. OnlyBoard(d, e, j, v) /\ Released(d, j, e)
  BY <1>2, ReleaseStep
<1>4. OnlyBoard(x, e, j, v)
  BY <1>1, <1>3, OnlyBoardTwice
<1>5. e.boards[j] = [b EXCEPT !.tracker = 0] /\ RawsSame(x, e)
  BY <1>1, <1>3 DEF Released, RawsSame
<1>6. f \subseteq e.flags
  BY <1>1, <1>3 DEF OnlyBoard
<1>7. QED
  BY <1>4, <1>5, <1>6 DEF SetReleased

\* Board j in a frame: it has what has been measured, and its tracker too.
LEMMA ProcessMoves ==
  ASSUME NEW w, w[1] = "process_board", NEW c, BoardLoopNeeds(w, c), NEW x, NEW j \in DOMAIN c.boards,
         Shape(x), Tracked(x), Announced(x), DOMAIN x.boards = DOMAIN c.boards, x.boards[j] = c.boards[j]
  PROVE  BoardMoves(w, c, x, Step(w, x, j), j)
<1> DEFINE o    == w[2][j]
           b    == x.boards[j]
           e    == ProcessBoard(x, j, o)
           d    == [x EXCEPT !.boards[j] = [b EXCEPT !.lboard = o.lboard, !.value = o.value]]
           f    == x.flags \cup {"board"}
           b0   == [b EXCEPT !.lboard = o.lboard, !.value = o.value]
           with(st, news) == [b0 EXCEPT !.st = st, !.pending = news]
<1>1. Step(w, x, j) = e
  BY DEF Step
<1>2. b \in Boards /\ Attached(b) /\ b.pending = "none" /\ o \in FrameOfBoard(b) /\ b.tracker \in Nat
  BY TrackerTypes DEF BoardLoopNeeds
<1>3. CASE ~InPlay(b)
  <2>1. b.st \in {"inactive", "disabled"}
    BY <1>2, <1>3 DEF InPlay, Boards
  <2>2. e = x
    BY <2>1 DEF ProcessBoard
  <2>3. OnlyBoard(x, x, j, o.value) /\ RawsSame(x, x)
    BY OnlyBoardItself DEF RawsSame
  <2>4. BoardProcessed(c, w[2], x, j)
    BY <1>2, <1>3, <2>1 DEF BoardProcessed, Valued
  <2>5. QED
    BY <1>1, <2>2, <2>3, <2>4 DEF BoardMoves, BoardDone
<1>4. CASE InPlay(b)
  <2>1. /\ o.lboard \in LboardStates /\ o.value \in Nat
        /\ o.result \in {"inactive", "active", "started", "canceled", "triggered"}
        /\ o.result = "started" => o.lboard = "started"
        /\ o.result # "started" => o.lboard # "started"
        /\ o.result = "canceled" => b.lboard = "started"
        /\ o.result \in {"inactive", "active"} => b.lboard # "started"
    BY <1>2, <1>4, OutcomesOfBoard
  <2> HIDE DEF o
  <2>2. b0 \in Boards /\ b0.def = b.def /\ b0.tracker = b.tracker /\ b0.st = b.st /\ b0.pending = "none"
        /\ b0.lboard = o.lboard /\ b0.value = o.value
    BY <1>2, <2>1 DEF Boards, LboardStates
  <2>3. d.boards[j] = b0 /\ d.flags = x.flags /\ d = [x EXCEPT !.boards[j] = b0]
    BY DEF Shape, Fields
  <2>4. BoardSet(x, j, b0, x.flags, d)
    <3> HIDE DEF b0, d
    <3>1. QED
      BY <2>3 DEF BoardSet, Shape, Fields
  <2> HIDE DEF b0, d
  <2>5. ASSUME NEW st \in {"active", "tracking"}, NEW news \in {"started", "failed", "submitted"}
        PROVE  /\ with(st, news) \in Boards /\ with(st, news).def = b.def /\ with(st, news).tracker = b.tracker
               /\ with(st, news).st = st /\ with(st, news).pending = news
               /\ with(st, news).lboard = o.lboard /\ with(st, news).value = o.value
               /\ BoardSet(x, j, with(st, news), f, BoardTo(d, j, st, news))
    <3>1. /\ with(st, news) \in Boards /\ with(st, news).def = b.def /\ with(st, news).tracker = b.tracker
          /\ with(st, news).st = st /\ with(st, news).pending = news
          /\ with(st, news).lboard = o.lboard /\ with(st, news).value = o.value
      BY <2>2 DEF Boards
    <3>2. BoardTo(d, j, st, news) = [x EXCEPT !.boards[j] = with(st, news), !.flags = f]
      <4>1. BoardTo(d, j, st, news) = [d EXCEPT !.boards[j] = with(st, news), !.flags = f]
        BY <2>3 DEF BoardTo, Shape, Fields
      <4>2. [d.boards EXCEPT ![j] = with(st, news)] = [x.boards EXCEPT ![j] = with(st, news)]
        <5>1. d.boards = [x.boards EXCEPT ![j] = b0]
          BY <2>3 DEF Shape, Fields
        <5> HIDE DEF with
        <5>2. QED
          BY <5>1
      <4> HIDE DEF with, f
      <4>3. [d EXCEPT !.boards[j] = with(st, news), !.flags = f] = [x EXCEPT !.boards[j] = with(st, news), !.flags = f]
        BY <2>3, <4>2 DEF Shape, Fields
      <4>4. QED
        BY <4>1, <4>3
    <3> HIDE DEF with, f
    <3>3. BoardSet(x, j, with(st, news), f, BoardTo(d, j, st, news))
      BY <3>2 DEF BoardSet
    <3>4. QED
      BY <3>1, <3>3
  <2>6. x.flags \subseteq f /\ "board" \in f
    OBVIOUS
  <2>7. b.st \in {"active", "tracking"} /\ (b.tracker # 0 <=> b.st = "tracking") /\ (b.st = "tracking" <=> b.lboard = "started")
    BY <1>2, <1>4 DEF InPlay, Attached
  <2> HIDE DEF f, with
  <2>8. CASE o.result = "started" /\ b.lboard # "started"
    <3> DEFINE a == with("tracking", "started")
               y == BoardTo(d, j, "tracking", "started")
    <3>1. e = AllocateTracker(y, j)
      <4>1. b.st \notin {"inactive", "disabled"}
        BY <2>7
      <4>2. QED
        BY <2>8, <4>1 DEF ProcessBoard, o, d
    <3>2. a \in Boards /\ a.def = x.boards[j].def /\ a.tracker = x.boards[j].tracker /\ a.tracker = 0 /\ BoardSet(x, j, a, f, y)
          /\ a.st = "tracking" /\ a.value = o.value /\ a.lboard = o.lboard
      BY <2>5, <2>7, <2>8
    <3> HIDE DEF a, y, e
    <3>3. OnlyBoard(x, e, j, a.value) /\ Allocated(y, j, e) /\ y.boards[j] = a /\ f \subseteq e.flags
      <4>1. SetAllocated(x, j, a, f, y, e)
        BY <2>6, <3>1, <3>2, SetThenAllocate
      <4>2. QED
        BY <4>1 DEF SetAllocated
    <3>4. PICK k \in DOMAIN e.trackers : e.boards[j] = [a EXCEPT !.tracker = k] /\ k # 0 /\ e.trackers[k].raw = a.value
      BY <3>3 DEF Allocated
    <3>5. e.boards[j].st = "tracking" /\ e.boards[j].tracker = k /\ e.boards[j].value = o.value /\ e.boards[j].lboard = "started"
      BY <2>1, <2>8, <3>2, <3>4 DEF Boards
    <3>6. BoardProcessed(c, w[2], e, j)
      BY <1>4, <2>6, <2>8, <3>2, <3>3, <3>4, <3>5 DEF BoardProcessed, Attached, Valued, InPlay, o
    <3>7. QED
      BY <1>1, <2>8, <3>2, <3>3, <3>6 DEF BoardMoves, BoardDone, o, e
  <2>9. CASE o.result = "started" /\ b.lboard = "started"
    <3>1. e = UpdateTracker(d, j)
      <4>1. b.st \notin {"inactive", "disabled"}
        BY <2>7
      <4>2. QED
        BY <2>9, <4>1 DEF ProcessBoard, o, d
    <3> DEFINE g == x.flags
    <3>2. x.flags \subseteq g /\ BoardSet(x, j, b0, g, d)
      BY <2>4
    <3> HIDE DEF g, e
    <3>3. OnlyBoard(x, e, j, b0.value) /\ e.boards[j] = b0 /\ (b0.tracker # 0 => e.trackers[b0.tracker].raw = b0.value)
      <4>1. SetUpdated(x, j, b0, g, e)
        BY <2>2, <3>1, <3>2, SetThenUpdate
      <4>2. QED
        BY <4>1 DEF SetUpdated
    <3>4. BoardProcessed(c, w[2], e, j)
      BY <1>4, <2>1, <2>2, <2>7, <2>9, <3>3 DEF BoardProcessed, Attached, Valued, InPlay, o
    <3>5. QED
      BY <1>1, <2>2, <2>9, <3>3, <3>4 DEF BoardMoves, BoardDone, o, e
  <2>10. CASE o.result = "canceled"
    <3> DEFINE a == with("active", "failed")
               y == BoardTo(d, j, "active", "failed")
    <3>1. e = ReleaseTracker(y, j)
      <4>1. b.st \notin {"inactive", "disabled"}
        BY <2>7
      <4>2. QED
        BY <2>10, <4>1 DEF ProcessBoard, o, d
    <3>2. a \in Boards /\ a.def = x.boards[j].def /\ a.tracker = x.boards[j].tracker /\ BoardSet(x, j, a, f, y)
          /\ a.st = "active" /\ a.lboard = o.lboard
      BY <2>5
    <3> DEFINE v == o.value
    <3> HIDE DEF a, y, e, v
    <3>3. OnlyBoard(x, e, j, v) /\ e.boards[j] = [a EXCEPT !.tracker = 0] /\ f \subseteq e.flags /\ RawsSame(x, e)
      <4>1. SetReleased(x, j, a, f, v, e)
        BY <2>6, <3>1, <3>2, SetThenRelease
      <4>2. QED
        BY <4>1 DEF SetReleased
    <3>4. e.boards[j].st = "active" /\ e.boards[j].tracker = 0 /\ e.boards[j].lboard # "started"
      BY <2>1, <2>10, <3>2, <3>3 DEF Boards
    <3>5. BoardProcessed(c, w[2], e, j)
      BY <1>4, <2>6, <3>3, <3>4 DEF BoardProcessed, Attached, Valued, InPlay
    <3>6. QED
      BY <1>1, <3>3, <3>5 DEF BoardMoves, BoardDone, o, e, v
  <2>11. CASE o.result = "triggered"
    <3> DEFINE a == with("active", "submitted")
               y == BoardTo(d, j, "active", "submitted")
               z == IF b.lboard = "started" THEN UpdateTracker(y, j) ELSE AllocateTracker(y, j)
    <3>1. e = ReleaseTracker(z, j)
      <4>1. b.st \notin {"inactive", "disabled"}
        BY <2>7
      <4>2. QED
        BY <2>11, <4>1 DEF ProcessBoard, o, d
    <3>2. a \in Boards /\ a.def = x.boards[j].def /\ a.tracker = x.boards[j].tracker /\ BoardSet(x, j, a, f, y)
          /\ a.st = "active" /\ a.lboard = o.lboard /\ a.value = o.value
      BY <2>5
    <3> HIDE DEF a, y, e
    <3>3. OnlyBoard(x, z, j, a.value) /\ z.boards[j].st = "active" /\ z.boards[j].lboard = o.lboard /\ f \subseteq z.flags
      <4>1. CASE b.lboard = "started"
        <5>1. z = UpdateTracker(y, j)
          BY <4>1
        <5> HIDE DEF z
        <5>2. OnlyBoard(x, z, j, a.value) /\ z.boards[j] = a /\ f \subseteq z.flags
          <6>1. SetUpdated(x, j, a, f, z)
            BY <2>6, <3>2, <5>1, SetThenUpdate
          <6>2. QED
            BY <6>1 DEF SetUpdated
        <5>3. QED
          BY <3>2, <5>2
      <4>2. CASE b.lboard # "started"
        <5>1. z = AllocateTracker(y, j) /\ a.tracker = 0
          BY <2>7, <3>2, <4>2
        <5> HIDE DEF z
        <5>2. OnlyBoard(x, z, j, a.value) /\ Allocated(y, j, z) /\ y.boards[j] = a /\ f \subseteq z.flags
          <6>1. SetAllocated(x, j, a, f, y, z)
            BY <2>6, <3>2, <5>1, SetThenAllocate
          <6>2. QED
            BY <6>1 DEF SetAllocated
        <5>3. QED
          BY <3>2, <5>2 DEF Allocated, Boards
      <4>3. QED
        BY <4>1, <4>2
    <3> HIDE DEF z
    <3>4. Shape(z) /\ Tracked(z) /\ Announced(z) /\ j \in DOMAIN z.boards
      BY <3>3 DEF OnlyBoard
    <3>5. OnlyBoard(z, e, j, a.value) /\ Released(z, j, e)
      BY <3>1, <3>4, ReleaseStep
    <3>6. OnlyBoard(x, e, j, a.value)
      BY <3>3, <3>5, OnlyBoardTwice
    <3>7. e.boards[j].st = "active" /\ e.boards[j].tracker = 0 /\ e.boards[j].lboard # "started" /\ f \subseteq e.flags
      <4>1. z.boards[j] \in Boards
        BY <3>4, TrackerTypes
      <4>2. e.boards[j].st = "active" /\ e.boards[j].tracker = 0 /\ e.boards[j].lboard # "started"
        BY <2>1, <2>11, <3>3, <3>5, <4>1 DEF Released, Boards
      <4>3. QED
        BY <3>3, <3>5, <4>2 DEF OnlyBoard
    <3>8. BoardProcessed(c, w[2], e, j)
      BY <1>4, <2>6, <3>7 DEF BoardProcessed, Attached, Valued, InPlay
    <3>9. QED
      BY <1>1, <2>11, <3>2, <3>6, <3>8 DEF BoardMoves, BoardDone, o, e
  <2>12. CASE o.result \in {"inactive", "active"}
    <3>1. e = d
      <4>1. b.st \notin {"inactive", "disabled"}
        BY <2>7
      <4>2. QED
        BY <2>12, <4>1 DEF ProcessBoard, o, d
    <3> DEFINE g == x.flags
               v == o.value
    <3>2. x.flags \subseteq g /\ BoardSet(x, j, b0, g, d)
      BY <2>4
    <3> HIDE DEF g, v
    <3>3. OnlyBoard(x, d, j, v) /\ d.boards[j] = b0
      <4>1. OnlyBoard(x, d, j, v)
        BY <2>2, <3>2, SetBoard
      <4>2. QED
        BY <2>3, <4>1
    <3>4. RawsSame(x, d)
      BY <3>2 DEF RawsSame, BoardSet, Shape, Fields
    <3>5. BoardProcessed(c, w[2], d, j)
      BY <1>4, <2>1, <2>2, <2>7, <2>12, <3>3 DEF BoardProcessed, Attached, Valued, InPlay, o
    <3>6. QED
      BY <1>1, <3>1, <3>3, <3>4, <3>5 DEF BoardMoves, BoardDone, o, v
  <2>13. QED
    BY <2>1, <2>8, <2>9, <2>10, <2>11, <2>12
<1>5. QED
  BY <1>3, <1>4

\* Board j when its state has been restored: it has a tracker if its attempt runs.
LEMMA RestoredMoves ==
  ASSUME NEW w, w[1] = "restored_board", NEW c, BoardLoopNeeds(w, c), NEW x, NEW j \in DOMAIN c.boards,
         Shape(x), Tracked(x), Announced(x), DOMAIN x.boards = DOMAIN c.boards, x.boards[j] = c.boards[j]
  PROVE  BoardMoves(w, c, x, Step(w, x, j), j)
<1> DEFINE b    == x.boards[j]
           e    == AfterDeserializeBoard(x, j)
           v    == b.value
           with(st) == [b EXCEPT !.pending = "none", !.st = st]
           set(st) == [x EXCEPT !.boards[j] = with(st)]
           f    == x.flags
<1>1. Step(w, x, j) = e
  BY DEF Step
<1>2. b \in Boards /\ b.tracker \in Nat
  BY TrackerTypes
<1>3. IF InPlay(b)
      THEN IF b.pending = "failed" THEN b.lboard = "started" => b.tracker # 0
           ELSE b.pending = "none" /\ b.st = "active" /\ b.tracker = 0
      ELSE b.tracker = 0 /\ b.pending = "none"
  BY DEF BoardLoopNeeds
<1>4. OnlyBoard(x, x, j, v) /\ RawsSame(x, x)
  BY OnlyBoardItself DEF RawsSame
<1>5. ASSUME NEW st \in {"active", "tracking"}
      PROVE  /\ with(st) \in Boards /\ with(st).def = b.def /\ with(st).tracker = b.tracker /\ with(st).st = st
             /\ with(st).pending = "none" /\ with(st).lboard = b.lboard /\ with(st).value = v
             /\ BoardSet(x, j, with(st), f, set(st))
  <2>1. /\ with(st) \in Boards /\ with(st).def = b.def /\ with(st).tracker = b.tracker /\ with(st).st = st
        /\ with(st).pending = "none" /\ with(st).lboard = b.lboard /\ with(st).value = v
    BY <1>2 DEF Boards
  <2>2. BoardSet(x, j, with(st), f, set(st))
    <3> HIDE DEF with
    <3>1. QED
      BY DEF BoardSet, Shape, Fields
  <2>3. QED
    BY <2>1, <2>2
<1>6. x.flags \subseteq f
  OBVIOUS
<1> HIDE DEF with, set, f, v
<1>7. CASE ~InPlay(b)
  <2>1. b.st \in {"inactive", "disabled"}
    BY <1>2, <1>7 DEF InPlay, Boards
  <2>2. e = x
    BY <2>1 DEF AfterDeserializeBoard
  <2>3. BoardRestored(c, x, j)
    BY <1>3, <1>7, <2>1 DEF BoardRestored, Attached, Valued
  <2>4. QED
    BY <1>1, <1>4, <2>2, <2>3 DEF BoardMoves, BoardDone, v
<1>8. CASE InPlay(b) /\ b.lboard = "started" /\ b.pending = "failed"
  <2> DEFINE a == with("tracking")
             y == set("tracking")
  <2>1. e = UpdateTracker(y, j)
    <3>1. b.st \notin {"inactive", "disabled"}
      BY <1>8 DEF InPlay
    <3>2. QED
      BY <1>8, <3>1 DEF AfterDeserializeBoard, set, with
  <2>2. /\ a \in Boards /\ a.def = x.boards[j].def /\ a.tracker = x.boards[j].tracker /\ BoardSet(x, j, a, f, y)
        /\ a.st = "tracking" /\ a.value = v /\ a.pending = "none" /\ a.lboard = "started" /\ a.tracker # 0
    BY <1>3, <1>5, <1>8
  <2> HIDE DEF a, y, e
  <2>3. OnlyBoard(x, e, j, a.value) /\ e.boards[j] = a /\ (a.tracker # 0 => e.trackers[a.tracker].raw = a.value)
    <3>1. SetUpdated(x, j, a, f, e)
      BY <1>6, <2>1, <2>2, SetThenUpdate
    <3>2. QED
      BY <3>1 DEF SetUpdated
  <2>4. BoardRestored(c, e, j)
    BY <1>8, <2>2, <2>3 DEF BoardRestored, Attached, Valued, InPlay, v
  <2>5. QED
    BY <1>1, <1>8, <2>2, <2>3, <2>4 DEF BoardMoves, BoardDone, v, e
<1>9. CASE InPlay(b) /\ b.lboard = "started" /\ b.pending # "failed"
  <2> DEFINE a == with("tracking")
             y == set("tracking")
  <2>1. e = AllocateTracker(y, j)
    <3>1. b.st \notin {"inactive", "disabled"}
      BY <1>9 DEF InPlay
    <3>2. QED
      BY <1>9, <3>1 DEF AfterDeserializeBoard, set, with
  <2>2. /\ a \in Boards /\ a.def = x.boards[j].def /\ a.tracker = x.boards[j].tracker /\ BoardSet(x, j, a, f, y)
        /\ a.st = "tracking" /\ a.value = v /\ a.pending = "none" /\ a.lboard = "started" /\ a.tracker = 0
    BY <1>3, <1>5, <1>9
  <2> HIDE DEF a, y, e
  <2>3. SetAllocated(x, j, a, f, y, e)
    BY <1>6, <2>1, <2>2, SetThenAllocate
  <2>4. OnlyBoard(x, e, j, a.value) /\ Allocated(y, j, e) /\ y.boards[j] = a
    BY <2>3 DEF SetAllocated
  <2>5. PICK k \in DOMAIN e.trackers : e.boards[j] = [a EXCEPT !.tracker = k] /\ k # 0 /\ e.trackers[k].raw = a.value
    BY <2>4 DEF Allocated
  <2>6. /\ e.boards[j].st = "tracking" /\ e.boards[j].tracker = k /\ e.boards[j].value = v /\ e.boards[j].lboard = "started"
        /\ e.boards[j].pending = "none"
    BY <2>2, <2>5 DEF Boards
  <2>7. BoardRestored(c, e, j)
    BY <1>9, <2>2, <2>5, <2>6 DEF BoardRestored, Attached, Valued, InPlay, v
  <2>8. QED
    BY <1>1, <1>9, <2>2, <2>4, <2>7 DEF BoardMoves, BoardDone, v, e
<1>10. CASE InPlay(b) /\ b.lboard # "started" /\ b.pending = "failed"
  <2> DEFINE a == with("active")
             y == set("active")
  <2>1. e = ReleaseTracker(y, j)
    <3>1. b.st \notin {"inactive", "disabled"}
      BY <1>10 DEF InPlay
    <3>2. QED
      BY <1>10, <3>1 DEF AfterDeserializeBoard, set, with
  <2>2. /\ a \in Boards /\ a.def = x.boards[j].def /\ a.tracker = x.boards[j].tracker /\ BoardSet(x, j, a, f, y)
        /\ a.st = "active" /\ a.pending = "none" /\ a.lboard = b.lboard
    BY <1>5
  <2> HIDE DEF a, y, e
  <2>3. OnlyBoard(x, e, j, v) /\ e.boards[j] = [a EXCEPT !.tracker = 0] /\ RawsSame(x, e)
    <3>1. SetReleased(x, j, a, f, v, e)
      BY <1>6, <2>1, <2>2, SetThenRelease
    <3>2. QED
      BY <3>1 DEF SetReleased
  <2>4. e.boards[j].st = "active" /\ e.boards[j].tracker = 0 /\ e.boards[j].lboard # "started" /\ e.boards[j].pending = "none"
    BY <1>10, <2>2, <2>3 DEF Boards
  <2>5. BoardRestored(c, e, j)
    BY <1>10, <2>4 DEF BoardRestored, Attached, Valued, InPlay
  <2>6. QED
    BY <1>1, <2>3, <2>5 DEF BoardMoves, BoardDone, v, e
<1>11. CASE InPlay(b) /\ b.lboard # "started" /\ b.pending # "failed"
  <2>1. e = x
    BY <1>11 DEF AfterDeserializeBoard
  <2>2. BoardRestored(c, x, j)
    BY <1>3, <1>11 DEF BoardRestored, Attached, Valued
  <2>3. QED
    BY <1>1, <1>4, <2>1, <2>2 DEF BoardMoves, BoardDone, v
<1>12. QED
  BY <1>7, <1>8, <1>9, <1>10, <1>11

\* Any step of the loops.
LEMMA AnyBoardMoves ==
  ASSUME NEW w, NEW c, BoardLoopNeeds(w, c), NEW x, NEW j \in DOMAIN c.boards,
         Shape(x), Tracked(x), Announced(x), DOMAIN x.boards = DOMAIN c.boards, x.boards[j] = c.boards[j]
  PROVE  BoardMoves(w, c, x, Step(w, x, j), j)
<1>1. CASE w[1] = "process_board"
  BY <1>1, ProcessMoves
<1>2. CASE w[1] = "restored_board"
  BY <1>2, RestoredMoves
<1>3. CASE w[1] \in {"let_go", "deactivate", "reset_board"}
  <2>1. OnlyBoard(x, Step(w, x, j), j, 0) /\ Step(w, x, j).boards[j] = Quiet(w[1], x.boards[j])
    BY <1>3, QuietStep
  <2>2. QED
    BY <1>3, <2>1 DEF BoardMoves, BoardDone
<1>4. QED
  BY <1>1, <1>2, <1>3 DEF BoardLoopNeeds

\* What is done for one board is not undone by what is done for another.
LEMMA DoneStays ==
  ASSUME NEW w, NEW c, BoardLoopNeeds(w, c), NEW x, NEW d, NEW j \in DOMAIN c.boards, BoardMoves(w, c, x, d, j),
         DOMAIN x.boards = DOMAIN c.boards, \A i \in DOMAIN c.boards : x.boards[i].def = c.boards[i].def, Tracked(x),
         NEW l \in DOMAIN c.boards, l # j, BoardDone(w, c, x, l)
  PROVE  BoardDone(w, c, d, l)
<1>1. CASE w[1] = "process_board"
  <2> DEFINE v == w[2][j].value
  <2>1. OnlyBoard(x, d, j, v) /\ (w[2][j].result \in {"started", "triggered"} \/ RawsSame(x, d)) /\ BoardProcessed(c, w[2], x, l)
    BY <1>1 DEF BoardMoves, BoardDone
  <2>2. d.boards[l] = x.boards[l] /\ x.flags \subseteq d.flags /\ RawsFrom(x, d, j, v)
    BY <2>1 DEF OnlyBoard
  <2>3. Valued(d, l)
    <3> SUFFICES ASSUME x.boards[l].st = "tracking", ~x.boards[l].def.fromHits
                 PROVE  d.trackers[x.boards[l].tracker].raw = x.boards[l].value
      BY <2>2 DEF Valued
    <3>1. /\ x.trackers[x.boards[l].tracker].raw = x.boards[l].value /\ x.boards[l].tracker # 0
          /\ w[2][l].result = "started" /\ x.boards[l].value = w[2][l].value
      BY <2>1 DEF BoardProcessed, Valued, Attached
    <3>2. CASE RawsSame(x, d)
      BY <3>1, <3>2, TrackerTypes DEF RawsSame
    <3>3. CASE w[2][j].result \in {"started", "triggered"}
      <4>1. \/ d.trackers[x.boards[l].tracker].raw = x.trackers[x.boards[l].tracker].raw
            \/ x.boards[l].def.group = x.boards[j].def.group /\ d.trackers[x.boards[l].tracker].raw = v
        BY <2>2, <3>1 DEF RawsFrom
      <4>2. c.boards[j].def.group = c.boards[l].def.group => w[2][j].value = w[2][l].value
        BY <1>1, <3>1, <3>3 DEF BoardLoopNeeds
      <4>3. QED
        BY <3>1, <4>1, <4>2
    <3>4. QED
      BY <2>1, <3>2, <3>3
  <2>4. QED
    BY <1>1, <2>1, <2>2, <2>3 DEF BoardDone, BoardProcessed
<1>2. CASE w[1] = "restored_board"
  <2> DEFINE v == c.boards[j].value
  <2>1. OnlyBoard(x, d, j, v) /\ ((InPlay(c.boards[j]) /\ c.boards[j].lboard = "started") \/ RawsSame(x, d)) /\ BoardRestored(c, x, l)
    BY <1>2 DEF BoardMoves, BoardDone
  <2>2. d.boards[l] = x.boards[l] /\ RawsFrom(x, d, j, v)
    BY <2>1 DEF OnlyBoard
  <2>3. Valued(d, l)
    <3> SUFFICES ASSUME x.boards[l].st = "tracking", ~x.boards[l].def.fromHits
                 PROVE  d.trackers[x.boards[l].tracker].raw = x.boards[l].value
      BY <2>2 DEF Valued
    <3>1. /\ x.trackers[x.boards[l].tracker].raw = x.boards[l].value /\ x.boards[l].tracker # 0
          /\ InPlay(c.boards[l]) /\ c.boards[l].lboard = "started" /\ x.boards[l].value = c.boards[l].value
      BY <2>1 DEF BoardRestored, Valued, Attached
    <3>2. CASE RawsSame(x, d)
      BY <3>1, <3>2, TrackerTypes DEF RawsSame
    <3>3. CASE InPlay(c.boards[j]) /\ c.boards[j].lboard = "started"
      <4>1. \/ d.trackers[x.boards[l].tracker].raw = x.trackers[x.boards[l].tracker].raw
            \/ x.boards[l].def.group = x.boards[j].def.group /\ d.trackers[x.boards[l].tracker].raw = v
        BY <2>2, <3>1 DEF RawsFrom
      <4>2. c.boards[j].def.group = c.boards[l].def.group => c.boards[j].value = c.boards[l].value
        BY <1>2, <3>1, <3>3 DEF BoardLoopNeeds
      <4>3. QED
        BY <3>1, <4>1, <4>2
    <3>4. QED
      BY <2>1, <3>2, <3>3
  <2>4. QED
    BY <1>2, <2>1, <2>2, <2>3 DEF BoardDone, BoardRestored
<1>3. CASE w[1] \in {"let_go", "deactivate", "reset_board"}
  <2>1. OnlyBoard(x, d, j, 0) /\ x.boards[l] = Quiet(w[1], c.boards[l])
    BY <1>3 DEF BoardMoves, BoardDone
  <2>2. QED
    BY <1>3, <2>1 DEF OnlyBoard, BoardDone
<1>4. QED
  BY <1>1, <1>2, <1>3 DEF BoardLoopNeeds

\* All of a loop: every board comes to what its step makes of it.
LEMMA BoardLoop ==
  ASSUME NEW w, NEW c, Shape(c), Tracked(c), Announced(c), BoardLoopNeeds(w, c), NEW e, Ran(w, c, Len(c.boards), e)
  PROVE  Reached(w, c, e, Len(c.boards)) /\ \A j \in DOMAIN c.boards : BoardDone(w, c, e, j)
<1> DEFINE n == Len(c.boards)
<1>1. n \in Nat /\ DOMAIN c.boards = 1 .. n
  BY TrackerTypes
<1>2. PICK g : Runs(g, w, c, n) /\ e = g[n]
  BY DEF Ran
<1>3. w[1] \in AchSteps \cup TrackerSteps \cup {"tracker", "retry"}
  BY DEF BoardLoopNeeds, TrackerSteps, BoardSteps, ServerSteps
<1> HIDE DEF n
<1>4. \A i \in 0 .. n : Shape(g[i]) /\ Leaves(w[1], c, g[i])
  BY <1>1, <1>2, <1>3, RunsLeave
<1>5. g[0] = c /\ \A k \in 0 .. n : k < n => g[k + 1] = Step(w, g[k], k + 1)
  BY <1>1, <1>2, RunsSteps
<1> DEFINE S == {i \in 0 .. n : Reached(w, c, g[i], i) /\ \A l \in 1 .. i : BoardDone(w, c, g[i], l)}
<1>6. 0 \in S
  <2>1. Reached(w, c, c, 0)
    BY LeavesItself DEF Reached
  <2>2. QED
    BY <1>1, <1>5, <2>1
<1>7. ASSUME NEW k \in 0 .. n, k < n, k \in S PROVE k + 1 \in S
  <2> DEFINE x == g[k]
             d == g[k + 1]
             j == k + 1
  <2>1. d = Step(w, x, j) /\ j \in DOMAIN c.boards /\ j \in 1 .. n /\ j > k
    BY <1>1, <1>5, <1>7
  <2>2. Shape(x) /\ Leaves(w[1], c, d) /\ Reached(w, c, x, k) /\ \A l \in 1 .. k : BoardDone(w, c, x, l)
    BY <1>1, <1>4, <1>7
  <2>3. \A l \in 1 .. j : l # j => l \in 1 .. k /\ l \in DOMAIN c.boards
    BY <1>1, <1>7
  <2>4. \A l \in DOMAIN c.boards : l > j => l > k /\ l # j
    BY <1>1, <1>7
  <2> HIDE DEF x, d, j
  <2>5. /\ Tracked(x) /\ Announced(x) /\ DOMAIN x.boards = DOMAIN c.boards /\ x.boards[j] = c.boards[j] /\ x.runningBoards = c.runningBoards
        /\ \A l \in DOMAIN c.boards : x.boards[l].def = c.boards[l].def /\ (l > k => x.boards[l] = c.boards[l])
    BY <2>1, <2>2 DEF Reached
  <2>6. BoardMoves(w, c, x, d, j)
    BY <2>1, <2>2, <2>5, AnyBoardMoves
  <2>7. PICK v : OnlyBoard(x, d, j, v)
    BY <2>6 DEF BoardMoves
  <2>8. Reached(w, c, d, j)
    BY <2>1, <2>2, <2>4, <2>5, <2>7 DEF Reached, OnlyBoard
  <2>9. ASSUME NEW l \in 1 .. j PROVE BoardDone(w, c, d, l)
    <3>1. CASE l = j
      BY <2>6, <3>1 DEF BoardMoves
    <3>2. CASE l # j
      BY <2>1, <2>2, <2>3, <2>5, <2>6, <3>2, DoneStays
    <3>3. QED
      BY <3>1, <3>2
  <2>10. j \in 0 .. n
    BY <1>1, <2>1
  <2>11. QED
    BY <2>8, <2>9, <2>10 DEF d, j
<1>8. \A k \in 0 .. n : k \in S
  <2> HIDE DEF S
  <2>1. QED
    BY <1>1, <1>6, <1>7, Climb
<1>9. n \in S
  BY <1>1, <1>8
<1>10. QED
  BY <1>1, <1>2, <1>9 DEF n

-----------------------------------------------------------------------------
(* What stays as it is when other parts change.                              *)

\* What is said of the achievements depends on them, the mode and the flags
\* only.
LEMMA AchsStay ==
  ASSUME NEW c, NEW d, AchPart(d) = AchPart(c), ModePart(d) = ModePart(c), c.flags \subseteq d.flags
  PROVE  /\ Due(c) => Due(d)
         /\ Held(c) => Held(d)
         /\ Ready(c) => Ready(d)
         /\ Clean(c) => Clean(d)
         /\ AchInv(c) => AchInv(d)
<1>1. d.achs = c.achs /\ d.running = c.running /\ d.host.challenges = c.host.challenges
  BY DEF AchPart
<1>2. d.setup = c.setup /\ d.hardcore = c.hardcore /\ d.waiting = c.waiting
  BY DEF ModePart
<1>3. \A i : Lit(d, i) <=> Lit(c, i)
  BY <1>1 DEF Lit
<1>4. /\ Standing(c) => Standing(d)
      /\ Running(c) => Running(d)
      /\ Clean(c) => Clean(d)
      /\ Challenges(c) => Challenges(d)
  BY <1>1, <1>2 DEF Standing, Running, Clean, Challenges, Mode
<1>5. Due(c) => Due(d)
  BY <1>1, <1>3, <1>4 DEF Due, RaisedLit
<1>6. Held(c) => Held(d)
  BY <1>1, <1>3, <1>4 DEF Held
<1>7. Ready(c) => Ready(d)
  BY <1>1, <1>3, <1>4 DEF Ready
<1>8. AchInv(c) => AchInv(d)
  BY <1>1, <1>4 DEF AchInv
<1>9. QED
  BY <1>4, <1>5, <1>6, <1>7, <1>8

\* What is said of the leaderboards depends on them and the flags only.
LEMMA BoardsStay ==
  ASSUME NEW c, NEW d, BoardPart(d) = BoardPart(c)
  PROVE  /\ Tracked(c) => Tracked(d)
         /\ BoardInv(c) => BoardInv(d) /\ Announced(d) /\ BoardsDue(d)
         /\ c.flags \subseteq d.flags /\ Announced(c) => Announced(d)
         /\ c.flags \subseteq d.flags /\ BoardsDue(c) => BoardsDue(d)
<1>1. d.boards = c.boards /\ d.trackers = c.trackers /\ d.runningBoards = c.runningBoards /\ d.host.trackers = c.host.trackers
  BY DEF BoardPart
<1>2. (\A k : Holders(d, k) = Holders(c, k)) /\ (\A k : FitsAt(d, k) <=> FitsAt(c, k))
  BY <1>1 DEF Holders, FitsAt, On
<1>3. Tracked(c) => Tracked(d)
  BY <1>1, <1>2 DEF Tracked, BoardTypes
<1>4. RunningBoards(c) => RunningBoards(d)
  BY <1>1 DEF RunningBoards
<1>5. \A j : Valued(c, j) => Valued(d, j)
  BY <1>1 DEF Valued
<1>6. BoardInv(c) => BoardInv(d)
  BY <1>1, <1>3, <1>4, <1>5 DEF BoardInv
<1>7. BoardInv(d) => Announced(d) /\ BoardsDue(d)
  BY DEF BoardInv, Announced, BoardsDue
<1>8. c.flags \subseteq d.flags /\ Announced(c) => Announced(d)
  BY <1>1 DEF Announced
<1>9. c.flags \subseteq d.flags /\ BoardsDue(c) => BoardsDue(d)
  BY <1>1, <1>3, <1>4, <1>5, <1>8 DEF BoardsDue
<1>10. QED
  BY <1>3, <1>6, <1>7, <1>8, <1>9

\* What is said of the indicator depends on it, the mode and the flags only.
LEMMA ProgressStays ==
  ASSUME NEW c, NEW d, ProgressPart(d) = ProgressPart(c), ModePart(d) = ModePart(c)
  PROVE  /\ ProgressInv(c) => ProgressInv(d)
         /\ ("progress" \in d.flags <=> "progress" \in c.flags) /\ ProgressDue(c) => ProgressDue(d)
         /\ "progress" \notin d.flags /\ ProgressInv(c) => ProgressDue(d)
<1>1. d.timer = c.timer /\ d.action = c.action /\ d.hides = c.hides /\ d.host.progress = c.host.progress
  BY DEF ProgressPart
<1>2. d.loaded = c.loaded
  BY DEF ModePart
<1>3. QED
  BY <1>1, <1>2 DEF ProgressInv, ProgressDue

\* What is said of the pauses depends on their counts only.
LEMMA PauseStays ==
  ASSUME NEW c, NEW d, PausePart(d) = PausePart(c), d.setup = c.setup, PauseInv(c)
  PROVE  PauseInv(d)
<1>1. d.decay = c.decay /\ d.required = c.required /\ d.host.frames = c.host.frames
  BY DEF PausePart
<1>2. QED
  BY <1>1 DEF PauseInv

\* What holds of the mode depends on nothing else while a game is loaded,
LEMMA ModeStays ==
  ASSUME NEW c, NEW d, ModePart(d) = ModePart(c), ModeInv(c), c.loaded
  PROVE  ModeInv(d)
<1>1. d.setup = c.setup /\ d.hardcore = c.hardcore /\ d.signed = c.signed /\ d.load = c.load /\ d.loaded = c.loaded /\ d.waiting = c.waiting
  BY DEF ModePart
<1>2. QED
  BY <1>1 DEF ModeInv

\* and else on what there is of the game.
LEMMA ModeStaysWithout ==
  ASSUME NEW c, NEW d, ModePart(d) = ModePart(c), ModeInv(c), AchPart(d) = AchPart(c), BoardPart(d) = BoardPart(c)
  PROVE  ModeInv(d)
<1>1. d.setup = c.setup /\ d.hardcore = c.hardcore /\ d.signed = c.signed /\ d.load = c.load /\ d.loaded = c.loaded /\ d.waiting = c.waiting
  BY DEF ModePart
<1>2. d.achs = c.achs /\ d.boards = c.boards /\ d.trackers = c.trackers
  BY DEF AchPart, BoardPart
<1>3. QED
  BY <1>1, <1>2 DEF ModeInv

\* With nothing pending, the achievements can be raised.
LEMMA StillIsDue ==
  ASSUME NEW c, c.achs \in Seq(Achievements), Standing(c), Running(c), Clean(c), Challenges(c) PROVE Due(c)
<1>1. \A i \in DOMAIN c.achs : c.achs[i].pending = {} /\ (Lit(c, i) <=> Wants(c.achs[i]))
  BY DEF Challenges, Lit
<1>2. c.host.challenges \subseteq DOMAIN c.achs
  BY DEF Challenges
<1>3. QED
  BY <1>1, <1>2 DEF Due, RaisedLit

-----------------------------------------------------------------------------
(* All that is left of a call is to raise what is pending.                   *)

\* Raising what is pending leaves the timer of the indicator alone.
LEMMA RaisingTimer ==
  ASSUME NEW c, Raisable(c)
  PROVE  RaisePendingEvents(c).timer = c.timer
<1> DEFINE d == RaisePendingEvents(c)
<1>1. /\ Leaves("tracker", c, RaisedTrackers(c)) /\ Leaves("raise", RaisedTrackers(c), RaisedAchs(c))
      /\ Leaves("raise_board", RaisedAchs(c), RaisedBoards(c)) /\ SameParts(RaisedBoards(c), RaisedMastery(c))
      /\ Shape(RaisedMastery(c)) /\ Shape(RaisedProgress(c))
  BY StagesTo DEF TrackersAsIs
<1>2. RaisedProgress(c).timer = RaisedMastery(c).timer
  BY <1>1, StageProgress
<1>3. LeavesRest(RaisedProgress(c), d)
  BY <1>1, StageLast
<1>4. ProgressPart(RaisedMastery(c)) = ProgressPart(c)
  BY <1>1 DEF Leaves, SameParts
<1>5. QED
  BY <1>2, <1>3, <1>4 DEF LeavesRest, ProgressPart

\* A client that has something pending is settled when it has been announced.
LEMMA RaisingKeeps ==
  ASSUME NEW c, Pending(c)
  PROVE  LET d == RaisePendingEvents(c)
         IN  Inv(d) /\ ModePart(d) = ModePart(c) /\ PausePart(d) = PausePart(c) /\ d.timer = c.timer
<1> DEFINE d == RaisePendingEvents(c)
<1>1. Raisable(c) /\ c.load \in Nat
  BY DEF Pending, Raisable, ModeInv, Due, BoardsDue
<1>2. Shape(d) /\ ModePart(d) = ModePart(c) /\ PausePart(d) = PausePart(c) /\ d.flags = {} /\ d.fault \in {c.fault, "mastery"}
  BY <1>1, RaisingLeaves
<1>3. AchInv(d) /\ BoardInv(d) /\ ProgressInv(d) /\ ServerInv(d)
  BY <1>1, RaisingAchs, RaisingBoards, RaisingProgress, RaisingServer DEF Pending
<1>7. d.timer = c.timer
  BY <1>1, RaisingTimer
<1> HIDE DEF d
<1>4. d.setup = c.setup
  BY <1>2 DEF ModePart
<1>5. PauseInv(d)
  BY <1>2, <1>4, PauseStays DEF Pending
<1>8. ModeInv(c) /\ c.loaded
  BY DEF Pending
<1>9. ModeInv(d)
  BY <1>2, <1>8, ModeStays
<1>6. QED
  BY <1>2, <1>3, <1>5, <1>7, <1>9 DEF Inv, Pending, d

-----------------------------------------------------------------------------
(* The progress indicator.                                                   *)

\* To hide the indicator leaves it to be announced.
LEMMA HidesProgress ==
  ASSUME NEW c, Shape(c), ProgressInv(c), "progress" \notin c.flags
  PROVE  LET d == HideProgressTracker(c)
         IN  /\ OnlyProgress(c, d) /\ ProgressDue(d) /\ d.timer = FALSE
             /\ c.flags \subseteq d.flags /\ d.fault = c.fault
<1> DEFINE d == HideProgressTracker(c)
           e == [c EXCEPT !.timer = FALSE, !.hides = FALSE, !.action = "hide", !.flags = @ \cup {"progress"}]
<1>1. /\ c.timer \in BOOLEAN /\ c.action = "none" /\ c.host.progress = c.timer /\ c.hides = c.timer /\ (c.timer => c.loaded)
  BY DEF ProgressInv
<1>2. CASE ~c.timer
  <2>1. d = c
    BY <1>1, <1>2 DEF HideProgressTracker
  <2>2. ProgressDue(c)
    BY <1>1 DEF ProgressDue
  <2>3. QED
    BY <1>1, <1>2, <2>1, <2>2 DEF OnlyProgress
<1>3. CASE c.timer
  <2>1. d = e
    BY <1>1, <1>3 DEF HideProgressTracker
  <2>2. OnlyProgress(c, e)
    BY DEF OnlyProgress, Shape, Fields, ModePart, PausePart, AchPart, BoardPart, ServerPart
  <2>3. e.timer = FALSE /\ e.hides = FALSE /\ e.action = "hide" /\ e.flags = c.flags \cup {"progress"} /\ e.fault = c.fault
    BY DEF Shape, Fields
  <2> HIDE DEF e
  <2>4. ProgressDue(e)
    BY <2>3 DEF ProgressDue
  <2>5. QED
    BY <2>1, <2>2, <2>3, <2>4
<1>4. QED
  BY <1>1, <1>2, <1>3

\* In a frame: when there is news of the progress, the indicator shows it.
LEMMA UpdatesProgress ==
  ASSUME NEW c, Shape(c), ProgressInv(c), c.loaded, c.loaded \in BOOLEAN
  PROVE  LET d == IF "progress" \in c.flags THEN UpdateProgressTracker(c) ELSE c
         IN  /\ OnlyProgress(c, d) /\ ProgressDue(d) /\ (c.timer => d.timer) /\ d.flags = c.flags /\ d.fault = c.fault
<1> DEFINE e == UpdateProgressTracker(c)
<1>1. /\ c.timer \in BOOLEAN /\ c.action = "none" /\ c.host.progress = c.timer /\ c.hides = c.timer
  BY DEF ProgressInv
<1>2. CASE "progress" \notin c.flags
  BY <1>1, <1>2 DEF OnlyProgress, ProgressDue
<1>3. CASE "progress" \in c.flags
  <2>1. OnlyProgress(c, e)
    BY DEF UpdateProgressTracker, OnlyProgress, Shape, Fields, ModePart, PausePart, AchPart, BoardPart, ServerPart
  <2>2. e.timer = TRUE /\ e.hides = TRUE /\ e.action \in {"update", "show"} /\ e.flags = c.flags /\ e.fault = c.fault /\ e.loaded = c.loaded
    BY DEF UpdateProgressTracker, Shape, Fields
  <2> HIDE DEF e
  <2>3. ProgressDue(e)
    BY <1>3, <2>2 DEF ProgressDue
  <2>4. QED
    BY <1>3, <2>1, <2>2, <2>3 DEF e
<1>4. QED
  BY <1>2, <1>3

-----------------------------------------------------------------------------
(* The calls that only let the time pass.                                    *)

\* The indicator goes, or the host has been told of it.
LEMMA SteadyProgress ==
  ASSUME NEW c, Steady(c), NEW d, OnlyProgress(c, d), d.flags = {}, d.fault = c.fault, ProgressInv(d)
  PROVE  Steady(d)
<1>1. ModePart(d) = ModePart(c) /\ AchPart(d) = AchPart(c) /\ BoardPart(d) = BoardPart(c) /\ ServerPart(d) = ServerPart(c) /\ Shape(d)
  BY DEF OnlyProgress
<1>2. c.flags \subseteq d.flags /\ ModeInv(c) /\ AchInv(c) /\ BoardInv(c) /\ ServerInv(c)
  BY DEF Steady
<1>3. ModeInv(d)
  BY <1>1, <1>2, ModeStaysWithout
<1>4. AchInv(d)
  BY <1>1, <1>2, AchsStay
<1>5. BoardInv(d)
  BY <1>1, <1>2, BoardsStay
<1>6. ServerInv(d)
  BY <1>1, <1>2, SameServer
<1>7. QED
  BY <1>1, <1>3, <1>4, <1>5, <1>6 DEF Steady

\* A request is on its way, or settled.
LEMMA SteadyServer ==
  ASSUME NEW c, Steady(c), NEW d, OnlyServer(c, d), d.fault # "timer", ServerInv(d)
  PROVE  Steady(d)
<1>1. ModePart(d) = ModePart(c) /\ AchPart(d) = AchPart(c) /\ BoardPart(d) = BoardPart(c) /\ ProgressPart(d) = ProgressPart(c) /\ Shape(d)
      /\ d.flags = c.flags
  BY DEF OnlyServer
<1>2. c.flags \subseteq d.flags /\ c.flags = {} /\ ModeInv(c) /\ AchInv(c) /\ BoardInv(c) /\ ProgressInv(c)
  BY DEF Steady
<1>3. ModeInv(d)
  BY <1>1, <1>2, ModeStaysWithout
<1>4. AchInv(d)
  BY <1>1, <1>2, AchsStay
<1>5. BoardInv(d)
  BY <1>1, <1>2, BoardsStay
<1>6. ProgressInv(d)
  BY <1>1, <1>2, ProgressStays
<1>7. QED
  BY <1>1, <1>2, <1>3, <1>4, <1>5, <1>6 DEF Steady

\* A finite set of numbers has a greatest one.
LEMMA HasGreatest ==
  ASSUME NEW T, T \subseteq Nat, IsFiniteSet(T), T # {}
  PROVE  Max(T) \in T
<1>1. PICK n \in Nat : ExistsSurjection(1 .. n, T)
  BY FS_NatSurjection
<1>2. PICK f \in [1 .. n -> T] : \A y \in T : \E x \in 1 .. n : f[x] = y
  BY <1>1 DEF ExistsSurjection, Surjection
<1>9. \A i \in 1 .. n : f[i] \in T /\ f[i] \in Nat
  BY <1>2
<1>3. 1 \in 1 .. n
  <2>1. PICK y \in T : TRUE
    OBVIOUS
  <2>2. PICK x \in 1 .. n : f[x] = y
    BY <1>2, <2>1
  <2>3. QED
    BY <2>2
<1> DEFINE P == {k \in 1 .. n : \E m \in T : \A i \in 1 .. k : f[i] <= m}
<1>4. 1 \in P
  <2>1. f[1] \in T /\ \A i \in 1 .. 1 : f[i] <= f[1]
    <3>1. f[1] \in T /\ f[1] \in Nat
      BY <1>3, <1>9
    <3>2. \A i \in 1 .. 1 : i = 1
      OBVIOUS
    <3>3. QED
      BY <3>1, <3>2
  <2>2. QED
    BY <1>3, <2>1
<1>5. ASSUME NEW k \in 1 .. n, k < n, k \in P PROVE k + 1 \in P
  <2>1. PICK m \in T : \A i \in 1 .. k : f[i] <= m
    BY <1>5
  <2>2. k + 1 \in 1 .. n /\ f[k + 1] \in T /\ m \in Nat /\ f[k + 1] \in Nat /\ \A i \in 1 .. k : f[i] \in Nat
    <3>1. k + 1 \in 1 .. n /\ \A i \in 1 .. k : i \in 1 .. n
      BY <1>5
    <3>2. QED
      BY <1>9, <2>1, <3>1
  <2>3. \A i \in 1 .. k + 1 : i = k + 1 \/ i \in 1 .. k
    BY <1>5
  <2>4. CASE f[k + 1] <= m
    BY <2>1, <2>2, <2>3, <2>4
  <2>5. CASE m < f[k + 1]
    <3>1. \A i \in 1 .. k + 1 : f[i] <= f[k + 1]
      BY <2>1, <2>2, <2>3, <2>5
    <3>2. QED
      BY <2>2, <3>1
  <2>6. QED
    BY <2>2, <2>4, <2>5
<1>6. n \in P
  <2> HIDE DEF P
  <2>1. \A k \in 1 .. n : k \in P
    BY <1>4, <1>5, Climb
  <2>2. QED
    BY <1>3, <2>1
<1>7. \E m \in T : \A y \in T : m >= y
  <2>1. PICK m \in T : \A i \in 1 .. n : f[i] <= m
    BY <1>6
  <2>2. \A y \in T : m >= y
    BY <1>2, <2>1
  <2>3. QED
    BY <2>2
<1>8. QED
  BY <1>7 DEF Max

\* What is due are finitely many numbers.
LEMMA ScheduledFinite ==
  ASSUME NEW c, ServerInv(c)
  PROVE  IsFiniteSet(Scheduled(c)) /\ Scheduled(c) \subseteq Nat
<1> DEFINE Q == {q \in c.requests : q.at = "queued"}
           I == {r.id : r \in Q}
           f == [r \in Q |-> r.id]
<1>1. c.requests \subseteq Requests /\ IsFiniteSet(c.requests)
  BY DEF ServerInv
<1>2. IsFiniteSet(Q)
  BY <1>1, FS_Subset
<1>3. f \in Surjection(Q, I)
  BY DEF Surjection
<1>4. I \subseteq Nat
  BY <1>1 DEF Requests
<1> HIDE DEF f, I, Q
<1>5. IsFiniteSet(I)
  BY <1>2, <1>3, FS_Surjection
<1>6. IsFiniteSet(IF c.hides THEN {0} ELSE {}) /\ (IF c.hides THEN {0} ELSE {}) \subseteq Nat
  BY FS_EmptySet, FS_Singleton
<1>7. Scheduled(c) = (IF c.hides THEN {0} ELSE {}) \cup I
  BY DEF Scheduled, I, Q
<1>8. QED
  BY <1>4, <1>5, <1>6, <1>7, FS_Union

\* The timer of the indicator, if it is due,
LEMMA TimedKeeps ==
  ASSUME NEW c, Steady(c), NEW due, 0 \in due => c.timer
  PROVE  Steady(Timed(c, due)) /\ PausePart(Timed(c, due)) = PausePart(c) /\ Timed(c, due).setup = c.setup
<1>1. CASE 0 \notin due
  BY <1>1 DEF Timed
<1>2. CASE 0 \in due
  <2> DEFINE d == [c EXCEPT !.hides = FALSE]
             e == [d EXCEPT !.timer = FALSE]
             f == Tell(e, <<"progress_hide">>)
  <2>1. Shape(c) /\ c.flags = {} /\ c.action = "none" /\ (c.timer => c.loaded)
    BY DEF Steady, ProgressInv
  <2>2. Timed(c, due) = f
    BY <1>2, <2>1 DEF Timed, ProgressTimerElapsed, Shape, Fields
  <2>3. OnlyProgress(c, e) /\ e.flags = {} /\ e.fault = c.fault /\ e.timer = FALSE /\ e.hides = FALSE /\ e.action = "none"
    BY <2>1 DEF OnlyProgress, Shape, Fields, ModePart, PausePart, AchPart, BoardPart, ServerPart
  <2> HIDE DEF e
  <2>4. OnlyProgress(e, f) /\ f.flags = {} /\ f.fault = e.fault /\ f.timer = FALSE /\ f.hides = FALSE /\ f.action = "none" /\ f.host.progress = FALSE
    <3> DEFINE what == <<"progress_hide">>
    <3>1. what[1] = "progress_hide"
      OBVIOUS
    <3>2. Shape(e)
      BY <2>3 DEF OnlyProgress
    <3>3. Hear(e.host, what).progress = FALSE
      BY <3>1, <3>2 DEF Hear, Shape, HostFields
    <3> HIDE DEF what
    <3>4. /\ Shape(f) /\ ModePart(f) = ModePart(e) /\ PausePart(f) = PausePart(e) /\ f.flags = e.flags /\ f.fault = e.fault
          /\ f.timer = e.timer /\ f.action = e.action /\ f.hides = e.hides /\ f.host = Hear(e.host, what)
      BY <3>2, TellKeeps DEF what
    <3>5. AchPart(f) = AchPart(e) /\ BoardPart(f) = BoardPart(e) /\ ServerPart(f) = ServerPart(e)
      BY <3>1, <3>2, TellKeeps DEF what
    <3>6. QED
      BY <2>3, <3>3, <3>4, <3>5 DEF OnlyProgress
  <2> HIDE DEF f
  <2>5. ProgressInv(f)
    BY <2>4 DEF ProgressInv
  <2>6. OnlyProgress(c, f)
    BY <2>3, <2>4 DEF OnlyProgress
  <2>7. Steady(f)
    BY <2>3, <2>4, <2>5, <2>6, SteadyProgress
  <2>8. PausePart(f) = PausePart(c) /\ f.setup = c.setup
    BY <2>6 DEF OnlyProgress, ModePart
  <2>9. QED
    BY <2>2, <2>7, <2>8
<1>3. QED
  BY <1>1, <1>2

\* and the retries that are due, keep the invariant.
LEMMA TriedKeeps ==
  ASSUME NEW c, Steady(c), NEW due, 0 \in due => c.timer, IsFiniteSet(due), due \subseteq Nat
  PROVE  Steady(Tried(c, due)) /\ PausePart(Tried(c, due)) = PausePart(c) /\ Tried(c, due).setup = c.setup
<1> DEFINE t == Timed(c, due)
           d == Tried(c, due)
<1>1. Steady(t) /\ PausePart(t) = PausePart(c) /\ t.setup = c.setup
  BY TimedKeeps
<1>2. CASE due = {}
  BY <1>1, <1>2 DEF Tried
<1>3. CASE due # {}
  <2> DEFINE m == Max(due)
  <2>1. m \in Nat
    BY <1>3, HasGreatest
  <2> HIDE DEF m, t
  <2>2. Shape(t) /\ ServerInv(t)
    BY <1>1 DEF Steady
  <2>3. Leaves("retry", t, Retrying(t, due, m)) /\ ServerInv(Retrying(t, due, m))
    BY <2>1, <2>2, RetriesKeep
  <2>4. d = Retrying(t, due, m)
    BY <1>3 DEF Tried, t, m
  <2> HIDE DEF d
  <2>5. NewFlags("retry") = {} /\ "retry" \notin AchSteps /\ "retry" \notin BoardSteps
    BY DEF NewFlags, AchSteps, BoardSteps, TrackerSteps
  <2>6. OnlyServer(t, d) /\ d.fault = t.fault
    BY <2>3, <2>4, <2>5 DEF Leaves, OnlyServer
  <2>7. t.fault # "timer"
    BY <1>1 DEF Steady
  <2>8. Steady(d)
    BY <1>1, <2>3, <2>4, <2>6, <2>7, SteadyServer
  <2>9. QED
    BY <1>1, <2>6, <2>8 DEF OnlyServer, ModePart, d
<1>4. QED
  BY <1>2, <1>3

\* The time passes: the indicator goes, and what waits is tried again.
LEMMA IdleKeeps ==
  ASSUME NEW c, Steady(c), NEW due, 0 \in due => c.timer, IsFiniteSet(due), due \subseteq Nat
  PROVE  Steady(Idle(c, due)) /\ PausePart(Idle(c, due)) = PausePart(c) /\ Idle(c, due).setup = c.setup
<1> DEFINE t == Tried(c, due)
           d == RaiseDisconnectEvents(t)
<1>1. Idle(c, due) = d
  BY DEF Idle, Tried, Timed, Retrying
<1>2. Steady(t) /\ PausePart(t) = PausePart(c) /\ t.setup = c.setup
  BY TriedKeeps
<1> HIDE DEF t
<1>3. Shape(t) /\ ServerInv(t) /\ t.fault # "timer"
  BY <1>2 DEF Steady
<1>4. OnlyServer(t, d) /\ ServerInv(d) /\ d.fault = t.fault
  BY <1>3, DisconnectKeeps
<1> HIDE DEF d
<1>5. Steady(d)
  BY <1>2, <1>3, <1>4, SteadyServer
<1>6. QED
  BY <1>1, <1>2, <1>4, <1>5 DEF OnlyServer, ModePart

-----------------------------------------------------------------------------
(* The delay of the pauses.                                                  *)

\* The invariant of the pauses, of numbers.
LEMMA PauseInvIs ==
  ASSUME NEW c
  PROVE  PauseInv(c) <=> /\ PauseBounds(c.decay, c.required, c.host.frames)
                         /\ "pause" \in c.setup.may => PauseCount(c.decay, c.required, c.host.frames)
BY DEF PauseInv, PauseCount, PauseBounds

\* The multiples of the frames required.
LEMMA Multiples ==
  ASSUME NEW r \in Nat, r >= 1
  PROVE  /\ r * DecayMultiplier \in Nat /\ r * (DecayMultiplier - 1) \in Nat
         /\ r * (DecayMultiplier - 1) = r * DecayMultiplier - r
         /\ r * (DecayMultiplier - 1) >= r
<1>1. DecayMultiplier \in Nat /\ DecayMultiplier >= 2
  BY PauseAssumption
<1> DEFINE k == DecayMultiplier - 1
<1>2. k \in Nat /\ k >= 1 /\ DecayMultiplier = k + 1
  BY <1>1
<1> HIDE DEF k
<1>3. r * k \in Nat /\ r * (k + 1) = r * k + r
  BY <1>2
<1>4. r * k >= r
  <2>1. k - 1 \in Nat
    BY <1>2
  <2>2. r * (k - 1) \in Nat /\ r * k = r * (k - 1) + r
    BY <1>2, <2>1
  <2>3. QED
    BY <2>2
<1>5. QED
  BY <1>2, <1>3, <1>4 DEF k

\* A frame is counted, and wears the delay down.
LEMMA DelayWears ==
  ASSUME NEW q, NEW r, NEW f, PauseBounds(q, r, f), PauseCount(q, r, f), q # 0,
         NEW g \in Nat, g = f + 1 \/ (g = f /\ f >= MaxFrames * DecayMultiplier)
  PROVE  PauseBounds(q - 1, r, g) /\ PauseCount(q - 1, r, g)
<1> DEFINE p == r * DecayMultiplier
           s == r * (DecayMultiplier - 1)
           m == MaxFrames * DecayMultiplier
<1>1. q \in Nat /\ f \in Nat /\ r \in Nat /\ r >= 1 /\ r >= MinFrames /\ r <= m /\ m \in Nat /\ r < MaxFrames + MinFrames /\ q <= p
  BY PauseAssumption DEF PauseBounds
<1>2. p \in Nat /\ s \in Nat /\ s = p - r /\ s >= r
  BY <1>1, Multiples
<1>3. (q <= s => f >= r) /\ (q > s => f >= p - q) /\ (q = p => f = 0)
  BY DEF PauseCount
<1>4. MinFrames \in Nat /\ (g = f + 1 \/ (g = f /\ f >= m))
  BY PauseAssumption
<1> SUFFICES /\ q - 1 \in Nat /\ g \in Nat /\ r \in MinFrames .. m /\ r < MaxFrames + MinFrames /\ q - 1 <= p
             /\ q - 1 <= s => g >= r
             /\ q - 1 > s => g >= p - (q - 1)
             /\ q - 1 = p => g = 0
  BY DEF PauseBounds, PauseCount
<1> HIDE DEF p, s, m
<1>5. r \in MinFrames .. m /\ r < MaxFrames + MinFrames
  BY <1>1, PauseAssumption DEF PauseBounds, m
<1>6. q - 1 \in Nat /\ q - 1 <= p /\ q - 1 # p
  BY <1>1, <1>2
<1>7. ASSUME q - 1 <= s PROVE g >= r
  BY <1>1, <1>2, <1>3, <1>4, <1>7
<1>8. ASSUME q - 1 > s PROVE g >= p - (q - 1)
  BY <1>1, <1>2, <1>3, <1>4, <1>8
<1>9. QED
  BY <1>5, <1>6, <1>7, <1>8

\* A delay that has worn off stays so, and one is shorter that is set so.
LEMMA DelayGone ==
  ASSUME NEW q, NEW r, NEW f, PauseBounds(q, r, f), PauseCount(q, r, f), q <= r * (DecayMultiplier - 1),
         NEW h, h \in MinFrames .. r, NEW n \in {0, h * (DecayMultiplier - 1) - 1},
         NEW g \in Nat, g >= f
  PROVE  PauseBounds(n, h, g) /\ PauseCount(n, h, g)
<1> DEFINE p == h * DecayMultiplier
           s == h * (DecayMultiplier - 1)
           m == MaxFrames * DecayMultiplier
<1>1. MinFrames \in Nat /\ MinFrames >= 1 /\ r \in Nat /\ r <= m /\ m \in Nat /\ r < MaxFrames + MinFrames /\ MaxFrames \in Nat
      /\ h \in Nat /\ h >= 1 /\ h >= MinFrames /\ h <= r
  BY PauseAssumption DEF PauseBounds
<1>2. p \in Nat /\ s \in Nat /\ s = p - h /\ s >= h
  BY <1>1, Multiples
<1>3. f \in Nat /\ f >= r
  BY DEF PauseBounds, PauseCount
<1>4. n \in {0, s - 1}
  OBVIOUS
<1> SUFFICES /\ n \in Nat /\ g \in Nat /\ h \in MinFrames .. m /\ h < MaxFrames + MinFrames /\ n <= p
             /\ n <= s => g >= h
             /\ n > s => g >= p - n
             /\ n = p => g = 0
  BY DEF PauseBounds, PauseCount
<1> HIDE DEF p, s, m
<1>5. QED
  BY <1>1, <1>2, <1>3, <1>4

\* Without the count.
LEMMA WornBounds ==
  ASSUME NEW q, NEW r, NEW f, PauseBounds(q, r, f), NEW g \in Nat, q # 0
  PROVE  PauseBounds(q - 1, r, g)
<1> DEFINE p == r * DecayMultiplier
<1>1. p \in Nat
  BY PauseAssumption DEF PauseBounds
<1>2. q <= p /\ q \in Nat
  BY DEF PauseBounds
<1> HIDE DEF p
<1>3. q - 1 \in Nat /\ q - 1 <= p
  BY <1>1, <1>2
<1>4. QED
  BY <1>3 DEF PauseBounds, p

\* A delay that goes down stays inside its bounds.
LEMMA GoneBounds ==
  ASSUME NEW q, NEW r, NEW f, PauseBounds(q, r, f), NEW g \in Nat,
         NEW h, h \in MinFrames .. r, NEW n \in {0, h * (DecayMultiplier - 1) - 1}
  PROVE  PauseBounds(n, h, g)
<1> DEFINE p == h * DecayMultiplier
           s == h * (DecayMultiplier - 1)
           m == MaxFrames * DecayMultiplier
<1>1. MinFrames \in Nat /\ MinFrames >= 1 /\ r \in Nat /\ r <= m /\ m \in Nat /\ r < MaxFrames + MinFrames /\ MaxFrames \in Nat
      /\ h \in Nat /\ h >= 1 /\ h >= MinFrames /\ h <= r
  BY PauseAssumption DEF PauseBounds
<1>2. p \in Nat /\ s \in Nat /\ s = p - h /\ s >= h
  BY <1>1, Multiples
<1>3. n \in {0, s - 1}
  OBVIOUS
<1> SUFFICES n \in Nat /\ g \in Nat /\ h \in MinFrames .. m /\ h < MaxFrames + MinFrames /\ n <= p
  BY DEF PauseBounds
<1> HIDE DEF p, s, m
<1>4. QED
  BY <1>1, <1>2, <1>3

\* A frame that wears the delay down keeps the invariant of the pauses.
LEMMA FrameWears ==
  ASSUME NEW c, Shape(c), PauseInv(c), NEW d, DelayWorn(c, d)
  PROVE  PauseInv(d)
<1> DEFINE q == c.decay
           r == c.required
           f == c.host.frames
           g == d.host.frames
           h == IF r \div 2 <= MinFrames THEN MinFrames ELSE r \div 2
<1>1. PauseBounds(q, r, f) /\ ("pause" \in c.setup.may => PauseCount(q, r, f))
  BY PauseInvIs
<1>2. q \in Nat /\ f \in Nat /\ r \in Nat /\ r >= 1 /\ r >= MinFrames /\ MinFrames \in Nat
  BY <1>1, PauseAssumption DEF PauseBounds
<1>3. g = IF "pause" \in c.setup.may /\ f < MaxFrames * DecayMultiplier THEN f + 1 ELSE f
  BY DEF DelayWorn
<1>4. g \in Nat /\ g >= f /\ ("pause" \in c.setup.may => g = f + 1 \/ (g = f /\ f >= MaxFrames * DecayMultiplier))
  <2> DEFINE m == MaxFrames * DecayMultiplier
  <2>1. m \in Nat
    BY PauseAssumption
  <2>2. f \in Nat /\ g = IF "pause" \in c.setup.may /\ f < m THEN f + 1 ELSE f
    BY <1>2, <1>3
  <2> HIDE DEF m, f, g
  <2>3. g \in Nat /\ g >= f /\ ("pause" \in c.setup.may => g = f + 1 \/ (g = f /\ f >= m))
    BY <2>1, <2>2
  <2>4. QED
    BY <2>3 DEF m
<1>5. /\ d.decay = IF q = 0 THEN q ELSE IF q > 1 \/ r <= MinFrames THEN q - 1 ELSE h * (DecayMultiplier - 1) - 1
      /\ d.required = IF q = 0 THEN r ELSE IF q > 1 \/ r <= MinFrames THEN r ELSE h
  <2>1. c.decay = q /\ c.required = r
    OBVIOUS
  <2>2. QED
    BY DEF DelayWorn, PauseDecay, Shape, Fields
<1>6. d.setup = c.setup
  BY DEF DelayWorn
<1> HIDE DEF q, r, f, g
<1>7. PauseBounds(d.decay, d.required, g) /\ ("pause" \in c.setup.may => PauseCount(d.decay, d.required, g))
  <2>1. CASE q = 0
    <3>1. r \in MinFrames .. r /\ q \in {0, r * (DecayMultiplier - 1) - 1} /\ q <= r * (DecayMultiplier - 1)
      BY <1>2, <2>1, Multiples
    <3>2. PauseBounds(q, r, g)
      BY <1>1, <1>4, <3>1, GoneBounds
    <3>3. "pause" \in c.setup.may => PauseCount(q, r, g)
      BY <1>1, <1>4, <3>1, DelayGone
    <3>4. QED
      BY <1>5, <2>1, <3>2, <3>3
  <2>2. CASE q # 0 /\ (q > 1 \/ r <= MinFrames)
    <3>1. PauseBounds(q - 1, r, g)
      BY <1>1, <1>4, <2>2, WornBounds
    <3>2. "pause" \in c.setup.may => PauseCount(q - 1, r, g)
      BY <1>1, <1>4, <2>2, DelayWears
    <3>3. QED
      BY <1>5, <2>2, <3>1, <3>2
  <2>3. CASE q # 0 /\ ~(q > 1 \/ r <= MinFrames)
    <3> DEFINE n == h * (DecayMultiplier - 1) - 1
    <3>1. h \in MinFrames .. r /\ q = 1
      BY <1>2, <2>3
    <3>2. q <= r * (DecayMultiplier - 1)
      BY <1>2, <3>1, Multiples
    <3>3. n \in {0, h * (DecayMultiplier - 1) - 1}
      OBVIOUS
    <3> HIDE DEF n, h
    <3>4. PauseBounds(n, h, g)
      BY <1>1, <1>4, <3>1, <3>3, GoneBounds
    <3>5. "pause" \in c.setup.may => PauseCount(n, h, g)
      BY <1>1, <1>4, <3>1, <3>2, <3>3, DelayGone
    <3>6. QED
      BY <1>5, <2>3, <3>4, <3>5 DEF n
  <2>4. QED
    BY <2>1, <2>2, <2>3
<1>8. QED
  BY <1>6, <1>7, PauseInvIs DEF g

-----------------------------------------------------------------------------
(* A frame.                                                                  *)

\* All the parts are the same, and something may have been announced.
LEMMA SameSteady ==
  ASSUME NEW c, NEW d, SameParts(c, d)
  PROVE  /\ ModeInv(c) => ModeInv(d)
         /\ ServerInv(c) => ServerInv(d)
         /\ PauseInv(c) => PauseInv(d)
         /\ c.flags \subseteq d.flags /\ AchInv(c) => AchInv(d)
         /\ BoardInv(c) => BoardInv(d)
         /\ ProgressInv(c) => ProgressInv(d)
<1>1. /\ Shape(d) /\ ModePart(d) = ModePart(c) /\ PausePart(d) = PausePart(c) /\ AchPart(d) = AchPart(c)
      /\ BoardPart(d) = BoardPart(c) /\ ProgressPart(d) = ProgressPart(c) /\ ServerPart(d) = ServerPart(c)
  BY DEF SameParts
<1>2. d.setup = c.setup
  BY <1>1 DEF ModePart
<1>3. ModeInv(c) => ModeInv(d)
  BY <1>1, ModeStaysWithout
<1>4. ServerInv(c) => ServerInv(d)
  BY <1>1, SameServer
<1>5. PauseInv(c) => PauseInv(d)
  BY <1>1, <1>2, PauseStays
<1>6. c.flags \subseteq d.flags /\ AchInv(c) => AchInv(d)
  BY <1>1, AchsStay
<1>7. BoardInv(c) => BoardInv(d)
  BY <1>1, BoardsStay
<1>8. ProgressInv(c) => ProgressInv(d)
  BY <1>1, ProgressStays
<1>9. QED
  BY <1>3, <1>4, <1>5, <1>6, <1>7, <1>8

\* A frame starts without anything pending.
LEMMA FrameStarts ==
  ASSUME NEW c, Shape(c)
  PROVE  /\ SameParts(c, FrameStart(c)) /\ FrameStart(c).flags = {} /\ FrameStart(c).fault = c.fault
         /\ FrameStart(c).achs = c.achs /\ FrameStart(c).boards = c.boards
BY DEF FrameStart, SameParts, Shape, Fields, ModePart, PausePart, AchPart, BoardPart, ServerPart, ProgressPart

\* After the triggers were processed every achievement is fit to be announced.
LEMMA FrameOfAchs ==
  ASSUME NEW c, Inv(c), ~c.waiting, NEW os, NEW bs, FrameChoice(c, os, bs)
  PROVE  FrameUpToAchs(c, FrameAchs(c, os)) /\ ProgressPart(FrameAchs(c, os)) = ProgressPart(c)
<1> DEFINE s == FrameStart(c)
           d == FrameAchs(c, os)
<1>1. SameParts(c, s) /\ s.flags = {} /\ s.fault = c.fault /\ s.achs = c.achs
  BY FrameStarts DEF Inv
<1>2. AchInv(s) /\ ModeInv(s) /\ Shape(s) /\ ~s.waiting
  BY <1>1, SameSteady DEF Inv, SameParts, ModePart
<1>3. /\ s.achs \in Seq(Achievements) /\ Challenges(s) /\ Standing(s) /\ Running(s) /\ Clean(s)
      /\ s.hardcore \in BOOLEAN
  BY <1>2 DEF AchInv, ModeInv
<1>4. \A i \in DOMAIN s.achs : os[i] \in FrameOf(s.achs[i])
  BY <1>1 DEF FrameChoice
<1>5. d = Processing(s, os, Len(s.achs))
  BY <1>1 DEF FrameAchs
<1> HIDE DEF s, d
<1>6. Leaves("process", s, d) /\ Due(d)
  BY <1>2, <1>3, <1>4, <1>5, ProcessesAchs
<1>7. "process" \notin BoardSteps /\ "process" \notin ServerSteps
  BY DEF BoardSteps, ServerSteps
<1>8. QED
  BY <1>1, <1>6, <1>7 DEF Leaves, SameParts, FrameUpToAchs, d

\* So is the indicator, when one of them leads.
LEMMA FrameOfProgress ==
  ASSUME NEW c, Inv(c), c.loaded, ~c.waiting, NEW os, NEW bs, FrameChoice(c, os, bs)
  PROVE  LET d == FrameShown(c, os)
         IN  FrameUpToAchs(c, d) /\ ProgressDue(d) /\ (c.timer => d.timer)
<1> DEFINE a == FrameAchs(c, os)
           d == FrameShown(c, os)
<1>1. FrameUpToAchs(c, a) /\ ProgressPart(a) = ProgressPart(c)
  BY FrameOfAchs
<1>2. d = IF "progress" \in a.flags THEN UpdateProgressTracker(a) ELSE a
  BY DEF FrameShown
<1> HIDE DEF a, d
<1>3. Shape(a) /\ ModePart(a) = ModePart(c) /\ Due(a) /\ a.timer = c.timer /\ a.loaded /\ a.loaded \in BOOLEAN
  BY <1>1 DEF FrameUpToAchs, ModePart, ProgressPart, Inv, ModeInv
<1>4. ProgressInv(a)
  BY <1>1, <1>3, ProgressStays DEF Inv
<1>5. OnlyProgress(a, d) /\ ProgressDue(d) /\ (a.timer => d.timer) /\ d.flags = a.flags /\ d.fault = a.fault
  BY <1>2, <1>3, <1>4, UpdatesProgress
<1>6. AchPart(d) = AchPart(a) /\ ModePart(d) = ModePart(a)
  BY <1>5 DEF OnlyProgress
<1>7. Due(d)
  BY <1>3, <1>5, <1>6, AchsStay
<1>8. QED
  BY <1>1, <1>3, <1>5, <1>7 DEF OnlyProgress, FrameUpToAchs, d

\* The leaderboards of a frame can be raised.
LEMMA FrameOfBoards ==
  ASSUME NEW c, NEW os, NEW bs, FrameChoice(c, os, bs), NEW s, FrameUpToAchs(c, s), BoardInv(c), BoardsAllowed(c),
         NEW e, e = ProcessingBoards(s, bs, Len(c.boards))
  PROVE  Leaves("process_board", s, e) /\ BoardsDue(e)
<1> DEFINE w == <<"process_board", bs>>
<1>1. Shape(s) /\ BoardPart(s) = BoardPart(c) /\ s.boards = c.boards
  BY DEF FrameUpToAchs, BoardPart
<1>2. BoardInv(s) /\ Announced(s)
  BY <1>1, BoardsStay
<1>3. Tracked(s) /\ RunningBoards(s) /\ \A j \in DOMAIN s.boards : Attached(s.boards[j]) /\ s.boards[j].pending = "none"
  BY <1>2 DEF BoardInv
<1>4. Len(s.boards) \in Nat
  BY <1>3, TrackerTypes
<1>5. Ran(w, s, Len(s.boards), e)
  BY <1>1, <1>4, ProcessBoardRan
<1>6. w[1] = "process_board" /\ w[2] = bs
  OBVIOUS
<1> HIDE DEF w
<1>7. BoardLoopNeeds(w, s)
  <2>1. /\ \A j \in DOMAIN s.boards : bs[j] \in FrameOfBoard(s.boards[j])
        /\ \A i, j \in DOMAIN s.boards :
            s.boards[i].def.group = s.boards[j].def.group /\ ~s.boards[j].def.fromHits
            /\ {bs[i].result, bs[j].result} \subseteq {"started", "triggered"} => bs[i].value = bs[j].value
    BY <1>1 DEF FrameChoice
  <2>2. QED
    BY <1>3, <1>6, <2>1 DEF BoardLoopNeeds
<1>8. Reached(w, s, e, Len(s.boards)) /\ \A j \in DOMAIN s.boards : BoardDone(w, s, e, j)
  BY <1>1, <1>2, <1>3, <1>5, <1>7, BoardLoop
<1>9. Leaves("process_board", s, e) /\ Tracked(e) /\ Announced(e) /\ e.runningBoards = s.runningBoards /\ DOMAIN e.boards = DOMAIN s.boards
  BY <1>6, <1>8 DEF Reached
<1>10. \A j \in DOMAIN e.boards : BoardProcessed(s, bs, e, j)
  BY <1>6, <1>8, <1>9 DEF BoardDone
<1>11. \A j \in DOMAIN e.boards : /\ Attached(e.boards[j]) /\ Valued(e, j) /\ (e.boards[j].pending # "none" => "board" \in e.flags)
                                  /\ InPlay(e.boards[j]) <=> InPlay(s.boards[j])
  BY <1>10 DEF BoardProcessed
<1>12. RunningBoards(e)
  BY <1>3, <1>9, <1>11 DEF RunningBoards, InPlay
<1>13. QED
  BY <1>9, <1>11, <1>12 DEF BoardsDue

\* So are the leaderboards, when they were processed.
LEMMA FrameIsPending ==
  ASSUME NEW c, Inv(c), c.loaded, ~c.waiting, NEW os, NEW bs, FrameChoice(c, os, bs)
  PROVE  LET d == FrameBoards(c, os, bs)
         IN  Pending(d) /\ ModePart(d) = ModePart(c) /\ PausePart(d) = PausePart(c) /\ (c.timer => d.timer)
<1> DEFINE s == FrameShown(c, os)
           d == FrameBoards(c, os, bs)
<1>1. FrameUpToAchs(c, s) /\ ProgressDue(s) /\ (c.timer => s.timer)
  BY FrameOfProgress
<1>2. d = IF BoardsAllowed(c) THEN ProcessingBoards(s, bs, Len(c.boards)) ELSE s
  BY DEF FrameBoards
<1> HIDE DEF s, d
<1>3. Shape(s) /\ BoardPart(s) = BoardPart(c) /\ ServerPart(s) = ServerPart(c) /\ s.fault = c.fault /\ Due(s)
      /\ ModePart(s) = ModePart(c) /\ PausePart(s) = PausePart(c)
  BY <1>1 DEF FrameUpToAchs
<1>4. ModeInv(c) /\ PauseInv(c) /\ ServerInv(c) /\ BoardInv(c) /\ c.fault # "timer"
  BY DEF Inv
<1>5. LeavesRest(s, d) \/ Leaves("process_board", s, d)
  BY <1>1, <1>2, <1>3, <1>4, FrameOfBoards DEF LeavesRest
<1>6. /\ Shape(d) /\ ModePart(d) = ModePart(s) /\ PausePart(d) = PausePart(s) /\ ServerPart(d) = ServerPart(s)
      /\ ProgressPart(d) = ProgressPart(s) /\ AchPart(d) = AchPart(s) /\ d.fault = s.fault /\ s.flags \subseteq d.flags
      /\ "progress" \in d.flags <=> "progress" \in s.flags
      /\ BoardsDue(d)
  <2>1. CASE BoardsAllowed(c)
    <3>1. Leaves("process_board", s, d) /\ BoardsDue(d)
      BY <1>1, <1>2, <1>4, <2>1, FrameOfBoards
    <3>2. NewFlags("process_board") = {"tracker", "board"} /\ "process_board" \notin AchSteps /\ "process_board" \notin ServerSteps
      BY DEF NewFlags, AchSteps, ServerSteps, TrackerSteps, BoardSteps
    <3>3. QED
      BY <3>1, <3>2 DEF Leaves
  <2>2. CASE ~BoardsAllowed(c)
    <3>1. d = s
      BY <1>2, <2>2
    <3>2. BoardsDue(s)
      BY <1>3, <1>4, BoardsStay
    <3>3. QED
      BY <1>3, <3>1, <3>2
  <2>3. QED
    BY <2>1, <2>2
<1>7. ModePart(d) = ModePart(c) /\ PausePart(d) = PausePart(c) /\ ServerPart(d) = ServerPart(c) /\ d.fault # "timer"
  BY <1>3, <1>4, <1>6
<1>8. d.loaded /\ d.setup = c.setup /\ d.timer = s.timer
  BY <1>6, <1>7 DEF ModePart, ProgressPart
<1>9. Due(d)
  BY <1>3, <1>6, AchsStay
<1>10. ProgressDue(d)
  BY <1>1, <1>6, ProgressStays
<1>11. ModeInv(d)
  BY <1>4, <1>7, ModeStays
<1>12. PauseInv(d)
  BY <1>4, <1>7, <1>8, PauseStays
<1>13. ServerInv(d)
  BY <1>4, <1>7, SameServer
<1>14. Pending(d)
  BY <1>6, <1>7, <1>8, <1>9, <1>10, <1>11, <1>12, <1>13 DEF Pending
<1>15. QED
  BY <1>1, <1>7, <1>8, <1>14 DEF d

-----------------------------------------------------------------------------
(* The frames, and the pauses between them.                                  *)

\* The rest of the invariant has nothing to do with the pauses.
LEMMA SteadyPause ==
  ASSUME NEW c, Steady(c), NEW d, OnlyPause(c, d)
  PROVE  Steady(d)
<1>1. /\ Shape(d) /\ ModePart(d) = ModePart(c) /\ AchPart(d) = AchPart(c) /\ BoardPart(d) = BoardPart(c)
      /\ ProgressPart(d) = ProgressPart(c) /\ ServerPart(d) = ServerPart(c) /\ d.flags = c.flags /\ d.fault = c.fault
  BY DEF OnlyPause
<1>2. c.flags \subseteq d.flags
  BY <1>1
<1>3. ModeInv(c) /\ AchInv(c) /\ BoardInv(c) /\ ProgressInv(c) /\ ServerInv(c)
  BY DEF Steady
<1>4. ModeInv(d)
  BY <1>1, <1>3, ModeStaysWithout
<1>5. AchInv(d)
  BY <1>1, <1>2, <1>3, AchsStay
<1>6. BoardInv(d)
  BY <1>1, <1>3, BoardsStay
<1>7. ProgressInv(d)
  BY <1>1, <1>3, ProgressStays
<1>8. ServerInv(d)
  BY <1>1, <1>3, SameServer
<1>9. QED
  BY <1>1, <1>4, <1>5, <1>6, <1>7, <1>8 DEF Steady

\* The invariant is that and what is said of the pauses.
LEMMA InvIs == ASSUME NEW c PROVE Inv(c) <=> Steady(c) /\ PauseInv(c)
BY DEF Inv, Steady

\* A host that has counted the frames up to n.
LEMMA SetFrames ==
  ASSUME NEW c, Shape(c), NEW n
  PROVE  LET d == [c EXCEPT !.host = [@ EXCEPT !.frames = n]]
         IN  OnlyPause(c, d) /\ d.decay = c.decay /\ d.required = c.required /\ d.host.frames = n /\ d.setup = c.setup
<1> DEFINE h == [c.host EXCEPT !.frames = n]
           d == [c EXCEPT !.host = h]
<1>1. h = [x \in HostFields |-> h[x]] /\ h.frames = n /\ h.challenges = c.host.challenges /\ h.trackers = c.host.trackers
      /\ h.progress = c.host.progress /\ h.down = c.host.down
  BY DEF Shape, HostFields
<1> HIDE DEF h
<1>2. OnlyPause(c, d) /\ d.decay = c.decay /\ d.required = c.required /\ d.host = h /\ d.setup = c.setup
  BY <1>1 DEF OnlyPause, Shape, Fields, ModePart, AchPart, BoardPart, ProgressPart, ServerPart
<1>3. QED
  BY <1>1, <1>2 DEF h

\* To set the delay changes nothing else.
LEMMA SetDelay ==
  ASSUME NEW c, Shape(c), NEW q, NEW r, NEW d, DelaySet(c, q, r, d)
  PROVE  OnlyPause(c, d) /\ d.decay = q /\ d.required = r /\ d.host = c.host /\ d.setup = c.setup
BY DEF DelaySet, OnlyPause, Shape, Fields, ModePart, AchPart, BoardPart, ProgressPart, ServerPart

\* The same for its countdown alone.
LEMMA SetDecay ==
  ASSUME NEW c, Shape(c), NEW q
  PROVE  LET d == [c EXCEPT !.decay = q]
         IN  OnlyPause(c, d) /\ d.decay = q /\ d.required = c.required /\ d.host = c.host /\ d.setup = c.setup
BY DEF OnlyPause, Shape, Fields, ModePart, AchPart, BoardPart, ProgressPart, ServerPart

\* A frame's part of the delay changes nothing else.
LEMMA DecayLeaves ==
  ASSUME NEW c, Shape(c)
  PROVE  LET d == PauseDecay(c) IN OnlyPause(c, d) /\ d.host = c.host /\ d.setup = c.setup
<1> DEFINE half == IF c.required \div 2 <= MinFrames THEN MinFrames ELSE c.required \div 2
           q == half * (DecayMultiplier - 1) - 1
           n == c.decay - 1
           x == [c EXCEPT !.decay = n]
           y == [c EXCEPT !.required = half, !.decay = q]
<1>1. OnlyPause(c, c)
  BY DEF OnlyPause
<1>2. PauseDecay(c) \in {c, x, y}
  BY DEF PauseDecay
<1>3. OnlyPause(c, x) /\ x.host = c.host /\ x.setup = c.setup
  BY SetDecay
<1>4. OnlyPause(c, y) /\ y.host = c.host /\ y.setup = c.setup
  <2>1. DelaySet(c, q, half, y)
    BY DEF DelaySet
  <2> HIDE DEF q, half, y
  <2>2. QED
    BY <2>1, SetDelay
<1> HIDE DEF x, y
<1>5. QED
  BY <1>1, <1>2, <1>3, <1>4

\* The host has counted one frame more.
LEMMA CountedLeaves ==
  ASSUME NEW c, Shape(c)
  PROVE  LET d == Counted(c)
         IN  /\ OnlyPause(c, d) /\ d.decay = c.decay /\ d.required = c.required /\ d.setup = c.setup
             /\ d.host.frames = IF "pause" \in c.setup.may /\ c.host.frames < MaxFrames * DecayMultiplier
                                THEN c.host.frames + 1 ELSE c.host.frames
<1> DEFINE n == c.host.frames + 1
           e == [c EXCEPT !.host = [@ EXCEPT !.frames = n]]
<1>1. OnlyPause(c, c)
  BY DEF OnlyPause
<1>2. OnlyPause(c, e) /\ e.decay = c.decay /\ e.required = c.required /\ e.host.frames = n /\ e.setup = c.setup
  BY SetFrames
<1>3. Counted(c) = IF "pause" \in c.setup.may /\ c.host.frames < MaxFrames * DecayMultiplier THEN e ELSE c
  BY DEF Counted
<1> HIDE DEF e
<1>4. QED
  BY <1>1, <1>2, <1>3

\* What a frame has done before the time passes.
LEMMA PlaysOn ==
  ASSUME NEW c, Inv(c), NEW os, NEW bs, c.loaded /\ ~c.waiting => FrameChoice(c, os, bs)
  PROVE  LET d == Played(c, os, bs)
         IN  Inv(d) /\ PausePart(d) = PausePart(c) /\ d.setup = c.setup /\ (c.timer => d.timer)
<1>1. CASE ~(c.loaded /\ ~c.waiting)
  BY <1>1 DEF Played
<1>2. CASE c.loaded /\ ~c.waiting
  <2> DEFINE f == FrameBoards(c, os, bs)
             d == RaisePendingEvents(f)
  <2>1. Pending(f) /\ ModePart(f) = ModePart(c) /\ PausePart(f) = PausePart(c) /\ (c.timer => f.timer)
    BY <1>2, FrameIsPending
  <2> HIDE DEF f
  <2>2. Inv(d) /\ ModePart(d) = ModePart(f) /\ PausePart(d) = PausePart(f) /\ d.timer = f.timer
    BY <2>1, RaisingKeeps
  <2>3. Played(c, os, bs) = d
    BY <1>2 DEF Played, f
  <2> HIDE DEF d
  <2>4. QED
    BY <2>1, <2>2, <2>3 DEF ModePart
<1>3. QED
  BY <1>1, <1>2

\* A whole frame.
LEMMA FrameKeeps ==
  ASSUME NEW c, Inv(c), NEW os, NEW bs, c.loaded /\ ~c.waiting => FrameChoice(c, os, bs), NEW due, due \subseteq Scheduled(c)
  PROVE  LET d == Counted(DoFrame(c, os, bs, due))
         IN  Inv(d) /\ d.host.frames \in {c.host.frames, c.host.frames + 1}
<1> DEFINE p == Played(c, os, bs)
           w == PauseDecay(p)
           t == Idle(w, due)
           d == Counted(t)
<1>1. DoFrame(c, os, bs, due) = t
  BY DEF DoFrame, Played, FrameBoards, FrameShown, FrameAchs, FrameStart, Processing, ProcessingBoards
<1>2. Inv(p) /\ PausePart(p) = PausePart(c) /\ p.setup = c.setup /\ (c.timer => p.timer)
  BY PlaysOn
<1>3. ProgressInv(c) /\ ServerInv(c)
  BY DEF Inv
<1>4. IsFiniteSet(due) /\ due \subseteq Nat
  BY <1>3, ScheduledFinite, FS_Subset
<1>5. 0 \in due => c.timer
  <2>1. \A r \in c.requests : r.id # 0
    BY <1>3 DEF ServerInv, Requests
  <2>2. 0 \in Scheduled(c) => c.hides
    BY <2>1 DEF Scheduled
  <2>3. QED
    BY <1>3, <2>2 DEF ProgressInv
<1> HIDE DEF p
<1>6. Shape(p) /\ Steady(p) /\ PauseInv(p)
  BY <1>2, InvIs DEF Inv
<1>7. OnlyPause(p, w) /\ w.host = p.host /\ w.setup = p.setup
  BY <1>6, DecayLeaves
<1>8. w.decay = PauseDecay(p).decay /\ w.required = PauseDecay(p).required
  OBVIOUS
<1> HIDE DEF w
<1>9. Steady(w) /\ (0 \in due => w.timer)
  BY <1>2, <1>5, <1>6, <1>7, SteadyPause DEF OnlyPause, ProgressPart
<1>10. Steady(t) /\ PausePart(t) = PausePart(w) /\ t.setup = w.setup
  BY <1>4, <1>9, IdleKeeps
<1> HIDE DEF t
<1>11. Shape(t)
  BY <1>10 DEF Steady
<1>12. /\ OnlyPause(t, d) /\ d.decay = t.decay /\ d.required = t.required /\ d.setup = t.setup
       /\ d.host.frames = IF "pause" \in t.setup.may /\ t.host.frames < MaxFrames * DecayMultiplier
                          THEN t.host.frames + 1 ELSE t.host.frames
  BY <1>11, CountedLeaves
<1> HIDE DEF d
<1>13. Steady(d)
  BY <1>10, <1>12, SteadyPause
<1>14. t.decay = w.decay /\ t.required = w.required /\ t.host.frames = p.host.frames /\ t.setup = p.setup
  BY <1>7, <1>10 DEF PausePart
<1>15. DelayWorn(p, d)
  BY <1>8, <1>12, <1>14 DEF DelayWorn
<1>16. PauseInv(d)
  BY <1>6, <1>15, FrameWears
<1>17. d.host.frames \in {c.host.frames, c.host.frames + 1}
  BY <1>2, <1>12, <1>14 DEF PausePart
<1>18. QED
  BY <1>1, <1>13, <1>16, <1>17, InvIs DEF d

\* The time passes without a frame.
LEMMA IdleOnlyKeeps ==
  ASSUME NEW c, Inv(c), NEW due, due \subseteq Scheduled(c)
  PROVE  GoesOn(c, Idle(c, due))
<1>1. ProgressInv(c) /\ ServerInv(c) /\ Steady(c) /\ PauseInv(c)
  BY InvIs DEF Inv
<1>2. IsFiniteSet(due) /\ due \subseteq Nat
  BY <1>1, ScheduledFinite, FS_Subset
<1>3. 0 \in due => c.timer
  <2>1. \A r \in c.requests : r.id # 0
    BY <1>1 DEF ServerInv, Requests
  <2>2. 0 \in Scheduled(c) => c.hides
    BY <2>1 DEF Scheduled
  <2>3. QED
    BY <1>1, <2>2 DEF ProgressInv
<1> DEFINE d == Idle(c, due)
<1>4. Steady(d) /\ PausePart(d) = PausePart(c) /\ d.setup = c.setup
  BY <1>1, <1>2, <1>3, IdleKeeps
<1> HIDE DEF d
<1>5. PauseInv(d)
  BY <1>1, <1>4, PauseStays
<1>6. QED
  BY <1>4, <1>5, InvIs DEF d, GoesOn, PausePart

\* A pause that is allowed starts the count anew, and the delay with it.
LEMMA PauseKeeps ==
  ASSUME NEW c, Inv(c)
  PROVE  Inv(PausesTo(c))
<1> DEFINE r == IF c.decay > 0 /\ c.required < MaxFrames THEN c.required + MinFrames ELSE c.required
           q == r * DecayMultiplier
           e == [c EXCEPT !.required = r, !.decay = q]
           z == [c EXCEPT !.host = [@ EXCEPT !.frames = 0]]
           d == [e EXCEPT !.host = [@ EXCEPT !.frames = 0]]
<1>1. Shape(c) /\ Steady(c) /\ PauseInv(c) /\ c.hardcore \in BOOLEAN
  BY InvIs DEF Inv, ModeInv
<1>2. /\ PauseBounds(c.decay, c.required, c.host.frames)
      /\ "pause" \in c.setup.may => PauseCount(c.decay, c.required, c.host.frames)
  BY <1>1, PauseInvIs
<1>3. CASE c.hardcore /\ c.decay = c.required * DecayMultiplier
  <2>1. OnlyPause(c, z) /\ z.decay = c.decay /\ z.required = c.required /\ z.host.frames = 0 /\ z.setup = c.setup
    BY <1>1, SetFrames
  <2>2. PausesTo(c) = z
    BY <1>3 DEF PausesTo, CanPause
  <2> HIDE DEF z
  <2>3. PauseBounds(c.decay, c.required, 0) /\ ("pause" \in c.setup.may => PauseCount(c.decay, c.required, 0))
    BY <1>2, <1>3 DEF PauseBounds, PauseCount
  <2>4. PauseInv(z)
    BY <2>1, <2>3, PauseInvIs
  <2>5. QED
    BY <1>1, <2>1, <2>2, <2>4, SteadyPause, InvIs
<1>4. CASE ~c.hardcore \/ (c.decay > c.required * (DecayMultiplier - 1) /\ c.decay # c.required * DecayMultiplier)
  <2>1. PausesTo(c) = c
    BY <1>1, <1>4 DEF PausesTo, CanPause
  <2>2. QED
    BY <2>1
<1>5. CASE c.hardcore /\ ~(c.decay > c.required * (DecayMultiplier - 1)) /\ c.decay # c.required * DecayMultiplier
  <2>1. OnlyPause(c, e) /\ e.decay = q /\ e.required = r /\ e.host = c.host /\ e.setup = c.setup
    <3>1. DelaySet(c, q, r, e)
      BY DEF DelaySet
    <3> HIDE DEF q, r, e
    <3>2. QED
      BY <1>1, <3>1, SetDelay
  <2>2. PausesTo(c) = d
    BY <1>5 DEF PausesTo, CanPause
  <2> HIDE DEF e
  <2>3. OnlyPause(e, d) /\ d.decay = e.decay /\ d.required = e.required /\ d.host.frames = 0 /\ d.setup = e.setup
    BY <2>1, SetFrames DEF OnlyPause
  <2> HIDE DEF d
  <2>4. Steady(d)
    BY <1>1, <2>1, <2>3, SteadyPause
  <2>5. r \in Nat /\ r >= 1 /\ r \in MinFrames .. (MaxFrames * DecayMultiplier) /\ r < MaxFrames + MinFrames
    <3>1. /\ c.required \in Nat /\ c.required >= MinFrames /\ c.required <= MaxFrames * DecayMultiplier
          /\ MinFrames \in Nat /\ MinFrames >= 1 /\ MaxFrames \in Nat /\ MinFrames <= MaxFrames /\ c.required < MaxFrames + MinFrames
      BY <1>2, PauseAssumption DEF PauseBounds
    <3>2. MaxFrames * DecayMultiplier \in Nat /\ MaxFrames * DecayMultiplier >= MaxFrames + MaxFrames
      <4> DEFINE k == DecayMultiplier - 2
      <4>1. k \in Nat /\ DecayMultiplier = k + 2
        BY PauseAssumption
      <4> HIDE DEF k
      <4>2. MaxFrames * k \in Nat /\ MaxFrames * (k + 2) = MaxFrames * k + MaxFrames + MaxFrames
        BY <3>1, <4>1
      <4>3. QED
        BY <3>1, <4>1, <4>2
    <3> DEFINE m == MaxFrames * DecayMultiplier
    <3>3. m \in Nat /\ m >= MaxFrames + MaxFrames /\ c.required <= m
      BY <3>1, <3>2
    <3> HIDE DEF m
    <3>4. r \in MinFrames .. m /\ r \in Nat /\ r >= 1 /\ r < MaxFrames + MinFrames
      BY <3>1, <3>3
    <3>5. QED
      BY <3>4 DEF m
  <2> HIDE DEF r
  <2>6. q \in Nat /\ r * (DecayMultiplier - 1) \in Nat /\ r * (DecayMultiplier - 1) = q - r /\ q <= r * DecayMultiplier
        /\ q = r * DecayMultiplier
    BY <2>5, Multiples
  <2> HIDE DEF q
  <2>7. PauseBounds(q, r, 0)
    BY <2>5, <2>6 DEF PauseBounds
  <2>8. PauseCount(q, r, 0)
    <3>1. q > r * (DecayMultiplier - 1) /\ 0 >= r * DecayMultiplier - q /\ ~(q <= r * (DecayMultiplier - 1))
      BY <2>5, <2>6
    <3>2. QED
      BY <3>1 DEF PauseCount
  <2>9. PauseInv(d)
    BY <2>1, <2>3, <2>7, <2>8, PauseInvIs
  <2>10. QED
    BY <2>2, <2>4, <2>9, InvIs
<1>6. QED
  BY <1>1, <1>3, <1>4, <1>5

-----------------------------------------------------------------------------
(* The server answers.                                                       *)

\* What leaves alone everything the invariant is about keeps it.
LEMMA SameKeeps ==
  ASSUME NEW c, Inv(c), NEW d, SameParts(c, d), d.flags = c.flags, d.fault # "timer"
  PROVE  GoesOn(c, d)
<1>1. /\ Shape(d) /\ c.flags \subseteq d.flags /\ c.flags = {}
      /\ ModeInv(c) /\ AchInv(c) /\ BoardInv(c) /\ ProgressInv(c) /\ ServerInv(c) /\ PauseInv(c)
  BY DEF Inv, SameParts
<1>2. ModeInv(d) /\ AchInv(d) /\ BoardInv(d) /\ ProgressInv(d) /\ ServerInv(d) /\ PauseInv(d)
  BY <1>1, SameSteady
<1>3. d.host.frames = c.host.frames
  BY DEF SameParts, PausePart
<1>4. QED
  BY <1>1, <1>2, <1>3 DEF Inv, GoesOn

\* So does a change of the requests that keeps what is said of them,
LEMMA ServerKeeps ==
  ASSUME NEW c, Inv(c), NEW d, OnlyServer(c, d), ServerInv(d), d.fault # "timer"
  PROVE  GoesOn(c, d)
<1>1. Steady(c) /\ PauseInv(c)
  BY InvIs
<1>2. Steady(d)
  BY <1>1, SteadyServer
<1>3. PausePart(d) = PausePart(c) /\ d.setup = c.setup
  BY DEF OnlyServer, ModePart
<1>4. PauseInv(d)
  BY <1>1, <1>3, PauseStays
<1>5. d.host.frames = c.host.frames
  BY <1>3 DEF PausePart
<1>6. QED
  BY <1>2, <1>4, <1>5, InvIs DEF GoesOn

\* A request is settled, or has failed.
LEMMA SettledInv ==
  ASSUME NEW c, Inv(c), NEW r \in c.requests
  PROVE  GoesOn(c, Settled(c, r)) /\ GoesOn(c, Failed(c, r))
<1>1. Shape(c) /\ ServerInv(c) /\ c.fault # "timer"
  BY DEF Inv
<1> DEFINE s == Settled(c, r)
           f == Failed(c, r)
<1>2. OnlyServer(c, s) /\ ServerInv(s) /\ s.fault = c.fault
  BY <1>1, SettledKeeps
<1>3. OnlyServer(c, f) /\ ServerInv(f) /\ f.fault = c.fault
  BY <1>1, FailedKeeps
<1> HIDE DEF s, f
<1>4. GoesOn(c, s) /\ GoesOn(c, f)
  BY <1>1, <1>2, <1>3, ServerKeeps
<1>5. QED
  BY <1>4 DEF s, f

\* What no part has changes nothing of what holds.
LEMMA SetServer ==
  ASSUME NEW c, Inv(c), NEW s
  PROVE  GoesOn(c, [c EXCEPT !.server = s]) /\ [c EXCEPT !.server = s].requests = c.requests
<1> DEFINE d == [c EXCEPT !.server = s]
<1>1. Shape(c) /\ c.fault # "timer"
  BY DEF Inv
<1>2. SameParts(c, d) /\ d.flags = c.flags /\ d.fault = c.fault /\ d.requests = c.requests
  BY <1>1 DEF SameParts, Shape, Fields, ModePart, PausePart, AchPart, BoardPart, ServerPart, ProgressPart
<1> HIDE DEF d
<1>3. GoesOn(c, d)
  BY <1>1, <1>2, SameKeeps
<1>4. QED
  BY <1>2, <1>3 DEF d

\* a change of the mastery,
LEMMA SetMastery ==
  ASSUME NEW c, Inv(c), NEW s
  PROVE  GoesOn(c, [c EXCEPT !.mastery = s]) /\ [c EXCEPT !.mastery = s].requests = c.requests
<1> DEFINE d == [c EXCEPT !.mastery = s]
<1>1. Shape(c) /\ c.fault # "timer"
  BY DEF Inv
<1>2. SameParts(c, d) /\ d.flags = c.flags /\ d.fault = c.fault /\ d.requests = c.requests
  BY <1>1 DEF SameParts, Shape, Fields, ModePart, PausePart, AchPart, BoardPart, ServerPart, ProgressPart
<1> HIDE DEF d
<1>3. GoesOn(c, d)
  BY <1>1, <1>2, SameKeeps
<1>4. QED
  BY <1>2, <1>3 DEF d

\* an answer that finds no game,
LEMMA SetFault ==
  ASSUME NEW c, Inv(c)
  PROVE  GoesOn(c, [c EXCEPT !.fault = "award"])
<1> DEFINE d == [c EXCEPT !.fault = "award"]
<1>1. Shape(c)
  BY DEF Inv
<1>2. SameParts(c, d) /\ d.flags = c.flags /\ d.fault = "award"
  BY <1>1 DEF SameParts, Shape, Fields, ModePart, PausePart, AchPart, BoardPart, ServerPart, ProgressPart
<1> HIDE DEF d
<1>3. GoesOn(c, d)
  BY <1>2, SameKeeps
<1>4. QED
  BY <1>3 DEF d

\* and an event of another kind.
LEMMA TellInv ==
  ASSUME NEW c, Inv(c), NEW e,
         e[1] \notin {"challenge_show", "challenge_hide", "tracker_show", "tracker_update", "tracker_hide", "progress_show",
                      "progress_update", "progress_hide", "disconnected", "reconnected"}
  PROVE  GoesOn(c, Tell(c, e)) /\ Tell(c, e).requests = c.requests
<1> DEFINE d == Tell(c, e)
<1>1. Shape(c) /\ c.fault # "timer"
  BY DEF Inv
<1>2. SameParts(c, d) /\ d.flags = c.flags /\ d.fault = c.fault
  BY <1>1, TellLeaves
<1> HIDE DEF d
<1>3. GoesOn(c, d)
  BY <1>1, <1>2, SameKeeps
<1>4. QED
  BY <1>2, <1>3 DEF SameParts, ServerPart, d

\* The answer to an unlock, whatever it is and whenever it comes.
LEMMA AwardAnswered ==
  ASSUME NEW c, Inv(c), NEW r \in c.requests, NEW result, NEW reached
  PROVE  GoesOn(c, AwardCallback(c, r, result, reached))
<1> DEFINE server == IF reached \/ result = "ok" THEN c.server \cup {<<r.of, r.hard>>} ELSE c.server
           d == [c EXCEPT !.server = server]
           last == Remaining(c, server, r.hard) = {}
           e == <<"server_error", r>>
           t == Tell(d, e)
           m == [d EXCEPT !.mastery = "pending"]
           f == [d EXCEPT !.fault = "award"]
<1>1. AwardCallback(c, r, result, reached) \in {Failed(d, r), Settled(t, r), f, Settled(m, r), Settled(d, r)}
  BY DEF AwardCallback
<1>2. GoesOn(c, d) /\ Inv(d) /\ d.requests = c.requests
  BY SetServer DEF GoesOn
<1>3. e[1] = "server_error"
  OBVIOUS
<1> HIDE DEF d, e
<1>4. GoesOn(c, t) /\ Inv(t) /\ t.requests = c.requests
  BY <1>2, <1>3, TellInv DEF GoesOn
<1>5. GoesOn(c, m) /\ Inv(m) /\ m.requests = c.requests
  BY <1>2, SetMastery DEF GoesOn
<1>6. GoesOn(c, f)
  BY <1>2, SetFault DEF GoesOn
<1> HIDE DEF t, m, f
<1>7. GoesOn(c, Failed(d, r)) /\ GoesOn(c, Settled(t, r)) /\ GoesOn(c, Settled(m, r)) /\ GoesOn(c, Settled(d, r))
  BY <1>2, <1>4, <1>5, SettledInv DEF GoesOn
<1>8. QED
  BY <1>1, <1>6, <1>7

\* The answer to a leaderboard entry.
LEMMA SubmitAnswered ==
  ASSUME NEW c, Inv(c), NEW r \in c.requests, NEW result
  PROVE  GoesOn(c, SubmitCallback(c, r, result))
<1> DEFINE e == <<"server_error", r>>
           t == Tell(c, e)
           g == <<"scoreboard", r.of>>
           u == Tell(c, g)
<1>1. SubmitCallback(c, r, result) \in {Failed(c, r), Settled(t, r), Settled(u, r), Settled(c, r)}
  BY DEF SubmitCallback
<1>2. e[1] = "server_error" /\ g[1] = "scoreboard"
  OBVIOUS
<1> HIDE DEF e, g
<1>3. GoesOn(c, t) /\ t.requests = c.requests /\ GoesOn(c, u) /\ u.requests = c.requests
  BY <1>2, TellInv
<1> HIDE DEF t, u
<1>4. GoesOn(c, Failed(c, r)) /\ GoesOn(c, Settled(t, r)) /\ GoesOn(c, Settled(u, r)) /\ GoesOn(c, Settled(c, r))
  BY <1>3, SettledInv DEF GoesOn
<1>5. QED
  BY <1>1, <1>4

-----------------------------------------------------------------------------
(* A game starts over.                                                       *)

\* When the leaderboards are fit to be announced, so is the client.
LEMMA BoardsToPending ==
  ASSUME NEW c, AlmostPending(c), NEW s \in TrackerSteps, NEW d, Leaves(s, c, d), BoardsDue(d)
  PROVE  Pending(d)
<1>1. NewFlags(s) = {"tracker", "board"} /\ s \notin AchSteps /\ s \notin ServerSteps
  BY DEF NewFlags, AchSteps, ServerSteps, TrackerSteps, BoardSteps
<1>2. /\ Shape(d) /\ ModePart(d) = ModePart(c) /\ PausePart(d) = PausePart(c) /\ ServerPart(d) = ServerPart(c)
      /\ ProgressPart(d) = ProgressPart(c) /\ AchPart(d) = AchPart(c) /\ d.fault = c.fault /\ c.flags \subseteq d.flags
      /\ "progress" \in d.flags <=> "progress" \in c.flags
  BY <1>1 DEF Leaves
<1>3. Shape(c) /\ c.fault # "timer" /\ c.loaded /\ ModeInv(c) /\ PauseInv(c) /\ ServerInv(c) /\ Due(c) /\ ProgressDue(c)
  BY DEF AlmostPending
<1>4. d.loaded /\ d.setup = c.setup
  BY <1>2, <1>3 DEF ModePart
<1>5. Due(d)
  BY <1>2, <1>3, AchsStay
<1>6. ProgressDue(d)
  BY <1>2, <1>3, ProgressStays
<1>7. ModeInv(d)
  BY <1>2, <1>3, ModeStays
<1>8. PauseInv(d)
  BY <1>2, <1>3, <1>4, PauseStays
<1>9. ServerInv(d)
  BY <1>2, <1>3, SameServer
<1>10. QED
  BY <1>2, <1>3, <1>4, <1>5, <1>6, <1>7, <1>8, <1>9 DEF Pending

\* The leaderboards of a game whose attempts end.
LEMMA QuietLoop ==
  ASSUME NEW w, w[1] \in {"let_go", "deactivate", "reset_board"}, NEW c, Shape(c), BoardInv(c), NEW d, Ran(w, c, Len(c.boards), d)
  PROVE  /\ Leaves(w[1], c, d) /\ Tracked(d) /\ Announced(d) /\ d.runningBoards = c.runningBoards
         /\ DOMAIN d.boards = DOMAIN c.boards /\ \A j \in DOMAIN c.boards : d.boards[j] = Quiet(w[1], c.boards[j])
<1>1. Tracked(c) /\ Announced(c)
  BY BoardsStay DEF BoardInv
<1>2. BoardLoopNeeds(w, c)
  BY DEF BoardLoopNeeds
<1>3. Reached(w, c, d, Len(c.boards)) /\ \A j \in DOMAIN c.boards : BoardDone(w, c, d, j)
  BY <1>1, <1>2, BoardLoop
<1>4. \A j \in DOMAIN c.boards : d.boards[j] = Quiet(w[1], c.boards[j])
  BY <1>3 DEF BoardDone
<1>5. QED
  BY <1>3, <1>4 DEF Reached

\* After a reset they are.
LEMMA ResetsBoards ==
  ASSUME NEW c, Shape(c), BoardInv(c)
  PROVE  LET d == ResetLeaderboards(c) IN Leaves("reset_board", c, d) /\ BoardsDue(d)
<1> DEFINE w == <<"reset_board">>
           d == ResetLeaderboards(c)
<1>1. w[1] = "reset_board"
  OBVIOUS
<1>2. Tracked(c) /\ RunningBoards(c) /\ \A j \in DOMAIN c.boards : Attached(c.boards[j]) /\ c.boards[j].pending = "none"
  BY DEF BoardInv
<1>3. Len(c.boards) \in Nat /\ \A j \in DOMAIN c.boards : c.boards[j] \in Boards
  BY <1>2, TrackerTypes
<1>4. Ran(w, c, Len(c.boards), d)
  BY <1>3, ResetBoardRan DEF ResetLeaderboards
<1> HIDE DEF w, d
<1>5. /\ Leaves("reset_board", c, d) /\ Tracked(d) /\ Announced(d) /\ d.runningBoards = c.runningBoards
      /\ DOMAIN d.boards = DOMAIN c.boards /\ \A j \in DOMAIN c.boards : d.boards[j] = Quiet("reset_board", c.boards[j])
  BY <1>1, <1>4, QuietLoop
<1>6. ASSUME NEW b \in Boards, Attached(b), b.pending = "none"
      PROVE  LET q == Quiet("reset_board", b)
             IN  Attached(q) /\ q.st # "tracking" /\ q.pending = "none" /\ (InPlay(q) <=> InPlay(b))
  BY <1>6 DEF Quiet, LetGoOf, Attached, InPlay, Boards
<1>7. \A j \in DOMAIN c.boards : /\ Attached(d.boards[j]) /\ d.boards[j].st # "tracking" /\ d.boards[j].pending = "none"
                                 /\ InPlay(d.boards[j]) <=> InPlay(c.boards[j])
  <2> TAKE j \in DOMAIN c.boards
  <2>1. c.boards[j] \in Boards /\ Attached(c.boards[j]) /\ c.boards[j].pending = "none" /\ d.boards[j] = Quiet("reset_board", c.boards[j])
    BY <1>2, <1>3, <1>5
  <2>2. QED
    BY <1>6, <2>1
<1>8. RunningBoards(d)
  BY <1>2, <1>5, <1>7 DEF RunningBoards, InPlay
<1>9. \A j \in DOMAIN d.boards : Valued(d, j)
  BY <1>5, <1>7 DEF Valued
<1>10. BoardsDue(d)
  BY <1>5, <1>7, <1>8, <1>9 DEF BoardsDue
<1>11. QED
  BY <1>5, <1>10 DEF d

\* Both, of a game whose indicator is already seen to.
LEMMA StartsOver ==
  ASSUME NEW c, Shape(c), c.fault # "timer", c.loaded, ModeInv(c), PauseInv(c), ServerInv(c), Ready(c), ProgressDue(c), BoardInv(c)
  PROVE  LET a == ResetAchievements(c)
             d == ResetLeaderboards(a)
         IN  /\ AlmostPending(a) /\ Held(a) /\ (\A i \in DOMAIN a.achs : ~Wants(a.achs[i])) /\ Shape(a) /\ BoardInv(a)
             /\ ModePart(a) = ModePart(c) /\ PausePart(d) = PausePart(c)
             /\ Leaves("reset_board", a, d) /\ BoardsDue(d) /\ Pending(d)
<1> DEFINE a == ResetAchievements(c)
           d == ResetLeaderboards(a)
<1>1. Leaves("reset", c, a) /\ Held(a) /\ \A i \in DOMAIN a.achs : ~Wants(a.achs[i]) /\ (a.achs[i].st = "active" => ~a.achs[i].soft)
  BY ResetsAchs
<1> HIDE DEF a
<1>2. Clean(a)
  BY <1>1 DEF Clean
<1>3. Due(a)
  BY <1>1, <1>2, HeldIsDue
<1>4. NewFlags("reset") = {"achievement"} /\ "reset" \notin BoardSteps /\ "reset" \notin ServerSteps
  BY DEF NewFlags, BoardSteps, ServerSteps, TrackerSteps
<1>5. /\ Shape(a) /\ ModePart(a) = ModePart(c) /\ PausePart(a) = PausePart(c) /\ ServerPart(a) = ServerPart(c)
      /\ ProgressPart(a) = ProgressPart(c) /\ BoardPart(a) = BoardPart(c) /\ a.fault = c.fault
      /\ "progress" \in a.flags <=> "progress" \in c.flags
  BY <1>1, <1>4 DEF Leaves
<1>6. a.loaded /\ a.setup = c.setup
  BY <1>5 DEF ModePart
<1>7. ProgressDue(a)
  BY <1>5, ProgressStays
<1>8. ModeInv(a)
  BY <1>5, ModeStays
<1>9. PauseInv(a)
  BY <1>5, <1>6, PauseStays
<1>10. ServerInv(a)
  BY <1>5, SameServer
<1>11. BoardInv(a)
  BY <1>5, BoardsStay
<1>12. AlmostPending(a)
  BY <1>3, <1>5, <1>6, <1>7, <1>8, <1>9, <1>10 DEF AlmostPending
<1>13. Leaves("reset_board", a, d) /\ BoardsDue(d)
  BY <1>5, <1>11, ResetsBoards
<1> HIDE DEF d
<1>14. "reset_board" \in TrackerSteps
  BY DEF TrackerSteps, BoardSteps, ServerSteps
<1>15. Pending(d)
  BY <1>12, <1>13, <1>14, BoardsToPending
<1>16. PausePart(d) = PausePart(c)
  BY <1>5, <1>13 DEF Leaves
<1>17. QED
  BY <1>1, <1>5, <1>11, <1>12, <1>13, <1>15, <1>16 DEF a, d

\* The achievements as they are can be reset.
LEMMA ReadyNow ==
  ASSUME NEW c, AchInv(c), NEW d, AchPart(d) = AchPart(c), d.setup = c.setup, d.hardcore = c.hardcore
  PROVE  Ready(d)
<1>1. d.achs = c.achs /\ d.running = c.running /\ d.host.challenges = c.host.challenges
  BY DEF AchPart
<1>2. Standing(d) /\ Running(d)
  BY <1>1 DEF AchInv, Standing, Running, Mode
<1>3. /\ \A i \in DOMAIN d.achs : d.achs[i].pending = {} /\ (Lit(d, i) <=> Wants(d.achs[i]))
      /\ d.host.challenges \subseteq DOMAIN d.achs
  BY <1>1 DEF AchInv, Challenges, Lit
<1>4. QED
  BY <1>1, <1>2, <1>3 DEF Ready, AchInv

\* rc_client_reset: the game is played again from the start.
LEMMA ResetKeeps ==
  ASSUME NEW c, Inv(c), c.loaded
  PROVE  GoesOn(c, DoReset(c))
<1> DEFINE s == [c EXCEPT !.waiting = FALSE, !.flags = {}]
           d == HideProgressTracker(s)
           e == ResetLeaderboards(ResetAchievements(d))
<1>1. /\ Shape(c) /\ c.flags = {} /\ c.fault # "timer" /\ ModeInv(c) /\ AchInv(c) /\ BoardInv(c) /\ ProgressInv(c)
      /\ ServerInv(c) /\ PauseInv(c)
  BY DEF Inv
<1>2. /\ Shape(s) /\ AchPart(s) = AchPart(c) /\ BoardPart(s) = BoardPart(c) /\ ProgressPart(s) = ProgressPart(c)
      /\ ServerPart(s) = ServerPart(c) /\ PausePart(s) = PausePart(c) /\ s.flags = {} /\ s.fault = c.fault
      /\ s.setup = c.setup /\ s.hardcore = c.hardcore /\ s.signed = c.signed /\ s.load = c.load /\ s.loaded = c.loaded /\ s.waiting = FALSE
      /\ s.timer = c.timer /\ s.action = c.action /\ s.hides = c.hides /\ s.requests = c.requests /\ s.disconnect = c.disconnect
      /\ s.host = c.host
  BY <1>1 DEF AchPart, BoardPart, ProgressPart, ServerPart, PausePart, Shape, Fields
<1> HIDE DEF s
<1>3. ModeInv(s) /\ ServerInv(s) /\ ProgressInv(s) /\ PauseInv(s)
  <2>1. ModeInv(s)
    BY <1>1, <1>2 DEF ModeInv
  <2>2. ServerInv(s)
    BY <1>1, <1>2 DEF ServerInv, Queued
  <2>3. ProgressInv(s)
    BY <1>1, <1>2 DEF ProgressInv
  <2>4. PauseInv(s)
    BY <1>1, <1>2, PauseStays
  <2>5. QED
    BY <2>1, <2>2, <2>3, <2>4
<1>4. Ready(s)
  BY <1>1, <1>2, ReadyNow
<1>5. BoardInv(s)
  BY <1>1, <1>2, BoardsStay
<1>6. OnlyProgress(s, d) /\ ProgressDue(d) /\ s.flags \subseteq d.flags /\ d.fault = s.fault
  BY <1>2, <1>3, HidesProgress
<1> HIDE DEF d
<1>7. /\ Shape(d) /\ ModePart(d) = ModePart(s) /\ PausePart(d) = PausePart(s) /\ AchPart(d) = AchPart(s)
      /\ BoardPart(d) = BoardPart(s) /\ ServerPart(d) = ServerPart(s)
  BY <1>6 DEF OnlyProgress
<1>8. d.loaded /\ d.setup = s.setup
  BY <1>2, <1>7 DEF ModePart
<1>9. Ready(d) /\ BoardInv(d) /\ ServerInv(d)
  BY <1>3, <1>4, <1>5, <1>6, <1>7, AchsStay, BoardsStay, SameServer
<1>10. ModeInv(d)
  BY <1>2, <1>3, <1>7, ModeStaysWithout
<1>11. PauseInv(d)
  BY <1>3, <1>7, <1>8, PauseStays
<1>12. Pending(e) /\ PausePart(e) = PausePart(d)
  BY <1>1, <1>2, <1>6, <1>7, <1>8, <1>9, <1>10, <1>11, StartsOver
<1> HIDE DEF e
<1>13. Inv(RaisePendingEvents(e)) /\ PausePart(RaisePendingEvents(e)) = PausePart(c)
  BY <1>2, <1>7, <1>12, RaisingKeeps
<1>14. DoReset(c) = RaisePendingEvents(e)
  BY DEF DoReset, e, d, s
<1>15. QED
  BY <1>13, <1>14 DEF GoesOn, PausePart

-----------------------------------------------------------------------------
(* The mode is switched.                                                     *)

\* To set the leaderboards changes nothing else.
LEMMA BoardsReplaced ==
  ASSUME NEW c, Shape(c), NEW s, NEW d, BoardsSet(c, s, d) PROVE SetBoards(c, s, d)
BY DEF BoardsSet, SetBoards, Shape, Fields, ModePart, PausePart, AchPart, ProgressPart, ServerPart

\* The trackers are as they should be when no leaderboard changes its tracker
\* or what it measures.
LEMMA StillTracked ==
  ASSUME NEW c, Tracked(c), NEW d, d.trackers = c.trackers, d.host = c.host, IsAFunction(d.boards),
         DOMAIN d.boards = DOMAIN c.boards, \A j \in DOMAIN c.boards : SameBut(c.boards[j], d.boards[j])
  PROVE  Tracked(d)
<1>1. DOMAIN c.boards = 1 .. Len(c.boards) /\ Len(c.boards) \in Nat
  BY TrackerTypes
<1>2. \A j \in DOMAIN c.boards : d.boards[j] \in Boards /\ d.boards[j].def = c.boards[j].def /\ d.boards[j].tracker = c.boards[j].tracker
  BY DEF SameBut
<1>3. d.boards \in Seq(Boards)
  BY <1>1, <1>2 DEF IsAFunction
<1>4. BoardTypes(d)
  <2>1. BoardTypes(c) /\ c.trackers \in Seq(Trackers)
    BY DEF Tracked, BoardTypes
  <2>2. \A i, j \in DOMAIN d.boards :
          d.boards[i].def.group = d.boards[j].def.group => d.boards[i].def.fromHits = d.boards[j].def.fromHits
    BY <1>2, <2>1 DEF BoardTypes
  <2>3. QED
    BY <1>3, <2>1, <2>2 DEF BoardTypes
<1>5. \A k : Holders(d, k) = Holders(c, k)
  BY <1>2 DEF Holders
<1>6. \A k : FitsAt(d, k) <=> FitsAt(c, k)
  BY DEF FitsAt, On
<1>7. QED
  BY <1>2, <1>4, <1>5, <1>6 DEF Tracked

\* Nor does one that is activated, whose attempt goes on or has not begun.
LEMMA ActivatedBoard ==
  ASSUME NEW b \in Boards, Attached(b), b.pending = "none", NEW allowed \in BOOLEAN, allowed \/ b.st # "tracking"
  PROVE  LET a == Activated(b, allowed)
         IN  SameBut(b, a) /\ Attached(a) /\ a.pending = "none" /\ (a.st = "tracking" => a = b)
BY DEF Activated, RestartedBoard, Attached, SameBut, Boards

\* The leaderboards that may be played are activated.
LEMMA ActivatesBoards ==
  ASSUME NEW c, Shape(c), Sound(c), BoardsAllowed(c) \in BOOLEAN, BoardsAllowed(c) \/ \A j \in DOMAIN c.boards : c.boards[j].st # "tracking"
  PROVE  LET d == ActivateLeaderboards(c)
         IN  /\ Shape(d) /\ ModePart(d) = ModePart(c) /\ PausePart(d) = PausePart(c) /\ AchPart(d) = AchPart(c)
             /\ ProgressPart(d) = ProgressPart(c) /\ ServerPart(d) = ServerPart(c) /\ d.flags = c.flags /\ d.fault = c.fault
             /\ BoardInv(d)
<1> DEFINE allowed == BoardsAllowed(c)
           s == [j \in DOMAIN c.boards |-> Activated(c.boards[j], allowed)]
           e == [c EXCEPT !.boards = s]
           rs == {j \in DOMAIN e.boards : e.boards[j].st \in {"active", "tracking"}}
           d == [e EXCEPT !.runningBoards = rs]
<1>1. ActivateLeaderboards(c) = d
  BY DEF ActivateLeaderboards, UpdateActiveLeaderboards
<1>2. Tracked(c) /\ \A j \in DOMAIN c.boards : Attached(c.boards[j]) /\ Valued(c, j) /\ c.boards[j].pending = "none" /\ c.boards[j] \in Boards
  BY TrackerTypes DEF Sound
<1>3. \A j \in DOMAIN c.boards : allowed \/ c.boards[j].st # "tracking"
  OBVIOUS
<1>4. BoardsSet(c, s, e)
  BY DEF BoardsSet
<1>5. DOMAIN s = DOMAIN c.boards /\ IsAFunction(s)
  <2>1. DOMAIN s = DOMAIN c.boards /\ s = [j \in DOMAIN s |-> s[j]]
    BY Zenon
  <2>2. QED
    BY <2>1 DEF IsAFunction
<1>6. \A j \in DOMAIN c.boards : s[j] = Activated(c.boards[j], allowed)
  OBVIOUS
<1> HIDE DEF allowed, s, e
<1>7. SetBoards(c, s, e)
  BY <1>4, BoardsReplaced
<1>8. \A j \in DOMAIN c.boards : /\ SameBut(c.boards[j], s[j]) /\ Attached(s[j]) /\ s[j].pending = "none"
                                 /\ s[j].st = "tracking" => s[j] = c.boards[j]
  BY <1>2, <1>3, <1>6, ActivatedBoard DEF allowed
<1>9. Shape(e)
  BY <1>7 DEF SetBoards
<1> HIDE DEF rs
<1>10. /\ Shape(d) /\ ModePart(d) = ModePart(e) /\ PausePart(d) = PausePart(e) /\ AchPart(d) = AchPart(e)
       /\ ProgressPart(d) = ProgressPart(e) /\ ServerPart(d) = ServerPart(e) /\ d.flags = e.flags /\ d.fault = e.fault
       /\ d.boards = e.boards /\ d.trackers = e.trackers /\ d.host = e.host /\ d.runningBoards = rs
  BY <1>9 DEF Shape, Fields, ModePart, PausePart, AchPart, ProgressPart, ServerPart
<1> HIDE DEF d
<1>11. d.boards = s /\ d.trackers = c.trackers /\ d.host = c.host
  BY <1>7, <1>10 DEF SetBoards
<1>12. Tracked(d)
  BY <1>2, <1>5, <1>8, <1>11, StillTracked
<1>13. RunningBoards(d)
  BY <1>10 DEF RunningBoards, rs
<1>14. \A j \in DOMAIN d.boards : Attached(d.boards[j]) /\ Valued(d, j) /\ d.boards[j].pending = "none"
  BY <1>2, <1>5, <1>8, <1>11 DEF Valued
<1>15. \A k \in DOMAIN d.trackers : d.trackers[k].pending = {}
  BY <1>11 DEF Sound
<1>16. BoardInv(d)
  BY <1>12, <1>13, <1>14, <1>15 DEF BoardInv
<1>17. QED
  BY <1>1, <1>7, <1>10, <1>16 DEF SetBoards

\* To set the mode changes nothing else.
LEMMA ModeIsSet ==
  ASSUME NEW c, Shape(c), NEW h, NEW d, ModeSet(c, h, d) PROVE OnlyMode(c, h, d)
BY DEF ModeSet, OnlyMode, Shape, Fields, PausePart, AchPart, BoardPart, ProgressPart, ServerPart

\* What the mode alone leaves to be done is the achievements' part of it.
LEMMA OnlyModeKeeps ==
  ASSUME NEW c, Inv(c), NEW h \in BOOLEAN, NEW d, OnlyMode(c, h, d)
  PROVE  /\ Shape(d) /\ ModeInv(d) /\ BoardInv(d) /\ ProgressInv(d) /\ ServerInv(d) /\ PauseInv(d) /\ Challenges(d) /\ Running(d)
         /\ d.achs \in Seq(Achievements)
         /\ ~d.loaded => GoesOn(c, d)
<1>1. /\ ModeInv(c) /\ AchInv(c) /\ BoardInv(c) /\ ProgressInv(c) /\ ServerInv(c) /\ PauseInv(c) /\ c.flags = {} /\ c.fault # "timer"
  BY DEF Inv
<1>2. Shape(d) /\ ModeInv(d) /\ ProgressInv(d) /\ ServerInv(d)
  <2>1. ModeInv(d)
    BY <1>1 DEF OnlyMode, ModeInv
  <2>2. ProgressInv(d)
    BY <1>1 DEF OnlyMode, ProgressInv
  <2>3. ServerInv(d)
    BY <1>1 DEF OnlyMode, ServerInv, Queued
  <2>4. QED
    BY <2>1, <2>2, <2>3 DEF OnlyMode
<1>3. BoardInv(d)
  BY <1>1, BoardsStay DEF OnlyMode
<1>4. PauseInv(d)
  BY <1>1, PauseStays DEF OnlyMode
<1>5. Challenges(d) /\ Running(d) /\ d.achs \in Seq(Achievements)
  BY <1>1 DEF OnlyMode, AchInv, Challenges, Running
<1>6. ASSUME ~d.loaded PROVE GoesOn(c, d)
  <2>1. d.achs = <<>>
    BY <1>2, <1>6 DEF ModeInv
  <2>2. Standing(d) /\ Clean(d)
    BY <2>1 DEF Standing, Clean
  <2>3. AchInv(d)
    BY <1>5, <2>2 DEF AchInv
  <2>4. d.flags = {} /\ d.fault # "timer"
    BY <1>1 DEF OnlyMode
  <2>5. d.host.frames = c.host.frames
    BY DEF OnlyMode, PausePart
  <2>6. QED
    BY <1>2, <1>3, <1>4, <2>3, <2>4, <2>5 DEF Inv, GoesOn
<1>7. QED
  BY <1>2, <1>3, <1>4, <1>5, <1>6

\* rc_client_enable_hardcore: nothing goes on before the reset.
LEMMA EnableKeeps ==
  ASSUME NEW c, Inv(c)
  PROVE  GoesOn(c, EnableHardcore(c))
<1> DEFINE d == [c EXCEPT !.hardcore = TRUE]
           t == ToggleHardcoreAchievements(d, "hard")
           b == ActivateLeaderboards(t)
           w == [b EXCEPT !.waiting = TRUE]
           e == <<"reset">>
<1>1. EnableHardcore(c) = IF c.loaded THEN Tell(w, e) ELSE d
  BY DEF EnableHardcore
<1>2. Shape(c) /\ ModeSet(c, TRUE, d) /\ c.flags = {} /\ c.fault # "timer" /\ TRUE \in BOOLEAN
  BY DEF ModeSet, Inv
<1> HIDE DEF d
<1>3. OnlyMode(c, TRUE, d)
  BY <1>2, ModeIsSet
<1>4. /\ Shape(d) /\ ModeInv(d) /\ BoardInv(d) /\ ProgressInv(d) /\ ServerInv(d) /\ PauseInv(d) /\ Challenges(d)
      /\ d.achs \in Seq(Achievements)
      /\ ~d.loaded => GoesOn(c, d)
  BY <1>2, <1>3, OnlyModeKeeps
<1>5. CASE ~c.loaded
  BY <1>1, <1>3, <1>4, <1>5 DEF OnlyMode
<1>6. CASE c.loaded
  <2>1. d.loaded /\ d.hardcore = TRUE /\ d.flags = {} /\ d.fault = c.fault /\ Mode(d) = "hard"
    BY <1>2, <1>3, <1>6 DEF OnlyMode, Mode
  <2>2. LeavesRest(d, t) /\ t.flags = d.flags /\ t.achs \in Seq(Achievements) /\ Running(t) /\ Challenges(t) /\ Standing(t)
    BY <1>4, <2>1, TogglesAchs
  <2> HIDE DEF t
  <2>3. /\ Shape(t) /\ ProgressPart(t) = ProgressPart(d) /\ ModePart(t) = ModePart(d) /\ PausePart(t) = PausePart(d)
        /\ BoardPart(t) = BoardPart(d) /\ ServerPart(t) = ServerPart(d) /\ t.fault = d.fault
    BY <2>2 DEF LeavesRest
  <2>4. t.loaded /\ t.hardcore = TRUE /\ t.setup = d.setup
    BY <2>1, <2>3 DEF ModePart
  <2>5. Sound(t) /\ BoardsAllowed(t)
    BY <1>4, <2>3, <2>4, BoardsStay DEF Sound, BoardInv, BoardsAllowed
  <2>6. BoardsAllowed(t) \in BOOLEAN
    BY DEF BoardsAllowed
  <2>7. /\ Shape(b) /\ ModePart(b) = ModePart(t) /\ PausePart(b) = PausePart(t) /\ AchPart(b) = AchPart(t)
        /\ ProgressPart(b) = ProgressPart(t) /\ ServerPart(b) = ServerPart(t) /\ b.flags = t.flags /\ b.fault = t.fault
        /\ BoardInv(b)
    BY <2>3, <2>5, <2>6, ActivatesBoards
  <2> HIDE DEF b
  <2>8. ModePart(b) = ModePart(d) /\ ProgressPart(b) = ProgressPart(d) /\ ServerPart(b) = ServerPart(d) /\ PausePart(b) = PausePart(d)
        /\ b.setup = d.setup
    BY <2>3, <2>7 DEF ModePart
  <2>9. ModeInv(b)
    BY <1>4, <2>1, <2>8, ModeStays
  <2>10. ServerInv(b)
    BY <1>4, <2>8, SameServer
  <2>11. PauseInv(b)
    BY <1>4, <2>8, PauseStays
  <2>12. ProgressInv(b)
    BY <1>4, <2>8, ProgressStays
  <2>13. b.achs \in Seq(Achievements) /\ Running(b) /\ Challenges(b) /\ Standing(b) /\ b.loaded
    <3>1. b.achs = t.achs /\ b.running = t.running /\ b.host.challenges = t.host.challenges
      BY <2>7 DEF AchPart
    <3>2. b.setup = t.setup /\ b.hardcore = t.hardcore /\ b.loaded = t.loaded
      BY <2>7 DEF ModePart
    <3>3. QED
      BY <2>2, <2>4, <3>1, <3>2 DEF Running, Challenges, Standing, Mode
  <2>14. /\ Shape(w) /\ w.flags = b.flags /\ w.fault = b.fault /\ AchPart(w) = AchPart(b) /\ BoardPart(w) = BoardPart(b)
         /\ ProgressPart(w) = ProgressPart(b) /\ ServerPart(w) = ServerPart(b) /\ PausePart(w) = PausePart(b)
         /\ w.setup = b.setup /\ w.hardcore = b.hardcore /\ w.signed = b.signed /\ w.load = b.load /\ w.loaded = b.loaded
         /\ w.waiting = TRUE /\ w.achs = b.achs /\ w.running = b.running /\ w.host = b.host /\ w.timer = b.timer /\ w.action = b.action
         /\ w.hides = b.hides /\ w.requests = b.requests /\ w.disconnect = b.disconnect
    BY <2>7 DEF Shape, Fields, AchPart, BoardPart, ProgressPart, ServerPart, PausePart
  <2> HIDE DEF w
  <2>15. ModeInv(w)
    BY <2>9, <2>13, <2>14 DEF ModeInv
  <2>16. ServerInv(w)
    BY <2>10, <2>14 DEF ServerInv, Queued
  <2>17. ProgressInv(w)
    BY <2>12, <2>14 DEF ProgressInv
  <2>18. PauseInv(w) /\ BoardInv(w)
    BY <2>7, <2>11, <2>14, PauseStays, BoardsStay
  <2>19. AchInv(w)
    BY <2>13, <2>14 DEF AchInv, Standing, Running, Challenges, Clean, Mode
  <2>20. Inv(w)
    BY <1>2, <2>1, <2>2, <2>3, <2>7, <2>14, <2>15, <2>16, <2>17, <2>18, <2>19 DEF Inv
  <2>21. e[1] = "reset"
    OBVIOUS
  <2> HIDE DEF e
  <2>22. GoesOn(w, Tell(w, e))
    BY <2>20, <2>21, TellInv
  <2>23. w.host.frames = c.host.frames
    BY <1>3, <2>8, <2>14 DEF OnlyMode, PausePart
  <2>24. QED
    BY <1>1, <1>6, <2>22, <2>23 DEF GoesOn
<1>7. QED
  BY <1>5, <1>6

\* The leaderboards of a game in softcore stop.
LEMMA DeactivatesBoards ==
  ASSUME NEW c, Shape(c), BoardInv(c)
  PROVE  LET d == DeactivateLeaderboards(c) IN Leaves("deactivate", c, d) /\ BoardsDue(d)
<1> DEFINE w == <<"deactivate">>
           x == After(DeactivateBoard, c, Len(c.boards))
           d == [x EXCEPT !.runningBoards = {}]
<1>1. w[1] = "deactivate" /\ DeactivateLeaderboards(c) = d
  BY DEF DeactivateLeaderboards
<1>2. Tracked(c) /\ \A j \in DOMAIN c.boards : Attached(c.boards[j]) /\ c.boards[j].pending = "none"
  BY DEF BoardInv
<1>3. Len(c.boards) \in Nat /\ \A j \in DOMAIN c.boards : c.boards[j] \in Boards
  BY <1>2, TrackerTypes
<1>4. Ran(w, c, Len(c.boards), x)
  BY <1>3, DeactivateRan
<1> HIDE DEF w, x
<1>5. /\ Leaves("deactivate", c, x) /\ Tracked(x) /\ Announced(x)
      /\ DOMAIN x.boards = DOMAIN c.boards /\ \A j \in DOMAIN c.boards : x.boards[j] = Quiet("deactivate", c.boards[j])
  BY <1>1, <1>4, QuietLoop
<1>6. ASSUME NEW b \in Boards, Attached(b), b.pending = "none"
      PROVE  LET q == Quiet("deactivate", b)
             IN  Attached(q) /\ q.st \in {"inactive", "disabled"} /\ q.pending = "none"
  BY <1>6 DEF Quiet, LetGoOf, Attached, Boards
<1>7. \A j \in DOMAIN c.boards : Attached(x.boards[j]) /\ x.boards[j].st \in {"inactive", "disabled"} /\ x.boards[j].pending = "none"
  <2> TAKE j \in DOMAIN c.boards
  <2>1. c.boards[j] \in Boards /\ Attached(c.boards[j]) /\ c.boards[j].pending = "none" /\ x.boards[j] = Quiet("deactivate", c.boards[j])
    BY <1>2, <1>3, <1>5
  <2>2. QED
    BY <1>6, <2>1
<1>8. Shape(x)
  BY <1>5 DEF Leaves
<1>9. /\ Shape(d) /\ ModePart(d) = ModePart(x) /\ PausePart(d) = PausePart(x) /\ AchPart(d) = AchPart(x)
      /\ ProgressPart(d) = ProgressPart(x) /\ ServerPart(d) = ServerPart(x) /\ d.flags = x.flags /\ d.fault = x.fault
      /\ d.boards = x.boards /\ d.trackers = x.trackers /\ d.host = x.host /\ d.runningBoards = {}
  BY <1>8 DEF Shape, Fields, ModePart, PausePart, AchPart, ProgressPart, ServerPart
<1> HIDE DEF d
<1>10. "deactivate" \in BoardSteps
  BY DEF BoardSteps
<1>11. Leaves("deactivate", c, d)
  BY <1>5, <1>9, <1>10 DEF Leaves
<1>12. Tracked(d) /\ Announced(d)
  <2>1. (\A k : Holders(d, k) = Holders(x, k)) /\ (\A k : FitsAt(d, k) <=> FitsAt(x, k))
    BY <1>9 DEF Holders, FitsAt, On
  <2>2. Tracked(d)
    BY <1>5, <1>9, <2>1 DEF Tracked, BoardTypes
  <2>3. Announced(d)
    BY <1>5, <1>9 DEF Announced
  <2>4. QED
    BY <2>2, <2>3
<1>13. RunningBoards(d) /\ \A j \in DOMAIN d.boards : Attached(d.boards[j]) /\ Valued(d, j) /\ d.boards[j].pending = "none"
  BY <1>5, <1>7, <1>9 DEF RunningBoards, Valued
<1>14. BoardsDue(d)
  BY <1>12, <1>13 DEF BoardsDue
<1>15. QED
  BY <1>1, <1>11, <1>14

\* With nothing pending for the leaderboards, they can be raised.
LEMMA PendingAsIs ==
  ASSUME NEW c, AlmostPending(c), BoardsDue(c)
  PROVE  Pending(c)
BY DEF AlmostPending, Pending

\* rc_client_disable_hardcore: the game goes on, with what the player has.
LEMMA DisableKeeps ==
  ASSUME NEW c, Inv(c)
  PROVE  GoesOn(c, DisableHardcore(c))
<1> DEFINE d == [c EXCEPT !.hardcore = FALSE]
           t == ToggleHardcoreAchievements(d, "soft")
           b == DeactivateLeaderboards(t)
<1>1. DisableHardcore(c) = IF c.loaded THEN RaisePendingEvents(IF c.setup.softBoards THEN t ELSE b) ELSE d
  BY DEF DisableHardcore
<1>2. Shape(c) /\ ModeSet(c, FALSE, d) /\ c.flags = {} /\ c.fault # "timer" /\ FALSE \in BOOLEAN
  BY DEF ModeSet, Inv
<1> HIDE DEF d
<1>3. OnlyMode(c, FALSE, d)
  BY <1>2, ModeIsSet
<1>4. /\ Shape(d) /\ ModeInv(d) /\ BoardInv(d) /\ ProgressInv(d) /\ ServerInv(d) /\ PauseInv(d) /\ Challenges(d)
      /\ d.achs \in Seq(Achievements)
      /\ ~d.loaded => GoesOn(c, d)
  BY <1>2, <1>3, OnlyModeKeeps
<1>5. CASE ~c.loaded
  BY <1>1, <1>3, <1>4, <1>5 DEF OnlyMode
<1>6. CASE c.loaded
  <2>1. d.loaded /\ d.hardcore = FALSE /\ d.flags = {} /\ d.fault = c.fault /\ Mode(d) = "soft"
    BY <1>2, <1>3, <1>6 DEF OnlyMode, Mode
  <2>2. LeavesRest(d, t) /\ t.flags = d.flags /\ t.achs \in Seq(Achievements) /\ Running(t) /\ Challenges(t) /\ Standing(t)
    BY <1>4, <2>1, TogglesAchs
  <2> HIDE DEF t
  <2>3. /\ Shape(t) /\ ProgressPart(t) = ProgressPart(d) /\ ModePart(t) = ModePart(d) /\ PausePart(t) = PausePart(d)
        /\ BoardPart(t) = BoardPart(d) /\ ServerPart(t) = ServerPart(d) /\ t.fault = d.fault
    BY <2>2 DEF LeavesRest
  <2>4. t.loaded /\ t.hardcore = FALSE /\ t.setup = d.setup
    BY <2>1, <2>3 DEF ModePart
  <2>5. Due(t)
    BY <2>2, <2>4, StillIsDue DEF Clean
  <2>6. BoardInv(t) /\ BoardsDue(t)
    BY <1>4, <2>3, BoardsStay
  <2>7. "progress" \notin t.flags /\ ProgressDue(t)
    BY <1>4, <2>1, <2>2, <2>3, ProgressStays
  <2>8. ModeInv(t)
    BY <1>4, <2>1, <2>3, ModeStays
  <2>9. ServerInv(t)
    BY <1>4, <2>3, SameServer
  <2>10. PauseInv(t)
    BY <1>4, <2>3, <2>4, PauseStays
  <2>11. AlmostPending(t)
    BY <1>2, <2>1, <2>3, <2>4, <2>5, <2>7, <2>8, <2>9, <2>10 DEF AlmostPending
  <2>12. Pending(t)
    BY <2>6, <2>11, PendingAsIs
  <2>13. Leaves("deactivate", t, b) /\ BoardsDue(b)
    BY <2>3, <2>6, DeactivatesBoards
  <2>14. "deactivate" \in TrackerSteps
    BY DEF TrackerSteps, BoardSteps, ServerSteps
  <2> HIDE DEF b
  <2>15. Pending(b)
    BY <2>11, <2>13, <2>14, BoardsToPending
  <2>16. /\ Inv(RaisePendingEvents(t)) /\ PausePart(RaisePendingEvents(t)) = PausePart(t)
         /\ Inv(RaisePendingEvents(b)) /\ PausePart(RaisePendingEvents(b)) = PausePart(b)
    BY <2>12, <2>15, RaisingKeeps
  <2>17. PausePart(t) = PausePart(c) /\ PausePart(b) = PausePart(c)
    BY <1>3, <2>3, <2>13 DEF OnlyMode, Leaves
  <2>18. QED
    BY <1>1, <1>6, <2>16, <2>17 DEF GoesOn, PausePart
<1>7. QED
  BY <1>5, <1>6

\* A change of mode keeps the invariant.
LEMMA SwitchKeeps ==
  ASSUME NEW c, Inv(c), NEW enabled
  PROVE  GoesOn(c, SetHardcore(c, enabled))
BY EnableKeeps, DisableKeeps DEF SetHardcore, GoesOn

-----------------------------------------------------------------------------
(* The game is unloaded.                                                     *)

\* A challenge that is on is marked to be hidden, and no other.
LEMMA MarksAchs ==
  ASSUME NEW c, c.achs \in Seq(Achievements), Challenges(c), NEW d, MarkedAchs(c, d.achs),
         d.host = c.host, d.running = c.running, (\E i \in DOMAIN c.achs : Wants(c.achs[i])) => "achievement" \in d.flags
  PROVE  Marked(c, d)
<1>1. DOMAIN c.achs = 1 .. Len(c.achs) /\ Len(c.achs) \in Nat /\ \A i \in DOMAIN c.achs : c.achs[i] \in Achievements /\ c.achs[i].pending = {}
  BY DEF Challenges
<1>2. DOMAIN d.achs = DOMAIN c.achs /\ IsAFunction(d.achs)
  <2>1. DOMAIN d.achs = DOMAIN c.achs
    BY DEF MarkedAchs
  <2>2. d.achs = [i \in DOMAIN d.achs |-> d.achs[i]]
    BY Zenon DEF MarkedAchs
  <2>3. QED
    BY <2>1, <2>2 DEF IsAFunction
<1>3. \A i \in DOMAIN c.achs : /\ d.achs[i] = IF Wants(c.achs[i]) THEN [c.achs[i] EXCEPT !.pending = {"hide"}] ELSE c.achs[i]
                               /\ d.achs[i] \in Achievements
  <2> TAKE i \in DOMAIN c.achs
  <2>1. d.achs[i] = IF Wants(c.achs[i]) THEN [c.achs[i] EXCEPT !.pending = @ \cup {"hide"}] ELSE c.achs[i]
    BY DEF MarkedAchs, Wants
  <2>2. c.achs[i] \in Achievements /\ c.achs[i].pending = {}
    BY <1>1
  <2>3. d.achs[i] = IF Wants(c.achs[i]) THEN [c.achs[i] EXCEPT !.pending = {"hide"}] ELSE c.achs[i]
    <3>1. {} \cup {"hide"} = {"hide"}
      OBVIOUS
    <3>2. QED
      BY <2>1, <2>2, <3>1
  <2>4. [c.achs[i] EXCEPT !.pending = {"hide"}] \in Achievements
    BY <2>2 DEF Achievements
  <2>5. QED
    BY <2>2, <2>3, <2>4
<1>4. d.achs \in Seq(Achievements)
  <2> DEFINE s == d.achs
  <2>1. DOMAIN s = 1 .. Len(c.achs) /\ Len(c.achs) \in Nat /\ s = [i \in DOMAIN s |-> s[i]]
    BY <1>1, <1>2 DEF IsAFunction
  <2>2. \A i \in DOMAIN s : s[i] \in Achievements
    <3> TAKE i \in DOMAIN s
    <3>1. i \in DOMAIN c.achs
      BY <1>2
    <3>2. QED
      BY <1>3, <3>1
  <2> HIDE DEF s
  <2>3. s \in Seq(Achievements)
    BY <2>1, <2>2
  <2>4. QED
    BY <2>3 DEF s
<1>5. QED
  BY <1>2, <1>3, <1>4 DEF Marked

\* The marks change nothing else.
LEMMA MarkingLeaves ==
  ASSUME NEW c, Shape(c), NEW s, NEW f, NEW d, AchsMarked(c, s, f, d)
  PROVE  LeavesRest(c, d) /\ d.achs = s /\ d.flags = f /\ d.running = c.running /\ d.host = c.host
BY DEF AchsMarked, LeavesRest, Shape, Fields, ProgressPart, ModePart, PausePart, BoardPart, ServerPart

\* With every challenge to be hidden, none is shown when the events are raised.
LEMMA NoChallenges ==
  ASSUME NEW c, Raisable(c), \A i \in DOMAIN c.achs : c.achs[i].pending = (IF Lit(c, i) THEN {"hide"} ELSE {}),
         (\E i \in DOMAIN c.achs : c.achs[i].pending # {}) => "achievement" \in c.flags, c.host.challenges \subseteq DOMAIN c.achs
  PROVE  RaisePendingEvents(c).host.challenges = {}
<1> DEFINE t == RaisedTrackers(c)
           a == RaisedAchs(c)
           p == RaisedProgress(c)
           d == RaisePendingEvents(c)
<1>1. /\ Leaves("tracker", c, t) /\ Leaves("raise", t, a) /\ Shape(t) /\ Shape(a) /\ Shape(p) /\ t.flags = c.flags
      /\ Leaves("raise_board", a, RaisedBoards(c)) /\ SameParts(RaisedBoards(c), RaisedMastery(c))
      /\ OnlyProgress(RaisedMastery(c), p) /\ p.flags = a.flags
  BY StagesTo DEF TrackersAsIs
<1>2. IF "achievement" \in t.flags THEN Ran(<<"raise">>, t, Len(t.achs), a) ELSE a = t
  BY StageAchs DEF Raisable, Tracked, BoardTypes
<1>3. d.host = p.host
  BY <1>1, StageLast
<1> HIDE DEF t, a, p, d
<1>4. AchPart(t) = AchPart(c) /\ ModePart(t) = ModePart(c)
  BY <1>1 DEF Leaves, AchSteps
<1>5. t.achs = c.achs /\ t.host.challenges = c.host.challenges /\ t.hardcore \in BOOLEAN /\ t.achs \in Seq(Achievements)
  BY <1>4 DEF AchPart, ModePart, Raisable
<1>6. \A i : ~Lit(a, i)
  <2>1. CASE "achievement" \in t.flags
    <3>1. /\ \A i \in DOMAIN t.achs : Lit(a, i) <=> RaisedLit(t.achs[i], Lit(t, i))
          /\ \A i : i \notin DOMAIN t.achs => (Lit(a, i) <=> Lit(t, i))
      BY <1>1, <1>2, <1>5, <2>1, RaisesAchs
    <3>2. \A i : Lit(t, i) <=> Lit(c, i)
      BY <1>5 DEF Lit
    <3>3. \A i \in DOMAIN t.achs : ~RaisedLit(t.achs[i], Lit(t, i))
      BY <1>5, <3>2 DEF RaisedLit
    <3>4. \A i : i \notin DOMAIN t.achs => ~Lit(t, i)
      BY <1>5 DEF Lit
    <3>5. QED
      BY <3>1, <3>3, <3>4
  <2>2. CASE "achievement" \notin t.flags
    <3>1. \A i \in DOMAIN c.achs : ~Lit(c, i)
      BY <1>1, <2>2
    <3>2. \A i : ~Lit(c, i)
      BY <3>1 DEF Lit
    <3>3. QED
      BY <1>2, <1>5, <2>2, <3>2 DEF Lit
  <2>3. QED
    BY <2>1, <2>2
<1>7. AchPart(p) = AchPart(a)
  BY <1>1 DEF Leaves, SameParts, OnlyProgress, AchSteps
<1>8. d.host.challenges = a.host.challenges
  BY <1>3, <1>7 DEF AchPart
<1>9. a.host.challenges = {}
  BY <1>6 DEF Lit
<1>10. QED
  BY <1>8, <1>9 DEF d

\* Then nothing of it is shown any more, and nothing of it is left.
LEMMA PartingKeeps ==
  ASSUME NEW c, Parting(c)
  PROVE  LET d == NotLoaded(RaisePendingEvents(c)) IN Inv(d) /\ d.setup = c.setup /\ PausePart(d) = PausePart(c) /\ ~d.loaded
<1> DEFINE r == RaisePendingEvents(c)
           d == NotLoaded(r)
<1>1. Raisable(c) /\ c.fault # "timer" /\ c.load \in Nat
  BY DEF Parting
<1>2. Shape(r) /\ ModePart(r) = ModePart(c) /\ PausePart(r) = PausePart(c) /\ r.fault \in {c.fault, "mastery"}
  BY <1>1, RaisingLeaves
<1>3. ServerInv(r)
  BY <1>1, RaisingServer DEF Parting
<1>4. ProgressInv(r) /\ r.timer = FALSE
  BY <1>1, RaisingProgress, RaisingTimer DEF Parting
<1>5. r.host.challenges = {}
  BY NoChallenges DEF Parting
<1>6. \A k : ~On(r, k)
  <2>1. \A k : On(r, k) => k \in DOMAIN c.trackers /\ c.trackers[k].refs > 0
    BY <1>1, RaisingTrackers
  <2>2. Tracked(c)
    BY <1>1 DEF Raisable
  <2>3. \A k \in DOMAIN c.trackers : Holders(c, k) = {} /\ c.trackers[k].refs = Cardinality(Holders(c, k))
    <3>1. \A k \in DOMAIN c.trackers : k # 0
      BY <2>2, TrackerTypes
    <3>2. \A j \in DOMAIN c.boards : c.boards[j].tracker = 0
      BY DEF Parting
    <3>3. \A k \in DOMAIN c.trackers : c.trackers[k].refs = Cardinality(Holders(c, k))
      BY <2>2 DEF Tracked
    <3>4. QED
      BY <3>1, <3>2, <3>3 DEF Holders
  <2>4. \A k \in DOMAIN c.trackers : c.trackers[k].refs = 0
    BY <2>3, FS_EmptySet
  <2>5. QED
    BY <2>1, <2>4
<1>7. Tracked(r)
  BY <1>1, RaisingTrackers
<1> HIDE DEF r
<1>8. /\ Shape(d) /\ d.setup = r.setup /\ d.hardcore = r.hardcore /\ d.signed = r.signed /\ d.load = r.load /\ d.loaded = FALSE
      /\ d.waiting = FALSE /\ d.achs = <<>> /\ d.boards = <<>> /\ d.trackers = <<>> /\ d.running = {} /\ d.runningBoards = {}
      /\ d.flags = {} /\ d.fault = r.fault /\ d.host = r.host /\ d.timer = FALSE /\ d.action = "none" /\ d.hides = r.hides
      /\ d.requests = r.requests /\ d.disconnect = r.disconnect /\ PausePart(d) = PausePart(r)
  BY <1>2 DEF NotLoaded, Shape, Fields, PausePart
<1> HIDE DEF d
<1>9. r.setup = c.setup /\ r.hardcore = c.hardcore /\ r.signed = c.signed /\ r.load = c.load
  BY <1>2 DEF ModePart
<1>10. ModeInv(d)
  BY <1>8, <1>9 DEF ModeInv, Parting
<1>11. AchInv(d)
  <2>1. d.achs \in Seq(Achievements) /\ DOMAIN d.achs = {}
    BY <1>8
  <2>2. QED
    BY <1>5, <1>8, <2>1 DEF AchInv, Standing, Running, Clean, Challenges
<1>12. BoardInv(d)
  <2>1. d.boards \in Seq(Boards) /\ d.trackers \in Seq(Trackers) /\ DOMAIN d.boards = {} /\ DOMAIN d.trackers = {}
    BY <1>8
  <2>2. DOMAIN d.host.trackers = {}
    BY <1>6, <1>8 DEF On
  <2>3. d.host.trackers = [k \in DOMAIN d.host.trackers |-> d.host.trackers[k]]
    BY <1>7, <1>8 DEF Tracked
  <2>4. Tracked(d)
    BY <2>1, <2>2, <2>3 DEF Tracked, BoardTypes
  <2>5. QED
    BY <1>8, <2>1, <2>4 DEF BoardInv, RunningBoards
<1>13. ProgressInv(d)
  BY <1>4, <1>8 DEF ProgressInv
<1>14. ServerInv(d)
  BY <1>3, <1>8 DEF ServerInv, Queued
<1>15. PauseInv(d)
  <2>1. PausePart(d) = PausePart(c) /\ d.setup = c.setup
    BY <1>2, <1>8, <1>9
  <2>2. QED
    BY <2>1, PauseStays DEF Parting
<1>16. Inv(d)
  BY <1>1, <1>2, <1>8, <1>10, <1>11, <1>12, <1>13, <1>14, <1>15 DEF Inv
<1>17. PausePart(d) = PausePart(c)
  BY <1>2, <1>8
<1>18. QED
  BY <1>8, <1>9, <1>16, <1>17 DEF d, r

\* Letting the game go changes nothing but that.
LEMMA LoadedIsSet ==
  ASSUME NEW c, Shape(c), NEW v, NEW d, LoadedSet(c, v, d) PROVE OnlyLoaded(c, v, d)
BY DEF LoadedSet, OnlyLoaded, Shape, Fields, PausePart, AchPart, BoardPart, ProgressPart, ServerPart

\* What is left of a game that is to go: the challenges are to be hidden and no
\* attempt has a tracker.
LEMMA HidingIsParting ==
  ASSUME NEW c, Inv(c), c.loaded,
         NEW s, NEW f, MarkedAchs(c, s), (\E i \in DOMAIN c.achs : Wants(c.achs[i])) => "achievement" \in f, "progress" \notin f,
         c.flags \subseteq f, NEW m, AchsMarked(c, s, f, m)
  PROVE  LET u == [HideProgressTracker(After(LetGo, m, Len(c.boards))) EXCEPT !.loaded = FALSE]
         IN  Parting(u) /\ u.setup = c.setup /\ PausePart(u) = PausePart(c)
<1> DEFINE x == After(LetGo, m, Len(c.boards))
           h == HideProgressTracker(x)
           u == [h EXCEPT !.loaded = FALSE]
<1>1. /\ Shape(c) /\ c.flags = {} /\ c.fault # "timer" /\ ModeInv(c) /\ AchInv(c) /\ BoardInv(c) /\ ProgressInv(c)
      /\ ServerInv(c) /\ PauseInv(c)
  BY DEF Inv
<1>2. LeavesRest(c, m) /\ m.achs = s /\ m.flags = f /\ m.running = c.running /\ m.host = c.host
  BY <1>1, MarkingLeaves
<1>3. Marked(c, m)
  BY <1>1, <1>2, MarksAchs DEF AchInv
<1>4. /\ Shape(m) /\ ModePart(m) = ModePart(c) /\ PausePart(m) = PausePart(c) /\ BoardPart(m) = BoardPart(c)
      /\ ProgressPart(m) = ProgressPart(c) /\ ServerPart(m) = ServerPart(c) /\ m.fault = c.fault
  BY <1>2 DEF LeavesRest
<1>5. Held(m)
  BY <1>1, <1>3, <1>4, MarkedIsHeld DEF AchInv
<1>6. BoardInv(m) /\ m.boards = c.boards
  BY <1>1, <1>4, BoardsStay DEF BoardPart
<1>7. Len(m.boards) \in Nat /\ \A j \in DOMAIN m.boards : m.boards[j] \in Boards
  BY <1>6 DEF BoardInv, Tracked, BoardTypes
<1>8. Ran(<<"let_go">>, m, Len(m.boards), x)
  BY <1>6, <1>7, LetGoRan
<1> HIDE DEF x
<1>9. /\ Leaves("let_go", m, x) /\ Tracked(x) /\ Announced(x)
      /\ DOMAIN x.boards = DOMAIN m.boards /\ \A j \in DOMAIN m.boards : x.boards[j] = Quiet("let_go", m.boards[j])
  <2> DEFINE w == <<"let_go">>
  <2>1. w[1] = "let_go" /\ Ran(w, m, Len(m.boards), x)
    BY <1>8
  <2> HIDE DEF w
  <2>2. w[1] \in {"let_go", "deactivate", "reset_board"}
    BY <2>1
  <2>3. QED
    BY <1>4, <1>6, <2>1, <2>2, QuietLoop
<1>10. \A j \in DOMAIN x.boards : x.boards[j].tracker = 0
  <2> TAKE j \in DOMAIN x.boards
  <2>1. x.boards[j] = LetGoOf(m.boards[j]) /\ m.boards[j] \in Boards
    BY <1>7, <1>9 DEF Quiet
  <2>2. m.boards[j].tracker # 0 <=> m.boards[j].st = "tracking"
    BY <1>6, <1>9 DEF BoardInv, Attached
  <2>3. QED
    BY <2>1, <2>2 DEF LetGoOf, Boards
<1>11. /\ Shape(x) /\ ProgressPart(x) = ProgressPart(m) /\ ModePart(x) = ModePart(m) /\ PausePart(x) = PausePart(m)
       /\ m.flags \subseteq x.flags /\ x.flags \subseteq m.flags \cup {"tracker", "board"} /\ x.fault = m.fault
       /\ AchPart(x) = AchPart(m) /\ ServerPart(x) = ServerPart(m)
  BY <1>9 DEF Leaves, NewFlags, AchSteps, BoardSteps, ServerSteps, TrackerSteps
<1>12. "progress" \notin x.flags /\ ProgressInv(x)
  <2>1. ProgressInv(x)
    BY <1>1, <1>4, <1>11, ProgressStays
  <2>2. QED
    BY <1>2, <1>11, <2>1
<1>13. /\ OnlyProgress(x, h) /\ ProgressDue(h) /\ h.timer = FALSE /\ x.flags \subseteq h.flags /\ h.fault = x.fault
  BY <1>11, <1>12, HidesProgress
<1> HIDE DEF h
<1>14. OnlyLoaded(h, FALSE, u)
  BY <1>13, LoadedIsSet DEF OnlyProgress, LoadedSet
<1> HIDE DEF u
<1>15. /\ Shape(h) /\ ModePart(h) = ModePart(c) /\ PausePart(h) = PausePart(c) /\ AchPart(h) = AchPart(m)
       /\ BoardPart(h) = BoardPart(x) /\ ServerPart(h) = ServerPart(c)
  BY <1>4, <1>11, <1>13 DEF OnlyProgress
<1>16. /\ Shape(u) /\ u.fault # "timer" /\ u.timer = FALSE
       /\ u.setup = c.setup /\ u.hardcore = c.hardcore /\ u.signed = c.signed /\ u.load = c.load
       /\ PausePart(u) = PausePart(c) /\ AchPart(u) = AchPart(m) /\ BoardPart(u) = BoardPart(x) /\ ServerPart(u) = ServerPart(c)
       /\ ProgressPart(u) = ProgressPart(h) /\ u.flags = h.flags /\ m.flags \subseteq u.flags
  BY <1>1, <1>4, <1>11, <1>13, <1>14, <1>15 DEF OnlyLoaded, ModePart
<1>17. u.setup \in Setups /\ u.hardcore \in BOOLEAN /\ u.signed \in BOOLEAN /\ u.load \in Nat
  BY <1>1, <1>16 DEF ModeInv
<1>18. PauseInv(u)
  BY <1>1, <1>16, PauseStays
<1>19. ServerInv(u)
  BY <1>1, <1>16 DEF ServerInv, Queued, ServerPart
<1>20. ProgressDue(u)
  <2>1. u.action = h.action /\ u.hides = h.hides /\ u.host.progress = h.host.progress /\ h.timer = FALSE
    BY <1>13, <1>16 DEF ProgressPart
  <2>2. QED
    BY <1>13, <1>16, <2>1 DEF ProgressDue
<1>21. u.achs = m.achs /\ u.host.challenges = m.host.challenges
  BY <1>16 DEF AchPart
<1>22. \A i : Lit(u, i) <=> Lit(m, i)
  BY <1>21 DEF Lit
<1>23. /\ \A i \in DOMAIN u.achs : u.achs[i].pending = (IF Lit(u, i) THEN {"hide"} ELSE {})
       /\ (\E i \in DOMAIN u.achs : u.achs[i].pending # {}) => "achievement" \in u.flags
       /\ u.host.challenges \subseteq DOMAIN u.achs /\ u.achs \in Seq(Achievements)
  BY <1>5, <1>16, <1>21, <1>22 DEF Held
<1>24. u.boards = x.boards
  BY <1>16 DEF BoardPart
<1>25. Tracked(u) /\ Announced(u)
  BY <1>9, <1>11, <1>13, <1>16, BoardsStay
<1>26. Raisable(u)
  BY <1>16, <1>17, <1>23, <1>25 DEF Raisable
<1>27. Parting(u)
  BY <1>10, <1>16, <1>17, <1>18, <1>19, <1>20, <1>23, <1>24, <1>26 DEF Parting
<1>28. QED
  BY <1>16, <1>27 DEF u, h, x

\* Unloading the game keeps the invariant.
LEMMA UnloadKeeps ==
  ASSUME NEW c, Inv(c)
  PROVE  GoesOn(c, Unload(c)) /\ Unload(c).setup = c.setup
<1>1. CASE ~c.loaded
  BY <1>1 DEF Unload, GoesOn
<1>2. CASE c.loaded
  <2> DEFINE primed == {i \in DOMAIN c.achs : c.achs[i].st = "active" /\ c.achs[i].trig = "primed"}
             s == [i \in DOMAIN c.achs |-> IF i \in primed THEN [c.achs[i] EXCEPT !.pending = @ \cup {"hide"}] ELSE c.achs[i]]
             f == IF primed # {} THEN c.flags \cup {"achievement"} ELSE c.flags
             m == [c EXCEPT !.achs = s, !.flags = f]
             u == [HideProgressTracker(After(LetGo, m, Len(c.boards))) EXCEPT !.loaded = FALSE]
  <2>1. MarkUiToBeHidden(c) = HideProgressTracker(After(LetGo, m, Len(c.boards)))
    BY DEF MarkUiToBeHidden
  <2>2. MarkedAchs(c, s)
    BY Zenon DEF MarkedAchs
  <2>3. (\E i \in DOMAIN c.achs : Wants(c.achs[i])) => "achievement" \in f
    BY DEF Wants
  <2>4. "progress" \notin f /\ c.flags \subseteq f
    BY DEF Inv
  <2>5. AchsMarked(c, s, f, m)
    BY DEF AchsMarked
  <2>6. Unload(c) = NotLoaded(RaisePendingEvents(u))
    BY <1>2, <2>1 DEF Unload
  <2> HIDE DEF s, f, m
  <2>7. Parting(u) /\ u.setup = c.setup /\ PausePart(u) = PausePart(c)
    BY <1>2, <2>2, <2>3, <2>4, <2>5, HidingIsParting
  <2> HIDE DEF u
  <2>8. QED
    BY <2>6, <2>7, PartingKeeps DEF GoesOn, PausePart
<1>3. QED
  BY <1>1, <1>2

\* It keeps the invariant where the host may do it.
LEMMA SignedKeeps ==
  ASSUME NEW c, Inv(c), NEW v \in BOOLEAN, ~v => "out" \in c.setup.may, NEW d, SignedSet(c, v, d)
  PROVE  GoesOn(c, d)
<1>1. /\ Shape(c) /\ c.flags = {} /\ c.fault # "timer" /\ ModeInv(c) /\ AchInv(c) /\ BoardInv(c) /\ ProgressInv(c)
      /\ ServerInv(c) /\ PauseInv(c)
  BY DEF Inv
<1>2. /\ Shape(d) /\ d.setup = c.setup /\ d.hardcore = c.hardcore /\ d.signed = v /\ d.load = c.load /\ d.loaded = c.loaded
      /\ d.waiting = c.waiting /\ PausePart(d) = PausePart(c) /\ AchPart(d) = AchPart(c) /\ BoardPart(d) = BoardPart(c)
      /\ ProgressPart(d) = ProgressPart(c) /\ ServerPart(d) = ServerPart(c) /\ d.flags = c.flags /\ d.fault = c.fault
      /\ d.achs = c.achs /\ d.boards = c.boards /\ d.trackers = c.trackers /\ d.running = c.running /\ d.host = c.host
      /\ d.timer = c.timer /\ d.action = c.action /\ d.hides = c.hides /\ d.requests = c.requests /\ d.disconnect = c.disconnect
  BY <1>1 DEF SignedSet, Shape, Fields, PausePart, AchPart, BoardPart, ProgressPart, ServerPart
<1> HIDE DEF SignedSet
<1>3. ModeInv(d)
  BY <1>1, <1>2 DEF ModeInv
<1>4. AchInv(d)
  BY <1>1, <1>2 DEF AchInv, Standing, Running, Clean, Challenges, Mode
<1>5. BoardInv(d)
  BY <1>1, <1>2, BoardsStay
<1>6. ProgressInv(d)
  BY <1>1, <1>2 DEF ProgressInv
<1>7. ServerInv(d)
  BY <1>1, <1>2 DEF ServerInv, Queued
<1>8. PauseInv(d)
  BY <1>1, <1>2, PauseStays
<1>9. QED
  BY <1>1, <1>2, <1>3, <1>4, <1>5, <1>6, <1>7, <1>8 DEF Inv, GoesOn

\* So do signing out, which unloads the game, and signing in.
LEMMA SignOutKeeps ==
  ASSUME NEW c, Inv(c), "out" \in c.setup.may
  PROVE  GoesOn(c, SignOut(c)) /\ GoesOn(c, [c EXCEPT !.signed = TRUE])
<1> DEFINE d == Unload(c)
           e == [d EXCEPT !.signed = FALSE]
           g == [c EXCEPT !.signed = TRUE]
<1>1. GoesOn(c, d) /\ Inv(d) /\ d.setup = c.setup
  BY UnloadKeeps DEF GoesOn
<1>2. SignOut(c) = e
  BY DEF SignOut
<1> HIDE DEF d
<1>3. SignedSet(d, FALSE, e) /\ SignedSet(c, TRUE, g)
  BY DEF SignedSet
<1> HIDE DEF e, g
<1>4. GoesOn(c, e)
  BY <1>1, <1>3, SignedKeeps DEF GoesOn
<1>5. GoesOn(c, g)
  BY <1>3, SignedKeeps
<1>6. QED
  BY <1>2, <1>4, <1>5 DEF g

-----------------------------------------------------------------------------
(* A game is loaded.                                                         *)

\* Those that are copied from the game are.
LEMMA CopiesBoards ==
  ASSUME NEW setup \in Setups
  PROVE  BlankBoards(setup, CopyLeaderboards(setup))
<1> DEFINE s == CopyLeaderboards(setup)
           n == Len(setup.boards)
<1>1. setup.boards \in Seq(BoardDefs)
  BY SetupsAssumption
<1>2. n \in Nat /\ DOMAIN setup.boards = 1 .. n /\ \A j \in DOMAIN setup.boards : setup.boards[j] \in BoardDefs
  BY <1>1
<1>3. DOMAIN s = DOMAIN setup.boards /\ s = [j \in DOMAIN s |-> s[j]]
  BY Zenon DEF CopyLeaderboards
<1>4. ASSUME NEW j \in DOMAIN setup.boards
      PROVE  s[j] \in Boards /\ BlankBoard(s[j]) /\ s[j].def = setup.boards[j]
  <2>1. s[j] = [def |-> setup.boards[j], st |-> "inactive", lboard |-> "waiting", value |-> 0, tracker |-> 0, pending |-> "none"]
    BY <1>4 DEF CopyLeaderboards
  <2>2. QED
    BY <1>2, <2>1 DEF Boards, BlankBoard
<1> HIDE DEF s, n
<1>5. s \in Seq(Boards)
  BY <1>2, <1>3, <1>4
<1>6. QED
  BY <1>3, <1>4, <1>5 DEF BlankBoards, s

\* Disabling some of them changes nothing of that.
LEMMA InvalidBoards ==
  ASSUME NEW c, Shape(c), BlankBoards(c.setup, c.boards)
  PROVE  LET d == InvalidateMemrefLeaderboards(c)
         IN  /\ Shape(d) /\ ModePart(d) = ModePart(c) /\ PausePart(d) = PausePart(c) /\ AchPart(d) = AchPart(c)
             /\ ProgressPart(d) = ProgressPart(c) /\ ServerPart(d) = ServerPart(c) /\ d.flags = c.flags /\ d.fault = c.fault
             /\ d.trackers = c.trackers /\ d.host = c.host /\ d.achs = c.achs /\ BlankBoards(d.setup, d.boards)
<1> DEFINE s == [j \in DOMAIN c.boards |-> IF c.boards[j].def.valid THEN c.boards[j]
                                           ELSE [c.boards[j] EXCEPT !.st = "disabled", !.lboard = "disabled"]]
           d == [c EXCEPT !.boards = s]
<1>1. InvalidateMemrefLeaderboards(c) = d
  BY DEF InvalidateMemrefLeaderboards
<1>2. c.boards \in Seq(Boards) /\ \A j \in DOMAIN c.boards : BlankBoard(c.boards[j])
  BY DEF BlankBoards
<1>3. ASSUME NEW j \in DOMAIN c.boards PROVE BlankBoard(s[j]) /\ s[j] \in Boards /\ s[j].def = c.boards[j].def
  <2>1. BlankBoard(c.boards[j]) /\ c.boards[j] \in Boards
    BY <1>2 DEF BlankBoard
  <2>2. s[j] = IF c.boards[j].def.valid THEN c.boards[j] ELSE [c.boards[j] EXCEPT !.st = "disabled", !.lboard = "disabled"]
    OBVIOUS
  <2>3. LET b == [c.boards[j] EXCEPT !.st = "disabled", !.lboard = "disabled"]
        IN  BlankBoard(b) /\ b \in Boards /\ b.def = c.boards[j].def
    BY <2>1 DEF BlankBoard, Boards
  <2>4. QED
    BY <2>1, <2>2, <2>3
<1>4. DOMAIN s = DOMAIN c.boards /\ s = [j \in DOMAIN s |-> s[j]]
  BY Zenon
<1>5. Len(c.boards) \in Nat /\ DOMAIN c.boards = 1 .. Len(c.boards)
  BY <1>2
<1> HIDE DEF s
<1>6. s \in Seq(Boards)
  BY <1>3, <1>4, <1>5
<1>7. BoardsSet(c, s, d)
  BY DEF BoardsSet
<1> HIDE DEF d
<1>8. SetBoards(c, s, d)
  BY <1>7, BoardsReplaced
<1>9. d.setup = c.setup /\ d.achs = c.achs
  BY <1>8 DEF SetBoards, ModePart, AchPart
<1>10. BlankBoards(d.setup, s)
  BY <1>3, <1>4, <1>6, <1>9 DEF BlankBoards
<1>11. QED
  BY <1>1, <1>8, <1>9, <1>10 DEF SetBoards

\* Such leaderboards need no tracker.
LEMMA BlankIsSound ==
  ASSUME NEW c, c.setup \in Setups, BlankBoards(c.setup, c.boards), c.trackers = <<>>, IsAFunction(c.host.trackers),
         DOMAIN c.host.trackers = {}
  PROVE  Sound(c) /\ \A j \in DOMAIN c.boards : c.boards[j].st # "tracking"
<1>1. /\ c.boards \in Seq(Boards) /\ DOMAIN c.boards = DOMAIN c.setup.boards
      /\ \A j \in DOMAIN c.boards : /\ c.boards[j] \in Boards /\ c.boards[j].st \in {"inactive", "disabled"}
                                    /\ c.boards[j].tracker = 0 /\ c.boards[j].pending = "none"
                                    /\ c.boards[j].def = c.setup.boards[j]
  BY DEF BlankBoards, BlankBoard
<1>2. DOMAIN c.trackers = {} /\ c.trackers \in Seq(Trackers) /\ Len(c.trackers) = 0
  OBVIOUS
<1>3. \A i, j \in DOMAIN c.boards : c.boards[i].def.group = c.boards[j].def.group => c.boards[i].def.fromHits = c.boards[j].def.fromHits
  BY <1>1, SetupsAssumption
<1>4. BoardTypes(c)
  BY <1>1, <1>2, <1>3 DEF BoardTypes
<1>5. Tracked(c)
  BY <1>1, <1>2, <1>4 DEF Tracked, IsAFunction
<1>6. \A j \in DOMAIN c.boards : Attached(c.boards[j]) /\ Valued(c, j)
  BY <1>1 DEF Attached, Valued
<1>7. QED
  BY <1>1, <1>2, <1>5, <1>6 DEF Sound

\* That follows from the assignment.
LEMMA GameIsSet ==
  ASSUME NEW c, Shape(c), NEW s, NEW b, NEW d, GameSet(c, s, b, d) PROVE OnlyGame(c, s, b, d)
BY DEF GameSet, OnlyGame, Shape, Fields, PausePart, ProgressPart, ServerPart

\* Loading a game keeps the invariant.
LEMMA LoadKeeps ==
  ASSUME NEW c, Inv(c), ~c.loaded
  PROVE  GoesOn(c, Load(c))
<1> DEFINE s == CopyAchievements(c.setup)
           b == CopyLeaderboards(c.setup)
           d == [c EXCEPT !.achs = s, !.boards = b, !.loaded = TRUE, !.load = @ + 1]
           u == ApplyUnlocks(d)
           v == InvalidateMemrefAchievements(u)
           x == InvalidateMemrefLeaderboards(v)
           y == ActivateAchievements(x)
           z == ActivateLeaderboards(y)
<1>1. Load(c) = z
  BY DEF Load
<1>2. /\ Shape(c) /\ c.flags = {} /\ c.fault # "timer" /\ ModeInv(c) /\ AchInv(c) /\ BoardInv(c) /\ ProgressInv(c)
      /\ ServerInv(c) /\ PauseInv(c)
  BY DEF Inv
<1>3. c.achs = <<>> /\ c.boards = <<>> /\ c.trackers = <<>> /\ c.waiting = FALSE /\ c.setup \in Setups /\ c.hardcore \in BOOLEAN
      /\ c.signed \in BOOLEAN /\ c.load \in Nat
  BY <1>2 DEF ModeInv
<1>4. c.host.challenges = {}
  BY <1>2, <1>3 DEF AchInv, Challenges
<1>5. DOMAIN c.host.trackers = {} /\ IsAFunction(c.host.trackers)
  BY <1>2, <1>3 DEF BoardInv, Tracked, IsAFunction
<1>6. GameSet(c, s, b, d)
  BY DEF GameSet
<1>7. s \in Seq(Achievements) /\ \A i \in DOMAIN s : Blank(s[i])
  BY <1>3, CopiesAchs
<1>8. BlankBoards(c.setup, b)
  BY <1>3, CopiesBoards
<1> HIDE DEF s, b, d
<1>9. OnlyGame(c, s, b, d)
  BY <1>2, <1>6, GameIsSet
<1>10. Shape(d) /\ d.achs \in Seq(Achievements) /\ (\A i \in DOMAIN d.achs : Blank(d.achs[i]))
  BY <1>7, <1>9 DEF OnlyGame
<1>11. LeavesRest(d, u) /\ u.flags = d.flags /\ u.host = d.host /\ u.achs \in Seq(Achievements) /\ \A i \in DOMAIN u.achs : Blank(u.achs[i])
  BY <1>10, NewlyUnlocked
<1> HIDE DEF u
<1>12. LeavesRest(u, v) /\ v.flags = u.flags /\ v.host = u.host /\ v.achs \in Seq(Achievements) /\ \A i \in DOMAIN v.achs : Blank(v.achs[i])
  <2>1. Shape(u)
    BY <1>11 DEF LeavesRest
  <2>2. QED
    BY <1>11, <2>1, NewlyInvalid
<1> HIDE DEF v
<1>13. /\ Shape(v) /\ ProgressPart(v) = ProgressPart(d) /\ ModePart(v) = ModePart(d) /\ PausePart(v) = PausePart(d)
       /\ BoardPart(v) = BoardPart(d) /\ ServerPart(v) = ServerPart(d) /\ v.fault = d.fault /\ v.flags = d.flags /\ v.host = d.host
  BY <1>11, <1>12 DEF LeavesRest
<1>14. v.setup = c.setup /\ v.boards = b /\ v.trackers = <<>> /\ v.host = c.host
  BY <1>3, <1>9, <1>13 DEF OnlyGame, ModePart, BoardPart
<1>15. /\ Shape(x) /\ ModePart(x) = ModePart(v) /\ PausePart(x) = PausePart(v) /\ AchPart(x) = AchPart(v)
       /\ ProgressPart(x) = ProgressPart(v) /\ ServerPart(x) = ServerPart(v) /\ x.flags = v.flags /\ x.fault = v.fault
       /\ x.trackers = v.trackers /\ x.host = v.host /\ x.achs = v.achs /\ BlankBoards(x.setup, x.boards)
  BY <1>8, <1>13, <1>14, InvalidBoards
<1> HIDE DEF x
<1>16. LeavesRest(x, y) /\ y.flags = x.flags /\ AchInv(y)
  <2>1. x.achs \in Seq(Achievements) /\ (\A i \in DOMAIN x.achs : Blank(x.achs[i])) /\ x.host.challenges = {}
    BY <1>4, <1>12, <1>14, <1>15
  <2>2. QED
    BY <1>15, <2>1, ActivatesAchs
<1> HIDE DEF y
<1>17. /\ Shape(y) /\ ProgressPart(y) = ProgressPart(d) /\ ModePart(y) = ModePart(d) /\ PausePart(y) = PausePart(d)
       /\ BoardPart(y) = BoardPart(x) /\ ServerPart(y) = ServerPart(d) /\ y.fault = d.fault /\ y.flags = d.flags
  BY <1>13, <1>15, <1>16 DEF LeavesRest
<1>18. /\ y.setup = c.setup /\ y.hardcore = c.hardcore /\ y.signed = c.signed /\ y.load = c.load + 1 /\ y.loaded = TRUE /\ y.waiting = FALSE
  BY <1>3, <1>9, <1>17 DEF OnlyGame, ModePart
<1>19. y.boards = x.boards /\ y.trackers = <<>> /\ y.host.trackers = c.host.trackers /\ x.setup = c.setup
  BY <1>14, <1>15, <1>17 DEF BoardPart, ModePart
<1>20. Sound(y) /\ \A j \in DOMAIN y.boards : y.boards[j].st # "tracking"
  <2>1. BlankBoards(y.setup, y.boards)
    BY <1>15, <1>18, <1>19
  <2>2. QED
    BY <1>3, <1>5, <1>18, <1>19, <2>1, BlankIsSound
<1>21. BoardsAllowed(y) \in BOOLEAN
  BY <1>3, <1>18, SetupsAssumption DEF BoardsAllowed
<1>22. /\ Shape(z) /\ ModePart(z) = ModePart(y) /\ PausePart(z) = PausePart(y) /\ AchPart(z) = AchPart(y)
       /\ ProgressPart(z) = ProgressPart(y) /\ ServerPart(z) = ServerPart(y) /\ z.flags = y.flags /\ z.fault = y.fault
       /\ BoardInv(z)
  BY <1>17, <1>20, <1>21, ActivatesBoards
<1> HIDE DEF z
<1>23. /\ z.setup = c.setup /\ z.hardcore = c.hardcore /\ z.signed = c.signed /\ z.load = c.load + 1 /\ z.loaded = TRUE /\ z.waiting = FALSE
       /\ PausePart(z) = PausePart(c) /\ ProgressPart(z) = ProgressPart(c) /\ ServerPart(z) = ServerPart(c) /\ z.flags = {}
       /\ z.fault = c.fault
  BY <1>2, <1>9, <1>17, <1>18, <1>22 DEF OnlyGame, ModePart
<1>24. ModeInv(z)
  <2>1. z.setup \in Setups /\ z.hardcore \in BOOLEAN /\ z.signed \in BOOLEAN /\ z.load \in Nat
    BY <1>3, <1>23
  <2>2. z.loaded \in BOOLEAN /\ z.waiting \in BOOLEAN /\ z.loaded
    BY <1>23
  <2>3. QED
    BY <2>1, <2>2 DEF ModeInv
<1>25. AchInv(z)
  BY <1>16, <1>22, AchsStay
<1>26. ProgressInv(z)
  BY <1>2, <1>23 DEF ProgressInv, ProgressPart
<1>27. ServerInv(z)
  BY <1>2, <1>23 DEF ServerInv, Queued, ServerPart
<1>28. PauseInv(z)
  BY <1>2, <1>23, PauseStays
<1>29. QED
  BY <1>1, <1>2, <1>22, <1>23, <1>24, <1>25, <1>26, <1>27, <1>28 DEF Inv, GoesOn, PausePart

-----------------------------------------------------------------------------
(* A saved state is loaded.                                                  *)

\* That follows from the assignment.
LEMMA MarkedIsAll ==
  ASSUME NEW c, Shape(c), NEW s, NEW b, NEW f, NEW d, AllMarked(c, s, b, f, d) PROVE OnlyMarked(c, s, b, f, d)
BY DEF AllMarked, OnlyMarked, Shape, Fields, ModePart, PausePart, ProgressPart, ServerPart

\* Marking is for those that run, which are tracked.
LEMMA MarksBoards ==
  ASSUME NEW c, BoardInv(c), NEW d, MarkedBoards(c, d.boards), d.trackers = c.trackers, d.host = c.host,
         d.runningBoards = c.runningBoards
  PROVE  BoardsFailing(c, d) /\ Tracked(d) /\ Announced(d) /\ RunningBoards(d)
<1>1. /\ Tracked(c) /\ RunningBoards(c) /\ (\A k \in DOMAIN c.trackers : c.trackers[k].pending = {})
      /\ \A j \in DOMAIN c.boards : c.boards[j] \in Boards /\ Attached(c.boards[j])
  BY DEF BoardInv, Tracked, BoardTypes
<1>2. DOMAIN d.boards = DOMAIN c.boards /\ IsAFunction(d.boards)
  <2>1. DOMAIN d.boards = DOMAIN c.boards
    BY DEF MarkedBoards
  <2>2. d.boards = [j \in DOMAIN d.boards |-> d.boards[j]]
    BY Zenon DEF MarkedBoards
  <2>3. QED
    BY <2>1, <2>2 DEF IsAFunction
<1>3. \A j \in DOMAIN c.boards : d.boards[j] = Failing(c.boards[j])
  <2> TAKE j \in DOMAIN c.boards
  <2>1. d.boards[j] = IF c.boards[j].st = "tracking" /\ c.boards[j].lboard = "started"
                      THEN [c.boards[j] EXCEPT !.pending = "failed"] ELSE c.boards[j]
    BY DEF MarkedBoards
  <2>2. c.boards[j].st = "tracking" => c.boards[j].lboard = "started"
    BY <1>1 DEF Attached
  <2>3. QED
    BY <2>1, <2>2 DEF Failing
<1>4. \A j \in DOMAIN c.boards : SameBut(c.boards[j], d.boards[j]) /\ d.boards[j].st = c.boards[j].st
  <2> TAKE j \in DOMAIN c.boards
  <2>1. c.boards[j] \in Boards /\ d.boards[j] = Failing(c.boards[j])
    BY <1>1, <1>3
  <2>2. QED
    BY <2>1 DEF Failing, SameBut, Boards
<1>5. Tracked(d)
  BY <1>1, <1>2, <1>4, StillTracked
<1>6. Announced(d) /\ RunningBoards(d)
  BY <1>1, <1>2, <1>4 DEF Announced, RunningBoards
<1>7. QED
  BY <1>2, <1>3, <1>5, <1>6 DEF BoardsFailing

\* The lemma of which the next is an instance.
LEMMA MarkedIsLoading ==
  ASSUME NEW c, Inv(c), NEW s, MarkedAchs(c, s), NEW b, MarkedBoards(c, b), NEW f, "progress" \notin f,
         (\E i \in DOMAIN c.achs : Wants(c.achs[i])) => "achievement" \in f,
         NEW m, AllMarked(c, s, b, f, m)
  PROVE  Loading(c, HideProgressTracker(m))
<1> DEFINE d == HideProgressTracker(m)
<1>1. /\ Shape(c) /\ c.flags = {} /\ c.fault # "timer" /\ ModeInv(c) /\ AchInv(c) /\ BoardInv(c) /\ ProgressInv(c)
      /\ ServerInv(c) /\ PauseInv(c)
  BY DEF Inv
<1>2. OnlyMarked(c, s, b, f, m)
  BY <1>1, MarkedIsAll
<1>3. /\ Shape(m) /\ ModePart(m) = ModePart(c) /\ PausePart(m) = PausePart(c) /\ ProgressPart(m) = ProgressPart(c)
      /\ ServerPart(m) = ServerPart(c) /\ m.fault = c.fault /\ m.host = c.host /\ m.flags = f
      /\ m.achs = s /\ m.boards = b /\ m.trackers = c.trackers /\ m.running = c.running /\ m.runningBoards = c.runningBoards
  BY <1>2 DEF OnlyMarked
<1>4. Marked(c, m)
  BY <1>1, <1>3, MarksAchs DEF AchInv
<1>5. Held(m) /\ Ready(m) /\ DOMAIN m.achs = DOMAIN c.achs
      /\ \A i \in DOMAIN m.achs : m.achs[i].soft = c.achs[i].soft /\ m.achs[i].st = c.achs[i].st
  <2>1. DOMAIN m.achs = DOMAIN c.achs
    BY <1>4 DEF Marked
  <2>2. QED
    BY <1>1, <1>3, <1>4, <2>1, MarkedIsHeld DEF AchInv
<1>6. Clean(m)
  <2>1. m.hardcore = c.hardcore /\ m.waiting = c.waiting
    BY <1>3 DEF ModePart
  <2>2. QED
    BY <1>1, <1>5, <2>1 DEF AchInv, Clean
<1>7. BoardsFailing(c, m) /\ Tracked(m) /\ Announced(m) /\ RunningBoards(m)
  BY <1>1, <1>3, MarksBoards
<1>8. ProgressInv(m) /\ "progress" \notin m.flags
  BY <1>1, <1>3, ProgressStays
<1>9. OnlyProgress(m, d) /\ ProgressDue(d) /\ m.flags \subseteq d.flags /\ d.fault = m.fault
  BY <1>3, <1>8, HidesProgress
<1> HIDE DEF d
<1>10. /\ Shape(d) /\ ModePart(d) = ModePart(m) /\ PausePart(d) = PausePart(m) /\ AchPart(d) = AchPart(m)
       /\ BoardPart(d) = BoardPart(m) /\ ServerPart(d) = ServerPart(m)
  BY <1>9 DEF OnlyProgress
<1>11. Held(d) /\ Ready(d) /\ Clean(d)
  BY <1>5, <1>6, <1>9, <1>10, AchsStay
<1>12. d.achs = m.achs /\ d.running = m.running /\ d.boards = m.boards /\ d.runningBoards = m.runningBoards
  BY <1>10 DEF AchPart, BoardPart
<1>13. Tracked(d) /\ Announced(d)
  BY <1>7, <1>9, <1>10, BoardsStay
<1>14. BoardsFailing(c, d) /\ RunningBoards(d)
  BY <1>7, <1>12 DEF BoardsFailing, RunningBoards
<1>15. QED
  BY <1>1, <1>3, <1>5, <1>9, <1>10, <1>11, <1>12, <1>13, <1>14 DEF Loading, d

\* Before a saved state is read, what goes is marked.
LEMMA LoadingBegins ==
  ASSUME NEW c, Inv(c)
  PROVE  Loading(c, HideProgressTracker(BeforeDeserialize(c)))
<1> DEFINE primed == {i \in DOMAIN c.achs : c.achs[i].st = "active" /\ c.achs[i].trig = "primed"}
           tracking == {j \in DOMAIN c.boards : c.boards[j].st = "tracking" /\ c.boards[j].lboard = "started"}
           s == [i \in DOMAIN c.achs |-> IF i \in primed THEN [c.achs[i] EXCEPT !.pending = @ \cup {"hide"}] ELSE c.achs[i]]
           b == [j \in DOMAIN c.boards |-> IF j \in tracking THEN [c.boards[j] EXCEPT !.pending = "failed"] ELSE c.boards[j]]
           f == (IF primed # {} THEN {"achievement"} ELSE {}) \cup (IF tracking # {} THEN {"board"} ELSE {})
           m == [c EXCEPT !.achs = s, !.boards = b, !.flags = f]
<1>1. BeforeDeserialize(c) = m
  BY DEF BeforeDeserialize
<1>2. MarkedAchs(c, s)
  BY Zenon DEF MarkedAchs
<1>3. MarkedBoards(c, b)
  BY Zenon DEF MarkedBoards
<1>4. "progress" \notin f /\ ((\E i \in DOMAIN c.achs : Wants(c.achs[i])) => "achievement" \in f)
  BY DEF Wants
<1>5. AllMarked(c, s, b, f, m)
  BY DEF AllMarked
<1> HIDE DEF s, b, f, m
<1>6. Loading(c, HideProgressTracker(m))
  BY <1>2, <1>3, <1>4, <1>5, MarkedIsLoading
<1>7. QED
  BY <1>1, <1>6

\* The achievements keep their place.
LEMMA AchsRead ==
  ASSUME NEW c, Inv(c), NEW d, Loading(c, d), NEW ts, NEW bs, SavedChoice(c, ts, bs),
         NEW e, e.achs = [i \in DOMAIN d.achs |-> AchFrom(d, ts, i)], ModePart(e) = ModePart(d), d.flags \subseteq e.flags,
         e.running = d.running, e.host = d.host
  PROVE  Held(e) /\ Clean(e) /\ DOMAIN e.achs = DOMAIN d.achs
<1>1. /\ Held(d) /\ Clean(d) /\ d.running = c.running /\ DOMAIN d.achs = DOMAIN c.achs
      /\ d.achs \in Seq(Achievements) /\ Standing(d) /\ Running(d)
  BY DEF Loading, Held
<1>2. c.achs \in Seq(Achievements) /\ Running(c) /\ c.hardcore \in BOOLEAN
  BY DEF Inv, AchInv, ModeInv
<1>3. DOMAIN e.achs = DOMAIN d.achs /\ e.achs = [i \in DOMAIN e.achs |-> e.achs[i]]
  <2>1. DOMAIN e.achs = DOMAIN d.achs
    OBVIOUS
  <2>2. e.achs = [i \in DOMAIN e.achs |-> e.achs[i]]
    BY Zenon
  <2>3. QED
    BY <2>1, <2>2
<1>4. d.hardcore = c.hardcore /\ e.hardcore = c.hardcore /\ e.waiting = d.waiting /\ e.setup = d.setup
  BY DEF Loading, ModePart
<1>5. ASSUME NEW i \in DOMAIN d.achs
      PROVE  /\ e.achs[i] \in Achievements /\ e.achs[i].st = d.achs[i].st /\ e.achs[i].unlocked = d.achs[i].unlocked
             /\ e.achs[i].pending = d.achs[i].pending
             /\ d.achs[i].st = "active" => e.achs[i].soft = ~c.hardcore
  <2>1. e.achs[i] = AchFrom(d, ts, i) /\ d.achs[i] \in Achievements
    BY <1>1
  <2>2. CASE i \in d.running
    <3>1. ts[i] \in {[trig |-> t, measured |-> m] : t \in {"waiting", "active", "primed"},
                                       m \in IF c.achs[i].def.target = 0 THEN {0} ELSE c.achs[i].def.values}
      <4>1. i \in DOMAIN c.achs /\ i \in c.running
        BY <1>1, <2>2
      <4>2. ts[i] \in SavedTriggers(c, i)
        BY <4>1 DEF SavedChoice
      <4>3. QED
        BY <4>1, <4>2 DEF SavedTriggers
    <3>2. c.achs[i].def.values \subseteq Nat
      <4>1. c.achs[i] \in Achievements
        BY <1>1, <1>2
      <4>2. c.achs[i].def \in AchDefs
        BY <4>1 DEF Achievements
      <4>3. QED
        BY <4>2 DEF AchDefs
    <3>3. ts[i].trig \in {"waiting", "active", "primed"} /\ ts[i].measured \in Int
      BY <3>1, <3>2
    <3>4. e.achs[i] = [d.achs[i] EXCEPT !.trig = ts[i].trig, !.measured = ts[i].measured, !.soft = ~d.hardcore]
      BY <2>1, <2>2 DEF AchFrom
    <3>5. (~d.hardcore) \in BOOLEAN
      OBVIOUS
    <3> DEFINE sf == ~d.hardcore
    <3>6. sf \in BOOLEAN /\ e.achs[i] = [d.achs[i] EXCEPT !.trig = ts[i].trig, !.measured = ts[i].measured, !.soft = sf]
      BY <3>4, <3>5
    <3>7. e.achs[i].soft = sf
      <4> HIDE DEF sf
      <4> QED
        BY <2>1, <3>6 DEF Achievements
    <3>8. e.achs[i] \in Achievements /\ e.achs[i].st = d.achs[i].st /\ e.achs[i].unlocked = d.achs[i].unlocked
          /\ e.achs[i].pending = d.achs[i].pending
      <4> HIDE DEF sf
      <4> QED
        BY <2>1, <3>3, <3>6 DEF Achievements
    <3>9. e.achs[i].soft = ~c.hardcore
      BY <1>4, <3>7
    <3>10. QED
      BY <3>8, <3>9
  <2>3. CASE i \notin d.running
    <3>1. e.achs[i] = d.achs[i]
      BY <2>1, <2>3 DEF AchFrom
    <3>2. d.achs[i].st # "active"
      BY <1>1, <2>3 DEF Running
    <3>3. QED
      BY <2>1, <3>1, <3>2
  <2>4. QED
    BY <2>2, <2>3
<1>6. e.achs \in Seq(Achievements)
  <2> DEFINE s == e.achs
             n == Len(d.achs)
  <2>1. DOMAIN s = 1 .. n /\ n \in Nat /\ s = [i \in DOMAIN s |-> s[i]]
    BY <1>1, <1>3
  <2>2. \A i \in DOMAIN s : s[i] \in Achievements
    <3> TAKE i \in DOMAIN s
    <3>1. i \in DOMAIN d.achs
      BY <1>3
    <3>2. QED
      BY <1>5, <3>1
  <2> HIDE DEF s, n
  <2>3. s \in Seq(Achievements)
    BY <2>1, <2>2
  <2>4. QED
    BY <2>3 DEF s
<1>7. Standing(e) /\ Running(e)
  <2>1. \A i \in DOMAIN d.achs : e.achs[i].st = d.achs[i].st /\ e.achs[i].unlocked = d.achs[i].unlocked
    BY <1>5
  <2>2. QED
    BY <1>1, <1>3, <2>1, StandingKept
<1>8. Clean(e)
  BY <1>3, <1>4, <1>5 DEF Clean
<1>9. \A i : Lit(e, i) <=> Lit(d, i)
  BY DEF Lit
<1>10. Held(e)
  BY <1>1, <1>3, <1>5, <1>6, <1>7, <1>9 DEF Held
<1>11. QED
  BY <1>3, <1>8, <1>10

\* A leaderboard takes what was saved and nothing else.
LEMMA BoardRead ==
  ASSUME NEW c, Inv(c), NEW d, Loading(c, d), NEW ts, NEW bs, SavedChoice(c, ts, bs), NEW j \in DOMAIN c.boards,
         NEW b, b = BoardFrom(d, bs, j)
  PROVE  /\ SameBut(d.boards[j], b) /\ b.st = d.boards[j].st /\ b.pending = d.boards[j].pending /\ b.lboard = bs[j].lboard
         /\ InPlay(b) /\ b.lboard = "started" => b.value = bs[j].value
<1>1. Tracked(d) /\ BoardsFailing(c, d)
  BY DEF Loading
<1>2. j \in DOMAIN d.boards /\ d.boards[j] \in Boards /\ d.boards[j] = Failing(c.boards[j])
  BY <1>1 DEF BoardsFailing, Tracked, BoardTypes
<1>3. c.boards[j] \in Boards
  BY DEF Inv, BoardInv, Tracked, BoardTypes
<1>4. bs[j].lboard \in {"waiting", "active", "started", "canceled", "triggered", "disabled"} /\ (bs[j].lboard = "started" => bs[j].value \in Nat)
  <2>1. CASE j \notin c.runningBoards
    <3>1. bs[j] = [lboard |-> c.boards[j].lboard, value |-> c.boards[j].value]
      BY <2>1 DEF SavedChoice, SavedBoards
    <3>2. QED
      BY <1>3, <3>1 DEF Boards
  <2>2. CASE j \in c.runningBoards
    <3>1. bs[j] \in {[lboard |-> s, value |-> c.boards[j].value] : s \in {"waiting", "active"}}
                    \cup {[lboard |-> "started", value |-> v] : v \in Values}
      BY <2>2 DEF SavedChoice, SavedBoards
    <3>2. QED
      BY <3>1, ValuesAssumption
  <2>3. QED
    BY <2>1, <2>2
<1>5. CASE d.boards[j].st \in {"active", "tracking"} /\ bs[j].lboard = "started"
  <2>1. b = [d.boards[j] EXCEPT !.lboard = "started", !.value = bs[j].value]
    BY <1>5 DEF BoardFrom
  <2>2. QED
    BY <1>2, <1>4, <1>5, <2>1 DEF SameBut, Boards, InPlay
<1>6. CASE ~(d.boards[j].st \in {"active", "tracking"} /\ bs[j].lboard = "started")
  <2>1. b = [d.boards[j] EXCEPT !.lboard = bs[j].lboard]
    BY <1>6 DEF BoardFrom
  <2>2. QED
    BY <1>2, <1>4, <1>6, <2>1 DEF SameBut, Boards, InPlay
<1>7. QED
  BY <1>5, <1>6

\* The leaderboards can then be brought into line.
LEMMA BoardsRead ==
  ASSUME NEW c, Inv(c), NEW d, Loading(c, d), NEW ts, NEW bs, SavedChoice(c, ts, bs),
         NEW e, e.boards = [j \in DOMAIN d.boards |-> BoardFrom(d, bs, j)], e.trackers = d.trackers, e.host = d.host,
         d.flags \subseteq e.flags, e.runningBoards = d.runningBoards
  PROVE  Tracked(e) /\ Announced(e) /\ RunningBoards(e) /\ Restorable(e) /\ DOMAIN e.boards = DOMAIN c.boards
<1>1. Tracked(d) /\ Announced(d) /\ RunningBoards(d) /\ BoardsFailing(c, d) /\ d.runningBoards = c.runningBoards
  BY DEF Loading
<1>2. DOMAIN e.boards = DOMAIN d.boards /\ IsAFunction(e.boards) /\ DOMAIN d.boards = DOMAIN c.boards
  <2>1. DOMAIN e.boards = DOMAIN d.boards
    OBVIOUS
  <2>2. e.boards = [j \in DOMAIN e.boards |-> e.boards[j]]
    BY Zenon
  <2>3. QED
    BY <1>1, <2>1, <2>2 DEF IsAFunction, BoardsFailing
<1>3. ASSUME NEW j \in DOMAIN c.boards
      PROVE  /\ SameBut(d.boards[j], e.boards[j]) /\ e.boards[j].st = d.boards[j].st /\ e.boards[j].pending = d.boards[j].pending
             /\ e.boards[j].lboard = bs[j].lboard
             /\ InPlay(e.boards[j]) /\ e.boards[j].lboard = "started" => e.boards[j].value = bs[j].value
  <2>1. e.boards[j] = BoardFrom(d, bs, j)
    BY <1>2
  <2>2. QED
    BY <2>1, BoardRead
<1>4. Tracked(e)
  BY <1>1, <1>2, <1>3, StillTracked
<1>5. RunningBoards(e) /\ Announced(e)
  BY <1>1, <1>2, <1>3 DEF RunningBoards, Announced
<1>6. BoardInv(c)
  BY DEF Inv
<1>7. ASSUME NEW j \in DOMAIN c.boards
      PROVE  /\ e.boards[j].st = c.boards[j].st /\ e.boards[j].tracker = c.boards[j].tracker /\ e.boards[j].def = c.boards[j].def
             /\ e.boards[j].pending = IF c.boards[j].st = "tracking" THEN "failed" ELSE "none"
             /\ c.boards[j].tracker # 0 <=> c.boards[j].st = "tracking"
  <2>1. c.boards[j] \in Boards /\ Attached(c.boards[j]) /\ c.boards[j].pending = "none"
    BY <1>6 DEF BoardInv, Tracked, BoardTypes
  <2>2. d.boards[j] = Failing(c.boards[j])
    BY <1>1 DEF BoardsFailing
  <2>3. d.boards[j].st = c.boards[j].st /\ d.boards[j].tracker = c.boards[j].tracker /\ d.boards[j].def = c.boards[j].def
        /\ d.boards[j].pending = IF c.boards[j].st = "tracking" THEN "failed" ELSE "none"
    BY <2>1, <2>2 DEF Failing, Boards
  <2>4. QED
    BY <1>3, <2>1, <2>3 DEF SameBut, Attached
<1>8. ASSUME NEW j \in DOMAIN e.boards
      PROVE  IF InPlay(e.boards[j])
             THEN IF e.boards[j].pending = "failed" THEN e.boards[j].lboard = "started" => e.boards[j].tracker # 0
                  ELSE e.boards[j].pending = "none" /\ e.boards[j].st = "active" /\ e.boards[j].tracker = 0
             ELSE e.boards[j].tracker = 0 /\ e.boards[j].pending = "none"
  BY <1>2, <1>7 DEF InPlay
<1>9. ASSUME NEW i \in DOMAIN e.boards, NEW j \in DOMAIN e.boards,
             e.boards[i].def.group = e.boards[j].def.group, ~e.boards[j].def.fromHits,
             InPlay(e.boards[i]), InPlay(e.boards[j]), {e.boards[i].lboard, e.boards[j].lboard} = {"started"}
      PROVE  e.boards[i].value = e.boards[j].value
  <2>1. i \in DOMAIN c.boards /\ j \in DOMAIN c.boards
    BY <1>2
  <2>2. e.boards[i].lboard = "started" /\ e.boards[j].lboard = "started"
    BY <1>9
  <2>3. e.boards[i].value = bs[i].value /\ e.boards[j].value = bs[j].value /\ bs[i].lboard = "started" /\ bs[j].lboard = "started"
    BY <1>3, <1>9, <2>1, <2>2
  <2>4. c.boards[i].def.group = c.boards[j].def.group /\ ~c.boards[j].def.fromHits
    BY <1>7, <1>9, <2>1
  <2>5. i \in c.runningBoards /\ j \in c.runningBoards
    BY <1>6, <1>7, <1>9, <2>1 DEF InPlay, BoardInv, RunningBoards
  <2>6. Tracked(c)
    BY <1>6 DEF BoardInv
  <2>7. c.boards[i].def.fromHits = c.boards[j].def.fromHits
    BY <2>1, <2>4, <2>6 DEF Tracked, BoardTypes
  <2>8. bs[i].value = bs[j].value
    <3>1. Saved(c, bs)
      BY DEF SavedChoice
    <3>2. {bs[i].lboard, bs[j].lboard} = {"started"}
      BY <2>3
    <3>3. QED
      BY <2>4, <2>5, <2>7, <3>1, <3>2 DEF Saved
  <2>9. QED
    BY <2>3, <2>8
<1>10. Restorable(e)
  <2>1. \A j \in DOMAIN e.boards :
          IF InPlay(e.boards[j])
          THEN IF e.boards[j].pending = "failed" THEN e.boards[j].lboard = "started" => e.boards[j].tracker # 0
               ELSE e.boards[j].pending = "none" /\ e.boards[j].st = "active" /\ e.boards[j].tracker = 0
          ELSE e.boards[j].tracker = 0 /\ e.boards[j].pending = "none"
    BY <1>8
  <2>2. \A i, j \in DOMAIN e.boards :
          e.boards[i].def.group = e.boards[j].def.group /\ ~e.boards[j].def.fromHits
          /\ InPlay(e.boards[i]) /\ InPlay(e.boards[j])
          /\ {e.boards[i].lboard, e.boards[j].lboard} = {"started"} => e.boards[i].value = e.boards[j].value
    BY <1>9
  <2>3. QED
    BY <2>1, <2>2 DEF Restorable, RestorableBoards
<1>11. QED
  BY <1>2, <1>4, <1>5, <1>10

\* Sequences with the same places are equally long.
LEMMA SameLength ==
  ASSUME NEW S, NEW T, NEW s \in Seq(S), NEW t \in Seq(T), DOMAIN s = DOMAIN t
  PROVE  Len(s) = Len(t)
<1> DEFINE m == Len(s)
           n == Len(t)
<1>1. m \in Nat /\ n \in Nat /\ 1 .. m = 1 .. n
  OBVIOUS
<1> HIDE DEF m, n
<1>2. m <= n
  <2>1. m = 0 \/ m \in 1 .. m
    BY <1>1
  <2>2. QED
    BY <1>1, <2>1
<1>3. n <= m
  <2>1. n = 0 \/ n \in 1 .. n
    BY <1>1
  <2>2. QED
    BY <1>1, <2>1
<1>4. QED
  BY <1>1, <1>2, <1>3 DEF m, n

\* A saved state that is good leaves the client with what it says.
LEMMA RestoredRead ==
  ASSUME NEW c, Inv(c), NEW d, Loading(c, d), NEW ts, NEW bs, SavedChoice(c, ts, bs)
  PROVE  Read(c, Restored(d, ts, bs))
<1> DEFINE s == [i \in DOMAIN d.achs |-> AchFrom(d, ts, i)]
           b == [j \in DOMAIN d.boards |-> BoardFrom(d, bs, j)]
           e == [d EXCEPT !.achs = s, !.boards = b]
<1>1. Restored(d, ts, bs) = e
  BY DEF Restored, AchFrom, BoardFrom
<1>2. /\ Shape(d) /\ d.fault # "timer" /\ ModePart(d) = ModePart(c) /\ PausePart(d) = PausePart(c) /\ ServerPart(d) = ServerPart(c)
      /\ ProgressDue(d) /\ DOMAIN d.achs = DOMAIN c.achs
  BY DEF Loading
<1> HIDE DEF s, b
<1>3. AllMarked(d, s, b, d.flags, e)
  BY <1>2 DEF AllMarked, Shape, Fields
<1> HIDE DEF e
<1>4. OnlyMarked(d, s, b, d.flags, e)
  BY <1>2, <1>3, MarkedIsAll
<1>5. /\ Shape(e) /\ ModePart(e) = ModePart(d) /\ PausePart(e) = PausePart(d) /\ ProgressPart(e) = ProgressPart(d)
      /\ ServerPart(e) = ServerPart(d) /\ e.fault = d.fault /\ e.host = d.host /\ e.flags = d.flags
      /\ e.achs = s /\ e.boards = b /\ e.trackers = d.trackers /\ e.running = d.running /\ e.runningBoards = d.runningBoards
  BY <1>4 DEF OnlyMarked
<1>6. Held(e) /\ Clean(e) /\ DOMAIN e.achs = DOMAIN d.achs
  <2>1. e.achs = [i \in DOMAIN d.achs |-> AchFrom(d, ts, i)]
    BY <1>5 DEF s
  <2>2. QED
    BY <1>5, <2>1, AchsRead
<1>7. Tracked(e) /\ Announced(e) /\ RunningBoards(e) /\ Restorable(e) /\ DOMAIN e.boards = DOMAIN c.boards
  <2>1. e.boards = [j \in DOMAIN d.boards |-> BoardFrom(d, bs, j)]
    BY <1>5 DEF b
  <2>2. QED
    BY <1>5, <2>1, BoardsRead
<1>8. ProgressDue(e)
  <2>1. "progress" \in e.flags <=> "progress" \in d.flags
    BY <1>5
  <2>2. QED
    BY <1>2, <1>5, <2>1, ProgressStays
<1>9. Read(c, e)
  BY <1>2, <1>5, <1>6, <1>7, <1>8 DEF Read
<1>10. QED
  BY <1>1, <1>9

\* Resetting achievements loses none of them.
LEMMA ResetPlaces ==
  ASSUME NEW c, Shape(c), c.achs \in Seq(Achievements)
  PROVE  DOMAIN ResetAchievements(c).achs = DOMAIN c.achs
<1> DEFINE w == <<"reset">>
           n == Len(c.achs)
           d == ResetAchievements(c)
<1>1. w[1] \in AchSteps /\ n \in Nat
  BY DEF AchSteps
<1>2. Ran(w, c, n, d)
  BY <1>1, ResetRan DEF ResetAchievements
<1> HIDE DEF w, d
<1>3. PICK g : AchLooped(w, c, g, d)
  BY <1>1, <1>2, AchLoop
<1>4. QED
  BY <1>3 DEF AchLooped, d

\* A saved state that is no good leaves the client with a game that starts over.
LEMMA StartedOverRead ==
  ASSUME NEW c, Inv(c), NEW d, Loading(c, d)
  PROVE  Read(c, ResetLeaderboards(ResetAchievements(d)))
<1> DEFINE a == ResetAchievements(d)
           e == ResetLeaderboards(a)
           w == <<"reset_board">>
<1>1. /\ Shape(d) /\ d.fault # "timer" /\ ModePart(d) = ModePart(c) /\ PausePart(d) = PausePart(c) /\ ServerPart(d) = ServerPart(c)
      /\ ProgressDue(d) /\ DOMAIN d.achs = DOMAIN c.achs /\ Ready(d) /\ Tracked(d) /\ Announced(d) /\ RunningBoards(d)
      /\ BoardsFailing(c, d)
  BY DEF Loading
<1>2. Leaves("reset", d, a) /\ Held(a) /\ \A i \in DOMAIN a.achs : a.achs[i].st = "active" => ~a.achs[i].soft
  BY <1>1, ResetsAchs
<1>3. DOMAIN a.achs = DOMAIN c.achs
  BY <1>1, ResetPlaces DEF Ready
<1> HIDE DEF a
<1>4. /\ Shape(a) /\ ProgressPart(a) = ProgressPart(d) /\ ModePart(a) = ModePart(d) /\ PausePart(a) = PausePart(d)
      /\ d.flags \subseteq a.flags /\ a.flags \subseteq d.flags \cup {"achievement"} /\ a.fault = d.fault
      /\ BoardPart(a) = BoardPart(d) /\ ServerPart(a) = ServerPart(d)
  BY <1>2 DEF Leaves, NewFlags, AchSteps, BoardSteps, ServerSteps, TrackerSteps
<1>5. Clean(a)
  BY <1>2 DEF Clean
<1>6. Tracked(a) /\ Announced(a)
  BY <1>1, <1>4, BoardsStay
<1>7. a.boards = d.boards /\ a.runningBoards = d.runningBoards
  BY <1>4 DEF BoardPart
<1>8. Len(a.boards) \in Nat
  BY <1>6, TrackerTypes
<1>9. Ran(w, a, Len(a.boards), e) /\ w[1] = "reset_board"
  BY <1>8, ResetBoardRan DEF ResetLeaderboards
<1> HIDE DEF w, e
<1>10. BoardLoopNeeds(w, a)
  BY <1>9 DEF BoardLoopNeeds
<1>11. Reached(w, a, e, Len(a.boards)) /\ \A j \in DOMAIN a.boards : BoardDone(w, a, e, j)
  BY <1>4, <1>6, <1>9, <1>10, BoardLoop
<1>12. /\ Leaves("reset_board", a, e) /\ Tracked(e) /\ Announced(e) /\ e.runningBoards = a.runningBoards
       /\ DOMAIN e.boards = DOMAIN a.boards /\ \A j \in DOMAIN a.boards : e.boards[j] = Quiet("reset_board", a.boards[j])
  BY <1>9, <1>11 DEF Reached, BoardDone
<1>13. DOMAIN a.boards = DOMAIN c.boards
  BY <1>1, <1>7 DEF BoardsFailing
<1>14. ASSUME NEW j \in DOMAIN c.boards
       PROVE  /\ e.boards[j].tracker = 0 /\ (InPlay(e.boards[j]) <=> InPlay(d.boards[j]))
              /\ InPlay(e.boards[j]) => /\ e.boards[j].st = "active" /\ e.boards[j].lboard = "waiting"
                                        /\ e.boards[j].pending \in {"none", "failed"}
              /\ ~InPlay(e.boards[j]) => e.boards[j].pending = "none"
  <2>1. c.boards[j] \in Boards /\ Attached(c.boards[j]) /\ c.boards[j].pending = "none"
    BY DEF Inv, BoardInv, Tracked, BoardTypes
  <2>2. d.boards[j] = Failing(c.boards[j]) /\ e.boards[j] = Quiet("reset_board", d.boards[j])
    BY <1>1, <1>7, <1>12, <1>13 DEF BoardsFailing
  <2> DEFINE b == c.boards[j]
             f == Failing(b)
             q == Quiet("reset_board", f)
  <2>3. f \in Boards /\ f.st = b.st /\ f.tracker = b.tracker /\ f.pending = IF b.st = "tracking" THEN "failed" ELSE "none"
    BY <2>1 DEF Failing, Boards
  <2>4. b.tracker # 0 <=> b.st = "tracking"
    BY <2>1 DEF Attached
  <2> HIDE DEF f
  <2>5. q = IF f.st \in {"inactive", "disabled"} THEN f ELSE [LetGoOf(f) EXCEPT !.lboard = "waiting", !.st = "active"]
    BY DEF Quiet
  <2>6. f.st \in {"inactive", "active", "tracking", "disabled"}
    BY <2>3 DEF Boards
  <2>7. CASE f.st \in {"inactive", "disabled"}
    BY <2>2, <2>3, <2>4, <2>5, <2>7 DEF InPlay, f
  <2>8. CASE f.st \notin {"inactive", "disabled"}
    <3>1. LET g == [LetGoOf(f) EXCEPT !.lboard = "waiting", !.st = "active"]
          IN  g.tracker = 0 /\ g.st = "active" /\ g.lboard = "waiting" /\ g.pending = f.pending
      BY <2>3, <2>4, <2>6, <2>8 DEF LetGoOf, Boards
    <3>2. q.tracker = 0 /\ q.st = "active" /\ q.lboard = "waiting" /\ q.pending = f.pending
      BY <2>5, <2>8, <3>1
    <3>3. InPlay(f) /\ InPlay(q)
      BY <2>6, <2>8, <3>2 DEF InPlay
    <3> HIDE DEF q
    <3>4. e.boards[j] = q /\ d.boards[j] = f
      BY <2>2 DEF q, f
    <3>5. QED
      BY <2>3, <3>2, <3>3, <3>4
  <2>9. QED
    BY <2>7, <2>8
<1>15. Restorable(e)
  <2>1. \A j \in DOMAIN e.boards :
          IF InPlay(e.boards[j])
          THEN IF e.boards[j].pending = "failed" THEN e.boards[j].lboard = "started" => e.boards[j].tracker # 0
               ELSE e.boards[j].pending = "none" /\ e.boards[j].st = "active" /\ e.boards[j].tracker = 0
          ELSE e.boards[j].tracker = 0 /\ e.boards[j].pending = "none"
    BY <1>12, <1>13, <1>14
  <2>2. \A i, j \in DOMAIN e.boards :
          e.boards[i].def.group = e.boards[j].def.group /\ ~e.boards[j].def.fromHits
          /\ InPlay(e.boards[i]) /\ InPlay(e.boards[j])
          /\ {e.boards[i].lboard, e.boards[j].lboard} = {"started"} => e.boards[i].value = e.boards[j].value
    <3> SUFFICES ASSUME NEW i \in DOMAIN e.boards, InPlay(e.boards[i]), e.boards[i].lboard = "started" PROVE FALSE
      OBVIOUS
    <3>1. e.boards[i].lboard = "waiting"
      BY <1>12, <1>13, <1>14
    <3>2. QED
      BY <3>1
  <2>3. QED
    BY <2>1, <2>2 DEF Restorable, RestorableBoards
<1>16. RunningBoards(e)
  BY <1>1, <1>7, <1>12, <1>13, <1>14 DEF RunningBoards, InPlay
<1>17. /\ Shape(e) /\ ProgressPart(e) = ProgressPart(a) /\ ModePart(e) = ModePart(a) /\ PausePart(e) = PausePart(a)
       /\ a.flags \subseteq e.flags /\ e.flags \subseteq a.flags \cup {"tracker", "board"} /\ e.fault = a.fault
       /\ AchPart(e) = AchPart(a) /\ ServerPart(e) = ServerPart(a)
  BY <1>12 DEF Leaves, NewFlags, AchSteps, BoardSteps, ServerSteps, TrackerSteps
<1>18. Held(e) /\ Clean(e)
  BY <1>2, <1>5, <1>17, AchsStay
<1>19. ProgressDue(e)
  <2>1. "progress" \in e.flags <=> "progress" \in d.flags
    BY <1>4, <1>17
  <2>2. ProgressPart(e) = ProgressPart(d) /\ ModePart(e) = ModePart(d)
    BY <1>4, <1>17
  <2>3. QED
    BY <1>1, <2>1, <2>2, ProgressStays
<1>20. DOMAIN e.achs = DOMAIN c.achs
  BY <1>3, <1>17 DEF AchPart
<1>21. Read(c, e)
  BY <1>1, <1>4, <1>12, <1>13, <1>15, <1>16, <1>17, <1>18, <1>19, <1>20 DEF Read
<1>22. QED
  BY <1>21 DEF e, a

\* Then everything is brought into line and the host is told.
LEMMA ReadRaised ==
  ASSUME NEW c, Inv(c), c.loaded, NEW e, Read(c, e)
  PROVE  GoesOn(c, RaisePendingEvents(After(AfterDeserializeBoard, After(AfterDeserializeAch, e, Len(c.achs)), Len(c.boards))))
<1> DEFINE f == After(AfterDeserializeAch, e, Len(c.achs))
           x == After(AfterDeserializeBoard, f, Len(c.boards))
           w == <<"restored_board">>
<1>1. /\ Shape(e) /\ e.fault # "timer" /\ ModePart(e) = ModePart(c) /\ PausePart(e) = PausePart(c) /\ ServerPart(e) = ServerPart(c)
      /\ Held(e) /\ Clean(e) /\ ProgressDue(e)
      /\ Tracked(e) /\ Announced(e) /\ RunningBoards(e) /\ Restorable(e)
      /\ DOMAIN e.achs = DOMAIN c.achs /\ DOMAIN e.boards = DOMAIN c.boards
  BY DEF Read
<1>2. c.achs \in Seq(Achievements) /\ c.boards \in Seq(Boards) /\ ModeInv(c) /\ PauseInv(c) /\ ServerInv(c)
  BY DEF Inv, AchInv, BoardInv, Tracked, BoardTypes
<1>3. Len(e.achs) = Len(c.achs) /\ Len(e.boards) = Len(c.boards) /\ Len(c.boards) \in Nat
  <2>1. e.achs \in Seq(Achievements) /\ e.boards \in Seq(Boards)
    BY <1>1 DEF Held, Tracked, BoardTypes
  <2>2. QED
    BY <1>1, <1>2, <2>1, SameLength
<1>4. Leaves("restored", e, f) /\ Due(f)
  BY <1>1, <1>3, RestoresAchs
<1> HIDE DEF f
<1>5. /\ Shape(f) /\ ProgressPart(f) = ProgressPart(e) /\ ModePart(f) = ModePart(e) /\ PausePart(f) = PausePart(e)
      /\ e.flags \subseteq f.flags /\ f.flags \subseteq e.flags \cup {"achievement"} /\ f.fault = e.fault
      /\ BoardPart(f) = BoardPart(e) /\ ServerPart(f) = ServerPart(e)
  BY <1>4 DEF Leaves, NewFlags, AchSteps, BoardSteps, ServerSteps, TrackerSteps
<1>6. Tracked(f) /\ Announced(f) /\ f.boards = e.boards /\ f.runningBoards = e.runningBoards
  BY <1>1, <1>5, BoardsStay DEF BoardPart
<1>7. ModePart(f) = ModePart(c) /\ PausePart(f) = PausePart(c) /\ ServerPart(f) = ServerPart(c) /\ f.loaded /\ f.setup = c.setup
  BY <1>1, <1>5 DEF ModePart
<1>8. ModeInv(f) /\ PauseInv(f) /\ ServerInv(f)
  BY <1>2, <1>7, ModeStays, PauseStays, SameServer
<1>9. ProgressDue(f)
  <2>1. "progress" \in f.flags <=> "progress" \in e.flags
    BY <1>5
  <2>2. QED
    BY <1>1, <1>5, <2>1, ProgressStays
<1>10. AlmostPending(f)
  BY <1>1, <1>4, <1>5, <1>7, <1>8, <1>9 DEF AlmostPending
<1>11. Ran(w, f, Len(f.boards), x) /\ w[1] = "restored_board"
  BY <1>3, <1>6, RestoredBoardRan
<1> HIDE DEF w, x
<1>12. BoardLoopNeeds(w, f)
  <2>1. Restorable(f)
    BY <1>1, <1>6 DEF Restorable
  <2>2. QED
    BY <1>11, <2>1 DEF BoardLoopNeeds, Restorable, RestorableBoards
<1>13. Reached(w, f, x, Len(f.boards)) /\ \A j \in DOMAIN f.boards : BoardDone(w, f, x, j)
  BY <1>5, <1>6, <1>11, <1>12, BoardLoop
<1>14. /\ Leaves("restored_board", f, x) /\ Tracked(x) /\ Announced(x) /\ x.runningBoards = f.runningBoards
       /\ DOMAIN x.boards = DOMAIN f.boards /\ \A j \in DOMAIN f.boards : BoardRestored(f, x, j)
  BY <1>11, <1>13 DEF Reached, BoardDone
<1>15. \A j \in DOMAIN f.boards : /\ Attached(x.boards[j]) /\ Valued(x, j) /\ x.boards[j].pending = "none"
                                  /\ InPlay(x.boards[j]) <=> InPlay(f.boards[j])
  BY <1>14 DEF BoardRestored
<1>16. RunningBoards(x)
  BY <1>1, <1>6, <1>14, <1>15 DEF RunningBoards, InPlay
<1>17. BoardsDue(x)
  BY <1>14, <1>15, <1>16 DEF BoardsDue
<1>18. "restored_board" \in TrackerSteps
  BY DEF TrackerSteps, BoardSteps, ServerSteps
<1>19. Pending(x)
  BY <1>10, <1>14, <1>17, <1>18, BoardsToPending
<1>20. PausePart(x) = PausePart(c)
  BY <1>7, <1>14 DEF Leaves
<1>21. QED
  BY <1>19, <1>20, RaisingKeeps DEF x, f, GoesOn, PausePart

\* Loading a saved state keeps the invariant.
LEMMA LoadProgressKeeps ==
  ASSUME NEW c, Inv(c), c.loaded, NEW good, NEW ts, NEW bs, SavedChoice(c, ts, bs)
  PROVE  GoesOn(c, LoadProgress(c, good, ts, bs))
<1> DEFINE d == HideProgressTracker(BeforeDeserialize(c))
           e == IF good THEN Restored(d, ts, bs) ELSE ResetLeaderboards(ResetAchievements(d))
<1>1. Loading(c, d)
  BY LoadingBegins
<1> HIDE DEF d
<1>2. Read(c, e)
  <2>1. CASE good
    BY <1>1, <2>1, RestoredRead
  <2>2. CASE ~good
    BY <1>1, <2>2, StartedOverRead
  <2>3. QED
    BY <2>1, <2>2
<1> HIDE DEF e
<1>3. GoesOn(c, RaisePendingEvents(After(AfterDeserializeBoard, After(AfterDeserializeAch, e, Len(c.achs)), Len(c.boards))))
  BY <1>2, ReadRaised
<1>4. QED
  BY <1>3 DEF LoadProgress, d, e

-----------------------------------------------------------------------------
(* The invariant.                                                            *)

\* One who may pause has waited long enough, or has not gone on since.
LEMMA PauseCounted ==
  ASSUME NEW c, Inv(c), "pause" \in c.setup.may, c.host.frames > 0, PausesTo(c).host.frames = 0
  PROVE  c.host.frames >= c.required
<1> DEFINE q == c.decay
           r == c.required
           f == c.host.frames
<1>1. PauseBounds(q, r, f) /\ PauseCount(q, r, f) /\ Shape(c)
  <2>1. PauseInv(c) /\ Shape(c)
    BY DEF Inv
  <2>2. QED
    BY <2>1, PauseInvIs
<1>2. CASE c.hardcore /\ q = r * DecayMultiplier
  BY <1>1, <1>2 DEF PauseCount
<1>3. CASE ~c.hardcore \/ (q > r * (DecayMultiplier - 1) /\ q # r * DecayMultiplier)
  <2>1. PausesTo(c) = c
    BY <1>3 DEF PausesTo, CanPause
  <2>2. QED
    BY <2>1
<1>4. CASE c.hardcore /\ ~(q > r * (DecayMultiplier - 1)) /\ q # r * DecayMultiplier
  <2>1. q \in Nat /\ r \in Nat /\ r * (DecayMultiplier - 1) \in Nat
    <3>1. q \in Nat /\ r \in Nat /\ r >= 1
      BY <1>1, PauseAssumption DEF PauseBounds
    <3>2. QED
      BY <3>1, Multiples
  <2> DEFINE p == r * (DecayMultiplier - 1)
  <2>2. p \in Nat /\ ~(q > p)
    BY <1>4, <2>1
  <2> HIDE DEF p
  <2>3. q <= p
    BY <2>1, <2>2
  <2>4. QED
    BY <1>1, <2>3 DEF PauseCount, p
<1>5. QED
  BY <1>2, <1>3, <1>4

\* A client that has just been created.
LEMMA NewKeeps ==
  ASSUME NEW s \in Setups
  PROVE  Inv(NewClient(s))
<1> DEFINE c == NewClient(s)
<1>1. Shape(c)
  BY DEF Shape, NewClient, NewHost, Fields, HostFields
<1>2. /\ c.setup = s /\ c.hardcore = s.hardcore /\ c.signed = TRUE /\ c.hides = FALSE /\ c.requests = {}
      /\ c.disconnect = "hidden" /\ c.load = 0 /\ c.decay = 0 /\ c.required = MinFrames
      /\ c.host = NewHost /\ c.fault = "none" /\ c.achs = <<>> /\ c.boards = <<>> /\ c.trackers = <<>>
      /\ c.timer = FALSE /\ c.action = "none" /\ c.flags = {} /\ c.running = {} /\ c.runningBoards = {} /\ c.loaded = FALSE
      /\ c.waiting = FALSE
  BY DEF NewClient
<1>3. /\ c.host.challenges = {} /\ c.host.trackers = [k \in {} |-> 0] /\ c.host.progress = FALSE /\ c.host.down = FALSE
      /\ c.host.frames = MaxFrames * DecayMultiplier
  BY <1>2 DEF NewHost
<1> HIDE DEF c
<1>4. ModeInv(c)
  <2>0. s.hardcore \in BOOLEAN
    BY SetupsAssumption
  <2>1. c.setup \in Setups /\ c.hardcore \in BOOLEAN /\ c.signed \in BOOLEAN /\ c.load \in Nat
    <3>1. c.setup \in Setups
      BY <1>2
    <3>2. c.hardcore \in BOOLEAN
      BY <1>2, <2>0
    <3>3. c.signed \in BOOLEAN
      BY <1>2
    <3>4. c.load \in Nat
      BY <1>2
    <3>5. QED
      BY <3>1, <3>2, <3>3, <3>4
  <2>2. c.loaded \in BOOLEAN /\ c.waiting \in BOOLEAN
    BY <1>2
  <2>3. QED
    BY <1>2, <2>1, <2>2 DEF ModeInv
<1>5. AchInv(c)
  <2>1. c.achs \in Seq(Achievements) /\ DOMAIN c.achs = {}
    BY <1>2
  <2>2. QED
    BY <1>2, <1>3, <2>1 DEF AchInv, Standing, Running, Clean, Challenges
<1>6. BoardInv(c)
  <2>1. c.boards \in Seq(Boards) /\ c.trackers \in Seq(Trackers) /\ DOMAIN c.boards = {} /\ DOMAIN c.trackers = {}
    BY <1>2
  <2>2. DOMAIN c.host.trackers = {} /\ c.host.trackers = [k \in DOMAIN c.host.trackers |-> c.host.trackers[k]]
    BY <1>3
  <2>3. Tracked(c)
    BY <2>1, <2>2 DEF Tracked, BoardTypes
  <2>4. QED
    BY <1>2, <2>1, <2>3 DEF BoardInv, RunningBoards
<1>7. ProgressInv(c)
  BY <1>2, <1>3 DEF ProgressInv
<1>8. ServerInv(c)
  <2>1. IsFiniteSet(c.requests)
    BY <1>2, FS_EmptySet
  <2>2. c.requests \subseteq Requests /\ ~Queued(c) /\ c.signed
        /\ (\A q, r \in c.requests : q.id = r.id => q = r) /\ (\A r \in c.requests : r.at = "queued" => r.tries = 2)
    BY <1>2 DEF Queued
  <2>3. c.disconnect \in {"hidden", "showing", "visible", "hiding"}
        /\ c.disconnect \notin {"showing", "visible"} /\ c.disconnect \notin {"visible", "hiding"}
    BY <1>2
  <2>4. c.host.down = (c.disconnect \in {"visible", "hiding"})
    <3>1. c.host.down = FALSE
      BY <1>3
    <3>2. (c.disconnect \in {"visible", "hiding"}) = FALSE
      BY <2>3
    <3>3. QED
      BY <3>1, <3>2
  <2>5. QED
    BY <2>1, <2>2, <2>3, <2>4 DEF ServerInv
<1>9. PauseInv(c)
  <2> DEFINE m == MaxFrames * DecayMultiplier
             p == MinFrames * (DecayMultiplier - 1)
             n == MinFrames * DecayMultiplier
  <2>1. MinFrames \in Nat /\ MinFrames >= 1 /\ MaxFrames \in Nat /\ MinFrames <= MaxFrames /\ MaxFrames >= 1
    BY PauseAssumption
  <2>2. n \in Nat /\ p \in Nat /\ p >= MinFrames /\ p = n - MinFrames
    BY <2>1, Multiples
  <2>3. m \in Nat /\ MaxFrames * (DecayMultiplier - 1) = m - MaxFrames /\ MaxFrames * (DecayMultiplier - 1) >= MaxFrames
        /\ MaxFrames * (DecayMultiplier - 1) \in Nat
    BY <2>1, Multiples
  <2>4. m >= MaxFrames
    <3> DEFINE k == MaxFrames * (DecayMultiplier - 1)
    <3>1. k = m - MaxFrames /\ k \in Nat /\ m \in Nat
      BY <2>3
    <3> HIDE DEF k, m
    <3>2. QED
      BY <2>1, <3>1
  <2> HIDE DEF m, p, n
  <2>5. PauseBounds(0, MinFrames, m)
    BY <2>1, <2>2, <2>3, <2>4 DEF PauseBounds, m, n
  <2>6. PauseCount(0, MinFrames, m)
    <3>1. ~(0 > p) /\ 0 # n /\ m >= MinFrames
      BY <2>1, <2>2, <2>4, <2>3
    <3>2. QED
      BY <3>1 DEF PauseCount, p, n
  <2>7. c.decay = 0 /\ c.required = MinFrames /\ c.host.frames = m
    BY <1>2, <1>3 DEF m
  <2>8. QED
    BY <2>5, <2>6, <2>7, PauseInvIs
<1>10. QED
  BY <1>1, <1>2, <1>4, <1>5, <1>6, <1>7, <1>8, <1>9 DEF Inv, c

\* A choice for each place is a choice for every one.
LEMMA FrameChosen ==
  ASSUME NEW c, Inv(c), c.loaded, ~c.waiting, NEW os \in Each(Len(c.achs), LAMBDA i : FrameOf(c.achs[i])),
         NEW bs, BoardsAllowed(c) => bs \in Each(Len(c.boards), LAMBDA j : FrameOfBoard(c.boards[j])), Measures(c, bs)
  PROVE  FrameChoice(c, os, bs)
<1>1. DOMAIN c.achs = 1 .. Len(c.achs) /\ DOMAIN c.boards = 1 .. Len(c.boards) /\ BoardInv(c)
  BY DEF Inv, AchInv, BoardInv, Tracked, BoardTypes
<1>2. \A i \in DOMAIN c.achs : os[i] \in FrameOf(c.achs[i])
  BY <1>1 DEF Each
<1>3. ASSUME BoardsAllowed(c)
      PROVE  DOMAIN bs = DOMAIN c.boards /\ \A j \in DOMAIN c.boards : bs[j] \in FrameOfBoard(c.boards[j])
  BY <1>1, <1>3 DEF Each
<1>4. ASSUME BoardsAllowed(c), NEW i \in DOMAIN c.boards, NEW j \in DOMAIN c.boards,
             c.boards[i].def.group = c.boards[j].def.group, ~c.boards[j].def.fromHits,
             {bs[i].result, bs[j].result} \subseteq {"started", "triggered"}
      PROVE  bs[i].value = bs[j].value
  <2>1. c.boards[i].def.fromHits = c.boards[j].def.fromHits
    BY <1>1, <1>4 DEF BoardInv, Tracked, BoardTypes
  <2>2. i \in DOMAIN bs /\ j \in DOMAIN bs
    BY <1>3, <1>4
  <2>3. QED
    BY <1>4, <2>1, <2>2 DEF Measures
<1>5. ASSUME BoardsAllowed(c)
      PROVE  \A i, j \in DOMAIN c.boards :
               c.boards[i].def.group = c.boards[j].def.group /\ ~c.boards[j].def.fromHits
               /\ {bs[i].result, bs[j].result} \subseteq {"started", "triggered"} => bs[i].value = bs[j].value
  BY <1>4, <1>5
<1>6. QED
  BY <1>2, <1>3, <1>5 DEF FrameChoice

\* So is what a saved state may hold.
LEMMA SavedChosen ==
  ASSUME NEW c, Inv(c), NEW ts \in Each(Len(c.achs), LAMBDA i : SavedTriggers(c, i)),
         NEW bs \in Each(Len(c.boards), LAMBDA j : SavedBoards(c, j)), Saved(c, bs)
  PROVE  SavedChoice(c, ts, bs)
<1>1. DOMAIN c.achs = 1 .. Len(c.achs) /\ DOMAIN c.boards = 1 .. Len(c.boards)
  BY DEF Inv, AchInv, BoardInv, Tracked, BoardTypes
<1>2. QED
  BY <1>1 DEF Each, SavedChoice

-----------------------------------------------------------------------------
(* Every step.                                                               *)

\* A call that counts no frame.
LEMMA GoingOn ==
  ASSUME NEW c, NEW d, GoesOn(c, d)
  PROVE  Steps(c, d)
BY DEF GoesOn, Steps, Counts

\* A frame keeps the invariant and counts at most one frame.
LEMMA StepFrame ==
  ASSUME IInv, NEW due \in SUBSET Scheduled(client), Frame(due)
  PROVE  Steps(client, client')
<1> DEFINE c == client
<1>1. Inv(c) /\ due \subseteq Scheduled(c)
  BY DEF IInv
<1>2. PICK os \in IF c.loaded /\ ~c.waiting THEN Each(Len(c.achs), LAMBDA i : FrameOf(c.achs[i])) ELSE {<<>>},
           bs \in IF c.loaded /\ ~c.waiting /\ BoardsAllowed(c)
                  THEN Each(Len(c.boards), LAMBDA j : FrameOfBoard(c.boards[j])) ELSE {<<>>} :
             Measures(c, bs) /\ client' = Counted(DoFrame(c, os, bs, due))
  BY DEF Frame
<1>3. c.loaded /\ ~c.waiting => FrameChoice(c, os, bs)
  <2> SUFFICES ASSUME c.loaded, ~c.waiting PROVE FrameChoice(c, os, bs)
    OBVIOUS
  <2>1. os \in Each(Len(c.achs), LAMBDA i : FrameOf(c.achs[i]))
    BY <1>2
  <2>2. BoardsAllowed(c) => bs \in Each(Len(c.boards), LAMBDA j : FrameOfBoard(c.boards[j]))
    BY <1>2
  <2>3. Measures(c, bs)
    BY <1>2
  <2> HIDE DEF c
  <2>4. QED
    BY <1>1, <2>1, <2>2, <2>3, FrameChosen
<1>4. client' = Counted(DoFrame(c, os, bs, due))
  BY <1>2
<1> HIDE DEF c
<1>5. LET d == Counted(DoFrame(c, os, bs, due)) IN Inv(d) /\ d.host.frames \in {c.host.frames, c.host.frames + 1}
  BY <1>1, <1>3, FrameKeeps
<1>6. QED
  BY <1>4, <1>5 DEF Steps, Counts, c

\* rc_client_idle keeps it,
LEMMA StepIdle ==
  ASSUME IInv, NEW due \in SUBSET Scheduled(client), IdleOnly(due)
  PROVE  Steps(client, client')
<1>1. GoesOn(client, Idle(client, due))
  BY IdleOnlyKeeps DEF IInv
<1>2. client' = Idle(client, due)
  BY DEF IdleOnly
<1>3. QED
  BY <1>1, <1>2, GoingOn

\* an answer of the server does,
LEMMA StepAnswer ==
  ASSUME IInv, NEW r \in client.requests, NEW result, NEW reached, Answer(r, result, reached)
  PROVE  Steps(client, client')
<1>1. GoesOn(client, AwardCallback(client, r, result, reached))
  BY AwardAnswered DEF IInv
<1>2. GoesOn(client, SubmitCallback(client, r, result))
  BY SubmitAnswered DEF IInv
<1>3. client' = IF r.kind = "award" THEN AwardCallback(client, r, result, reached) ELSE SubmitCallback(client, r, result)
  BY DEF Answer
<1>4. GoesOn(client, client')
  BY <1>1, <1>2, <1>3
<1>5. QED
  BY <1>4, GoingOn

\* the calls of the host do,
LEMMA StepCalls ==
  ASSUME IInv, Reset \/ UnloadGame \/ LoadGame \/ Logout \/ Login \/ Toggle
  PROVE  Steps(client, client')
<1>1. CASE Reset
  <2>1. GoesOn(client, DoReset(client)) /\ client' = DoReset(client)
    BY <1>1, ResetKeeps DEF IInv, Reset
  <2>2. QED
    BY <2>1, GoingOn
<1>2. CASE UnloadGame
  <2>1. GoesOn(client, Unload(client)) /\ client' = Unload(client)
    BY <1>2, UnloadKeeps DEF IInv, UnloadGame
  <2>2. QED
    BY <2>1, GoingOn
<1>3. CASE LoadGame
  <2>1. GoesOn(client, Load(client)) /\ client' = Load(client)
    BY <1>3, LoadKeeps DEF IInv, LoadGame
  <2>2. QED
    BY <2>1, GoingOn
<1>4. CASE Logout
  <2>1. GoesOn(client, SignOut(client)) /\ client' = SignOut(client)
    BY <1>4, SignOutKeeps DEF IInv, Logout, May
  <2>2. QED
    BY <2>1, GoingOn
<1>5. CASE Login
  <2>1. GoesOn(client, [client EXCEPT !.signed = TRUE]) /\ client' = [client EXCEPT !.signed = TRUE]
    BY <1>5, SignOutKeeps DEF IInv, Login, May
  <2>2. QED
    BY <2>1, GoingOn
<1>6. CASE Toggle
  <2>1. GoesOn(client, SetHardcore(client, ~client.hardcore)) /\ client' = SetHardcore(client, ~client.hardcore)
    BY <1>6, SwitchKeeps DEF IInv, Toggle
  <2>2. QED
    BY <2>1, GoingOn
<1>7. QED
  BY <1>1, <1>2, <1>3, <1>4, <1>5, <1>6

\* and so does a state that is restored.
LEMMA StepDeserialize ==
  ASSUME IInv, Deserialize
  PROVE  Steps(client, client')
<1> DEFINE c == client
<1>1. PICK good \in BOOLEAN, ts \in Each(Len(c.achs), LAMBDA i : SavedTriggers(c, i)),
           bs \in Each(Len(c.boards), LAMBDA j : SavedBoards(c, j)) :
             Saved(c, bs) /\ client' = LoadProgress(c, good, ts, bs)
  BY DEF Deserialize
<1>2. Inv(c) /\ c.loaded
  BY DEF IInv, Deserialize
<1>3. client' = LoadProgress(c, good, ts, bs)
  BY <1>1
<1>4. Saved(c, bs)
  BY <1>1
<1> HIDE DEF c
<1>5. SavedChoice(c, ts, bs)
  BY <1>2, <1>4, SavedChosen
<1>6. GoesOn(c, LoadProgress(c, good, ts, bs))
  BY <1>2, <1>5, LoadProgressKeeps
<1>7. Steps(c, client')
  BY <1>3, <1>6, GoingOn
<1>8. QED
  BY <1>7 DEF c

\* Only a pause takes the count back.
LEMMA NextSteps ==
  ASSUME IInv, Next
  PROVE  Steps(client, client') \/ Pause
<1>1. ASSUME NEW due \in SUBSET Scheduled(client), Frame(due) \/ IdleOnly(due)
      PROVE  Steps(client, client')
  BY <1>1, StepFrame, StepIdle
<1>2. ASSUME NEW r \in client.requests, NEW result \in {"ok", "refused", "failed"}, NEW reached \in BOOLEAN,
             Answer(r, result, reached)
      PROVE  Steps(client, client')
  BY <1>2, StepAnswer
<1>3. QED
  BY <1>1, <1>2, StepCalls, StepDeserialize DEF Next

\* A pause keeps it too.
LEMMA StepPause ==
  ASSUME IInv, Pause
  PROVE  client' = PausesTo(client) /\ Inv(client')
<1>1. client' = PausesTo(client)
  BY DEF Pause, PausesTo
<1>2. QED
  BY <1>1, PauseKeeps DEF IInv

\* The invariant is kept.
LEMMA NextKeeps ==
  ASSUME IInv, [Next]_client
  PROVE  IInv'
<1>1. CASE Next
  <2>1. CASE Steps(client, client')
    BY <2>1 DEF Steps, IInv
  <2>2. CASE Pause
    BY <2>2, StepPause DEF IInv
  <2>3. QED
    BY <1>1, <2>1, <2>2, NextSteps
<1>2. CASE UNCHANGED client
  BY <1>2 DEF IInv
<1>3. QED
  BY <1>1, <1>2

\* The client's lists, indicators and counts go together in every state between
\* two calls.
THEOREM InvariantHolds == Spec => []IInv
<1>1. Init => IInv
  BY NewKeeps DEF Init, IInv
<1>2. IInv /\ [Next]_client => IInv'
  BY NextKeeps
<1>3. QED
  BY <1>1, <1>2, PTL DEF Spec

-----------------------------------------------------------------------------
(* The lists.                                                                *)

\* An achievement has a bucket, that of the unlocked ones when it is.
LEMMA BucketIs ==
  ASSUME NEW c, NEW i, NEW recent, NEW close
  PROVE  /\ Bucket(c, i, recent, close) \in AllBuckets
         /\ Bucket(c, i, recent, close) \in {"recently_unlocked", "unsynced", "unlocked"} <=> c.achs[i].st = "unlocked"
<1> DEFINE a == c.achs[i]
           waits == c.disconnect # "hidden" /\ \E r \in c.requests : r.kind = "award" /\ r.of = a.id /\ r.at = "queued"
<1>1. CASE a.st = "disabled"
  BY <1>1 DEF Bucket, AllBuckets, SharedBuckets, SubsetBuckets
<1>2. CASE a.st = "unlocked"
  <2>1. CASE i \in recent
    BY <1>2, <2>1 DEF Bucket, AllBuckets, SharedBuckets, SubsetBuckets
  <2>2. CASE i \notin recent /\ waits
    BY <1>2, <2>2 DEF Bucket, AllBuckets, SharedBuckets, SubsetBuckets
  <2>3. CASE i \notin recent /\ ~waits
    BY <1>2, <2>3 DEF Bucket, AllBuckets, SharedBuckets, SubsetBuckets
  <2>4. QED
    BY <2>1, <2>2, <2>3
<1>3. CASE a.st \notin {"disabled", "unlocked"}
  BY <1>3 DEF Bucket, AllBuckets, SharedBuckets, SubsetBuckets
<1>4. QED
  BY <1>1, <1>2, <1>3

\* Both groupings know every bucket, and one of them adds up the unlocked ones.
LEMMA MappedBucket ==
  ASSUME NEW b \in AllBuckets
  PROVE  /\ MapBucket(b, "progress") = b
         /\ MapBucket(b, "lock_state") \in SubsetBuckets
         /\ MapBucket(b, "lock_state") = "unlocked" <=> b \in {"recently_unlocked", "unsynced", "unlocked"}
BY DEF MapBucket, AllBuckets, SharedBuckets, SubsetBuckets

\* The buckets of a list share the core achievements out.
LEMMA ListIsCore ==
  ASSUME NEW c, NEW grouping \in {"lock_state", "progress"}, NEW recent, NEW close
  PROVE  LET list == AchievementList(c, grouping, recent, close)
         IN  UNION {list[b] : b \in DOMAIN list} = Core(c)
<1> DEFINE list == AchievementList(c, grouping, recent, close)
           kinds == (IF grouping = "progress" THEN SharedBuckets ELSE {}) \cup SubsetBuckets
           at(i) == MapBucket(Bucket(c, i, recent, close), grouping)
           inside(b) == {i \in DOMAIN c.achs : c.achs[i].def.core /\ at(i) = b}
<1>1. list = [b \in {x \in kinds : inside(x) # {}} |-> inside(b)]
  BY DEF AchievementList
<1>2. ASSUME NEW i
      PROVE  at(i) \in kinds
  <2>1. Bucket(c, i, recent, close) \in AllBuckets
    BY BucketIs
  <2> DEFINE k == Bucket(c, i, recent, close)
  <2>2. k \in AllBuckets
    BY <2>1
  <2> HIDE DEF k
  <2>3. MapBucket(k, grouping) \in kinds
    BY <2>2, MappedBucket DEF AllBuckets
  <2>4. QED
    BY <2>3 DEF k
<1> HIDE DEF list, at, kinds
<1>3. ASSUME NEW b \in DOMAIN list
      PROVE  list[b] \subseteq Core(c)
  BY <1>1, <1>3 DEF Core
<1>4. ASSUME NEW i \in Core(c)
      PROVE  \E b \in DOMAIN list : i \in list[b]
  <2>1. i \in inside(at(i)) /\ at(i) \in kinds
    BY <1>2, <1>4 DEF Core
  <2>2. QED
    BY <1>1, <2>1
<1>5. UNION {list[b] : b \in DOMAIN list} = Core(c)
  BY <1>3, <1>4
<1>6. QED
  BY <1>5 DEF list

\* The unlocked ones of a list that is grouped by that.
LEMMA ListUnlocked ==
  ASSUME NEW c, NEW recent, NEW close
  PROVE  LET list == AchievementList(c, "lock_state", recent, close)
         IN  (IF "unlocked" \in DOMAIN list THEN list["unlocked"] ELSE {}) = {i \in Core(c) : c.achs[i].st = "unlocked"}
<1> DEFINE list == AchievementList(c, "lock_state", recent, close)
           at(i) == MapBucket(Bucket(c, i, recent, close), "lock_state")
           inside(b) == {i \in DOMAIN c.achs : c.achs[i].def.core /\ at(i) = b}
           u == "unlocked"
<1>1. list = [b \in {x \in SubsetBuckets : inside(x) # {}} |-> inside(b)]
  BY DEF AchievementList
<1>2. ASSUME NEW i
      PROVE  at(i) = u <=> c.achs[i].st = "unlocked"
  <2> DEFINE k == Bucket(c, i, recent, close)
  <2>1. k \in AllBuckets /\ (k \in {"recently_unlocked", "unsynced", "unlocked"} <=> c.achs[i].st = "unlocked")
    BY BucketIs
  <2> HIDE DEF k
  <2>2. MapBucket(k, "lock_state") = "unlocked" <=> c.achs[i].st = "unlocked"
    BY <2>1, MappedBucket
  <2>3. QED
    BY <2>2 DEF k
<1>3. u \in SubsetBuckets
  BY DEF SubsetBuckets
<1> HIDE DEF list, at
<1>4. inside(u) = {i \in Core(c) : c.achs[i].st = "unlocked"}
  BY <1>2 DEF Core
<1>5. (IF u \in DOMAIN list THEN list[u] ELSE {}) = inside(u)
  BY <1>1, <1>3
<1>6. QED
  BY <1>4, <1>5 DEF list

\* The summary counts the unlocked ones and those that cannot be shown as such.
LEMMA SummaryCounts ==
  ASSUME NEW c, Standing(c), ~c.setup.encore
  PROVE  Summary(c).unlocked = Cardinality({i \in Core(c) : c.achs[i].st = "unlocked"}
                                           \cup {i \in Core(c) : c.achs[i].st = "disabled" /\ Mode(c) \in c.achs[i].unlocked})
<1> DEFINE shown == {i \in Core(c) : c.achs[i].st = "unlocked"}
           never == {i \in Core(c) : c.achs[i].st = "disabled" /\ Mode(c) \in c.achs[i].unlocked}
           has == {i \in Core(c) : Mode(c) \in c.achs[i].unlocked}
<1>1. ASSUME NEW i \in DOMAIN c.achs, c.achs[i].st # "disabled"
      PROVE  c.achs[i].st = "unlocked" <=> Mode(c) \in c.achs[i].unlocked
  BY <1>1 DEF Standing
<1>2. shown \cup never = has
  BY <1>1 DEF Core
<1>3. Summary(c).unlocked = Cardinality(has)
  BY DEF Summary, Core
<1>4. QED
  BY <1>2, <1>3

\* So do the buckets of the leaderboards.
LEMMA BoardsListed ==
  ASSUME NEW c, NEW by \in {"none", "tracking"}
  PROVE  LET list == LeaderboardList(c, by)
         IN  UNION {list[b] : b \in DOMAIN list} = {j \in DOMAIN c.boards : ~c.boards[j].def.hidden}
<1> DEFINE list == LeaderboardList(c, by)
           kinds == (IF by = "tracking" THEN {"active"} ELSE {}) \cup {"all", "inactive", "unsupported"}
           seen == {j \in DOMAIN c.boards : ~c.boards[j].def.hidden}
           at(j) == BoardBucket(c.boards[j], by)
           inside(b) == {j \in DOMAIN c.boards : ~c.boards[j].def.hidden /\ at(j) = b}
<1>1. list = [b \in {x \in kinds : inside(x) # {}} |-> inside(b)]
  BY DEF LeaderboardList
<1>2. ASSUME NEW j
      PROVE  at(j) \in kinds
  BY DEF BoardBucket
<1> HIDE DEF list, at, kinds
<1>3. ASSUME NEW b \in DOMAIN list
      PROVE  list[b] \subseteq seen
  BY <1>1, <1>3
<1>4. ASSUME NEW j \in seen
      PROVE  \E b \in DOMAIN list : j \in list[b]
  <2>1. j \in inside(at(j)) /\ at(j) \in kinds
    BY <1>2, <1>4
  <2>2. QED
    BY <1>1, <2>1
<1>5. UNION {list[b] : b \in DOMAIN list} = seen
  BY <1>3, <1>4
<1>6. QED
  BY <1>5 DEF list

\* The invariant implies what is said of the lists.
LEMMA ListsAreTrue ==
  ASSUME IInv
  PROVE  ListsAgree
<1> DEFINE c == client
<1>1. Standing(c) /\ Running(c) /\ RunningBoards(c)
  BY DEF IInv, Inv, AchInv, BoardInv
<1>2. RuntimeInSync
  BY <1>1 DEF RuntimeInSync, Running, RunningBoards
<1>3. ASSUME NEW grouping \in {"lock_state", "progress"}, NEW recent \in SUBSET DOMAIN client.achs
      PROVE  LET list  == AchievementList(client, grouping, recent, {})
                 core  == {i \in DOMAIN client.achs : client.achs[i].def.core}
                 ended == IF "unlocked" \in DOMAIN list THEN list["unlocked"] ELSE {}
                 never == {i \in core : client.achs[i].st = "disabled" /\ Mode(client) \in client.achs[i].unlocked}
             IN  /\ UNION {list[b] : b \in DOMAIN list} = core
                 /\ grouping = "lock_state" /\ ~client.setup.encore =>
                      Cardinality(ended \cup never) = Summary(client).unlocked
  <2> DEFINE list  == AchievementList(client, grouping, recent, {})
             ended == IF "unlocked" \in DOMAIN list THEN list["unlocked"] ELSE {}
             never == {i \in Core(client) : client.achs[i].st = "disabled" /\ Mode(client) \in client.achs[i].unlocked}
  <2>1. UNION {list[b] : b \in DOMAIN list} = Core(client)
    BY ListIsCore
  <2>2. ASSUME grouping = "lock_state", ~client.setup.encore
        PROVE  Cardinality(ended \cup never) = Summary(client).unlocked
    <3>1. ended = {i \in Core(client) : client.achs[i].st = "unlocked"}
      BY <2>2, ListUnlocked
    <3>2. Summary(client).unlocked = Cardinality({i \in Core(client) : client.achs[i].st = "unlocked"} \cup never)
      BY <1>1, <2>2, SummaryCounts
    <3> HIDE DEF ended, never
    <3>3. QED
      BY <3>1, <3>2
  <2> HIDE DEF list
  <2>3. QED
    BY <2>1, <2>2 DEF Core, list
<1>4. \A by \in {"none", "tracking"} :
        LET boards == LeaderboardList(client, by)
        IN  UNION {boards[b] : b \in DOMAIN boards} = {j \in DOMAIN client.boards : ~client.boards[j].def.hidden}
  BY BoardsListed
<1>5. ListMatchesSummary
  BY <1>3, <1>4 DEF ListMatchesSummary
<1>6. QED
  BY <1>2, <1>5 DEF ListsAgree

\* Whatever is unlocked, disabled, switched or restored, the runtime runs the
\* achievements and leaderboards that are active, a list shows every core
\* achievement, with those unlocked that the summary counts, and the lists of
\* leaderboards those that are not hidden.
THEOREM ListsAreRight == Spec => []ListsAgree
<1>1. IInv => ListsAgree
  BY ListsAreTrue
<1>2. QED
  BY <1>1, InvariantHolds, PTL

-----------------------------------------------------------------------------
(* Hardcore.                                                                 *)

\* The invariant implies what is said of hardcore, of every step.
LEMMA FairStep ==
  ASSUME IInv, Next
  PROVE  HardcoreIsClean' /\ FramesBetweenPauses
<1>1. IInv'
  BY NextKeeps
<1>2. HardcoreIsClean'
  BY <1>1 DEF IInv, Inv, AchInv, Clean, HardcoreIsClean
<1>3. FramesBetweenPauses
  <2> SUFFICES ASSUME client.host.frames > 0, client'.host.frames = 0
               PROVE  client.host.frames >= client.required
    BY DEF FramesBetweenPauses, host
  <2>1. client.host.frames \in Nat
    BY DEF IInv, Inv, PauseInv
  <2>2. ~Steps(client, client')
    BY <2>1 DEF Steps, Counts
  <2>3. Pause
    BY <2>2, NextSteps
  <2>4. client' = PausesTo(client) /\ "pause" \in client.setup.may
    BY <2>3, StepPause DEF Pause, May
  <2>5. QED
    BY <2>4, PauseCounted DEF IInv
<1>4. QED
  BY <1>2, <1>3

\* In hardcore nothing is processed that has counted softcore frames, through
\* every switch, reset, load and restored state; and two pauses that were allowed
\* are as many frames apart as the first of them required.
THEOREM HardcoreStaysFair == Spec => HardcoreIsFair
<1>1. IInv /\ [Next]_client => [HardcoreIsClean' /\ FramesBetweenPauses]_client
  BY FairStep
<1>2. QED
  BY <1>1, InvariantHolds, PTL DEF Spec, HardcoreIsFair

-----------------------------------------------------------------------------
(* What the host is told.                                                    *)

\* A tracker of a settled client is shown as long as an attempt has it.
LEMMA ShownIsHeld ==
  ASSUME NEW c, BoardInv(c), NEW k \in DOMAIN c.trackers
  PROVE  /\ On(c, k) <=> Holders(c, k) # {}
         /\ On(c, k) => c.host.trackers[k] = c.trackers[k].raw
<1> DEFINE t == c.trackers[k]
<1>1. t.pending = {} /\ t.refs = Cardinality(Holders(c, k)) /\ Fits(t, On(c, k), c.host.trackers[k])
  BY DEF BoardInv, Tracked, FitsAt
<1>2. IsFiniteSet(Holders(c, k))
  <2>1. DOMAIN c.boards = 1 .. Len(c.boards) /\ Len(c.boards) \in Nat
    BY DEF BoardInv, Tracked, BoardTypes
  <2>2. IsFiniteSet(DOMAIN c.boards)
    BY <2>1, FS_Interval
  <2>3. QED
    BY <2>2, FS_Subset DEF Holders
<1>3. Cardinality(Holders(c, k)) \in Nat /\ (Cardinality(Holders(c, k)) = 0 <=> Holders(c, k) = {})
  BY <1>2, FS_CardinalityType, FS_EmptySet
<1> HIDE DEF t
<1>4. t.refs \in Nat /\ (t.refs = 0 <=> Holders(c, k) = {})
  BY <1>1, <1>3
<1>5. CASE t.refs = 0
  BY <1>1, <1>4, <1>5 DEF Fits
<1>6. CASE t.refs > 0
  BY <1>1, <1>4, <1>6 DEF Fits, t
<1>7. QED
  BY <1>4, <1>5, <1>6

\* The trackers that the host shows, and what they show.
LEMMA TrackersAreTrue ==
  ASSUME NEW c, BoardInv(c)
  PROVE  LET on == {j \in DOMAIN c.boards : c.boards[j].st = "tracking"}
         IN  /\ DOMAIN c.host.trackers = {c.boards[j].tracker : j \in on}
             /\ \A j \in on : c.boards[j].def.fromHits \/ c.host.trackers[c.boards[j].tracker] = c.boards[j].value
<1> DEFINE on == {j \in DOMAIN c.boards : c.boards[j].st = "tracking"}
<1>1. /\ DOMAIN c.trackers = 1 .. Len(c.trackers) /\ Len(c.trackers) \in Nat
      /\ DOMAIN c.host.trackers \subseteq DOMAIN c.trackers
  BY DEF BoardInv, Tracked, BoardTypes
<1>2. ASSUME NEW j \in DOMAIN c.boards
      PROVE  /\ c.boards[j].tracker \in 0 .. Len(c.trackers)
             /\ c.boards[j].tracker # 0 <=> c.boards[j].st = "tracking"
             /\ Valued(c, j)
  BY DEF BoardInv, Tracked, Attached
<1>3. ASSUME NEW j \in on
      PROVE  /\ c.boards[j].tracker \in DOMAIN c.host.trackers
             /\ c.boards[j].def.fromHits \/ c.host.trackers[c.boards[j].tracker] = c.boards[j].value
  <2> DEFINE k == c.boards[j].tracker
  <2>1. k \in DOMAIN c.trackers /\ j \in Holders(c, k)
    BY <1>1, <1>2, <1>3 DEF Holders
  <2>2. On(c, k) /\ c.host.trackers[k] = c.trackers[k].raw
    <3> HIDE DEF k
    <3>1. QED
      BY <2>1, ShownIsHeld
  <2>3. c.boards[j].def.fromHits \/ c.trackers[k].raw = c.boards[j].value
    BY <1>2, <1>3 DEF Valued
  <2>4. QED
    BY <2>2, <2>3 DEF On
<1>4. ASSUME NEW k \in DOMAIN c.host.trackers
      PROVE  \E j \in on : c.boards[j].tracker = k
  <2>1. k \in DOMAIN c.trackers /\ On(c, k)
    BY <1>1, <1>4 DEF On
  <2>2. PICK j \in DOMAIN c.boards : c.boards[j].tracker = k
    BY <2>1, ShownIsHeld DEF Holders
  <2>3. k # 0
    BY <1>1, <2>1
  <2>4. QED
    BY <1>2, <2>2, <2>3
<1>5. DOMAIN c.host.trackers = {c.boards[j].tracker : j \in on}
  BY <1>3, <1>4
<1>6. QED
  BY <1>3, <1>5

\* The invariant implies that what the host shows is so.
LEMMA HostIsToldNow ==
  ASSUME IInv
  PROVE  HostIsTold
<1> DEFINE c == client
<1>1. c.flags = {} /\ c.fault # "timer" /\ AchInv(c) /\ BoardInv(c) /\ ProgressInv(c) /\ ServerInv(c)
  BY DEF IInv, Inv
<1>2. ScreenIsTrue
  <2>1. /\ \A i \in DOMAIN c.achs : c.achs[i].pending = {}
        /\ c.host.challenges = {i \in DOMAIN c.achs : c.achs[i].st = "active" /\ c.achs[i].trig = "primed"}
    BY <1>1 DEF AchInv, Challenges, Wants
  <2>2. c.action = "none" /\ c.host.progress = c.timer /\ c.timer = c.hides
    BY <1>1 DEF ProgressInv
  <2>3. DOMAIN c.host.trackers = {c.boards[j].tracker : j \in Tracking}
    BY <1>1, TrackersAreTrue DEF Tracking
  <2>4. \A j \in Tracking : c.boards[j].def.fromHits \/ Shown(j) = c.boards[j].value
    BY <1>1, TrackersAreTrue DEF Tracking, Shown, host
  <2>5. QED
    BY <1>1, <2>1, <2>2, <2>3, <2>4 DEF ScreenIsTrue, host
<1>3. DisconnectTold
  <2>1. /\ host.down = (c.disconnect \in {"visible", "hiding"})
        /\ Queued(c) => c.disconnect \in {"showing", "visible"}
        /\ c.disconnect \in {"showing", "visible"} => (\E r \in c.requests : r.tries = 2) \/ "out" \in c.setup.may
    BY <1>1 DEF ServerInv, host
  <2>2. QED
    BY <2>1 DEF DisconnectTold, Queued
<1>4. QED
  BY <1>2, <1>3 DEF HostIsTold

\* What the host has been told is what is so: the challenges, trackers with their
\* values and the progress indicator that it shows are those of the game, and
\* it knows that unlocks wait for the server, whatever was loaded, unloaded,
\* switched, reset or restored and however the answers came.
THEOREM HostIsAlwaysTold == Spec => []HostIsTold
<1>1. IInv => HostIsTold
  BY HostIsToldNow
<1>2. QED
  BY <1>1, InvariantHolds, PTL

=============================================================================
