-------------------------------- MODULE RcPlay --------------------------------
(* A signed-in player and a loaded game, frame after frame: rc_client_do_frame *)
(* and everything the host calls between two frames, with the server's answers *)
(* and the scheduled calls arriving whenever they like. client is rc_client_t, *)
(* with, in client.host, what the events have told the host so far.            *)
(*                                                                           *)
(* setup.may are the calls the host of that setup makes: toggle (hardcore),    *)
(* save (progress), pause, out (sign out), reload, fail (the server).          *)
EXTENDS RcSubmit

CONSTANTS Setups,       \* the games and settings to play
          MaxLoads,     \* how often the game is loaded
          MaxRequests,  \* no frame runs while this many requests are open
          MinFrames, DecayMultiplier, MaxFrames  \* the pause delay: 20, 4 and 300 frames

VARIABLE client

AchDefs == [core : BOOLEAN, valid : BOOLEAN, target : Nat, percent : BOOLEAN, values : SUBSET Nat]
BoardDefs == [group : STRING, fromHits : BOOLEAN, valid : BOOLEAN, hidden : BOOLEAN]
HostCalls == {"toggle", "save", "pause", "out", "reload", "fail"}

ASSUME SetupsAssumption ==
  \A s \in Setups :
    /\ s.achs \in Seq(AchDefs) /\ s.boards \in Seq(BoardDefs)
    /\ s.hardcore \in BOOLEAN /\ s.encore \in BOOLEAN /\ s.softBoards \in BOOLEAN /\ s.unofficial \in BOOLEAN
    /\ \A j, k \in DOMAIN s.boards :
         s.boards[j].group = s.boards[k].group => s.boards[j].fromHits = s.boards[k].fromHits
    /\ s.had \subseteq (1..Len(s.achs)) \X BOOLEAN /\ s.may \subseteq HostCalls
ASSUME ValuesAssumption == Values \subseteq Nat
ASSUME PauseAssumption == /\ MinFrames \in Nat \ {0} /\ MaxFrames \in Nat /\ MinFrames <= MaxFrames
                          /\ DecayMultiplier \in Nat \ {0, 1}

NewHost == [challenges |-> {}, trackers |-> [k \in {} |-> 0], progress |-> FALSE, down |-> FALSE,
            resets |-> FALSE, owed |-> {}, refused |-> {}, completed |-> 0, frames |-> MaxFrames * DecayMultiplier]

\* rc_client_create, and a user who has signed in.
NewClient(setup) ==
  [setup |-> setup, hardcore |-> setup.hardcore, signed |-> TRUE, hides |-> FALSE, requests |-> {},
   disconnect |-> "hidden", load |-> 0, decay |-> 0, required |-> MinFrames,
   server |-> setup.had, host |-> NewHost, fault |-> "none",
   achs |-> <<>>, boards |-> <<>>, trackers |-> <<>>, lead |-> NoLead, timer |-> FALSE,
   action |-> "none", flags |-> {}, running |-> {}, runningBoards |-> {}, loaded |-> FALSE,
   waiting |-> FALSE, mastery |-> "none"]

-----------------------------------------------------------------------------
(* Events                                                                     *)

\* Mutant of RaiseAchievementEvents: an unlock leaves the list as it was.
RaiseKeepsRunning(c, i) ==
  LET p == c.achs[i].pending
      d == IF "triggered" \in p THEN AwardAchievement(c, i) ELSE c
      e == CASE "hide" \in p -> Tell(d, <<"challenge_hide", i>>)
             [] "hide" \notin p /\ "show" \in p -> Tell(d, <<"challenge_show", i>>)
             [] OTHER -> d
  IN  [e EXCEPT !.achs[i] = [e.achs[i] EXCEPT !.pending = {}]]

\* rc_client_raise_achievement_events, one achievement.
RaiseAchievementEvents(c, i) ==
  LET p == c.achs[i].pending
      d == IF "triggered" \in p THEN [AwardAchievement(c, i) EXCEPT !.flags = @ \cup {"update_active"}] ELSE c
      e == CASE "hide" \in p -> Tell(d, <<"challenge_hide", i>>)
             [] "hide" \notin p /\ "show" \in p -> Tell(d, <<"challenge_show", i>>)
             [] OTHER -> d
      f == IF "triggered" \in p THEN Tell(e, <<"triggered", i>>) ELSE e
  IN  [f EXCEPT !.achs[i] = [f.achs[i] EXCEPT !.pending = {}]]

\* rc_client_raise_leaderboard_events, one leaderboard.
RaiseLeaderboardEvents(c, j) ==
  LET p == c.boards[j].pending
      d == IF p = "submitted" THEN SubmitEntry(c, j) ELSE c
      e == Tell(d, <<p, j>>)
  IN  IF p = "none" THEN c ELSE [e EXCEPT !.boards[j] = [e.boards[j] EXCEPT !.pending = "none"]]

\* rc_client_raise_mastery_event compares with the first set of the client's game.
RaiseMasteryEvent(c) ==
  IF c.loaded THEN Tell([c EXCEPT !.mastery = "shown"], <<"completed">>) ELSE [c EXCEPT !.fault = "mastery"]

\* The stages of rc_client_raise_pending_events, each if the flags of c ask for it.
RaiseAchievements(c, d) ==
  IF "achievement" \in c.flags THEN After(RaiseAchievementEvents, d, Len(c.achs)) ELSE d
RaiseLeaderboards(c, d) == IF "board" \in c.flags THEN After(RaiseLeaderboardEvents, d, Len(c.boards)) ELSE d
RaiseMastery(d)         == IF d.mastery = "pending" THEN RaiseMasteryEvent(d) ELSE d
RaiseProgress(c, d)     == IF "progress" \in c.flags THEN RaiseProgressTrackerEvents(d) ELSE d
RaiseLists(d)           == IF "update_active" \in d.flags THEN UpdateActiveAchievements(d) ELSE d

RaisePendingEvents(c) ==
  LET tracked  == IF "tracker" \in c.flags THEN RaiseTrackerEvents(c) ELSE c
      scored   == RaiseLeaderboards(c, RaiseAchievements(c, tracked))
      progress == RaiseProgress(c, RaiseMastery(scored))
  IN  [RaiseLists(progress) EXCEPT !.flags = {}]

-----------------------------------------------------------------------------
(* The calls of the host                                                      *)

\* A frame wears the pause delay down; a penalty goes by halves.
PauseDecay(c) ==
  LET half == IF c.required \div 2 <= MinFrames THEN MinFrames ELSE c.required \div 2
  IN  IF c.decay = 0 THEN c
      ELSE IF c.decay > 1 \/ c.required <= MinFrames THEN [c EXCEPT !.decay = @ - 1]
      ELSE [c EXCEPT !.required = half, !.decay = half * (DecayMultiplier - 1) - 1]

\* What can be due: the hide timer, which is 0 here, and the queued requests.
Scheduled(c) == (IF c.hides THEN {0} ELSE {}) \cup {r.id : r \in {q \in c.requests : q.at = "queued"}}

\* The request n, if it waits for its next try.
RetryDue(c, n) ==
  IF \E r \in c.requests : r.id = n /\ r.at = "queued"
  THEN Retry(c, CHOOSE r \in c.requests : r.id = n /\ r.at = "queued") ELSE c

\* rc_client_idle, with due the callbacks whose time has come.
Idle(c, due) ==
  LET timed == IF 0 \in due THEN ProgressTimerElapsed([c EXCEPT !.hides = FALSE]) ELSE c
      tried == IF due = {} THEN timed
               ELSE After(LAMBDA d, n : IF n \in due THEN RetryDue(d, n) ELSE d, timed, Max(due))
  IN  RaiseDisconnectEvents(tried)

\* rc_client_do_frame, with os and bs what the triggers and leaderboards do. No
\* address is invalidated in it: at load every reference has answered a read of one
\* byte, and the host answers each read below $10000 in full, so that only a
\* reference that reaches across $FFFF could fail here (rc_client_update_memref_values).
\* Such references are outside Setups.
DoFrame(c, os, bs, due) ==
  LET start  == [c EXCEPT !.flags = {}, !.lead = NoLead]
      achs   == After(LAMBDA d, i : ProcessAchievement(d, i, os[i]), start, Len(c.achs))
      shown  == IF "progress" \in achs.flags THEN UpdateProgressTracker(achs) ELSE achs
      boards == IF BoardsAllowed(c) THEN After(LAMBDA d, j : ProcessBoard(d, j, bs[j]), shown, Len(c.boards)) ELSE shown
      played == IF c.loaded /\ ~c.waiting THEN RaisePendingEvents(boards) ELSE c
  IN  Idle(PauseDecay(played), due)

\* rc_client_reset
DoReset(c) ==
  LET d == HideProgressTracker([c EXCEPT !.waiting = FALSE, !.flags = {}])
  IN  IF c.loaded THEN RaisePendingEvents(ResetLeaderboards(ResetAchievements(d))) ELSE c

\* rc_client_game_mark_ui_to_be_hidden
MarkUiToBeHidden(c) ==
  LET primed == {i \in DOMAIN c.achs : c.achs[i].st = "active" /\ c.achs[i].trig = "primed"}
      marked == [c EXCEPT !.achs = [i \in DOMAIN @ |-> IF i \in primed THEN [c.achs[i] EXCEPT !.pending = @ \cup {"hide"}]
                                                       ELSE c.achs[i]],
                          !.flags = IF primed # {} THEN @ \cup {"achievement"} ELSE @]
  IN  HideProgressTracker(After(LetGo, marked, Len(c.boards)))

NotLoaded(c) ==
  [c EXCEPT !.achs = <<>>, !.boards = <<>>, !.trackers = <<>>, !.lead = NoLead, !.timer = FALSE, !.action = "none",
            !.flags = {}, !.running = {}, !.runningBoards = {}, !.loaded = FALSE, !.waiting = FALSE, !.mastery = "none"]

\* rc_client_unload_game: the events are raised when the client has no game.
Unload(c) ==
  LET d == RaisePendingEvents([MarkUiToBeHidden(c) EXCEPT !.loaded = FALSE])
  IN  IF c.loaded THEN NotLoaded(d) ELSE c

\* rc_client_activate_game, for a game the server has told the user's unlocks of.
Load(c) ==
  LET d == [c EXCEPT !.achs = CopyAchievements(c.setup), !.boards = CopyLeaderboards(c.setup), !.loaded = TRUE,
                     !.load = @ + 1]
  IN  ActivateLeaderboards(ActivateAchievements(
        InvalidateMemrefLeaderboards(InvalidateMemrefAchievements(ApplyUnlocks(d)))))

\* rc_client_logout
SignOut(c) == [Unload(c) EXCEPT !.signed = FALSE]

\* Mutant of EnableHardcore: the game goes on without a reset.
EnableHardcoreGoesOn(c) ==
  LET d == [c EXCEPT !.hardcore = TRUE]
  IN  IF c.loaded THEN Tell(ActivateLeaderboards(ToggleHardcoreAchievements(d, "hard")), <<"reset">>) ELSE d

\* rc_client_enable_hardcore: nothing is processed until the host has reset.
EnableHardcore(c) ==
  LET d == [c EXCEPT !.hardcore = TRUE]
  IN  IF c.loaded
      THEN Tell([ActivateLeaderboards(ToggleHardcoreAchievements(d, "hard")) EXCEPT !.waiting = TRUE], <<"reset">>)
      ELSE d

\* rc_client_disable_hardcore
DisableHardcore(c) ==
  LET d == [c EXCEPT !.hardcore = FALSE]
      e == ToggleHardcoreAchievements(d, "soft")
  IN  IF c.loaded THEN RaisePendingEvents(IF c.setup.softBoards THEN e ELSE DeactivateLeaderboards(e)) ELSE d

SetHardcore(c, enabled) ==
  IF c.hardcore = enabled THEN c ELSE IF enabled THEN EnableHardcore(c) ELSE DisableHardcore(c)

\* rc_client_can_pause: often pausing makes the next wait longer.
CanPause(c) ==
  CASE ~c.hardcore \/ c.decay = c.required * DecayMultiplier -> [yes |-> TRUE, c |-> c]
    [] c.hardcore /\ c.decay > c.required * (DecayMultiplier - 1) /\ c.decay # c.required * DecayMultiplier ->
         [yes |-> FALSE, c |-> c]
    [] OTHER -> LET r == IF c.decay > 0 /\ c.required < MaxFrames THEN c.required + MinFrames ELSE c.required
                IN  [yes |-> TRUE, c |-> [c EXCEPT !.required = r, !.decay = r * DecayMultiplier]]

-----------------------------------------------------------------------------
(* Progress saved with a save state                                           *)

\* rc_client_subset_before_deserialize_progress
BeforeDeserialize(c) ==
  LET primed   == {i \in DOMAIN c.achs : c.achs[i].st = "active" /\ c.achs[i].trig = "primed"}
      tracking == {j \in DOMAIN c.boards : c.boards[j].st = "tracking" /\ c.boards[j].lboard = "started"}
  IN  [c EXCEPT !.achs = [i \in DOMAIN @ |-> IF i \in primed THEN [c.achs[i] EXCEPT !.pending = @ \cup {"hide"}]
                                             ELSE c.achs[i]],
                !.boards = [j \in DOMAIN @ |-> IF j \in tracking THEN [c.boards[j] EXCEPT !.pending = "failed"]
                                               ELSE c.boards[j]],
                !.flags = (IF primed # {} THEN {"achievement"} ELSE {}) \cup (IF tracking # {} THEN {"board"} ELSE {})]

\* rc_client_subset_after_deserialize_progress: a challenge that is still primed
\* stays as it is shown, one that has become primed is shown.
AfterDeserializeAch(c, i) ==
  LET a == c.achs[i]
  IN  IF a.st # "active" \/ a.trig # "primed" THEN c
      ELSE IF "hide" \in a.pending THEN [c EXCEPT !.achs[i] = [a EXCEPT !.pending = @ \ {"hide"}]]
      ELSE [c EXCEPT !.achs[i] = [a EXCEPT !.pending = @ \cup {"show"}], !.flags = @ \cup {"achievement"}]

\* The leaderboards of the same function: nothing is said of an attempt that ends.
AfterDeserializeBoard(c, j) ==
  LET b    == c.boards[j]
      was  == b.pending = "failed"
      over == [c EXCEPT !.boards[j] = [b EXCEPT !.pending = "none", !.st = "active"]]
      runs == [c EXCEPT !.boards[j] = [b EXCEPT !.pending = "none", !.st = "tracking"]]
  IN  CASE b.st \in {"inactive", "disabled"} -> c
        [] b.st \notin {"inactive", "disabled"} /\ b.lboard = "started" ->
             IF was THEN UpdateTracker(runs, j) ELSE AllocateTracker(runs, j)
        [] OTHER -> IF was THEN ReleaseTracker(over, j) ELSE c

\* What rc_runtime_deserialize_progress may leave in a trigger and in a
\* leaderboard that the runtime runs.
SavedTriggers(c, i) ==
  IF i \notin c.running THEN {[trig |-> c.achs[i].trig, measured |-> c.achs[i].measured]}
  ELSE {[trig |-> t, measured |-> m] : t \in {"waiting", "active", "primed"},
                                       m \in IF c.achs[i].def.target = 0 THEN {0} ELSE c.achs[i].def.values}
SavedBoards(c, j) ==
  IF j \notin c.runningBoards THEN {[lboard |-> c.boards[j].lboard, value |-> c.boards[j].value]}
  ELSE {[lboard |-> s, value |-> c.boards[j].value] : s \in {"waiting", "active"}}
       \cup {[lboard |-> "started", value |-> v] : v \in Values}

Restored(c, ts, bs) ==
  [c EXCEPT !.achs = [i \in DOMAIN @ |-> IF i \in c.running
                        THEN [c.achs[i] EXCEPT !.trig = ts[i].trig, !.measured = ts[i].measured, !.soft = ~c.hardcore]
                        ELSE c.achs[i]],
            !.boards = [j \in DOMAIN @ |-> IF c.boards[j].st \in {"active", "tracking"} /\ bs[j].lboard = "started"
                        THEN [c.boards[j] EXCEPT !.lboard = "started", !.value = bs[j].value]
                        ELSE [c.boards[j] EXCEPT !.lboard = bs[j].lboard]]]

\* rc_client_deserialize_progress; without any, or with one that is no good, the
\* game starts over.
LoadProgress(c, good, ts, bs) ==
  LET d == HideProgressTracker(BeforeDeserialize(c))
      e == IF good THEN Restored(d, ts, bs) ELSE ResetLeaderboards(ResetAchievements(d))
      f == After(AfterDeserializeAch, e, Len(c.achs))
  IN  RaisePendingEvents(After(AfterDeserializeBoard, f, Len(c.boards)))

-----------------------------------------------------------------------------
(* What the host does *)

host == client.host

Init == \E s \in Setups : client = NewClient(s)

May(what) == client.fault = "none" /\ what \in client.setup.may

\* One choice out of every set S(i).
Each(n, S(_)) == {f \in [1..n -> UNION {S(i) : i \in 1..n}] : \A i \in 1..n : f[i] \in S(i)}

FrameOf(a) == IF a.st = "active" THEN TriggerOutcomes(a, a.def) ELSE {[trig |-> a.trig, measured |-> a.measured]}
FrameOfBoard(b) == IF b.st \in {"active", "tracking"} THEN LboardOutcomes(b.lboard)
                   ELSE {[lboard |-> b.lboard, result |-> "inactive", value |-> b.value]}

\* Attempts of one group measure the same memory, or have counted the same hits
\* since they began to share a tracker.
Measures(c, bs) ==
  \A j, k \in DOMAIN bs :
    (/\ c.boards[j].def.group = c.boards[k].def.group
     /\ {bs[j].result, bs[k].result} \subseteq {"started", "triggered"}
     /\ c.boards[j].def.fromHits => c.boards[j].tracker = c.boards[k].tracker /\ c.boards[j].tracker # 0)
    => bs[j].value = bs[k].value

\* The host counts the frames since it was allowed to pause, as far as it matters.
Counted(c) ==
  IF "pause" \in c.setup.may /\ c.host.frames < MaxFrames * DecayMultiplier
  THEN [c EXCEPT !.host = [@ EXCEPT !.frames = c.host.frames + 1]] ELSE c

Frame(due) ==
  /\ client.fault = "none" /\ Cardinality(client.requests) < MaxRequests
  /\ \E os \in IF client.loaded /\ ~client.waiting
                THEN Each(Len(client.achs), LAMBDA i : FrameOf(client.achs[i])) ELSE {<<>>},
        bs \in IF client.loaded /\ ~client.waiting /\ BoardsAllowed(client)
                THEN Each(Len(client.boards), LAMBDA j : FrameOfBoard(client.boards[j])) ELSE {<<>>} :
        /\ Measures(client, bs)
        /\ client' = Counted(DoFrame(client, os, bs, due))

\* The emulator is paused and the host calls rc_client_idle.
IdleOnly(due) == client.fault = "none" /\ client' = Idle(client, due)

Answer(r, result, reached) ==
  /\ client.fault = "none" /\ r.at = "sent"
  /\ result = "ok" \/ May("fail")
  /\ reached => result = "failed" /\ r.kind = "award"
  /\ client' = IF r.kind = "award" THEN AwardCallback(client, r, result, reached) ELSE SubmitCallback(client, r, result)

Reset == client.fault = "none" /\ client.loaded /\ client' = DoReset(client)

UnloadGame == May("reload") /\ client.loaded /\ client' = Unload(client)

LoadGame == /\ client.fault = "none" /\ client.signed /\ ~client.loaded /\ client.load < MaxLoads
            /\ client' = Load(client)

Logout == May("out") /\ client.signed /\ client' = SignOut(client)
Login == May("out") /\ ~client.signed /\ client' = [client EXCEPT !.signed = TRUE]

Toggle == May("toggle") /\ client' = SetHardcore(client, ~client.hardcore)

\* A state was saved after a frame: attempts that measure the same have one value.
Saved(c, bs) ==
  \A j, k \in c.runningBoards :
    (c.boards[j].def.group = c.boards[k].def.group /\ ~c.boards[j].def.fromHits
     /\ {bs[j].lboard, bs[k].lboard} = {"started"}) => bs[j].value = bs[k].value

\* A state that was saved in softcore is not loaded in hardcore.
Deserialize ==
  /\ May("save") /\ client.loaded /\ ~(client.hardcore /\ May("toggle"))
  /\ \E good \in BOOLEAN, ts \in Each(Len(client.achs), LAMBDA i : SavedTriggers(client, i)),
        bs \in Each(Len(client.boards), LAMBDA j : SavedBoards(client, j)) :
        Saved(client, bs) /\ client' = LoadProgress(client, good, ts, bs)

\* The host asks before it pauses. In softcore it always may.
Pause ==
  LET p == CanPause(client)
  IN  /\ May("pause")
      /\ client' = IF p.yes /\ client.hardcore THEN [p.c EXCEPT !.host = [@ EXCEPT !.frames = 0]] ELSE p.c

Next == \/ \E due \in SUBSET Scheduled(client) : Frame(due) \/ IdleOnly(due)
        \/ \E r \in client.requests, result \in {"ok", "refused", "failed"}, reached \in BOOLEAN : Answer(r, result, reached)
        \/ Reset \/ UnloadGame \/ LoadGame \/ Logout \/ Login \/ Toggle \/ Deserialize \/ Pause

-----------------------------------------------------------------------------
(* Properties *)

Ok == client.fault = "none"
Tracking == {j \in DOMAIN client.boards : client.boards[j].st = "tracking"}
Shown(j) == host.trackers[client.boards[j].tracker]

\* What the host shows is what is going on, whatever was loaded, unloaded,
\* switched or restored: the challenge indicators are those of the active
\* achievements that are primed, the trackers are those of the attempts that
\* run, with their value, and the progress indicator has its timer, which never
\* runs out when the game is gone. Nothing is left to be told. (Attempts that
\* count hits: see SharedValue.)
ScreenIsTrue ==
  /\ client.fault # "timer"
  /\ client.flags = {} /\ client.action = "none"
  /\ \A i \in DOMAIN client.achs : client.achs[i].pending = {}
  /\ Ok => /\ host.challenges =
                 {i \in DOMAIN client.achs : client.achs[i].st = "active" /\ client.achs[i].trig = "primed"}
           /\ DOMAIN host.trackers = {client.boards[j].tracker : j \in Tracking}
           /\ \A j \in Tracking : client.boards[j].def.fromHits \/ Shown(j) = client.boards[j].value
           /\ host.progress = client.timer /\ client.timer = client.hides

\* The host knows of a request that waits for its next try at the latest after
\* the next call, and is not left with the warning when nothing that has failed
\* twice is open any more. (A retry without a user is given up unnoticed.)
DisconnectTold ==
  Ok => /\ host.down = (client.disconnect \in {"visible", "hiding"})
        /\ (\E r \in client.requests : r.at = "queued") => client.disconnect \in {"showing", "visible"}
        /\ client.disconnect \in {"showing", "visible"} =>
             (\E r \in client.requests : r.tries = 2) \/ "out" \in client.setup.may

\* What the player is shown of the game and of the connection is so.
HostIsTold == ScreenIsTrue /\ DisconnectTold

\* rc_client_allocate_leaderboard_tracker says that attempts which count hits
\* and may have begun in different frames do not share a tracker: a tracker has
\* the value of every attempt that it stands for.
SharedValue == Ok => \A j \in Tracking : Shown(j) = client.boards[j].value

Award(r) == r.kind = "award"
\* The unlocks the server was asked to note in this step, for the first time.
Asked == {<<r.of, r.hard, r.load>> : r \in {q \in client'.requests : Award(q) /\ q.tries = 0 /\ q \notin client.requests}}

\* An unlock is on its way to the server until the server has it or has refused
\* it and the host was told so; only a retry that comes while nobody is signed
\* in gives it up.
UnlockKept ==
  /\ \A r \in client.requests : Award(r) =>
       \/ \E q \in client'.requests : Award(q) /\ q.of = r.of /\ q.hard = r.hard /\ q.load = r.load
       \/ <<r.of, r.hard>> \in client'.server \/ <<r.of, r.hard>> \in host'.refused
       \/ ~client.signed \/ client'.fault # "none"
  /\ \A i \in DOMAIN client.achs \cap DOMAIN client'.achs :
       (client.achs[i].st = "active" /\ client'.achs[i].trig = "triggered" /\ client.hardcore = client'.hardcore
        /\ client.load = client'.load /\ client.achs[i].def.core)
       => <<client.achs[i].id, client.hardcore, client.load>> \in Asked

\* In one load of a game the server is asked for an unlock once, and not for a
\* softcore unlock after the hardcore one, however often the mode is changed in
\* between; unless the player wants to have them again.
AwardedOnce ==
  client.setup.encore \/ \A u \in Asked : u \notin host.owed /\ <<u[1], TRUE, u[3]>> \notin host.owed

\* A game is announced as completed once for each time it is loaded, and only
\* when the server has all its core achievements, although the last unlocks may
\* be answered in any order and more than once.
MasteryOnce ==
  /\ host.completed <= client.load
  /\ host.completed > 0 => Remaining(client, client.server, TRUE) = {} \/ Remaining(client, client.server, FALSE) = {}

\* In no order of answers, retries, mode switches and reloads is an unlock lost,
\* asked for twice or the game announced as completed too early or again.
UnlocksCountOnce == [][UnlockKept /\ AwardedOnce /\ MasteryOnce']_client

\* The lists that the runtime saves and restores are those of the achievements
\* and leaderboards that are running, although they are made anew only when
\* something says that they have to be.
RuntimeInSync ==
  Ok => /\ client.running = {i \in DOMAIN client.achs : client.achs[i].st = "active"}
        /\ client.runningBoards = {j \in DOMAIN client.boards : client.boards[j].st \in {"active", "tracking"}}

\* rc_client.h says of RECONNECTED that all pending unlocks have been completed.
ReconnectedIsTrue ==
  [][host.down /\ ~host'.down => \A r \in client'.requests : r.tries < 2]_client

\* A list shows every core achievement, however it is grouped, and has those
\* unlocked that the summary of the game counts, whatever waits for the server;
\* the leaderboards that are not hidden are listed too, in any state.
ListMatchesSummary ==
  \A grouping \in {"lock_state", "progress"}, recent \in SUBSET DOMAIN client.achs :
    LET list  == AchievementList(client, grouping, recent, {})
        core  == {i \in DOMAIN client.achs : client.achs[i].def.core}
        ended == IF "unlocked" \in DOMAIN list THEN list["unlocked"] ELSE {}
        never == {i \in core : client.achs[i].st = "disabled" /\ Mode(client) \in client.achs[i].unlocked}
    IN  Ok => /\ UNION {list[b] : b \in DOMAIN list} = core
              /\ grouping = "lock_state" /\ ~client.setup.encore =>
                   Cardinality(ended \cup never) = Summary(client).unlocked
              /\ \A by \in {"none", "tracking"} :
                   LET boards == LeaderboardList(client, by)
                   IN  UNION {boards[b] : b \in DOMAIN boards} = {j \in DOMAIN client.boards : ~client.boards[j].def.hidden}

\* Every list that is made of the achievements and leaderboards of the game has
\* those that belong in it.
ListsAgree == RuntimeInSync /\ ListMatchesSummary

\* In hardcore no trigger goes on with what it has counted in softcore frames:
\* until the reset that the switch asks for, nothing is processed.
HardcoreIsClean ==
  client.hardcore /\ ~client.waiting => \A i \in DOMAIN client.achs : client.achs[i].st = "active" => ~client.achs[i].soft

\* A player who was allowed to pause is allowed to pause again only after the
\* frames that were required then, more of them the more often it happens.
FramesBetweenPauses == host.frames > 0 /\ host'.frames = 0 => host.frames >= client.required

\* Hardcore gives no advantage away: nothing counted in softcore goes into it,
\* and pausing again and again does not slow the game down.
HardcoreIsFair == [][HardcoreIsClean' /\ FramesBetweenPauses]_client

\* The call of the game crashes nothing: where it is used, it is there.
NoFault == client.fault = "none"

\* A request that waits for its next try is sent again.
RetrySent ==
  \A n \in 1..MaxRequests :
    (\E r \in client.requests : r.id = n /\ r.at = "queued") ~> (~Ok \/ ~\E r \in client.requests : r.id = n /\ r.at = "queued")

\* The emulator thread keeps calling do_frame or idle, and time passes: a
\* request that waits for its next try is due in the end.
Waits == \E r \in client.requests : r.at = "queued"
Spec == Init /\ [][Next]_client
             /\ WF_client(Waits /\ (IdleOnly(Scheduled(client)) \/ Frame(Scheduled(client))))
===============================================================================
