---------------------------- MODULE RcPlayStates ----------------------------
(* What holds of the client of RcPlay between two calls of the host (Inv, and *)
(* IInv of the variable), what holds inside a call while news are still to be *)
(* announced (Pending), and what the steps in between change. RcPlay_proofs   *)
(* proves them of the code's functions.                                      *)
(*                                                                           *)
(* The parts of the client are taken one at a time: what a step does to one   *)
(* of them is said of that part alone (OnlyAch, OnlyBoard, OnlyServer,        *)
(* OnlyProgress, OnlyPause), and Leaves says which of the others it keeps.    *)
(* Runs is a loop over achievements, leaderboards, trackers or requests, and  *)
(* Step is one turn of it.                                                   *)
EXTENDS RcPlay

-----------------------------------------------------------------------------
(* The shape of a client, and the parts of it that go together.              *)

Fields == {"setup", "hardcore", "signed", "hides", "requests", "disconnect", "load", "decay", "required",
           "server", "host", "fault", "achs", "boards", "trackers", "lead", "timer", "action", "flags",
           "running", "runningBoards", "loaded", "waiting", "mastery"}
HostFields == {"challenges", "trackers", "progress", "down", "resets", "owed", "refused", "completed", "frames"}

Shape(c) == c = [x \in Fields |-> c[x]] /\ c.host = [x \in HostFields |-> c.host[x]]

AchPart(c)      == <<c.achs, c.running, c.host.challenges>>
BoardPart(c)    == <<c.boards, c.trackers, c.runningBoards, c.host.trackers>>
ProgressPart(c) == <<c.timer, c.action, c.hides, c.host.progress>>
ServerPart(c)   == <<c.requests, c.disconnect, c.host.down>>
PausePart(c)    == <<c.decay, c.required, c.host.frames>>
ModePart(c)     == <<c.setup, c.hardcore, c.signed, c.load, c.loaded, c.waiting>>

-----------------------------------------------------------------------------
(* Types.                                                                    *)

Achievements == [id : Nat, def : AchDefs, st : {"inactive", "active", "unlocked", "disabled"},
                 unlocked : SUBSET {"hard", "soft"},
                 trig : {"waiting", "active", "paused", "primed", "triggered", "disabled"}, soft : BOOLEAN,
                 measured : Int, pending : SUBSET {"hide", "show", "triggered", "update"}]

Boards == [def : BoardDefs, st : {"inactive", "active", "tracking", "disabled"},
           lboard : {"waiting", "active", "started", "canceled", "triggered", "disabled"},
           value : Nat, tracker : Nat, pending : {"none", "started", "failed", "submitted"}]

Trackers == [refs : Nat, group : STRING, fromHits : BOOLEAN, raw : Nat, pending : SUBSET {"show", "hide", "update"},
             display : Nat]

Requests == [id : Nat \ {0}, kind : {"award", "submit"}, of : Nat, hard : BOOLEAN, load : Nat, tries : 0 .. 2,
             at : {"sent", "queued"}]

-----------------------------------------------------------------------------
(* The invariant between two calls.                                          *)

\* An achievement whose challenge is on.
Wants(a) == a.st = "active" /\ a.trig = "primed"

\* What is loaded: an achievement is unlocked when the player has it.
Standing(c) ==
  ~c.setup.encore => \A i \in DOMAIN c.achs :
    c.achs[i].st # "disabled" => (c.achs[i].st = "unlocked" <=> Mode(c) \in c.achs[i].unlocked)

Running(c) == c.running = {i \in DOMAIN c.achs : c.achs[i].st = "active"}

Clean(c) == c.hardcore /\ ~c.waiting => \A i \in DOMAIN c.achs : c.achs[i].st = "active" => ~c.achs[i].soft

Challenges(c) == /\ \A i \in DOMAIN c.achs : c.achs[i].pending = {}
                 /\ c.host.challenges = {i \in DOMAIN c.achs : Wants(c.achs[i])}

AchInv(c) == c.achs \in Seq(Achievements) /\ Standing(c) /\ Running(c) /\ Clean(c) /\ Challenges(c)

\* The boards that tracker k stands for.
Holders(c, k) == {j \in DOMAIN c.boards : c.boards[j].tracker = k}

\* Of a tracker t, and whether it is shown, and if so what it shows.
Fits(t, on, shown) ==
  /\ "show" \in t.pending => ~on
  /\ t.refs > 0 => "hide" \notin t.pending /\ (on \/ "show" \in t.pending)
  /\ t.refs = 0 => ("hide" \in t.pending <=> on \/ "show" \in t.pending) /\ (t.pending = {} \/ "hide" \in t.pending)
  /\ t.refs > 0 /\ on /\ "update" \notin t.pending => shown = t.raw

On(c, k) == k \in DOMAIN c.host.trackers
FitsAt(c, k) == Fits(c.trackers[k], On(c, k), c.host.trackers[k])

BoardTypes(c) ==
  /\ c.boards \in Seq(Boards) /\ c.trackers \in Seq(Trackers)
  /\ \A i, j \in DOMAIN c.boards :
       c.boards[i].def.group = c.boards[j].def.group => c.boards[i].def.fromHits = c.boards[j].def.fromHits

\* What holds of the trackers at any time.
Tracked(c) ==
  /\ BoardTypes(c)
  /\ c.host.trackers = [k \in DOMAIN c.host.trackers |-> c.host.trackers[k]]
  /\ DOMAIN c.host.trackers \subseteq DOMAIN c.trackers
  /\ \A j \in DOMAIN c.boards : c.boards[j].tracker \in 0 .. Len(c.trackers)
  /\ \A k \in DOMAIN c.trackers : c.trackers[k].refs = Cardinality(Holders(c, k)) /\ FitsAt(c, k)
  /\ \A j \in DOMAIN c.boards : c.boards[j].tracker # 0 =>
       /\ c.trackers[c.boards[j].tracker].group = c.boards[j].def.group
       /\ c.trackers[c.boards[j].tracker].fromHits = c.boards[j].def.fromHits

\* The news of the trackers are announced.
Announced(c) == \A k \in DOMAIN c.trackers : c.trackers[k].pending # {} => "tracker" \in c.flags

\* A board has a tracker while it is tracked.
Attached(b) == /\ b.tracker # 0 <=> b.st = "tracking"
               /\ b.st \in {"active", "tracking"} => (b.st = "tracking" <=> b.lboard = "started")

\* The tracker of board j has its value.
Valued(c, j) == c.boards[j].st = "tracking" /\ ~c.boards[j].def.fromHits
                => c.trackers[c.boards[j].tracker].raw = c.boards[j].value

RunningBoards(c) == c.runningBoards = {j \in DOMAIN c.boards : c.boards[j].st \in {"active", "tracking"}}

BoardInv(c) == /\ Tracked(c) /\ RunningBoards(c)
               /\ \A k \in DOMAIN c.trackers : c.trackers[k].pending = {}
               /\ \A j \in DOMAIN c.boards : Attached(c.boards[j]) /\ Valued(c, j) /\ c.boards[j].pending = "none"

ProgressInv(c) == c.timer \in BOOLEAN /\ c.action = "none" /\ c.host.progress = c.timer /\ c.hides = c.timer /\ (c.timer => c.loaded)

Queued(c) == \E r \in c.requests : r.at = "queued"

\* What holds of the requests at any time.
ServerInv(c) ==
  /\ c.requests \subseteq Requests /\ IsFiniteSet(c.requests)
  /\ \A q, r \in c.requests : q.id = r.id => q = r
  /\ \A r \in c.requests : r.at = "queued" => r.tries = 2
  /\ c.disconnect \in {"hidden", "showing", "visible", "hiding"}
  /\ c.host.down = (c.disconnect \in {"visible", "hiding"})
  /\ Queued(c) => c.disconnect \in {"showing", "visible"}
  /\ c.disconnect \in {"showing", "visible"} => (\E r \in c.requests : r.tries = 2) \/ "out" \in c.setup.may
  /\ ~c.signed => "out" \in c.setup.may

\* The frames that are counted wear the delay down.
PauseInv(c) ==
  /\ c.decay \in Nat /\ c.host.frames \in Nat
  /\ c.required \in MinFrames .. (MaxFrames * DecayMultiplier) /\ c.required < MaxFrames + MinFrames
  /\ c.decay <= c.required * DecayMultiplier
  /\ "pause" \in c.setup.may =>
       /\ c.decay <= c.required * (DecayMultiplier - 1) => c.host.frames >= c.required
       /\ c.decay > c.required * (DecayMultiplier - 1) => c.host.frames >= c.required * DecayMultiplier - c.decay
       /\ c.decay = c.required * DecayMultiplier => c.host.frames = 0

ModeInv(c) ==
  /\ c.setup \in Setups /\ c.hardcore \in BOOLEAN /\ c.signed \in BOOLEAN /\ c.load \in Nat
  /\ c.loaded \in BOOLEAN /\ c.waiting \in BOOLEAN
  /\ ~c.loaded => c.achs = <<>> /\ c.boards = <<>> /\ c.trackers = <<>> /\ ~c.waiting

Inv(c) == /\ Shape(c) /\ c.flags = {} /\ c.fault # "timer"
          /\ ModeInv(c) /\ AchInv(c) /\ BoardInv(c) /\ ProgressInv(c) /\ ServerInv(c) /\ PauseInv(c)

\* Between two calls of the host (nes_ra.c) nothing is left to announce, and what
\* the client keeps more than once agrees: an achievement's state with the
\* unlocks of the mode, the runtime's list and the challenges shown; a tracker's
\* references with the leaderboards that hold it, and its value and display with
\* theirs; the indicator with its timer; the requests that wait for a retry with
\* the warning; the pause delay with the frames counted.
IInv == Inv(client)

-----------------------------------------------------------------------------
(* What a step of a loop leaves.                                             *)

AchSteps    == {"toggle", "process", "reset", "raise", "restored"}
BoardSteps  == {"tracker", "let_go", "deactivate", "reset_board", "process_board", "raise_board", "restored_board"}
ServerSteps == {"raise", "raise_board", "retry"}

Step(w, c, k) ==
  CASE w[1] = "copy" -> CopyAchievement(c, k, w[2])
    [] w[1] = "toggle" -> ToggleAchievement(c, k, w[2])
    [] w[1] = "process" -> ProcessAchievement(c, k, w[2][k])
    [] w[1] = "reset" -> ResetAchievement(c, k)
    [] w[1] = "raise" -> RaiseAchievementEvents(c, k)
    [] w[1] = "restored" -> AfterDeserializeAch(c, k)
    [] w[1] = "tracker" -> RaiseTracker(c, k)
    [] w[1] = "let_go" -> LetGo(c, k)
    [] w[1] = "deactivate" -> DeactivateBoard(c, k)
    [] w[1] = "reset_board" -> ResetBoard(c, k)
    [] w[1] = "process_board" -> ProcessBoard(c, k, w[2][k])
    [] w[1] = "raise_board" -> RaiseLeaderboardEvents(c, k)
    [] w[1] = "restored_board" -> AfterDeserializeBoard(c, k)
    [] OTHER -> IF k \in w[2] THEN RetryDue(c, k) ELSE c

\* The steps that only change boards and trackers.
TrackerSteps == BoardSteps \ (ServerSteps \cup {"tracker"})

\* The news that a step may have.
NewFlags(s) ==
  CASE s = "process" -> {"progress", "achievement"}
    [] s \in {"reset", "restored"} -> {"achievement"}
    [] s = "raise" -> {"update_active"}
    [] s \in TrackerSteps -> {"tracker", "board"}
    [] OTHER -> {}

\* What a step of kind s leaves of c in d.
Leaves(s, c, d) ==
  /\ Shape(d) /\ ProgressPart(d) = ProgressPart(c) /\ ModePart(d) = ModePart(c) /\ PausePart(d) = PausePart(c)
  /\ c.flags \subseteq d.flags /\ d.flags \subseteq c.flags \cup NewFlags(s) /\ d.fault = c.fault
  /\ s \notin AchSteps => AchPart(d) = AchPart(c)
  /\ s \notin BoardSteps => BoardPart(d) = BoardPart(c)
  /\ s \notin ServerSteps => ServerPart(d) = ServerPart(c)

\* What raising the events of board j leaves in d.
BoardRaised(c, j, d) ==
  /\ Leaves("raise_board", c, d) /\ d.trackers = c.trackers /\ d.runningBoards = c.runningBoards
  /\ d.host.trackers = c.host.trackers /\ d.flags = c.flags
  /\ d.boards = IF c.boards[j].pending = "none" THEN c.boards
                ELSE [c.boards EXCEPT ![j] = [c.boards[j] EXCEPT !.pending = "none"]]

-----------------------------------------------------------------------------
(* The loops.                                                                *)

\* g is what there is after each of the first n steps.
Runs(g, w, c, n) == g = [k \in 0 .. n |-> IF k = 0 THEN c ELSE Step(w, g[k - 1], k)]

\* A loop, by its steps.
Ran(w, c, n, d) == \E g : Runs(g, w, c, n) /\ d = g[n]

Toggling(c, bit, n) == After(LAMBDA x, k : ToggleAchievement(x, k, bit), c, n)

Processing(c, os, n) == After(LAMBDA x, k : ProcessAchievement(x, k, os[k]), c, n)

ProcessingBoards(c, os, n) == After(LAMBDA x, k : ProcessBoard(x, k, os[k]), c, n)

Retrying(c, due, n) == After(LAMBDA x, k : IF k \in due THEN RetryDue(x, k) ELSE x, c, n)

Copying(c, setup, n) == After(LAMBDA x, k : CopyAchievement(x, k, setup), c, n)

-----------------------------------------------------------------------------
(* The loops over the achievements: each step changes one of them.           *)

\* The challenge of achievement i is on.
Lit(c, i) == i \in c.host.challenges

IsAFunction(f) == f = [l \in DOMAIN f |-> f[l]]

\* From c to d only achievement i changes.
OnlyAch(c, d, i) ==
  /\ DOMAIN d.achs = DOMAIN c.achs
  /\ \A l \in DOMAIN c.achs : l # i => d.achs[l] = c.achs[l]
  /\ \A l : l # i => (Lit(d, l) <=> Lit(c, l))
  /\ IsAFunction(c.achs) => IsAFunction(d.achs)
  /\ d.running = c.running

\* What evaluating the trigger of achievement i makes of it in d.
ProcessedAch(c, i, o, d) ==
  LET a     == c.achs[i]
      leads == NewLead(c, i, o)
      news  == (IF leads THEN {"update"} ELSE {}) \cup (IF o.trig # a.trig THEN Turned(a.trig, o.trig) ELSE {})
  IN  /\ OnlyAch(c, d, i) /\ (Lit(d, i) <=> Lit(c, i))
      /\ i \in DOMAIN c.achs => d.achs[i] = IF a.st # "active" THEN a ELSE
             [a EXCEPT !.trig = o.trig, !.measured = o.measured, !.soft = a.soft \/ ~c.hardcore, !.pending = a.pending \cup news]
      /\ a.st = "active" /\ (leads \/ o.trig # a.trig) => "achievement" \in d.flags

\* What the reset makes of achievement i in d.
ResetAch(c, i, d) ==
  LET a    == c.achs[i]
      news == IF a.trig = "primed" THEN {"hide"} ELSE {}
  IN  /\ OnlyAch(c, d, i) /\ (Lit(d, i) <=> Lit(c, i))
      /\ i \in DOMAIN c.achs => d.achs[i] = IF a.st # "active" THEN a ELSE [Restarted(a) EXCEPT !.pending = @ \cup news]
      /\ a.st = "active" /\ a.trig = "primed" => "achievement" \in d.flags

\* What looking at the restored achievement i makes of it in d.
RestoredAch(c, i, d) ==
  LET a == c.achs[i]
  IN  /\ OnlyAch(c, d, i) /\ (Lit(d, i) <=> Lit(c, i))
      /\ i \in DOMAIN c.achs => d.achs[i] = IF ~Wants(a) THEN a
                               ELSE IF "hide" \in a.pending THEN [a EXCEPT !.pending = a.pending \ {"hide"}]
                               ELSE [a EXCEPT !.pending = a.pending \cup {"show"}]
      /\ Wants(a) /\ "hide" \notin a.pending => "achievement" \in d.flags

\* What an achievement is once its events are raised.
Raised(a, hard) ==
  IF "triggered" \in a.pending
  THEN [a EXCEPT !.st = "unlocked", !.unlocked = IF hard THEN {"hard", "soft"} ELSE a.unlocked \cup {"soft"}, !.pending = {}]
  ELSE [a EXCEPT !.pending = {}]

\* Whether its challenge is shown then, when it is shown now or not.
RaisedLit(a, lit) == "hide" \notin a.pending /\ (lit \/ "show" \in a.pending)

\* A loop over the achievements comes to the i-th of them as it was, and leaves
\* it as the i-th step has made it. d is what there is in the end.
AchLooped(w, c, g, d) ==
  /\ \A i \in 1 .. Len(c.achs) :
       /\ g[i] = Step(w, g[i - 1], i) /\ Shape(g[i - 1]) /\ Leaves(w[1], c, g[i - 1]) /\ Leaves(w[1], g[i], d)
       /\ g[i - 1].achs[i] = c.achs[i] /\ (Lit(g[i - 1], i) <=> Lit(c, i))
       /\ d.achs[i] = g[i].achs[i] /\ (Lit(d, i) <=> Lit(g[i], i)) /\ i \in DOMAIN g[i - 1].achs
  /\ DOMAIN d.achs = DOMAIN c.achs /\ IsAFunction(d.achs) /\ d.running = c.running
  /\ \A i : i \notin 1 .. Len(c.achs) => (Lit(d, i) <=> Lit(c, i))
  /\ Leaves(w[1], c, d) /\ g[0] = c /\ d = g[Len(c.achs)]

-----------------------------------------------------------------------------
(* What whole passes over the achievements do.                               *)

\* A step that leaves everything but the achievements and the flags.
LeavesRest(c, d) ==
  /\ Shape(d) /\ ProgressPart(d) = ProgressPart(c) /\ ModePart(d) = ModePart(c) /\ PausePart(d) = PausePart(c)
  /\ BoardPart(d) = BoardPart(c) /\ ServerPart(d) = ServerPart(c) /\ d.fault = c.fault

\* The achievements between the passes of a call: their news are such that
\* raising them shows the challenges that are on, and are announced.
Due(c) ==
  /\ c.achs \in Seq(Achievements) /\ Standing(c) /\ Running(c) /\ Clean(c)
  /\ \A i \in DOMAIN c.achs : /\ RaisedLit(c.achs[i], Lit(c, i)) <=> Wants(c.achs[i])
                              /\ "triggered" \in c.achs[i].pending => c.achs[i].trig = "triggered"
                              /\ c.achs[i].pending # {} => "achievement" \in c.flags
  /\ c.host.challenges \subseteq DOMAIN c.achs

\* The challenges that are shown are to be hidden, before they are looked at
\* again.
Held(c) ==
  /\ c.achs \in Seq(Achievements) /\ Standing(c) /\ Running(c)
  /\ \A i \in DOMAIN c.achs : /\ c.achs[i].pending = IF Lit(c, i) THEN {"hide"} ELSE {}
                              /\ Lit(c, i) => c.achs[i].st = "active"
                              /\ c.achs[i].pending # {} => "achievement" \in c.flags
  /\ c.host.challenges \subseteq DOMAIN c.achs

\* What raising the events of a leaves in b.
RaisedFrom(a, b, hard) ==
  /\ b \in Achievements /\ b.pending = {} /\ b.trig = a.trig /\ b.soft = a.soft
  /\ "triggered" \notin a.pending => b.st = a.st /\ b.unlocked = a.unlocked
  /\ "triggered" \in a.pending => /\ b.st = "unlocked"
                                  /\ hard => "hard" \in b.unlocked
                                  /\ ~hard => "soft" \in b.unlocked

\* The achievements before a reset: what is shown is on, and perhaps to be hidden.
Ready(c) ==
  /\ c.achs \in Seq(Achievements) /\ Standing(c) /\ Running(c)
  /\ \A i \in DOMAIN c.achs : /\ c.achs[i].pending \subseteq {"hide"} /\ (Lit(c, i) <=> Wants(c.achs[i]))
                              /\ c.achs[i].pending # {} => "achievement" \in c.flags /\ Lit(c, i)
  /\ c.host.challenges \subseteq DOMAIN c.achs

\* Every challenge that is on is to be hidden.
Marked(c, d) ==
  /\ d.achs \in Seq(Achievements) /\ DOMAIN d.achs = DOMAIN c.achs
  /\ \A i \in DOMAIN c.achs : d.achs[i] = IF Wants(c.achs[i]) THEN [c.achs[i] EXCEPT !.pending = {"hide"}] ELSE c.achs[i]
  /\ (\E i \in DOMAIN c.achs : Wants(c.achs[i])) => "achievement" \in d.flags
  /\ d.host.challenges = c.host.challenges /\ d.running = c.running

\* An achievement that has just been read, or is not for this console.
Blank(a) == a \in Achievements /\ a.st \in {"inactive", "disabled"} /\ a.pending = {} /\ ~a.soft

-----------------------------------------------------------------------------
(* Raising what is pending, stage by stage.                                   *)

RaisedTrackers(c) == IF "tracker" \in c.flags THEN After(RaiseTracker, c, Len(c.trackers)) ELSE c
RaisedAchs(c) ==
  IF "achievement" \in c.flags THEN After(RaiseAchievementEvents, RaisedTrackers(c), Len(c.achs)) ELSE RaisedTrackers(c)
RaisedBoards(c) ==
  IF "board" \in c.flags THEN After(RaiseLeaderboardEvents, RaisedAchs(c), Len(c.boards)) ELSE RaisedAchs(c)
RaisedMastery(c) == IF RaisedBoards(c).mastery = "pending" THEN RaiseMasteryEvent(RaisedBoards(c)) ELSE RaisedBoards(c)
RaisedProgress(c) == IF "progress" \in c.flags THEN RaiseProgressTrackerEvents(RaisedMastery(c)) ELSE RaisedMastery(c)
RaisedLists(c) ==
  IF "update_active" \in RaisedProgress(c).flags THEN UpdateActiveAchievements(RaisedProgress(c)) ELSE RaisedProgress(c)

\* Tracker l is in d what it is in c, and so is what the host shows of it.
SameTracker(c, d, l) ==
  d.trackers[l] = c.trackers[l] /\ (On(d, l) <=> On(c, l)) /\ (On(c, l) => d.host.trackers[l] = c.host.trackers[l])

\* What the host shows of tracker l in d is what the tracker of c stands for.
ShownAsIs(c, d, l) ==
  /\ d.trackers[l] \in Trackers /\ d.trackers[l].pending = {}
  /\ d.trackers[l].refs = c.trackers[l].refs /\ d.trackers[l].group = c.trackers[l].group
  /\ d.trackers[l].fromHits = c.trackers[l].fromHits /\ d.trackers[l].raw = c.trackers[l].raw
  /\ On(d, l) <=> c.trackers[l].refs > 0
  /\ On(d, l) => d.host.trackers[l] = c.trackers[l].raw

\* Of the trackers that the host shows, only tracker k has changed from h to g;
\* it is on, with value v, when n is positive.
HostShows(h, g, k, n, v) ==
  /\ IsAFunction(g.trackers)
  /\ k \in DOMAIN g.trackers <=> n > 0
  /\ n > 0 => g.trackers[k] = v
  /\ \A l : l # k => (l \in DOMAIN g.trackers <=> l \in DOMAIN h.trackers)
                     /\ (l \in DOMAIN h.trackers => g.trackers[l] = h.trackers[l])

\* What raising the events of tracker k leaves in d.
TrackerRaised(c, k, d) ==
  /\ Leaves("tracker", c, d) /\ d.boards = c.boards /\ d.runningBoards = c.runningBoards
  /\ DOMAIN d.trackers = DOMAIN c.trackers /\ IsAFunction(d.trackers) /\ IsAFunction(d.host.trackers)
  /\ \A l : l # k => SameTracker(c, d, l)
  /\ ShownAsIs(c, d, k)

\* All the parts are the same.
SameParts(c, d) ==
  /\ Shape(d) /\ ModePart(d) = ModePart(c) /\ PausePart(d) = PausePart(c) /\ AchPart(d) = AchPart(c)
  /\ BoardPart(d) = BoardPart(c) /\ ProgressPart(d) = ProgressPart(c) /\ ServerPart(d) = ServerPart(c)

\* Only the progress indicator and the action on it are other than before.
OnlyProgress(c, d) ==
  /\ Shape(d) /\ ModePart(d) = ModePart(c) /\ PausePart(d) = PausePart(c) /\ AchPart(d) = AchPart(c)
  /\ BoardPart(d) = BoardPart(c) /\ ServerPart(d) = ServerPart(c)

\* What is needed to raise the events of c.
Raisable(c) == Shape(c) /\ c.hardcore \in BOOLEAN /\ c.achs \in Seq(Achievements) /\ Tracked(c) /\ Announced(c)

\* The leaderboards between the passes of a call.
BoardsDue(c) ==
  /\ Tracked(c) /\ Announced(c) /\ RunningBoards(c)
  /\ \A j \in DOMAIN c.boards : /\ Attached(c.boards[j]) /\ Valued(c, j)
                                /\ c.boards[j].pending # "none" => "board" \in c.flags

\* What is left of the boards after raising: everything but what was pending.
Quieted(c, d) ==
  /\ DOMAIN d.boards = DOMAIN c.boards /\ d.runningBoards = c.runningBoards
  /\ \A j \in DOMAIN c.boards : \/ d.boards[j] = c.boards[j] /\ "board" \notin c.flags
                                \/ d.boards[j] = [c.boards[j] EXCEPT !.pending = "none"]

\* The progress indicator between the passes of a call.
ProgressDue(c) ==
  /\ c.timer \in BOOLEAN /\ c.hides = c.timer /\ (c.timer => c.loaded)
  /\ c.action # "none" => "progress" \in c.flags
  /\ "progress" \in c.flags => c.action # "none"
  /\ c.action = "none" => c.host.progress = c.timer
  /\ c.action # "none" => c.timer = (c.action # "hide")

-----------------------------------------------------------------------------
(* The requests.                                                             *)

\* Only the requests, and what the host knows of the connection, are other than before.
OnlyServer(c, d) ==
  /\ Shape(d) /\ ModePart(d) = ModePart(c) /\ PausePart(d) = PausePart(c) /\ AchPart(d) = AchPart(c)
  /\ BoardPart(d) = BoardPart(c) /\ ProgressPart(d) = ProgressPart(c) /\ d.flags = c.flags

\* What the requests are like when one of them has just been settled.
Requested(c) ==
  /\ c.requests \subseteq Requests /\ IsFiniteSet(c.requests)
  /\ \A q, r \in c.requests : q.id = r.id => q = r
  /\ \A r \in c.requests : r.at = "queued" => r.tries = 2
  /\ c.disconnect \in {"hidden", "showing", "visible", "hiding"}
  /\ c.host.down = (c.disconnect \in {"visible", "hiding"})
  /\ ~c.signed => "out" \in c.setup.may

\* What the requests depend on is the same.
SameRequests(c, d) == ServerPart(d) = ServerPart(c) /\ ModePart(d) = ModePart(c) /\ Shape(d)

Counting(c) == c.hardcore \in BOOLEAN /\ c.load \in Nat

-----------------------------------------------------------------------------
(* The trackers.                                                             *)

\* What is kept of the trackers that the other boards have, when board j comes
\* to measure v.
RawsFrom(c, d, j, v) ==
  \A i \in DOMAIN c.boards : i # j /\ c.boards[i].tracker # 0 =>
    \/ d.trackers[c.boards[i].tracker].raw = c.trackers[c.boards[i].tracker].raw
    \/ c.boards[i].def.group = c.boards[j].def.group /\ d.trackers[c.boards[i].tracker].raw = v

\* From c to d only board j changes, and the trackers.
OnlyBoard(c, d, j, v) ==
  /\ Shape(d) /\ Tracked(d) /\ Announced(d) /\ d.runningBoards = c.runningBoards /\ c.flags \subseteq d.flags
  /\ DOMAIN d.boards = DOMAIN c.boards /\ d.boards[j].def = c.boards[j].def
  /\ \A i \in DOMAIN c.boards : i # j => d.boards[i] = c.boards[i]
  /\ RawsFrom(c, d, j, v)

\* What has to be seen to when board j and the trackers are replaced.
Refits(c, d, j, b) ==
  /\ Shape(d) /\ d.host = c.host /\ d.boards = [c.boards EXCEPT ![j] = b] /\ b.def = c.boards[j].def
  /\ d.trackers \in Seq(Trackers) /\ DOMAIN c.trackers \subseteq DOMAIN d.trackers
  /\ b.tracker # 0 => /\ b.tracker \in DOMAIN d.trackers
                      /\ d.trackers[b.tracker].group = b.def.group /\ d.trackers[b.tracker].fromHits = b.def.fromHits
  /\ \A i \in DOMAIN c.boards : i # j /\ c.boards[i].tracker # 0 =>
       /\ d.trackers[c.boards[i].tracker].group = c.trackers[c.boards[i].tracker].group
       /\ d.trackers[c.boards[i].tracker].fromHits = c.trackers[c.boards[i].tracker].fromHits
  /\ \A k \in DOMAIN d.trackers : d.trackers[k].refs = Cardinality(Holders(d, k)) /\ FitsAt(d, k)

BoardSet(c, j, b, f, d) == d = [c EXCEPT !.boards[j] = b, !.flags = f]

\* The boards that tracker k stands for when board j comes to have tracker n.
HoldersWith(c, j, n, k) == {i \in DOMAIN c.boards : IF i = j THEN n = k ELSE c.boards[i].tracker = k}

\* Tracker k is replaced by t when board j is replaced by b.
Replaces(c, j, b, k, t, f, d) ==
  /\ Shape(d) /\ d.host = c.host /\ d.runningBoards = c.runningBoards /\ d.flags = f
  /\ d.boards = [c.boards EXCEPT ![j] = b] /\ d.trackers = [c.trackers EXCEPT ![k] = t]

\* Board b and tracker t can take the places of board j and tracker k, and the
\* other boards of tracker k then measure v.
Suits(c, j, b, k, t, v) ==
  /\ b \in Boards /\ b.def = c.boards[j].def /\ t \in Trackers
  /\ c.boards[j].tracker \in {0, k} /\ b.tracker \in {0, k}
  /\ b.tracker = k => t.group = b.def.group /\ t.fromHits = b.def.fromHits
  /\ \A i \in DOMAIN c.boards : i # j /\ c.boards[i].tracker = k =>
       /\ t.group = c.trackers[k].group /\ t.fromHits = c.trackers[k].fromHits
       /\ t.raw = c.trackers[k].raw \/ (c.boards[i].def.group = c.boards[j].def.group /\ t.raw = v)
  /\ t.refs = Cardinality(HoldersWith(c, j, b.tracker, k))
  /\ Fits(t, On(c, k), c.host.trackers[k])

\* What board j is in d when it has let go of its tracker.
Released(c, j, d) ==
  /\ d.boards[j] = [c.boards[j] EXCEPT !.tracker = 0]
  /\ \A k \in DOMAIN c.trackers : d.trackers[k].raw = c.trackers[k].raw

\* Board j is in d what it is in c, and its tracker has its value.
Updated(c, j, d) ==
  /\ d.boards[j] = c.boards[j]
  /\ c.boards[j].tracker # 0 => d.trackers[c.boards[j].tracker].raw = c.boards[j].value

\* Board j has a tracker with its value in d.
Allocated(c, j, d) ==
  \E k \in DOMAIN d.trackers :
    d.boards[j] = [c.boards[j] EXCEPT !.tracker = k] /\ k # 0 /\ d.trackers[k].raw = c.boards[j].value

\* A tracker for board j that has just been made.
NewTracker(b) == [refs |-> 1, group |-> b.def.group, fromHits |-> b.def.fromHits, raw |-> b.value, pending |-> {"show"}, display |-> 0]

-----------------------------------------------------------------------------
(* The loops over the leaderboards.                                          *)

\* Boards of a value that is measured, whatever else.
LetGoOf(b) == IF b.st = "tracking" THEN [b EXCEPT !.tracker = 0] ELSE b

\* What becomes of a board that stops.
Quiet(s, b) ==
  CASE s = "let_go" -> LetGoOf(b)
    [] s = "deactivate" -> IF b.st = "disabled" THEN b ELSE [LetGoOf(b) EXCEPT !.st = "inactive"]
    [] s = "reset_board" -> IF b.st \in {"inactive", "disabled"} THEN b
                            ELSE [LetGoOf(b) EXCEPT !.lboard = "waiting", !.st = "active"]

InPlay(b) == b.st \in {"active", "tracking"}

\* What a frame has made of board j of c in x, os being what has been measured.
BoardProcessed(c, os, x, j) ==
  /\ Attached(x.boards[j]) /\ Valued(x, j) /\ (x.boards[j].pending # "none" => "board" \in x.flags)
  /\ InPlay(x.boards[j]) <=> InPlay(c.boards[j])
  /\ x.boards[j].st = "tracking" => os[j].result = "started" /\ x.boards[j].value = os[j].value

\* What is made of board j when its state has been restored in c.
BoardRestored(c, x, j) ==
  /\ Attached(x.boards[j]) /\ Valued(x, j) /\ x.boards[j].pending = "none"
  /\ InPlay(x.boards[j]) <=> InPlay(c.boards[j])
  /\ x.boards[j].st = "tracking" => InPlay(c.boards[j]) /\ c.boards[j].lboard = "started" /\ x.boards[j].value = c.boards[j].value

\* What step j of a loop that comes from c has made of it in x.
BoardDone(w, c, x, j) ==
  CASE w[1] = "process_board" -> BoardProcessed(c, w[2], x, j)
    [] w[1] = "restored_board" -> BoardRestored(c, x, j)
    [] OTHER -> x.boards[j] = Quiet(w[1], c.boards[j])

\* What a loop needs of c.
BoardLoopNeeds(w, c) ==
  /\ w[1] \in {"let_go", "deactivate", "reset_board", "process_board", "restored_board"}
  /\ w[1] = "process_board" =>
       /\ \A j \in DOMAIN c.boards : /\ Attached(c.boards[j]) /\ c.boards[j].pending = "none"
                                     /\ w[2][j] \in FrameOfBoard(c.boards[j])
       /\ \A i, j \in DOMAIN c.boards :
            c.boards[i].def.group = c.boards[j].def.group /\ ~c.boards[j].def.fromHits
            /\ {w[2][i].result, w[2][j].result} \subseteq {"started", "triggered"} => w[2][i].value = w[2][j].value
  /\ w[1] = "restored_board" =>
       /\ \A j \in DOMAIN c.boards :
            IF InPlay(c.boards[j])
            THEN IF c.boards[j].pending = "failed" THEN c.boards[j].lboard = "started" => c.boards[j].tracker # 0
                 ELSE c.boards[j].pending = "none" /\ c.boards[j].st = "active" /\ c.boards[j].tracker = 0
            ELSE c.boards[j].tracker = 0 /\ c.boards[j].pending = "none"
       /\ \A i, j \in DOMAIN c.boards :
            c.boards[i].def.group = c.boards[j].def.group /\ ~c.boards[j].def.fromHits
            /\ InPlay(c.boards[i]) /\ InPlay(c.boards[j])
            /\ {c.boards[i].lboard, c.boards[j].lboard} = {"started"} => c.boards[i].value = c.boards[j].value

\* What there is after the first n steps.
Reached(w, c, x, n) ==
  /\ Leaves(w[1], c, x) /\ Tracked(x) /\ Announced(x) /\ x.runningBoards = c.runningBoards
  /\ DOMAIN x.boards = DOMAIN c.boards
  /\ \A j \in DOMAIN c.boards : x.boards[j].def = c.boards[j].def /\ (j > n => x.boards[j] = c.boards[j])

RawsSame(x, d) == \A k \in DOMAIN x.trackers : d.trackers[k].raw = x.trackers[k].raw

\* Step j of the loop, from x to d: what it does to board j, and to the values
\* of the trackers.
BoardMoves(w, c, x, d, j) ==
  /\ BoardDone(w, c, d, j)
  /\ CASE w[1] = "process_board" -> /\ OnlyBoard(x, d, j, w[2][j].value)
                                    /\ w[2][j].result \in {"started", "triggered"} \/ RawsSame(x, d)
       [] w[1] = "restored_board" -> /\ OnlyBoard(x, d, j, c.boards[j].value)
                                     /\ (InPlay(c.boards[j]) /\ c.boards[j].lboard = "started") \/ RawsSame(x, d)
       [] OTHER -> OnlyBoard(x, d, j, 0)

LboardStates == {"waiting", "active", "started", "canceled", "triggered", "disabled"}

\* The four ways on from a board that has been replaced: with a value, if it
\* has none before; with the value it comes to have; and without.
SetAllocated(x, j, b, f, d, e) ==
  /\ OnlyBoard(x, e, j, b.value) /\ Allocated(d, j, e) /\ d.boards[j] = b /\ f \subseteq e.flags
  /\ Shape(e) /\ Tracked(e) /\ Announced(e) /\ j \in DOMAIN e.boards

SetUpdated(x, j, b, f, e) ==
  /\ OnlyBoard(x, e, j, b.value) /\ e.boards[j] = b /\ f \subseteq e.flags
  /\ b.tracker # 0 => e.trackers[b.tracker].raw = b.value

SetReleased(x, j, b, f, v, e) ==
  OnlyBoard(x, e, j, v) /\ e.boards[j] = [b EXCEPT !.tracker = 0] /\ f \subseteq e.flags /\ RawsSame(x, e)

-----------------------------------------------------------------------------
(* All that is left of a call is to raise what is pending.                   *)

Pending(c) ==
  /\ Shape(c) /\ c.fault # "timer" /\ c.loaded
  /\ ModeInv(c) /\ PauseInv(c) /\ ServerInv(c) /\ Due(c) /\ BoardsDue(c) /\ ProgressDue(c)

-----------------------------------------------------------------------------
(* The calls that only let the time pass.                                    *)

\* All that holds between two calls but for the delay of the pauses.
Steady(c) == /\ Shape(c) /\ c.flags = {} /\ c.fault # "timer"
             /\ ModeInv(c) /\ AchInv(c) /\ BoardInv(c) /\ ProgressInv(c) /\ ServerInv(c)

Timed(c, due) == IF 0 \in due THEN ProgressTimerElapsed([c EXCEPT !.hides = FALSE]) ELSE c
Tried(c, due) == IF due = {} THEN Timed(c, due) ELSE Retrying(Timed(c, due), due, Max(due))

-----------------------------------------------------------------------------
(* The delay of the pauses.                                                  *)

\* The delay q of the r frames required when f have been counted, as far as they are.
PauseCount(q, r, f) ==
  /\ q <= r * (DecayMultiplier - 1) => f >= r
  /\ q > r * (DecayMultiplier - 1) => f >= r * DecayMultiplier - q
  /\ q = r * DecayMultiplier => f = 0
PauseBounds(q, r, f) ==
  /\ q \in Nat /\ f \in Nat
  /\ r \in MinFrames .. (MaxFrames * DecayMultiplier) /\ r < MaxFrames + MinFrames
  /\ q <= r * DecayMultiplier

\* What a frame makes of the delay.
DelayWorn(c, d) ==
  /\ d.decay = PauseDecay(c).decay /\ d.required = PauseDecay(c).required /\ d.setup = c.setup
  /\ d.host.frames = IF "pause" \in c.setup.may /\ c.host.frames < MaxFrames * DecayMultiplier THEN c.host.frames + 1 ELSE c.host.frames

-----------------------------------------------------------------------------
(* A frame.                                                                  *)

FrameStart(c) == [c EXCEPT !.flags = {}, !.lead = NoLead]
FrameAchs(c, os) == Processing(FrameStart(c), os, Len(c.achs))
FrameShown(c, os) ==
  IF "progress" \in FrameAchs(c, os).flags THEN UpdateProgressTracker(FrameAchs(c, os)) ELSE FrameAchs(c, os)
FrameBoards(c, os, bs) ==
  IF BoardsAllowed(c) THEN ProcessingBoards(FrameShown(c, os), bs, Len(c.boards)) ELSE FrameShown(c, os)

\* What the triggers and leaderboards may do in a frame.
FrameChoice(c, os, bs) ==
  /\ \A i \in DOMAIN c.achs : os[i] \in FrameOf(c.achs[i])
  /\ BoardsAllowed(c) =>
       /\ \A j \in DOMAIN c.boards : bs[j] \in FrameOfBoard(c.boards[j])
       /\ \A i, j \in DOMAIN c.boards :
            c.boards[i].def.group = c.boards[j].def.group /\ ~c.boards[j].def.fromHits
            /\ {bs[i].result, bs[j].result} \subseteq {"started", "triggered"} => bs[i].value = bs[j].value

\* What the achievements make of a frame.
FrameUpToAchs(c, d) ==
  /\ Shape(d) /\ ModePart(d) = ModePart(c) /\ PausePart(d) = PausePart(c) /\ BoardPart(d) = BoardPart(c)
  /\ ServerPart(d) = ServerPart(c) /\ d.fault = c.fault /\ Due(d)

-----------------------------------------------------------------------------
(* The frames, and the pauses between them.                                  *)

\* Only the delay of the pauses is other than before.
OnlyPause(c, d) ==
  /\ Shape(d) /\ ModePart(d) = ModePart(c) /\ AchPart(d) = AchPart(c) /\ BoardPart(d) = BoardPart(c)
  /\ ProgressPart(d) = ProgressPart(c) /\ ServerPart(d) = ServerPart(c) /\ d.flags = c.flags /\ d.fault = c.fault

DelaySet(c, q, r, d) == d = [c EXCEPT !.required = r, !.decay = q]

Played(c, os, bs) == IF c.loaded /\ ~c.waiting THEN RaisePendingEvents(FrameBoards(c, os, bs)) ELSE c

\* The next state of c is good too, and nothing is counted.
GoesOn(c, d) == Inv(d) /\ d.host.frames = c.host.frames

\* What the pause that is asked for costs.
PausesTo(c) == IF CanPause(c).yes /\ c.hardcore THEN [CanPause(c).c EXCEPT !.host = [@ EXCEPT !.frames = 0]] ELSE CanPause(c).c

-----------------------------------------------------------------------------
(* A game starts over.                                                       *)

\* All that is left is to see to the leaderboards, and to raise what is pending.
AlmostPending(c) ==
  /\ Shape(c) /\ c.fault # "timer" /\ c.loaded /\ ModeInv(c) /\ PauseInv(c) /\ ServerInv(c) /\ Due(c) /\ ProgressDue(c)

-----------------------------------------------------------------------------
(* The mode is switched.                                                     *)

\* All that holds of the leaderboards but for the list of those that run.
Sound(c) == /\ Tracked(c) /\ \A k \in DOMAIN c.trackers : c.trackers[k].pending = {}
            /\ \A j \in DOMAIN c.boards : Attached(c.boards[j]) /\ Valued(c, j) /\ c.boards[j].pending = "none"

\* The leaderboards are other ones, with the trackers they had.
BoardsSet(c, s, d) == d = [c EXCEPT !.boards = s]
SetBoards(c, s, d) ==
  /\ Shape(d) /\ ModePart(d) = ModePart(c) /\ PausePart(d) = PausePart(c) /\ AchPart(d) = AchPart(c)
  /\ ProgressPart(d) = ProgressPart(c) /\ ServerPart(d) = ServerPart(c) /\ d.flags = c.flags /\ d.fault = c.fault
  /\ d.boards = s /\ d.trackers = c.trackers /\ d.host = c.host

\* What is the same of board j after it was replaced.
SameBut(b, a) == a \in Boards /\ a.def = b.def /\ a.tracker = b.tracker

\* Nothing but the mode is other than before.
ModeSet(c, h, d) == d = [c EXCEPT !.hardcore = h]
OnlyMode(c, h, d) ==
  /\ Shape(d) /\ PausePart(d) = PausePart(c) /\ AchPart(d) = AchPart(c) /\ BoardPart(d) = BoardPart(c)
  /\ ProgressPart(d) = ProgressPart(c) /\ ServerPart(d) = ServerPart(c) /\ d.flags = c.flags /\ d.fault = c.fault
  /\ d.setup = c.setup /\ d.hardcore = h /\ d.signed = c.signed /\ d.load = c.load /\ d.loaded = c.loaded /\ d.waiting = c.waiting
  /\ d.achs = c.achs /\ d.boards = c.boards /\ d.trackers = c.trackers /\ d.timer = c.timer /\ d.action = c.action /\ d.hides = c.hides
  /\ d.requests = c.requests /\ d.disconnect = c.disconnect /\ d.host = c.host /\ d.running = c.running

-----------------------------------------------------------------------------
(* The game is unloaded.                                                     *)

\* The achievements of c whose challenge is on are to be hidden.
MarkedAchs(c, s) ==
  s = [i \in DOMAIN c.achs |-> IF i \in {k \in DOMAIN c.achs : c.achs[k].st = "active" /\ c.achs[k].trig = "primed"}
                               THEN [c.achs[i] EXCEPT !.pending = @ \cup {"hide"}] ELSE c.achs[i]]

\* The achievements are marked, and that is announced.
AchsMarked(c, s, f, d) == d = [c EXCEPT !.achs = s, !.flags = f]

\* What there is just before the game is gone.
Parting(c) ==
  /\ Shape(c) /\ c.fault # "timer" /\ Raisable(c) /\ PauseInv(c) /\ ServerInv(c) /\ ProgressDue(c) /\ c.timer = FALSE
  /\ c.setup \in Setups /\ c.hardcore \in BOOLEAN /\ c.signed \in BOOLEAN /\ c.load \in Nat
  /\ \A i \in DOMAIN c.achs : c.achs[i].pending = (IF Lit(c, i) THEN {"hide"} ELSE {})
  /\ (\E i \in DOMAIN c.achs : c.achs[i].pending # {}) => "achievement" \in c.flags
  /\ c.host.challenges \subseteq DOMAIN c.achs
  /\ \A j \in DOMAIN c.boards : c.boards[j].tracker = 0

\* The client no longer has the game.
LoadedSet(c, v, d) == d = [c EXCEPT !.loaded = v]

\* That leaves everything else as it is.
OnlyLoaded(c, v, d) ==
  /\ Shape(d) /\ PausePart(d) = PausePart(c) /\ AchPart(d) = AchPart(c) /\ BoardPart(d) = BoardPart(c)
  /\ ProgressPart(d) = ProgressPart(c) /\ ServerPart(d) = ServerPart(c) /\ d.flags = c.flags /\ d.fault = c.fault
  /\ d.setup = c.setup /\ d.hardcore = c.hardcore /\ d.signed = c.signed /\ d.load = c.load /\ d.loaded = v
  /\ d.achs = c.achs /\ d.boards = c.boards /\ d.timer = c.timer /\ d.host = c.host

\* Signing in or out is only that.
SignedSet(c, v, d) == d = [c EXCEPT !.signed = v]

-----------------------------------------------------------------------------
(* A game is loaded.                                                         *)

\* A leaderboard nobody has played.
BlankBoard(b) == b \in Boards /\ b.st \in {"inactive", "disabled"} /\ b.tracker = 0 /\ b.pending = "none"

\* The leaderboards s are those of the game, before anyone has played them.
BlankBoards(setup, s) ==
  /\ s \in Seq(Boards) /\ DOMAIN s = DOMAIN setup.boards
  /\ \A j \in DOMAIN s : BlankBoard(s[j]) /\ s[j].def = setup.boards[j]

\* The client has the game, with these achievements and leaderboards.
GameSet(c, s, b, d) == d = [c EXCEPT !.achs = s, !.boards = b, !.loaded = TRUE, !.load = @ + 1]

\* Nothing else has changed.
OnlyGame(c, s, b, d) ==
  /\ Shape(d) /\ PausePart(d) = PausePart(c) /\ ProgressPart(d) = ProgressPart(c) /\ ServerPart(d) = ServerPart(c)
  /\ d.flags = c.flags /\ d.fault = c.fault /\ d.setup = c.setup /\ d.hardcore = c.hardcore /\ d.signed = c.signed
  /\ d.load = c.load + 1 /\ d.loaded = TRUE /\ d.waiting = c.waiting /\ d.host = c.host
  /\ d.achs = s /\ d.boards = b /\ d.trackers = c.trackers

-----------------------------------------------------------------------------
(* A saved state is loaded.                                                  *)

\* The attempts of c that run are marked as failed in b.
MarkedBoards(c, b) ==
  b = [j \in DOMAIN c.boards |-> IF j \in {k \in DOMAIN c.boards : c.boards[k].st = "tracking" /\ c.boards[k].lboard = "started"}
                                 THEN [c.boards[j] EXCEPT !.pending = "failed"] ELSE c.boards[j]]

\* What is marked of each leaderboard.
Failing(b) == IF b.st = "tracking" THEN [b EXCEPT !.pending = "failed"] ELSE b

\* Achievements, leaderboards and news are replaced.
AllMarked(c, s, b, f, d) == d = [c EXCEPT !.achs = s, !.boards = b, !.flags = f]

\* Nothing else is.
OnlyMarked(c, s, b, f, d) ==
  /\ Shape(d) /\ ModePart(d) = ModePart(c) /\ PausePart(d) = PausePart(c) /\ ProgressPart(d) = ProgressPart(c)
  /\ ServerPart(d) = ServerPart(c) /\ d.fault = c.fault /\ d.host = c.host /\ d.flags = f
  /\ d.achs = s /\ d.boards = b /\ d.trackers = c.trackers /\ d.running = c.running /\ d.runningBoards = c.runningBoards

\* The leaderboards of d are those of c, marked.
BoardsFailing(c, d) ==
  /\ DOMAIN d.boards = DOMAIN c.boards /\ IsAFunction(d.boards)
  /\ \A j \in DOMAIN c.boards : d.boards[j] = Failing(c.boards[j])

\* What there is when the saved state is about to be read.
Loading(c, d) ==
  /\ Shape(d) /\ d.fault # "timer" /\ ModePart(d) = ModePart(c) /\ PausePart(d) = PausePart(c) /\ ServerPart(d) = ServerPart(c)
  /\ Held(d) /\ Ready(d) /\ Clean(d) /\ ProgressDue(d)
  /\ BoardsFailing(c, d) /\ Tracked(d) /\ Announced(d) /\ RunningBoards(d)
  /\ d.running = c.running /\ d.runningBoards = c.runningBoards
  /\ DOMAIN d.achs = DOMAIN c.achs
  /\ \A i \in DOMAIN d.achs : d.achs[i].st = c.achs[i].st

\* What the saved state may give the runtime.
SavedChoice(c, ts, bs) ==
  /\ \A i \in DOMAIN c.achs : ts[i] \in SavedTriggers(c, i)
  /\ \A j \in DOMAIN c.boards : bs[j] \in SavedBoards(c, j)
  /\ Saved(c, bs)

\* The leaderboards that can be brought into line with what was read.
RestorableBoards(s) ==
  /\ \A j \in DOMAIN s :
       IF InPlay(s[j])
       THEN IF s[j].pending = "failed" THEN s[j].lboard = "started" => s[j].tracker # 0
            ELSE s[j].pending = "none" /\ s[j].st = "active" /\ s[j].tracker = 0
       ELSE s[j].tracker = 0 /\ s[j].pending = "none"
  /\ \A i, j \in DOMAIN s :
       s[i].def.group = s[j].def.group /\ ~s[j].def.fromHits
       /\ InPlay(s[i]) /\ InPlay(s[j])
       /\ {s[i].lboard, s[j].lboard} = {"started"} => s[i].value = s[j].value

\* Those of c can.
Restorable(c) == RestorableBoards(c.boards)

\* What there is when the saved state has been read, or the game started over.
Read(c, e) ==
  /\ Shape(e) /\ e.fault # "timer" /\ ModePart(e) = ModePart(c) /\ PausePart(e) = PausePart(c) /\ ServerPart(e) = ServerPart(c)
  /\ Held(e) /\ Clean(e) /\ ProgressDue(e)
  /\ Tracked(e) /\ Announced(e) /\ RunningBoards(e) /\ Restorable(e)
  /\ DOMAIN e.achs = DOMAIN c.achs /\ DOMAIN e.boards = DOMAIN c.boards

\* An achievement of the running ones takes what was saved.
AchFrom(d, ts, i) ==
  IF i \in d.running THEN [d.achs[i] EXCEPT !.trig = ts[i].trig, !.measured = ts[i].measured, !.soft = ~d.hardcore]
  ELSE d.achs[i]

\* So does a leaderboard.
BoardFrom(d, bs, j) ==
  IF d.boards[j].st \in {"active", "tracking"} /\ bs[j].lboard = "started"
  THEN [d.boards[j] EXCEPT !.lboard = "started", !.value = bs[j].value]
  ELSE [d.boards[j] EXCEPT !.lboard = bs[j].lboard]

-----------------------------------------------------------------------------
(* Every step.                                                               *)

\* What a step may do to the count of the frames.
Counts(c, d) == d.host.frames \in {c.host.frames, c.host.frames + 1}

\* A step that is not a pause.
Steps(c, d) == Inv(d) /\ Counts(c, d)

-----------------------------------------------------------------------------
(* The lists.                                                                *)

Core(c) == {i \in DOMAIN c.achs : c.achs[i].def.core}

AllBuckets == SharedBuckets \cup SubsetBuckets

=============================================================================
