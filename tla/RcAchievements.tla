---------------------------- MODULE RcAchievements ----------------------------
(* The achievements of a loaded game: which are running, what a frame makes of *)
(* them, and the events the host is told. Everything is a function of the     *)
(* client c; the triggers themselves are those of RcTrigger, of which only the *)
(* state and the measured value matter here. A game has one set. Everything a *)
(* game has is in c.achs; id is an achievement's place among those the server *)
(* has of the game.                                                           *)
(*                                                                           *)
(* c.setup holds what does not change: the achievements as the server sent    *)
(* them [core, valid, target, percent, values], where values are what may be  *)
(* measured, and the settings.                                                *)
EXTENDS Naturals, Integers, Sequences, FiniteSets, SequencesExt

Unknown == -1   \* RC_MEASURED_UNKNOWN, 0xFFFFFFFF
NoLead  == [ach |-> 0, of |-> <<0, 1>>]

\* A host that is shown v for tracker k.
ShownTracker(h, k, v) ==
  [h EXCEPT !.trackers = [x \in DOMAIN @ \cup {k} |-> IF x = k THEN v ELSE @[x]]]

\* What an event tells the host h.
Hear(h, e) ==
  CASE e[1] = "challenge_show"  -> [h EXCEPT !.challenges = @ \cup {e[2]}]
    [] e[1] = "challenge_hide"  -> [h EXCEPT !.challenges = @ \ {e[2]}]
    [] e[1] \in {"tracker_show", "tracker_update"} -> ShownTracker(h, e[2], e[3])
    [] e[1] = "tracker_hide"    -> [h EXCEPT !.trackers = [x \in DOMAIN @ \ {e[2]} |-> @[x]]]
    [] e[1] \in {"progress_show", "progress_update"} -> [h EXCEPT !.progress = TRUE]
    [] e[1] = "progress_hide"   -> [h EXCEPT !.progress = FALSE]
    [] e[1] = "disconnected"    -> [h EXCEPT !.down = TRUE]
    [] e[1] = "reconnected"     -> [h EXCEPT !.down = FALSE]
    [] e[1] = "reset"           -> [h EXCEPT !.resets = TRUE]
    [] e[1] = "completed"       -> [h EXCEPT !.completed = @ + 1]
    [] e[1] = "request" /\ e[2].kind = "award" -> [h EXCEPT !.owed = @ \cup {<<e[2].of, e[2].hard, e[2].load>>}]
    [] e[1] = "server_error" /\ e[2].kind = "award" -> [h EXCEPT !.refused = @ \cup {<<e[2].of, e[2].hard>>}]
    [] OTHER -> h

\* An event is handled by the host before the client goes on.
Tell(c, what) == [c EXCEPT !.host = Hear(@, what)]

\* Op for each of 1..n, in order.
After(Op(_, _), c, n) ==
  LET after[k \in 0..n] == IF k = 0 THEN c ELSE Op(after[k - 1], k)
  IN  after[n]

TrigActive(state) == state \notin {"disabled", "triggered"}

\* rc_reset_trigger. soft is a history variable: what the trigger has counted,
\* it has counted in softcore frames.
Restarted(a) ==
  [a EXCEPT !.trig = "waiting", !.measured = IF a.def.target # 0 THEN Unknown ELSE @, !.soft = FALSE]

\* What rc_evaluate_trigger may make of a trigger in a frame.
TriggerOutcomes(a, def) ==
  LET states == IF a.trig = "waiting" THEN {"waiting", "active", "paused", "primed"}
                ELSE {"active", "paused", "primed", "triggered"}
  IN  {[trig |-> t, measured |-> m] :
         t \in states, m \in IF def.target = 0 THEN {a.measured} ELSE def.values}

-----------------------------------------------------------------------------
(* Loading                                                                    *)

\* Unofficial achievements are left out unless they are being tested.
CopyAchievement(list, k, setup) ==
  LET def == setup.achs[k]
  IN  IF ~def.core /\ ~setup.unofficial THEN list
      ELSE Append(list, [id |-> k, def |-> def, st |-> "inactive", unlocked |-> {}, trig |-> "waiting", soft |-> FALSE,
                         measured |-> IF def.target # 0 THEN Unknown ELSE 0, pending |-> {}])

CopyAchievements(setup) ==
  After(LAMBDA list, k : CopyAchievement(list, k, setup), <<>>, Len(setup.achs))

\* What the server has for the user: an unlock in hardcore counts for both.
ApplyUnlocks(c) ==
  [c EXCEPT !.achs = [i \in DOMAIN @ |->
     [c.achs[i] EXCEPT !.unlocked = IF <<c.achs[i].id, TRUE>> \in c.server THEN {"hard", "soft"}
                                    ELSE IF <<c.achs[i].id, FALSE>> \in c.server THEN {"soft"} ELSE {}]]]

\* An achievement that reads an address the console does not have is disabled.
InvalidateMemrefAchievements(c) ==
  [c EXCEPT !.achs = [i \in DOMAIN @ |-> IF c.achs[i].def.valid THEN c.achs[i]
                                         ELSE [c.achs[i] EXCEPT !.st = "disabled", !.trig = "disabled"]]]

\* rc_client_update_active_achievements: the list the runtime saves and loads.
UpdateActiveAchievements(c) == [c EXCEPT !.running = {i \in DOMAIN c.achs : c.achs[i].st = "active"}]

\* One achievement when the mode is bit: to be had, it starts over; had
\* already, it stops, unless everything is to be had again.
Toggled(c, i, bit) ==
  LET a == c.achs[i]
  IN  IF bit \notin a.unlocked
      THEN IF a.st \in {"unlocked", "inactive"} THEN [Restarted(a) EXCEPT !.st = "active"] ELSE a
      ELSE IF a.st \notin {"active", "inactive"} \/ c.setup.encore THEN a
      ELSE [a EXCEPT !.st = "unlocked", !.trig = IF TrigActive(@) THEN "triggered" ELSE @]

\* The indicator of one that stops goes at once.
ToggleAchievement(c, i, bit) ==
  LET t == Toggled(c, i, bit)
      d == [c EXCEPT !.achs[i] = t]
  IN  IF c.achs[i].st = "active" /\ t.st = "unlocked" /\ c.achs[i].trig = "primed"
      THEN Tell(d, <<"challenge_hide", i>>) ELSE d

\* rc_client_toggle_hardcore_achievements
ToggleHardcoreAchievements(c, bit) ==
  UpdateActiveAchievements(After(LAMBDA d, i : ToggleAchievement(d, i, bit), c, Len(c.achs)))

Mode(c) == IF c.hardcore THEN "hard" ELSE "soft"

\* rc_client_activate_achievements
ActivateAchievements(c) ==
  ToggleHardcoreAchievements(c, IF c.setup.encore THEN "none" ELSE Mode(c))

-----------------------------------------------------------------------------
(* A frame                                                                    *)

Percent(n, def) == (n * 100) \div def.target

\* Whether the progress is to be shown, and is nearer than the one shown so far.
\* One given in percent is not news while the percentage stands.
NewLead(c, i, o) ==
  LET a   == c.achs[i]
      old == a.measured
      now == o.measured
  IN  /\ now # old /\ old # Unknown /\ now # Unknown
      /\ now <= a.def.target /\ TrigActive(o.trig) /\ o.trig # "waiting"
      /\ a.def.percent => Percent(old, a.def) # Percent(now, a.def)
      /\ now * c.lead.of[2] > c.lead.of[1] * a.def.target

\* What a change of the trigger's state is news of.
Turned(old, new) ==
  (IF old = "primed" THEN {"hide"} ELSE {})
  \cup (CASE new = "triggered" -> {"triggered"} [] new = "primed" -> {"show"} [] OTHER -> {})

\* rc_client_do_frame_process_achievements, one of them: o is what evaluating
\* its trigger gave.
ProcessAchievement(c, i, o) ==
  LET a     == c.achs[i]
      leads == NewLead(c, i, o)
      turns == o.trig # a.trig
      news  == (IF leads THEN {"update"} ELSE {}) \cup (IF turns THEN Turned(a.trig, o.trig) ELSE {})
  IN  IF a.st # "active" THEN c
      ELSE [c EXCEPT !.achs[i] = [a EXCEPT !.trig = o.trig, !.measured = o.measured, !.soft = @ \/ ~c.hardcore,
                                           !.pending = @ \cup news],
                     !.lead  = IF leads THEN [ach |-> i, of |-> <<o.measured, a.def.target>>] ELSE @,
                     !.flags = @ \cup (IF leads THEN {"progress"} ELSE {})
                                 \cup (IF leads \/ turns THEN {"achievement"} ELSE {})]

\* rc_client_subset_reset_achievements, one of them.
ResetAchievement(c, i) ==
  LET a    == c.achs[i]
      news == IF a.trig = "primed" THEN {"hide"} ELSE {}
  IN  IF a.st # "active" THEN c
      ELSE [c EXCEPT !.achs[i] = [Restarted(a) EXCEPT !.pending = @ \cup news],
                     !.flags = IF news # {} THEN @ \cup {"achievement"} ELSE @]

ResetAchievements(c) == After(ResetAchievement, c, Len(c.achs))

-----------------------------------------------------------------------------
(* The progress indicator: it goes two seconds after the last news.           *)

HideProgressTracker(c) ==
  IF c.timer /\ c.action = "none"
  THEN [c EXCEPT !.timer = FALSE, !.hides = FALSE, !.action = "hide", !.flags = @ \cup {"progress"}]
  ELSE c

\* The timer ran out; the game of the timer is taken to be there.
ProgressTimerElapsed(c) ==
  CASE ~c.loaded -> [c EXCEPT !.fault = "timer"]
    [] c.loaded /\ c.action = "none" -> Tell([c EXCEPT !.timer = FALSE], <<"progress_hide">>)
    [] c.loaded /\ c.action # "none" -> c

UpdateProgressTracker(c) ==
  [c EXCEPT !.action = IF c.timer THEN "update" ELSE "show", !.timer = TRUE, !.hides = TRUE]

RaiseProgressTrackerEvents(c) ==
  LET what == CASE c.action = "show" -> "progress_show" [] c.action = "hide" -> "progress_hide"
                [] OTHER -> "progress_update"
  IN  Tell([c EXCEPT !.action = "none"], <<what>>)

-----------------------------------------------------------------------------
(* Lists and summaries                                                        *)

\* rc_client_update_achievement_display_information: recent are the unlocks of
\* the last minutes, close the ones with most of their progress made.
Bucket(c, i, recent, close) ==
  LET a == c.achs[i]
  IN  CASE a.st = "disabled" -> "unsupported"
        [] a.st = "unlocked" /\ i \in recent -> "recently_unlocked"
        [] a.st = "unlocked" /\ i \notin recent ->
             IF c.disconnect # "hidden" /\ \E r \in c.requests : r.kind = "award" /\ r.of = a.id /\ r.at = "queued"
             THEN "unsynced" ELSE "unlocked"
        [] OTHER -> IF a.trig = "primed" THEN "active_challenge"
                    ELSE IF i \in close THEN "almost_there"
                    ELSE IF a.def.core THEN "locked" ELSE "unofficial"

\* rc_client_map_bucket
MapBucket(bucket, grouping) ==
  IF grouping # "lock_state" THEN bucket
  ELSE CASE bucket \in {"recently_unlocked", "unsynced"} -> "unlocked"
         [] bucket \in {"active_challenge", "almost_there"} -> "locked"
         [] OTHER -> bucket

SharedBuckets == {"active_challenge", "recently_unlocked", "almost_there", "unsynced"}
SubsetBuckets == {"locked", "unofficial", "unsupported", "unlocked"}

\* rc_client_create_achievement_list for the core achievements: the buckets that
\* are not empty, each with its achievements.
AchievementList(c, grouping, recent, close) ==
  LET kinds  == (IF grouping = "progress" THEN SharedBuckets ELSE {}) \cup SubsetBuckets
      inside(b) == {i \in DOMAIN c.achs : c.achs[i].def.core /\ MapBucket(Bucket(c, i, recent, close), grouping) = b}
  IN  [b \in {x \in kinds : inside(x) # {}} |-> inside(b)]

\* rc_client_subset_get_user_game_summary
Summary(c) ==
  LET core == {i \in DOMAIN c.achs : c.achs[i].def.core}
  IN  [core        |-> Cardinality(core),
       unofficial  |-> Len(c.achs) - Cardinality(core),
       unlocked    |-> Cardinality({i \in core : Mode(c) \in c.achs[i].unlocked}),
       unsupported |-> Cardinality({i \in core : c.achs[i].st = "disabled"})]
=============================================================================
