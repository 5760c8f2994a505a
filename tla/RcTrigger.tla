----------------------------- MODULE RcTrigger -----------------------------
(* Achievement triggers (trigger.c), values (value.c) and leaderboards        *)
(* (lboard.c): what is made of the groups of RcCondset, and what one frame    *)
(* does to their states and hit counts.                                       *)
(*                                                                           *)
(* A definition is what parsing gives and never changes; beside it stands the *)
(* state that evaluation changes: of a trigger                                *)
(*   [state, hasHits, measured, hits, paused]                                 *)
(* with hits and paused indexed by group, the core group first if there is    *)
(* one; of a value [value, prior, changed, hits, paused].                     *)
EXTENDS RcCondset

MeasuredUnknown == Word - 1

ZeroHits(groups) == [g \in DOMAIN groups |-> [i \in DOMAIN groups[g].conds |-> 0]]
NotPaused(groups) == [g \in DOMAIN groups |-> FALSE]

AddGroup(s, got) == [p |-> got.p, groups |-> Append(s.groups, got.group)]

\* Parses groups one after the other with one parse state.
ParseGroups(p, texts) ==
  FoldLeft(LAMBDA s, text : IF s.p.error # "ok" THEN s ELSE AddGroup(s, ParseCondset(s.p, text)),
           [p |-> p, groups |-> <<>>], texts)

-----------------------------------------------------------------------------
(* Triggers. A text is [hasCore, groups]: without a core group it starts with *)
(* an alternative.                                                            *)

TriggerOf(hasCore, s) ==
  [p |-> s.p, def |-> [hasCore |-> hasCore, groups |-> s.groups, target |-> s.p.measuredTarget]]

\* rc_parse_trigger_internal
ParseTrigger(p, text) ==
  TriggerOf(text.hasCore,
            ParseGroups([p EXCEPT !.measuredTarget = 0, !.hasRequiredHits = FALSE], text.groups))

NewTrigger(def) ==
  [state |-> "waiting", hasHits |-> FALSE,
   measured |-> IF def.target # 0 THEN MeasuredUnknown ELSE 0,
   hits |-> ZeroHits(def.groups), paused |-> NotPaused(def.groups)]

\* rc_trigger_state_active
TriggerActive(state) == state \notin {"disabled", "inactive", "triggered"}

\* rc_reset_trigger_hitcounts
ResetHitCounts(t) == [t EXCEPT !.hits = [g \in DOMAIN @ |-> ResetHits(@[g])]]

\* rc_reset_trigger
ResetTrigger(def, t) ==
  [ResetHitCounts(t) EXCEPT !.state = "waiting", !.hasHits = FALSE,
                            !.measured = IF def.target # 0 THEN MeasuredUnknown ELSE @]

\* rc_condset_is_measured_from_hitcount
MeasuredFromHitCount(group, hits, measured) ==
  \E i \in DOMAIN group.conds : /\ group.conds[i].type = "measured"
                                /\ group.conds[i].required # 0 /\ hits[i] = measured

\* The larger measurement wins; the first one is taken as it is.
Measure(old, e) ==
  IF e.measured.type # "none" /\ (old.v.type = "none" \/ Compare(e.measured, old.v, "gt"))
  THEN [v |-> e.measured, fromHits |-> e.fromHits] ELSE old

\* No group is tested yet.
Untested(t) == [e |-> NoEval, t |-> t, m |-> [v |-> Typed("none", 0), fromHits |-> FALSE],
                ok |-> TRUE, primed |-> TRUE, paused |-> FALSE,
                anyOk |-> FALSE, anyPrimed |-> FALSE, allPaused |-> TRUE]

\* Group g is tested, e is what came of it.
Tested(def, s, g, e) ==
  LET r == [s EXCEPT !.e = e, !.m = Measure(@, e), !.t.hits[g] = e.hits,
                     !.t.paused[g] = IF def.groups[g].order["pause"] = <<>> THEN @ ELSE e.isPaused]
  IN  IF def.hasCore /\ g = 1
      THEN [r EXCEPT !.ok = e.isTrue, !.primed = e.isPrimed, !.paused = e.isPaused]
      ELSE [r EXCEPT !.anyOk = @ \/ e.isTrue, !.anyPrimed = @ \/ e.isPrimed,
                     !.allPaused = @ /\ e.isPaused]

\* The core and at least one alternative must hold.
WithAlternatives(def, s) ==
  IF Len(def.groups) = (IF def.hasCore THEN 1 ELSE 0) THEN s
  ELSE [s EXCEPT !.ok = @ /\ s.anyOk, !.primed = @ /\ s.anyPrimed, !.paused = @ \/ s.allPaused]

\* Tests the groups in order.
TestGroups(refs, def, t) ==
  WithAlternatives(def,
    FoldLeftDomain(LAMBDA s, g : Tested(def, s, g, TestCondset(refs, def.groups[g], s.e, s.t.hits[g])),
                   Untested(t), def.groups))

\* The measured value after a frame: kept while paused, gone with a reset of
\* the hits it counts.
MeasuredValue(def, s) ==
  LET seen == IF s.paused \/ s.m.v.type = "none" THEN s.t.measured
              ELSE Convert(s.m.v, "unsigned").v
      inPaused == \E g \in DOMAIN def.groups :
                    s.t.paused[g] /\ MeasuredFromHitCount(def.groups[g], s.t.hits[g], seen)
  IN  IF s.e.wasReset /\ (s.m.fromHits \/ (s.paused /\ seen # 0 /\ inPaused)) THEN 0 ELSE seen

\* Mutant of EvaluateTrigger: the hits go on every reset, told or not.
EvaluateTriggerSilent(refs, def, t) ==
  LET s == TestGroups(refs, def, t)
      m == [s.t EXCEPT !.measured = MeasuredValue(def, s)]
  IN  [t |-> [(IF s.e.wasReset THEN ResetHitCounts(m) ELSE m) EXCEPT !.state = "active"],
       result |-> "active"]

\* Mutant of EvaluateTrigger: an achievement that holds at once triggers.
EvaluateTriggerAtOnce(refs, def, t) ==
  LET s == TestGroups(refs, def, t)
      m == [s.t EXCEPT !.measured = MeasuredValue(def, s)]
      state == IF s.ok THEN "triggered" ELSE "active"
  IN  [t |-> [m EXCEPT !.state = state], result |-> state]

\* What the tests s of the groups make of the trigger t; m is t with the hits
\* and the measured value of this frame.
Concluded(def, t, s, m) ==
  LET clear == ResetHitCounts(m)
      hits  == s.e.hasHits /\ ~s.e.wasReset
      state == CASE s.paused -> "paused"
                 [] ~s.paused /\ s.primed /\ ~s.e.wasReset -> "primed"
                 [] OTHER -> "active"
      after == [(IF s.e.wasReset THEN clear ELSE m) EXCEPT !.hasHits = hits, !.state = state]
  IN  CASE s.e.wasReset /\ t.hasHits ->
             [t |-> [clear EXCEPT !.hasHits = FALSE, !.state = IF @ = "primed" THEN "active" ELSE @],
              result |-> "reset"]
        [] ~s.e.wasReset /\ s.ok /\ t.state = "waiting" ->
             [t |-> ResetTrigger(def, m), result |-> "waiting"]
        [] ~s.e.wasReset /\ s.ok /\ t.state # "waiting" ->
             [t |-> [m EXCEPT !.state = "triggered"], result |-> "triggered"]
        [] OTHER -> [t |-> after, result |-> IF s.e.wasCondReset THEN "reset" ELSE state]

AfterTests(def, t, s) == Concluded(def, t, s, [s.t EXCEPT !.measured = MeasuredValue(def, s)])

\* rc_evaluate_trigger: the trigger after the frame and what is returned.
EvaluateTrigger(refs, def, t) ==
  IF TriggerActive(t.state) THEN AfterTests(def, t, TestGroups(refs, def, t))
  ELSE [t |-> t, result |-> "inactive"]

\* rc_test_trigger: the trigger is taken for active whatever its state.
TestTrigger(refs, def, t) == EvaluateTrigger(refs, def, [t EXCEPT !.state = "active"])

-----------------------------------------------------------------------------
(* Values: the largest of their groups.                                       *)

\* Every group of a value measures something.
AddMeasured(s, got) ==
  CASE got.p.error # "ok" -> [s EXCEPT !.p = got.p]
    [] got.p.error = "ok" /\ got.p.measuredTarget = 0 -> [s EXCEPT !.p = Fail(got.p, "missing_value_measured")]
    [] OTHER -> AddGroup(s, got)

\* rc_parse_cond_value
ParseCondValue(p, texts) ==
  FoldLeft(LAMBDA s, text : IF s.p.error # "ok" THEN s
                            ELSE AddMeasured(s, ParseCondset([s.p EXCEPT !.measuredTarget = 0], text)),
           [p |-> p, groups |-> <<>>], texts)

\* A clause of the old value format is one operand with an optional factor
\* [o1, oper, o2, negative]; the clauses of a group are added up.
LegacyTexts(clauses) ==
  LET type(i) == CASE clauses[i].negative -> "subsource"
                   [] i = Len(clauses) /\ ~clauses[i].negative -> "measured"
                   [] OTHER -> "addsource"
      texts   == [i \in DOMAIN clauses |-> Cond(type(i), clauses[i].o1, clauses[i].oper, clauses[i].o2, 0)]
      zero    == Cond("measured", Token("const", 0, "bits32", 0), "none", Token("const", 0, "bits32", 0), 0)
  IN  IF Last(clauses).negative THEN Append(texts, zero) ELSE texts

\* The condition got from the text of a clause.
AcceptLegacy(s, text, got) ==
  IF got.p.error # "ok" THEN [s EXCEPT !.p = got.p]
  ELSE AddCondition(s, UpdateParseState(got.p, IF text.type = "measured" /\ ~Modifying(text.oper)
                                               THEN [got.c EXCEPT !.oper = "none"] ELSE got.c))

\* All conditions are of the measured class.
LegacyGroup(s) ==
  [p |-> s.p,
   group |-> [conds |-> s.conds,
              order |-> [Order(<<>>) EXCEPT !["measured"] = [i \in DOMAIN s.conds |-> i]]]]

\* rc_parse_legacy_value, one group
ParseLegacyGroup(p, clauses) ==
  LegacyGroup(FoldLeft(LAMBDA s, text : IF s.p.error # "ok" THEN s
                                        ELSE AcceptLegacy(s, text, ParseCondition(s.p, text)),
                       NoConditions(p), LegacyTexts(clauses)))

ParseLegacyValue(p, groups) ==
  FoldLeft(LAMBDA s, clauses : IF s.p.error # "ok" THEN s ELSE AddGroup(s, ParseLegacyGroup(s.p, clauses)),
           [p |-> p, groups |-> <<>>], groups)

ValueOf(isValue, s) == [p |-> [s.p EXCEPT !.isValue = isValue], def |-> [groups |-> s.groups]]

\* rc_parse_value_internal: a text is [legacy, groups].
ParseValue(p, text) ==
  LET q == [p EXCEPT !.isValue = TRUE]
  IN  ValueOf(p.isValue, IF text.legacy THEN ParseLegacyValue(q, text.groups)
                         ELSE ParseCondValue(q, text.groups))

NewValue(def) == [value |-> 0, prior |-> 0, changed |-> FALSE, type |-> "unsigned",
                  hits |-> ZeroHits(def.groups), paused |-> NotPaused(def.groups)]

\* rc_reset_value
ResetValue(v) == [v EXCEPT !.hits = [g \in DOMAIN @ |-> ResetHits(@[g])],
                           !.value = 0, !.prior = 0, !.changed = FALSE]

\* rc_value_from_hits: decided by the first Measured condition.
ValueFromHits(def) ==
  LET measured(g) == SelectSeq(def.groups[g].conds, LAMBDA c : c.type = "measured")
      all == FoldLeftDomain(LAMBDA s, g : s \o measured(g), <<>>, def.groups)
  IN  all # <<>> /\ Head(all).required # 0

\* Group g measured e: a reset only clears the hits of its own group.
Larger(def, s, g, e) ==
  LET paused == IF def.groups[g].order["pause"] = <<>> THEN s.v.paused[g] ELSE e.isPaused
      better == e.measured.type # "none" /\ (~s.valid \/ Compare(e.measured, s.result, "gt"))
      r      == [s EXCEPT !.v.paused[g] = paused,
                          !.v.hits[g] = IF e.wasReset /\ ~paused THEN ResetHits(e.hits) ELSE e.hits]
  IN  IF ~paused /\ better THEN [r EXCEPT !.result = e.measured, !.valid = TRUE] ELSE r

\* rc_evaluate_value_typed
EvaluateValueTyped(refs, def, v) ==
  FoldLeftDomain(LAMBDA s, g : Larger(def, s, g, TestCondset(refs, def.groups[g], NoEval, s.v.hits[g])),
                 [v |-> v, result |-> Typed("signed", 0), valid |-> FALSE], def.groups)

\* rc_evaluate_value: the last value seen is kept while nothing is measured.
LastSeen(s) ==
  LET v == IF s.valid THEN UpdateEntry(s.v, Convert(s.result, "unsigned").v) ELSE s.v
  IN  [v |-> v, result |-> v.value]
EvaluateValue(refs, def, v) == LastSeen(EvaluateValueTyped(refs, def, v))

\* rc_update_values, one value: the raw bits and their type are stored.
KeepRaw(s) ==
  IF s.valid THEN [UpdateEntry(s.v, s.result.v) EXCEPT !.type = s.result.type] ELSE s.v
UpdateValue(refs, def, v) == KeepRaw(EvaluateValueTyped(refs, def, v))

-----------------------------------------------------------------------------
(* Leaderboards. A text is a sequence of parts [part, text].                  *)

LboardParts == {"sta", "can", "sub", "val", "pro"}

AddPart(s, part, got) == [p |-> got.p, def |-> (part :> got.def) @@ s.def]

ParsePart(s, x) ==
  CASE s.p.error # "ok" -> s
    [] s.p.error = "ok" /\ x.part \notin LboardParts -> [s EXCEPT !.p = Fail(@, "invalid_lboard_field")]
    [] s.p.error = "ok" /\ x.part \in DOMAIN s.def -> [s EXCEPT !.p = Fail(@, "duplicated")]
    [] OTHER -> AddPart(s, x.part, IF x.part \in {"val", "pro"} THEN ParseValue(s.p, x.text)
                                   ELSE ParseTrigger(s.p, x.text))

CheckComplete(s) ==
  IF s.p.error = "ok" /\ ~({"sta", "can", "sub", "val"} \subseteq DOMAIN s.def)
  THEN [s EXCEPT !.p = Fail(@, "missing")] ELSE s

\* rc_parse_lboard_internal
ParseLboard(p, text) == CheckComplete(FoldLeft(ParsePart, [p |-> p, def |-> <<>>], text))

LboardValues(def) == {"val", "pro"} \cap DOMAIN def

NewLboard(def) ==
  ("state" :> "waiting") @@ [x \in DOMAIN def |-> IF x \in {"val", "pro"} THEN NewValue(def[x]) ELSE NewTrigger(def[x])]

\* rc_reset_lboard
ResetLboard(def, lb) ==
  [x \in DOMAIN lb |-> CASE x = "state" -> "waiting"
                         [] x \in {"val", "pro"} -> ResetValue(lb[x])
                         [] OTHER -> ResetTrigger(def[x], lb[x])]

LboardActive(state) == state \notin {"disabled", "inactive"}

\* A start trigger with no group at all is a leaderboard being written.
EmptyStart(def) == def["sta"].groups = <<>>

\* The next state of a leaderboard, from its three triggers.
NextLboardState(def, state, start, cancel, submit) ==
  CASE state \in {"waiting", "triggered", "canceled"} /\ ~start -> "active"
    [] state = "active" /\ start /\ ~cancel /\ submit -> "triggered"
    [] state = "active" /\ start /\ ~cancel /\ ~submit /\ ~EmptyStart(def) -> "started"
    [] state = "started" /\ cancel -> "canceled"
    [] state = "started" /\ ~cancel /\ submit -> "triggered"
    [] OTHER -> state

ReportValue(lb, state, part, got) == [lb |-> [lb EXCEPT ![part] = got.v], result |-> state, value |-> got.result]

\* What the tests of its three triggers make of a leaderboard: the value starts
\* over with every attempt.
AfterTriggers(refs, def, lb, sta, can, sub) ==
  LET ok(x) == x.result = "triggered"
      state == NextLboardState(def, lb.state, ok(sta), ok(can), ok(sub))
      wait  == lb.state \in {"waiting", "triggered", "canceled"} /\ ok(sta)
      tested == [lb EXCEPT !["sta"] = sta.t, !["can"] = can.t, !["sub"] = sub.t, !["state"] = state]
      begin == lb.state = "active" /\ ok(sta) /\ ~ok(can)
      fresh == [x \in DOMAIN lb |-> IF begin /\ x \in LboardValues(def) THEN ResetValue(tested[x])
                                    ELSE tested[x]]
      part  == IF state = "started" /\ "pro" \in DOMAIN def THEN "pro" ELSE "val"
  IN  CASE wait -> [lb |-> tested, result |-> "inactive", value |-> 0]
        [] ~wait /\ state \in {"started", "triggered"} ->
             ReportValue(fresh, state, part, EvaluateValue(refs, def[part], fresh[part]))
        [] OTHER -> [lb |-> fresh, result |-> state, value |-> 0]

\* rc_evaluate_lboard: all three triggers are tested on every frame, so that
\* their hits count.
EvaluateLboard(refs, def, lb) ==
  IF LboardActive(lb.state)
  THEN AfterTriggers(refs, def, lb, TestTrigger(refs, def["sta"], lb["sta"]),
                     TestTrigger(refs, def["can"], lb["can"]), TestTrigger(refs, def["sub"], lb["sub"]))
  ELSE [lb |-> lb, result |-> "inactive", value |-> 0]
=============================================================================
