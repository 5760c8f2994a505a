------------------------------ MODULE RcRuntime ------------------------------
(* The runtime (runtime.c): the achievements, leaderboards and the rich       *)
(* presence of a game over one pool of memory references, evaluated frame by  *)
(* frame for a host that hears of their changes by events.                    *)
(*                                                                           *)
(* An item is [id, md5, def, state, invalid, ...]: the checksum is taken for  *)
(* the text it was made from, invalid is the reference that disables the item *)
(* in the next frame, 0 if there is none; state is a trigger or a leaderboard *)
(* of RcTrigger. Progress told as a percentage is left out.                   *)
EXTENDS RcRichPresence

NoScript == [md5  |-> [lookups |-> <<>>, displays |-> <<>>],
             rich |-> [lookups |-> <<>>, values |-> <<>>, displays |-> <<>>]]

\* rc_runtime_init
NewRuntime == [refs |-> NoRefs, triggers |-> <<>>, lboards |-> <<>>, script |-> NoScript]

-----------------------------------------------------------------------------
(* Activating and deactivating                                                *)

At(items, id) == SelectInSeq(items, LAMBDA x : x.id = id)

\* rc_runtime_deactivate_trigger_by_index: the last item takes the place.
Deactivated(items, id) ==
  LET at == At(items, id)
  IN  IF at = 0 THEN items
      ELSE [n \in 1 .. Len(items) - 1 |-> IF n = at THEN Last(items) ELSE items[n]]

\* The item keeps its place, and starts over, when its definition is the one it
\* had; otherwise it is removed before the new definition is known to be good.
Activated(items, item, error, restarted) ==
  LET at == At(items, item.id)
  IN  CASE at # 0 /\ items[at].md5 = item.md5 -> [items EXCEPT ![at].state = restarted]
        [] error # "ok" -> Deactivated(items, item.id)
        [] OTHER -> Append(Deactivated(items, item.id), item)

\* The pool grows only for a definition that is taken.
Pool(rt, items, item, p) ==
  LET at == At(items, item.id)
  IN  IF p.error = "ok" /\ (at = 0 \/ items[at].md5 # item.md5) THEN p.refs ELSE rt.refs

TakeAchievement(rt, id, text, got) ==
  LET item == [id |-> id, md5 |-> text, def |-> got.def, state |-> ResetTrigger(got.def, NewTrigger(got.def)),
               invalid |-> 0]
      restarted == ResetTrigger(got.def, rt.triggers[At(rt.triggers, id)].state)
  IN  [rt EXCEPT !.refs = Pool(rt, rt.triggers, item, got.p),
                 !.triggers = Activated(@, item, got.p.error, restarted)]

\* rc_runtime_activate_achievement
ActivateAchievement(rt, id, text) ==
  TakeAchievement(rt, id, text, ParseTrigger(ParseState(rt.refs, FALSE), text))

DeactivateAchievement(rt, id) == [rt EXCEPT !.triggers = Deactivated(@, id)]

TakeLboard(rt, id, text, got) ==
  LET item == [id |-> id, md5 |-> text, def |-> got.def, state |-> ResetLboard(got.def, NewLboard(got.def)),
               invalid |-> 0, value |-> 0]
      restarted == ResetLboard(got.def, rt.lboards[At(rt.lboards, id)].state)
  IN  IF got.p.error # "ok" THEN [rt EXCEPT !.lboards = Deactivated(@, id)]
      ELSE [rt EXCEPT !.refs = Pool(rt, rt.lboards, item, got.p),
                      !.lboards = Activated(@, item, "ok", restarted)]

\* rc_runtime_activate_lboard
ActivateLboard(rt, id, text) ==
  TakeLboard(rt, id, text, ParseLboard(ParseState(rt.refs, FALSE), text))

DeactivateLboard(rt, id) == [rt EXCEPT !.lboards = Deactivated(@, id)]

\* A script that does not parse leaves the one there was.
TakeScript(rt, script, got) ==
  IF got.p.error # "ok" THEN rt
  ELSE [rt EXCEPT !.refs = got.p.refs, !.script = [md5 |-> script, rich |-> ResetRich(got.rich)]]

\* rc_runtime_activate_richpresence
ActivateScript(rt, script) ==
  IF rt.script.md5 = script THEN [rt EXCEPT !.script.rich = ResetRich(@)]
  ELSE TakeScript(rt, script, ParseScript(ParseState(rt.refs, FALSE), script))

-----------------------------------------------------------------------------
(* A frame                                                                    *)

Event(type, id, value) == [type |-> type, id |-> id, value |-> value]

\* The event that tells of a new state of an achievement, if there is one.
StateEvent(old, new) ==
  CASE new \in {"triggered", "paused", "primed"} -> <<new>>
    [] new = "active" /\ old \in {"waiting", "paused"} -> <<"activated">>
    [] OTHER -> <<>>

\* Mutant of TriggerFrame: after a reset the state of the trigger is not looked
\* at.
TriggerFrameReset(refs, x) ==
  LET e    == EvaluateTrigger(refs, x.def, x.state)
      old  == x.state.state
      says == IF e.result = "reset" THEN <<Event("reset", x.id, 0)>>
              ELSE [n \in DOMAIN StateEvent(old, e.result) |-> Event(StateEvent(old, e.result)[n], x.id, 0)]
  IN  [x |-> [x EXCEPT !.state = e.t],
       events |-> IF e.result \notin {old, "reset"} /\ old = "primed" THEN <<Event("unprimed", x.id, 0)>> \o says ELSE says]

\* What is told of an achievement that was evaluated to e: a reset, and then the
\* state it left the trigger in.
TellOfTrigger(x, e) ==
  LET old    == x.state.state
      was    == x.state.measured
      new    == IF e.result = "reset" THEN e.t.state ELSE e.result
      reset  == IF e.result = "reset" THEN <<Event("reset", x.id, 0)>> ELSE <<>>
      moved  == /\ e.t.measured # was /\ was # MeasuredUnknown
                /\ x.def.target # 0 /\ e.t.measured <= x.def.target
                /\ new \notin {"triggered", "inactive", "waiting"}
      update == IF moved THEN <<Event("progress", x.id, e.t.measured)>> ELSE <<>>
      left   == IF old = "primed" /\ new # old THEN <<Event("unprimed", x.id, 0)>> ELSE <<>>
      enters == [n \in DOMAIN StateEvent(old, new) |-> Event(StateEvent(old, new)[n], x.id, 0)]
  IN  [x |-> [x EXCEPT !.state = e.t],
       events |-> reset \o update \o left \o (IF new = old THEN <<>> ELSE enters)]

\* One achievement of rc_runtime_do_frame.
TriggerFrame(refs, x) ==
  IF x.invalid # 0
  THEN [x |-> [x EXCEPT !.state.state = "disabled", !.invalid = 0],
        events |-> <<Event("disabled", x.id, refs.mem[x.invalid].address)>>]
  ELSE TellOfTrigger(x, EvaluateTrigger(refs, x.def, x.state))

TellOfLboard(x, e) ==
  LET old  == x.state["state"]
      type == CASE e.result = "started" /\ old # "started" -> <<"lboard_started">>
                [] e.result = "started" /\ old = "started" /\ e.value # x.value -> <<"lboard_updated">>
                [] e.result = "canceled" /\ old # "canceled" -> <<"lboard_canceled">>
                \* the old state is compared with the number of an event, which it never is
                [] e.result = "triggered" -> <<"lboard_triggered">>
                [] OTHER -> <<>>
  IN  [x |-> [x EXCEPT !.state = e.lb, !.value = IF e.result = "started" THEN e.value ELSE @],
       events |-> [n \in DOMAIN type |-> Event(type[n], x.id, e.value)]]

\* One leaderboard of rc_runtime_do_frame.
LboardFrame(refs, x) ==
  IF x.invalid # 0
  THEN [x |-> [x EXCEPT !.state["state"] = "disabled", !.invalid = 0],
        events |-> <<Event("lboard_disabled", x.id, refs.mem[x.invalid].address)>>]
  ELSE TellOfLboard(x, EvaluateLboard(refs, x.def, x.state))

\* The frames t of the achievements and b of the leaderboards, in the order they
\* are gone through: the last one first.
AfterFrames(rt, refs, t, b) ==
  LET told(frames) == FoldLeftDomain(LAMBDA events, i : frames[i].events \o events, <<>>, frames)
  IN  [rt |-> [rt EXCEPT !.refs = refs,
                         !.triggers = [i \in DOMAIN @ |-> t[i].x],
                         !.lboards = [i \in DOMAIN @ |-> b[i].x],
                         !.script.rich = UpdateRich(refs, @)],
       events |-> told(t) \o told(b)]

ItemFrames(rt, refs) ==
  AfterFrames(rt, refs, [i \in DOMAIN rt.triggers |-> TriggerFrame(refs, rt.triggers[i])],
                        [i \in DOMAIN rt.lboards |-> LboardFrame(refs, rt.lboards[i])])

\* rc_runtime_do_frame: the references, then the items.
DoFrame(rt, memory) == ItemFrames(rt, UpdateRefs(rt.refs, memory))

\* rc_runtime_reset: every achievement, one that triggered too.
ResetRuntime(rt) ==
  [rt EXCEPT !.triggers = [i \in DOMAIN @ |-> [@[i] EXCEPT !.state = ResetTrigger(rt.triggers[i].def, @)]],
             !.lboards = [i \in DOMAIN @ |-> [@[i] EXCEPT !.state = ResetLboard(rt.lboards[i].def, @)]],
             !.script.rich = ResetRich(@)]

-----------------------------------------------------------------------------
(* Addresses the host says it does not have                                   *)

\* rc_trigger_contains_memref, rc_value_contains_memref: the operands of the
\* conditions, not what those are computed from.
ContainsRef(def, ref) ==
  \E g \in DOMAIN def.groups : \E c \in Range(def.groups[g].conds) :
    \/ IsMemref(c.o1) /\ c.o1.ref = ref
    \/ IsMemref(c.o2) /\ c.o2.ref = ref

\* rc_runtime_invalidate_memref
InvalidateRef(rt, i) ==
  LET ref == <<"mem", i>>
      parts(x) == {part \in DOMAIN x.def : ContainsRef(x.def[part], ref)}
      lost(x)  == x.invalid = 0 /\ parts(x) \cap {"sta", "can", "sub", "val"} # {}
  IN  [rt EXCEPT
        !.refs.mem[i].type = "none",
        !.triggers = [n \in DOMAIN @ |-> IF @[n].invalid = 0 /\ ContainsRef(@[n].def, ref)
                                         THEN [@[n] EXCEPT !.invalid = i] ELSE @[n]],
        !.lboards = [n \in DOMAIN @ |->
           IF lost(@[n])
           THEN [@[n] EXCEPT !.invalid = i,
                   !.state = [part \in DOMAIN @ |-> IF part \in parts(rt.lboards[n]) \cap {"sta", "can", "sub"}
                                                    THEN [@[part] EXCEPT !.state = "disabled"] ELSE @[part]]]
           ELSE @[n]]]

\* rc_runtime_invalidate_address
InvalidateAddress(rt, address) ==
  FoldLeftDomain(LAMBDA r, i : IF rt.refs.mem[i].address = address THEN InvalidateRef(r, i) ELSE r, rt, rt.refs.mem)

\* rc_runtime_validate_addresses: what is lost is disabled at once.
ValidateAddresses(rt, valid) ==
  LET marked == FoldLeftDomain(LAMBDA r, i : IF rt.refs.mem[i].address \in valid THEN r ELSE InvalidateRef(r, i),
                               rt, rt.refs.mem)
      told(items, type) ==
        FoldLeftDomain(LAMBDA s, i : IF items[i].invalid = 0 THEN s
                                     ELSE <<Event(type, items[i].id, rt.refs.mem[items[i].invalid].address)>> \o s,
                       <<>>, items)
  IN  [rt |-> [marked EXCEPT
                !.triggers = [i \in DOMAIN @ |-> IF @[i].invalid = 0 THEN @[i]
                                ELSE [@[i] EXCEPT !.invalid = 0, !.state.state = "disabled"]],
                !.lboards = [i \in DOMAIN @ |-> IF @[i].invalid = 0 THEN @[i]
                                ELSE [@[i] EXCEPT !.invalid = 0, !.state["state"] = "disabled"]]],
       events |-> told(marked.triggers, "disabled") \o told(marked.lboards, "lboard_disabled")]

-----------------------------------------------------------------------------
(* What a host asks for                                                       *)

\* rc_runtime_get_achievement_measured: nothing is reported of an achievement
\* that does not run.
AchievementMeasured(rt, id) ==
  LET x == rt.triggers[At(rt.triggers, id)]
  IN  IF At(rt.triggers, id) = 0 \/ ~TriggerActive(x.state.state) THEN [value |-> 0, target |-> 0]
      ELSE [value |-> IF x.state.measured = MeasuredUnknown THEN 0 ELSE x.state.measured, target |-> x.def.target]

Displayed(rt, got) == [rt |-> [rt EXCEPT !.script.rich = got.rich], line |-> got.line]

\* rc_runtime_get_richpresence
GetRichPresence(rt) ==
  IF rt.script.rich.displays = <<>> THEN [rt |-> rt, line |-> <<>>]
  ELSE Displayed(rt, ShowRich(rt.refs, rt.script.rich))
=============================================================================
