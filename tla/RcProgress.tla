------------------------------ MODULE RcProgress ------------------------------
(* Saved progress (runtime_progress.c): what of a runtime is written beside a *)
(* save state, and what reading it back does to the runtime there is by then. *)
(*                                                                           *)
(* A save is [marker, chunks]. A chunk names what it holds; the last one has  *)
(* the checksum of those before it, and a save without it was cut short.      *)
(* Sizes and offsets are left out, and with them a buffer that is too small.  *)
EXTENDS RcRuntime

Stored(x) == [value |-> x.value, prior |-> x.prior, changed |-> x.changed]
Restored(x, saved) == [x EXCEPT !.value = saved.value, !.prior = saved.prior, !.changed = saved.changed]

-----------------------------------------------------------------------------
(* Memory references                                                          *)

\* rc_runtime_progress_write_memrefs: the plain ones.
WriteRefs(refs) ==
  IF refs.mem = <<>> THEN <<>>
  ELSE <<[id |-> "memrefs", refs |-> [i \in DOMAIN refs.mem |->
            Stored(refs.mem[i]) @@ [address |-> refs.mem[i].address, size |-> refs.mem[i].size]]]>>

\* An operand as it was before the last change of what it refers to.
PriorOperand(refs, o) ==
  IF ~IsMemref(o) THEN EvaluateOperand(refs, o)
  ELSE EvaluateOperand(IF o.ref[1] = "mem" THEN [refs EXCEPT !.mem[o.ref[2]].value = Entry(refs, o.ref).prior]
                       ELSE [refs EXCEPT !.mod[o.ref[2]].value = Entry(refs, o.ref).prior], o)

RefChanged(refs, o) == IsMemref(o) /\ Entry(refs, o.ref).changed

\* Mutant of Rebuilt: the entries computed from others are left as they are.
RebuiltNever(refs, i) == refs

\* A computed entry is rebuilt from its parents; one read through a pointer
\* comes with the conditions that read it. Accumulators are combined with an
\* operator that combines nothing.
Rebuilt(refs, i) ==
  LET e      == refs.mod[i]
      v      == IF e.oper = "subparent" THEN Add(Negate(EvaluateOperand(refs, e.parent)), EvaluateOperand(refs, e.modifier))
                ELSE Combine(EvaluateOperand(refs, e.parent), EvaluateOperand(refs, e.modifier), e.oper)
      before == IF e.oper = "subparent" THEN Add(Negate(PriorOperand(refs, e.parent)), PriorOperand(refs, e.modifier))
                ELSE Combine(PriorOperand(refs, e.parent), PriorOperand(refs, e.modifier), e.oper)
  IN  IF e.oper = "indirect" THEN [refs EXCEPT !.mod[i].changed = FALSE]
      ELSE [refs EXCEPT !.mod[i].value = Convert(v, e.type).v, !.mod[i].prior = Convert(before, e.type).v,
                        !.mod[i].changed = RefChanged(refs, e.parent) \/ RefChanged(refs, e.modifier)]

\* rc_runtime_progress_read_memrefs: the saved references are looked for from
\* the first one that was not found in its place; one that is gone is skipped.
ReadRefs(refs, saved) ==
  LET same(e, x) == e.address = x.address /\ e.size = x.size
      step(s, x) ==
        LET after == {i \in DOMAIN s.refs.mem : i >= s.next /\ same(s.refs.mem[i], x)}
            at    == Min(after)
        IN  IF s.next > Len(s.refs.mem) \/ after = {} THEN s
            ELSE [refs |-> [s.refs EXCEPT !.mem[at] = Restored(@, x)], next |-> IF at = s.next THEN at + 1 ELSE s.next]
      plain == FoldLeft(step, [refs |-> refs, next |-> 1], saved).refs
  IN  FoldLeftDomain(Rebuilt, plain, plain.mod)

-----------------------------------------------------------------------------
(* Conditions and triggers                                                    *)

Pointed(refs, o) == IsMemref(o) /\ o.ref[1] = "mod" /\ Entry(refs, o.ref).oper = "indirect"
WritePointed(refs, o) == IF Pointed(refs, o) THEN <<Stored(Entry(refs, o.ref))>> ELSE <<>>
ReadPointed(refs, o, saved) == IF saved = <<>> THEN refs ELSE [refs EXCEPT !.mod[o.ref[2]] = Restored(@, saved[1])]

\* rc_runtime_progress_write_condset
WriteCondset(refs, group, hits, paused) ==
  [paused |-> paused,
   conds  |-> [i \in DOMAIN group.conds |-> [hits |-> hits[i], o1 |-> WritePointed(refs, group.conds[i].o1),
                                             o2 |-> WritePointed(refs, group.conds[i].o2)]]]

\* rc_runtime_progress_read_condset: what its pointers read.
ReadPointers(refs, group, saved) ==
  FoldLeftDomain(LAMBDA r, i : ReadPointed(ReadPointed(r, group.conds[i].o1, saved.conds[i].o1),
                                           group.conds[i].o2, saved.conds[i].o2), refs, group.conds)
SavedHits(saved) == [i \in DOMAIN saved.conds |-> saved.conds[i].hits]

\* rc_runtime_progress_write_trigger
WriteTrigger(refs, def, t) ==
  [state |-> t.state, measured |-> t.measured,
   groups |-> [g \in DOMAIN def.groups |-> WriteCondset(refs, def.groups[g], t.hits[g], t.paused[g])]]

\* rc_runtime_progress_read_trigger: whether any hit was counted is not saved.
ReadTrigger(refs, def, t, saved) ==
  [refs |-> FoldLeftDomain(LAMBDA r, g : ReadPointers(r, def.groups[g], saved.groups[g]), refs, def.groups),
   t    |-> [t EXCEPT !.state = saved.state, !.measured = saved.measured,
                      !.hits = [g \in DOMAIN @ |-> SavedHits(saved.groups[g])],
                      !.paused = [g \in DOMAIN @ |-> saved.groups[g].paused]]]

-----------------------------------------------------------------------------
(* Values. Only the first group of a value is saved.                          *)

\* rc_runtime_progress_should_serialize_variable_condset
KeepsCounts(group) == group.order["pause"] # <<>> \/ \E c \in Range(group.conds) : c.required > 0

\* rc_runtime_progress_write_variable
WriteValue(refs, def, v) ==
  Stored(v) @@ [group |-> IF KeepsCounts(def.groups[1])
                          THEN <<WriteCondset(refs, def.groups[1], v.hits[1], v.paused[1])>> ELSE <<>>]

\* rc_runtime_progress_read_variable
ReadValue(refs, def, v, saved) ==
  IF saved.group = <<>> THEN [refs |-> refs, v |-> [Restored(v, saved) EXCEPT !.hits[1] = ResetHits(@)]]
  ELSE [refs |-> ReadPointers(refs, def.groups[1], saved.group[1]),
        v    |-> [Restored(v, saved) EXCEPT !.hits[1] = SavedHits(saved.group[1]),
                                            !.paused[1] = saved.group[1].paused]]

-----------------------------------------------------------------------------
(* Chunks                                                                     *)

\* rc_runtime_progress_write_variables: helper variables go by their text.
WriteVariables(rt) ==
  LET values == rt.script.rich.values
  IN  IF values = <<>> THEN <<>>
      ELSE <<[id |-> "variables", values |-> [k \in DOMAIN values |->
                [text |-> values[k].text, saved |-> WriteValue(rt.refs, values[k].def, values[k].v)]]]>>

\* rc_runtime_progress_write_achievements: those that are running.
WriteAchievement(rt, x) ==
  [id |-> "achievement", of |-> x.id, md5 |-> x.md5, saved |-> WriteTrigger(rt.refs, x.def, x.state)]
Achievements(rt) == SelectSeq(rt.triggers, LAMBDA x : TriggerActive(x.state.state))
WriteAchievements(rt) == [n \in DOMAIN Achievements(rt) |-> WriteAchievement(rt, Achievements(rt)[n])]

\* rc_runtime_progress_write_leaderboards: without the value for the display.
WriteLboard(rt, x) ==
  [id |-> "leaderboard", of |-> x.id, md5 |-> x.md5, state |-> x.state["state"],
   parts |-> [part \in {"sta", "sub", "can"} |-> WriteTrigger(rt.refs, x.def[part], x.state[part])],
   value |-> WriteValue(rt.refs, x.def["val"], x.state["val"])]
Lboards(rt) == SelectSeq(rt.lboards, LAMBDA x : LboardActive(x.state["state"]))
WriteLboards(rt) == [n \in DOMAIN Lboards(rt) |-> WriteLboard(rt, Lboards(rt)[n])]

\* rc_runtime_progress_write_rich_presence: the conditional displays.
WriteScript(rt) ==
  LET shown == rt.script.rich.displays
  IN  IF Len(shown) < 2 THEN <<>>
      ELSE <<[id |-> "richpresence", md5 |-> rt.script.md5,
              displays |-> [k \in 1 .. Len(shown) - 1 |-> WriteTrigger(rt.refs, shown[k].def, shown[k].t)]]>>

\* rc_runtime_progress_serialize_internal
Save(rt) ==
  LET chunks == WriteRefs(rt.refs) \o WriteVariables(rt) \o WriteAchievements(rt) \o WriteLboards(rt) \o WriteScript(rt)
  IN  [marker |-> "RAP", chunks |-> Append(chunks, [id |-> "done", checksum |-> chunks])]

-----------------------------------------------------------------------------
(* Reading a chunk into the runtime                                           *)

\* rc_runtime_progress_read_variables: a variable the save does not have starts
\* over, unless the save has none at all.
ReadVariables(rt, saved) ==
  LET values == rt.script.rich.values
      of(k)  == SelectInSeq(saved, LAMBDA x : x.text = values[k].text)
      step(r, k) ==
        LET got == ReadValue(r.refs, values[k].def, values[k].v, saved[of(k)].saved)
        IN  IF of(k) = 0 THEN [r EXCEPT !.script.rich.values[k].v = ResetValue(@)]
            ELSE [r EXCEPT !.refs = got.refs, !.script.rich.values[k].v = got.v]
  IN  FoldLeftDomain(step, rt, values)

\* rc_runtime_progress_read_achievement: only one that is running and has the
\* definition the save was made with.
ReadAchievement(rt, chunk) ==
  LET at  == SelectInSeq(rt.triggers, LAMBDA x : x.id = chunk.of /\ x.state.state = "unupdated")
      x   == rt.triggers[at]
      got == ReadTrigger(rt.refs, x.def, x.state, chunk.saved)
  IN  IF at = 0 \/ x.md5 # chunk.md5 THEN rt
      ELSE [rt EXCEPT !.refs = got.refs, !.triggers[at].state = got.t]

\* rc_runtime_progress_read_leaderboard
ReadLboard(rt, chunk) ==
  LET at == SelectInSeq(rt.lboards, LAMBDA x : x.id = chunk.of /\ x.state["state"] = "unupdated")
      x  == rt.lboards[at]
      part(s, name) == LET got == ReadTrigger(s.refs, x.def[name], s.lb[name], chunk.parts[name])
                       IN  [refs |-> got.refs, lb |-> [s.lb EXCEPT ![name] = got.t]]
      s     == FoldLeft(part, [refs |-> rt.refs, lb |-> x.state], <<"sta", "sub", "can">>)
      value == ReadValue(s.refs, x.def["val"], s.lb["val"], chunk.value)
  IN  IF at = 0 \/ x.md5 # chunk.md5 THEN rt
      ELSE [rt EXCEPT !.refs = value.refs,
                      !.lboards[at].state = [s.lb EXCEPT !["val"] = value.v, !["state"] = chunk.state]]

\* rc_runtime_progress_read_rich_presence
ReadScript(rt, chunk) ==
  LET step(r, k) == LET x   == r.script.rich.displays[k]
                        got == ReadTrigger(r.refs, x.def, x.t, chunk.displays[k])
                    IN  [r EXCEPT !.refs = got.refs, !.script.rich.displays[k].t = got.t]
  IN  CASE rt.script.rich.displays = <<>> -> rt
        [] rt.script.rich.displays # <<>> /\ rt.script.md5 # chunk.md5 -> [rt EXCEPT !.script.rich = ResetDisplays(@)]
        [] OTHER -> FoldLeftDomain(step, rt, chunk.displays)

ReadChunk(s, chunk) ==
  CASE s.result # "more" -> s
    [] s.result = "more" /\ chunk.id = "memrefs" -> [s EXCEPT !.rt.refs = ReadRefs(@, chunk.refs), !.seen = Append(@, chunk)]
    [] s.result = "more" /\ chunk.id = "variables" -> [s EXCEPT !.rt = ReadVariables(@, chunk.values), !.seen = Append(@, chunk)]
    [] s.result = "more" /\ chunk.id = "achievement" -> [s EXCEPT !.rt = ReadAchievement(@, chunk), !.seen = Append(@, chunk)]
    [] s.result = "more" /\ chunk.id = "leaderboard" -> [s EXCEPT !.rt = ReadLboard(@, chunk), !.seen = Append(@, chunk)]
    [] s.result = "more" /\ chunk.id = "richpresence" -> [s EXCEPT !.rt = ReadScript(@, chunk), !.seen = Append(@, chunk)]
    [] s.result = "more" /\ chunk.id = "done" -> [s EXCEPT !.result = IF chunk.checksum = s.seen THEN "ok" ELSE "invalid"]

-----------------------------------------------------------------------------
(* Reading a save                                                             *)

\* Achievements and leaderboards that run are marked; what is still marked in
\* the end starts over.
Marked(rt) ==
  [rt EXCEPT !.triggers = [i \in DOMAIN @ |-> IF TriggerActive(@[i].state.state)
                                              THEN [@[i] EXCEPT !.state.state = "unupdated"] ELSE @[i]],
             !.lboards = [i \in DOMAIN @ |-> IF LboardActive(@[i].state["state"])
                                             THEN [@[i] EXCEPT !.state["state"] = "unupdated"] ELSE @[i]]]

\* Mutant of Unmarked: what the save does not have goes on as it was.
UnmarkedActive(rt, seenScript) ==
  [rt EXCEPT !.triggers = [i \in DOMAIN @ |-> IF @[i].state.state = "unupdated"
                             THEN [@[i] EXCEPT !.state.state = "active"] ELSE @[i]]]

Unmarked(rt, seenScript) ==
  [rt EXCEPT !.triggers = [i \in DOMAIN @ |-> IF @[i].state.state = "unupdated"
                             THEN [@[i] EXCEPT !.state = ResetTrigger(rt.triggers[i].def, @)] ELSE @[i]],
             !.lboards = [i \in DOMAIN @ |-> IF @[i].state["state"] = "unupdated"
                             THEN [@[i] EXCEPT !.state = ResetLboard(rt.lboards[i].def, @)] ELSE @[i]],
             !.script.rich = IF seenScript THEN @ ELSE ResetDisplays(@)]

\* What is left of a load: all of it or, after an error, a reset runtime.
EndLoad(s, seen) ==
  IF s.result = "ok" THEN [rt |-> Unmarked(s.rt, seen), result |-> "ok"]
  ELSE [rt |-> ResetRuntime(s.rt), result |-> IF s.result = "more" THEN "insufficient" ELSE s.result]

\* rc_runtime_deserialize_progress_sized: an error at any point, and
\* everything starts over.
Load(rt, save) ==
  LET start == [rt |-> Marked(rt), seen |-> <<>>, result |-> "more"]
      seen  == \E chunk \in Range(save.chunks) : chunk.id = "richpresence"
  IN  IF save.marker # "RAP" THEN [rt |-> ResetRuntime(rt), result |-> "invalid"]
      ELSE EndLoad(FoldLeft(ReadChunk, start, save.chunks), seen)
=============================================================================
