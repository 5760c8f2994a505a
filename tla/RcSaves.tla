------------------------------- MODULE RcSaves -------------------------------
(* A game played with a runtime: frames, progress saved once and read back    *)
(* later, definitions that are edited or lost in between, saves that are cut  *)
(* short or altered.                                                          *)
EXTENDS RcProgress

CONSTANTS
  Games,      \* [achievements, lboards, script, edited]: texts, and what the first achievement may become
  Memories,   \* what the memory may hold in a frame
  Lost,       \* addresses the host may turn out not to have
  MaxFrames,  \* bound: frames
  MaxOther    \* bound: resets, questions, edits and lost addresses

VARIABLES
  game,     \* the definitions
  rt,       \* the runtime
  save,     \* the save there is, NoSave before it was made
  mark,     \* the runtime the save was made of
  did,      \* what happened in the last step
  events,   \* what the host was told in it
  frames,   \* frames so far
  other     \* what else was done so far

vars == <<game, rt, save, mark, did, events, frames, other>>

NoSave == [marker |-> "none", chunks |-> <<>>]

WithScript(r, script) == IF script.displays = <<>> THEN r ELSE ActivateScript(r, script)

Started(g) ==
  LET achievements(r) == FoldLeftDomain(LAMBDA s, i : ActivateAchievement(s, i, g.achievements[i]), r, g.achievements)
      lboards(r)      == FoldLeftDomain(LAMBDA s, i : ActivateLboard(s, i, g.lboards[i]), r, g.lboards)
  IN  WithScript(lboards(achievements(NewRuntime)), g.script)

Init == /\ game \in Games /\ rt = Started(game)
        /\ save = NoSave /\ mark = NewRuntime
        /\ did = "start" /\ events = <<>> /\ frames = 0 /\ other = 0

Does(what, now, told) == did' = what /\ rt' = now /\ events' = told

Frame == \E memory \in Memories :
  /\ frames < MaxFrames /\ did # "failed"
  /\ \E frame \in {DoFrame(rt, memory)} : Does("frame", frame.rt, frame.events)
  /\ frames' = frames + 1 /\ UNCHANGED <<game, save, mark, other>>

\* rc_runtime_serialize_progress, once.
SaveProgress ==
  /\ mark = NewRuntime /\ frames > 0
  /\ save' = Save(rt) /\ mark' = rt /\ Does("save", rt, <<>>)
  /\ UNCHANGED <<game, frames, other>>

\* rc_runtime_deserialize_progress, from the save as it was made.
LoadProgress ==
  /\ save # NoSave /\ did # "save"
  /\ Does("loaded", Load(rt, save).rt, <<>>) /\ save' = NoSave
  /\ frames' = MaxFrames - 1 /\ UNCHANGED <<game, mark, other>>

\* A save that was cut short, altered or is none.
Damaged == {[save EXCEPT !.chunks = SubSeq(@, 1, n)] : n \in {1, Len(save.chunks) - 1}}
  \cup {[save EXCEPT !.chunks[Len(save.chunks)].checksum = <<>>], [save EXCEPT !.marker = "other"]}

LoadDamaged ==
  /\ save # NoSave /\ did \notin {"save", "failed"}
  /\ \E bad \in Damaged : Does("failed", Load(rt, bad).rt, <<>>)
  /\ UNCHANGED <<game, save, mark, frames, other>>

\* One of the other things that happen between two frames.
Other == /\ did = "frame" /\ other < MaxOther
         /\ other' = other + 1 /\ UNCHANGED <<game, save, mark, frames>>

\* The definition of the first achievement is another one from now on.
Edit ==
  /\ save # NoSave
  /\ \E text \in game.edited : rt.triggers # <<>> /\ Does("edit", ActivateAchievement(rt, 1, text), <<>>)
  /\ Other

Drop ==
  /\ save # NoSave
  /\ Does("remove", DeactivateLboard(DeactivateAchievement(rt, 1), 1), <<>>)
  /\ Other

\* rc_runtime_invalidate_address tells of it in the next frame,
\* rc_runtime_validate_addresses at once.
Invalidate ==
  /\ save = NoSave
  /\ \E address \in Lost : Does("invalidate", InvalidateAddress(rt, address), <<>>)
  /\ Other

Validate ==
  /\ save = NoSave
  /\ \E address \in Lost :
       LET checked == ValidateAddresses(rt, {e.address : e \in Range(rt.refs.mem)} \ {address})
       IN  Does("validate", checked.rt, checked.events)
  /\ Other

\* The player resets the game.
Reset ==
  /\ Does("reset", ResetRuntime(rt), <<>>)
  /\ Other

\* The line of the rich presence is asked for.
Ask ==
  /\ Does("ask", GetRichPresence(rt).rt, <<>>)
  /\ Other

Next == Frame \/ SaveProgress \/ LoadProgress \/ LoadDamaged \/ Edit \/ Drop \/ Invalidate \/ Validate \/ Reset \/ Ask

Spec == Init /\ [][Next]_vars

-----------------------------------------------------------------------------
(* What a load does                                                           *)

Loaded == did' = "loaded" /\ did # "loaded"

\* The item of the save that x goes on from: the same definition, running then
\* and running now.
Origin(items, x, running(_)) ==
  IF running(x) THEN {m \in Range(items) : m.id = x.id /\ m.md5 = x.md5 /\ running(m)} ELSE {}
RunningTrigger(x) == TriggerActive(x.state.state)
RunningLboard(x)  == LboardActive(x.state["state"])

\* What is kept of a trigger and of a value; whether any hit was counted is
\* not, nor are the counts that decide nothing.
Kept(t) == [t EXCEPT !.hasHits = FALSE]
KeptValue(def, v) == <<v.value, v.prior, v.changed,
                       IF KeepsCounts(def.groups[1]) THEN <<v.hits[1], v.paused[1]>> ELSE <<>>>>

\* Every achievement and leaderboard that runs, and did when the save was made,
\* has the state, counts and pauses it had then.
ProgressIsBack ==
  /\ \A i \in DOMAIN rt.triggers : \A m \in Origin(mark.triggers, rt.triggers[i], RunningTrigger) :
       Kept(rt'.triggers[i].state) = Kept(m.state)
  /\ \A i \in DOMAIN rt.lboards : \A m \in Origin(mark.lboards, rt.lboards[i], RunningLboard) :
       LET now == rt'.lboards[i]
       IN  /\ now.state["state"] = m.state["state"]
           /\ \A part \in {"sta", "can", "sub"} : Kept(now.state[part]) = Kept(m.state[part])
           /\ KeptValue(now.def["val"], now.state["val"]) = KeptValue(m.def["val"], m.state["val"])
  /\ rt.script.md5 = mark.script.md5 /\ Len(rt.script.rich.displays) > 1 =>
       \A k \in 1 .. Len(rt.script.rich.displays) - 1 :
         Kept(rt'.script.rich.displays[k].t) = Kept(mark.script.rich.displays[k].t)

\* The references read as they did when the save was made: the plain ones, the
\* sums of two of them that are still there, and the pointers of the
\* achievements that are restored.
SameValue(e, m) == Stored(e) = Stored(m)
PlainSum(refs, e) == e.oper \notin {"indirect", "addacc", "subacc"}
                     /\ \A o \in {e.parent, e.modifier} :
                          IsMemref(o) => o.ref[1] = "mem" /\ Entry(refs, o.ref).type # "none"
PointersOf(refs, x) ==
  {o.ref[2] : o \in {o \in UNION {{c.o1, c.o2} : c \in UNION {Range(g.conds) : g \in Range(x.def.groups)}} : Pointed(refs, o)}}

MemoryIsBack ==
  LET now == rt'.refs
  IN  /\ \A i \in DOMAIN now.mem : \A m \in Range(mark.refs.mem) :
           now.mem[i].address = m.address /\ now.mem[i].size = m.size => SameValue(now.mem[i], m)
      /\ \A i \in DOMAIN mark.refs.mod : PlainSum(now, now.mod[i]) => now.mod[i].value = mark.refs.mod[i].value
      /\ \A x \in Range(rt.triggers) : Origin(mark.triggers, x, RunningTrigger) # {} =>
           \A i \in PointersOf(now, x) : i \in DOMAIN mark.refs.mod => SameValue(now.mod[i], mark.refs.mod[i])

\* Reading a save brings back what the achievements have counted and the values
\* that their conditions compare with, whatever was played in between
\* (rc_runtime_deserialize_progress_sized).
LoadRestores == [][Loaded => ProgressIsBack /\ MemoryIsBack]_vars

\* t has left the state it starts in, or has counted.
NotWaiting(t) == t.state # "waiting" \/ \E g \in DOMAIN t.hits : \E i \in DOMAIN t.hits[g] : t.hits[g][i] # 0

\* An achievement or leaderboard that the save does not hold starts over, and after a
\* save that cannot be read all of them do: the state and the hit counts of none go on
\* from where it was played to. The memory references, which a failed load
\* leaves as far as it has read them, and the rich presence are not in this.
LoadStartsOver ==
  [][did' = "failed" \/ Loaded =>
       /\ \A i \in DOMAIN rt.triggers :
            LET x == rt.triggers[i]
            IN  IF did' = "failed" \/ (RunningTrigger(x) /\ Origin(mark.triggers, x, RunningTrigger) = {})
                THEN ~NotWaiting(rt'.triggers[i].state)
                ELSE RunningTrigger(x) \/ rt'.triggers[i].state = x.state
       /\ \A i \in DOMAIN rt.lboards :
            LET x == rt.lboards[i]
            IN  did' = "failed" \/ (RunningLboard(x) /\ Origin(mark.lboards, x, RunningLboard) = {}) =>
                  /\ rt'.lboards[i].state["state"] = "waiting"
                  /\ \A part \in {"sta", "can", "sub"} : ~NotWaiting(rt'.lboards[i].state[part])]_vars

-----------------------------------------------------------------------------
(* What a frame tells                                                         *)

Told(type) == {events'[n].id : n \in {n \in DOMAIN events' : events'[n].type = type}}
Primed(r)  == {x.id : x \in {x \in Range(r.triggers) : x.state.state = "primed"}}
Tracked(r) == {x.id : x \in {x \in Range(r.lboards) : x.state["state"] = "started"}}

\* From the events of a frame alone the host knows which achievements are
\* primed and which leaderboards have an attempt running.
EventsTellState ==
  [][did' = "frame" =>
       /\ Primed(rt') = (Primed(rt) \ (Told("unprimed") \cup Told("disabled"))) \cup Told("primed")
       /\ Tracked(rt') = (Tracked(rt) \ (Told("lboard_canceled") \cup Told("lboard_triggered") \cup Told("lboard_disabled")))
                           \cup Told("lboard_started")]_vars

\* A value computed from other values is after a load what it was when the
\* save was made (runtime_progress.c: "non-indirect memref values can be
\* reconstructed from the parents").
SumsAreReconstructed ==
  [][Loaded => \A i \in DOMAIN mark.refs.mod :
       mark.refs.mod[i].oper # "indirect" => rt'.refs.mod[i].value = mark.refs.mod[i].value]_vars
=============================================================================
