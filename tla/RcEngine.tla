------------------------------ MODULE RcEngine ------------------------------
(* One achievement, from its definition to the frame in which it triggers:    *)
(* the parsed form with its shared memory references, evaluated once per      *)
(* frame as the client's frame loop does, and shown to be the achievement     *)
(* RcLogic reads off the definition. What RcValidate tells the author of the  *)
(* definition is held against the frames that follow.                         *)
EXTENDS RcValidate

CONSTANTS Texts, Memories, MaxFrames

VARIABLES text, def, refs, trigger, past, result

vars == <<text, def, refs, trigger, past, result>>

Parsed(t) == ParseTrigger(ParseState(NoRefs, FALSE), t)

TypeOK ==
  /\ text \in Texts /\ past \in UNION {[1 .. n -> Memories] : n \in 0 .. MaxFrames}
  /\ trigger.state \in {"waiting", "active", "paused", "primed", "triggered"}
  /\ result \in {"none", "inactive", "waiting", "active", "paused", "primed", "reset", "triggered"}
  /\ \A g \in DOMAIN def.groups : \A i \in DOMAIN def.groups[g].conds : trigger.hits[g][i] \in Nat

\* rc_client_copy_achievements: parsed once, waiting until first false.
Init == /\ text \in Texts
        /\ \E parsed \in {Parsed(text)} :
             /\ parsed.p.error = "ok"
             /\ def = parsed.def /\ refs = parsed.p.refs /\ trigger = NewTrigger(parsed.def)
        /\ past = <<>> /\ result = "none"

\* rc_client_do_frame: the references first, then the trigger.
Frame == \E memory \in Memories : \E now \in {UpdateRefs(refs, memory)} :
  \E e \in {EvaluateTrigger(now, def, trigger)} :
    /\ Len(past) < MaxFrames
    /\ refs' = now /\ trigger' = e.t /\ result' = e.result
    /\ past' = <<memory>> \o past
    /\ UNCHANGED <<text, def>>

\* rc_client_reset: the counts go, the references stay.
Reset == /\ past # <<>> /\ trigger' = ResetTrigger(def, trigger) /\ result' = "none"
         /\ UNCHANGED <<text, def, refs, past>>

Next == Frame \/ Reset

Spec == Init /\ [][Next]_vars

-----------------------------------------------------------------------------
(* Refinement *)

\* The counts of conditions that only carry a value are never touched.
Logic == INSTANCE RcLogic WITH
  hits  <- trigger.hits,
  phase <- IF trigger.state \in {"waiting", "triggered"} THEN trigger.state ELSE "active"

Refines == Logic!Spec

-----------------------------------------------------------------------------
(* What the definition does not say: progress, priming, notifications         *)

\* The frame of every group as the definition has it, in a step.
GroupFrames == [g \in DOMAIN text.groups |-> Logic!GroupFrame(past', text.groups[g], trigger.hits[g])]
Core        == IF text.hasCore THEN {1} ELSE {}
Alts        == DOMAIN text.groups \ Core

\* The frame of group g without its Trigger conditions.
WithoutTriggers(g) ==
  LET kept == SelectSeq([i \in DOMAIN text.groups[g] |-> i], LAMBDA i : text.groups[g][i].type # "trigger")
  IN  Logic!GroupFrame(past', [n \in DOMAIN kept |-> text.groups[g][kept[n]]],
                              [n \in DOMAIN kept |-> trigger.hits[g][kept[n]]])

\* A primed achievement lacks nothing but its Trigger conditions: the core and
\* an alternative hold once those are left aside, and nothing resets.
LacksTrigger ==
  /\ \A g \in Core : WithoutTriggers(g).holds
  /\ Alts # {} => \E g \in Alts : WithoutTriggers(g).holds
  /\ \A g \in DOMAIN text.groups : ~GroupFrames[g].reset

\* In this step a hit count that may hold the achievement goes down.
CountsVanish ==
  \E g \in DOMAIN trigger.hits : \E i \in DOMAIN trigger.hits[g] :
    trigger.hits[g][i] > trigger'.hits[g][i] /\ text.groups[g][i].type # "pauseif"

\* The progress shown is the hit count it stands for, while the achievement
\* and the group that is measured are running and nothing else is counted.
MeasuredIsTheCount ==
  \A g \in DOMAIN text.groups : \A i \in DOMAIN text.groups[g] :
    /\ text.groups[g][i].type = "measured" /\ text.groups[g][i].required # 0
    /\ trigger'.state # "paused" /\ ~trigger'.paused[g]
    /\ \A h \in DOMAIN text.groups : \A j \in DOMAIN text.groups[h] :
         /\ text.groups[h][j].type = "measured" => <<h, j>> = <<g, i>>
         /\ text.groups[h][j].type \notin {"measuredif", "addhits", "subhits"}
    => trigger'.measured \in {MeasuredUnknown, trigger'.hits[g][i]}

\* What the host is told in a frame is so: an achievement announced as primed
\* lacks only its Trigger conditions, hit counts do not vanish silently, and
\* the progress shown is the count.
ToldIsSo ==
  [][past' # past =>
       /\ trigger'.state = "primed" => LacksTrigger
       /\ trigger.state # "waiting" /\ CountsVanish => result' = "reset"
       /\ MeasuredIsTheCount]_vars

-----------------------------------------------------------------------------
(* What the author of the definition is told                                  *)

Findings == [t \in Texts |-> LET p == Parsed(t) IN Validate(p.p.refs, p.def)]

GroupOf(index) == IF text.hasCore THEN index + 1 ELSE index

\* Whether the chain that ends in condition i of a group is met in a frame, and
\* whether that is what the achievement needs.
Met(g, i) ==
  LET group == text.groups[g]
      order == IF Logic!EndOf(group, i) = "pauseif" THEN Logic!PausePart(group) ELSE Logic!MainPart(group)
      n     == CHOOSE m \in DOMAIN order : order[m] = i
  IN  Logic!Judged(past', group, order, trigger.hits[g])[n].met
Needed(g, i) == IF text.groups[g][i].type \in {"pauseif", "resetif"} THEN ~Met(g, i) ELSE Met(g, i)

\* The conditions of the chain that ends in condition i of a group.
ChainOf(group, i) == Start(group, i) .. i

\* The frame of group g cut short after condition n or with other conditions in
\* its place, and its frame when the conditions at given positions counted nothing.
FrameOf(group, g) == Logic!GroupFrame(past', group, SubSeq(trigger.hits[g], 1, Len(group)))
WithoutHits(g, positions) ==
  Logic!GroupFrame(past', text.groups[g],
                   [i \in DOMAIN trigger.hits[g] |-> IF i \in positions THEN 0 ELSE trigger.hits[g][i]])
SameVerdict(a, b) == a.holds = b.holds /\ a.reset = b.reset /\ a.paused = b.paused

\* The conditions a finding is about: the one reported, and the one it clashes with.
About(e) == <<GroupOf(e.group), e.at>>
Other(e) == <<GroupOf(e.source[1]), e.source[2]>>
CondAt(p) == text.groups[p[1]][p[2]]

\* What a finding claims of the frame. That operands differ in size, a mask covers
\* too much or nothing, a pointer is not the current one, an address is not the
\* console's or a MeasuredIf has nothing to measure is a remark on the text and
\* claims nothing of a frame.
Claim(e) ==
  LET g     == GroupOf(e.group)
      group == text.groups[g]
      c     == CondAt(About(e))
      d     == CondAt(Other(e))
      muted == {c.type, d.type} = {"pauseif", "resetif"} /\ <<c.o1, c.oper, c.o2>> = <<d.o1, d.oper, d.o2>>
      last  == Max({0} \cup {n \in DOMAIN group : group[n].type \notin Combining})
  IN  CASE e.err \in {"never_true", "never_true_with_max"} -> ~Logic!Holds(past', group, e.at)
        [] e.err = "always_true_with_max" -> Logic!Holds(past', group, e.at)
        [] e.err = "conflicting" /\ ~muted -> ~(Needed(g, e.at) /\ Needed(Other(e)[1], Other(e)[2]))
        [] e.err = "conflicting" /\ muted  -> ~GroupFrames[g].reset
        [] e.err = "redundant" -> Needed(Other(e)[1], Other(e)[2]) => Needed(g, e.at)
        [] e.err \in {"recall_without_remember", "recall_before_remember"} ->
             Logic!Recalled(past', group, e.at) = 0
        [] e.err = "trailing_chain" -> SameVerdict(FrameOf(SubSeq(group, 1, last), g), GroupFrames[g])
        [] e.err = "reset_target_of_one" ->
             SameVerdict(FrameOf([group EXCEPT ![e.at].required = 0], g), GroupFrames[g])
        [] e.err = "no_hits_to_reset" ->
             \A a \in DOMAIN text.groups : SameVerdict(WithoutHits(a, DOMAIN text.groups[a]), GroupFrames[a])
        [] e.err = "addhits_without_target" ->
             SameVerdict(WithoutHits(g, {j \in ChainOf(group, e.at) : group[j].type \in {"addhits", "subhits"}}),
                         GroupFrames[g])
        [] OTHER -> TRUE

\* Whatever the author is told about a definition is true of every frame: what
\* is said never to hold does not, what is said to hold always does, of two
\* conflicting conditions one fails or the other has no effect, a redundant one
\* holds whenever the other does, and what is said to do nothing can be left out.
EveryVerdictHolds ==
  [][past' # past => \A n \in DOMAIN Findings[text] : Claim(Findings[text][n])]_vars

\* The forms of which the code says what is not so. A constant on the left: the
\* comparison is replaced by its opposite instead of its mirror image.
ConstantLeft(e) == "const" \in {CondAt(About(e)).o1.kind, CondAt(Other(e)).o1.kind}

\* Of two lower bounds the larger one is called redundant.
Denied(c, same) == c.type = "resetif" \/ (c.type = "pauseif" /\ same)
IsLower(c, same) == c.oper = IF Denied(c, same) THEN "lt" ELSE "ge"
LowerBounds(e) ==
  LET same == About(e)[1] = Other(e)[1]
  IN  /\ IsLower(CondAt(About(e)), same) /\ IsLower(CondAt(Other(e)), same)
      /\ CondAt(About(e)).o2 # CondAt(Other(e)).o2

\* Two PauseIf of different groups: neither pauses the group of the other.
PausesApart(e) ==
  About(e)[1] # Other(e)[1] /\ CondAt(About(e)).type = "pauseif" /\ CondAt(Other(e)).type = "pauseif"

\* A ResetIf or PauseIf behind an AndNext: the opposite of the comparison at its
\* end is not the opposite of the chain.
DeniedChain(e) ==
  /\ {CondAt(About(e)).type, CondAt(Other(e)).type} \cap {"resetif", "pauseif"} # {}
  /\ \E j \in ChainOf(text.groups[About(e)[1]], e.at) : text.groups[About(e)[1]][j].type = "andnext"

\* An AND or XOR of an operand whose largest value is not all ones, two decimal
\* digits or a number of set bits: a smaller value has bits that the largest has not.
Ragged(tok) == tok.kind = "bcd" \/ tok.size = "bitcount"
RaggedMask(e) ==
  \E j \in ChainOf(text.groups[About(e)[1]], e.at) :
    LET link == text.groups[About(e)[1]][j]
    IN  link.oper \in {"and", "xor"} /\ (Ragged(link.o1) \/ Ragged(link.o2))

Mistaken(e) ==
  \/ e.err \in {"conflicting", "redundant"} /\ (ConstantLeft(e) \/ DeniedChain(e))
  \/ e.err = "redundant" /\ LowerBounds(e)
  \/ e.err = "conflicting" /\ PausesApart(e)
  \/ e.err \in {"never_true", "never_true_with_max", "always_true_with_max"} /\ RaggedMask(e)

\* Outside these five forms every verdict is true of every frame.
VerdictsHold ==
  [][past' # past =>
       \A n \in DOMAIN Findings[text] : Mistaken(Findings[text][n]) \/ Claim(Findings[text][n])]_vars
=============================================================================
