----------------------------- MODULE RcCondset -----------------------------
(* The conditions of an achievement: parsing one (condition.c), parsing a     *)
(* group of them into classes that are evaluated class by class, and          *)
(* evaluating a group for one frame (condset.c).                              *)
(*                                                                           *)
(* A group keeps its conditions in the order of the definition; `order`       *)
(* names, for each class, its conditions in the order they are evaluated.     *)
EXTENDS RcMemory

\* The text of a condition; oper "none" when the text has no operator.
Cond(type, o1, oper, o2, required) ==
  [type |-> type, o1 |-> o1, oper |-> oper, o2 |-> o2, required |-> required]

CanModify == {"addsource", "subsource", "addaddress", "remember"}

\* rc_operator_is_modifying
Modifying(oper) == oper \in {"and", "xor", "div", "mult", "mod", "add", "sub", "none"}
Comparing(oper) == oper \in {"eq", "ne", "lt", "le", "gt", "ge"}

\* rc_condition_is_combining
Combining == CanModify \cup {"addhits", "subhits", "resetnextif", "andnext", "ornext"}

Fail(p, error) == [p EXCEPT !.error = error]

-----------------------------------------------------------------------------
(* Comparators: the cheapest way to compare two operands that gives what      *)
(* reading both and comparing them would.                                     *)

\* An operand that reads a plain reference as it is or one frame late.
Direct(o) == o.type \in {"address", "delta"} /\ o.ref[1] = "mem"

\* rc_condition_determine_comparator
Comparator(refs, c) ==
  LET narrow(o)  == o.size # Entry(refs, o.ref).size
      constant   == IF CompareInt(c.o1.num, c.o2.num, c.oper) THEN "always_true" ELSE "always_false"
      reflexive  == IF CompareInt(0, 0, c.oper) THEN "always_true" ELSE "always_false"
      same       == c.o1.ref = c.o2.ref
      translated == narrow(c.o1) \/ narrow(c.o2)
  IN  CASE ~Comparing(c.oper) -> "always_true"
        [] Direct(c.o1) /\ c.o2.type = "const" -> "to_const"
        [] /\ Direct(c.o1) /\ Direct(c.o2)
           /\ c.o1.type = "address" /\ c.o2.type = "address" ->
             IF same /\ ~translated THEN reflexive ELSE "memref_to_memref"
        [] Direct(c.o1) /\ Direct(c.o2) /\ c.o1.type # c.o2.type /\ same -> "with_delta"
        [] c.o1.type = "const" /\ c.o2.type = "const" -> constant
        [] OTHER -> "default"

\* The value of a plain reference, transformed only when its size is not the
\* operand's (the ..._transformed comparators).
Fast(refs, o) ==
  LET entry == Entry(refs, o.ref)
      v     == EntryValue(entry, o.type)
  IN  IF o.size = entry.size THEN v ELSE Transform(v, o.size)

\* rc_test_condition
TestCondition(refs, c) ==
  CASE c.comparator = "always_true"  -> TRUE
    [] c.comparator = "always_false" -> FALSE
    [] c.comparator = "to_const" -> CompareInt(Fast(refs, c.o1), c.o2.num, c.oper)
    [] c.comparator = "memref_to_memref" ->
         CompareInt(Fast(refs, c.o1), Fast(refs, c.o2), c.oper)
    [] c.comparator = "with_delta" ->
         IF Entry(refs, c.o1.ref).changed
         THEN CompareInt(Fast(refs, c.o1), Fast(refs, c.o2), c.oper)
         ELSE c.oper \in {"eq", "ge", "le"}
    [] OTHER -> Compare(EvaluateOperand(refs, c.o1), EvaluateOperand(refs, c.o2), c.oper)

-----------------------------------------------------------------------------
(* Parsing a condition                                                        *)

\* A condition with both operands, and the comparator that suits them.
Whole(c, p) == [p |-> p, c |-> [c EXCEPT !.comparator = Comparator(p.refs, c)]]

\* What is made of the text once its operands are parsed: a is the first one, b
\* the second, each with the parse state after it.
Assembled(t, a, b) ==
  LET keep == ~(t.type \in CanModify /\ ~Modifying(t.oper))
      c    == [type |-> t.type, o1 |-> a.o, oper |-> t.oper, o2 |-> b.o,
               required |-> t.required, combining |-> FALSE, comparator |-> "default"]
  IN  CASE t.oper = "none" ->
             IF t.type \in CanModify \cup {"measured"}
             THEN [p |-> a.p, c |-> [c EXCEPT !.o2 = ConstOperand(1), !.required = 0]]
             ELSE [p |-> Fail(a.p, "invalid_operator"), c |-> c]
        [] keep -> Whole(c, [b.p EXCEPT !.hasRequiredHits = @ \/ t.required # 0])
        \* a comparison left on a condition that was turned into a modifier
        [] t.type # "remember" ->
             Whole([c EXCEPT !.oper = "none", !.o2 = ConstOperand(0), !.required = 0], b.p)
        [] OTHER -> [p |-> Fail(a.p, "invalid_operator"), c |-> c]

\* rc_parse_condition_internal: p is the parse state, t the text.
ParseCondition(p, t) ==
  LET a == ParseOperand(p, t.o1) IN Assembled(t, a, ParseOperand(a.p, t.o2))

ModifiedOperand(p, o, got) ==
  [p |-> [p EXCEPT !.refs = got.refs],
   o |-> [o EXCEPT !.ref = got.ref, !.type = "address", !.access = "address", !.size = "bits32"]]

\* rc_condition_convert_to_operand: the condition's value as one operand.
ConvertToOperand(p, c) ==
  IF c.oper = "none" THEN [p |-> p, o |-> c.o1]
  ELSE ModifiedOperand(p, c.o1, AllocModified(p.refs, "bits32", c.o1, c.oper, c.o2))

\* The chain of AddSource and SubSource is the operand of v from here on.
Chained(v) == [v.p EXCEPT !.addsource = v.o]

\* Adds a value to the chain.
Accumulate(v) == Chained(AddSourceTo(v.p, v.o, "bits32"))

ZeroBased(p, oper, got) ==
  [p EXCEPT !.refs = got.refs, !.addsource.ref = got.ref, !.addsource.size = "bits32",
            !.addsource.type = IF oper = "addacc" THEN "address" ELSE @]

\* A chain that begins with SubSource, or with a constant, starts from zero.
FromZero(p) ==
  IF p.addsourceOper = "subparent" \/ (p.addsourceOper = "addacc" /\ ~IsMemref(p.addsource))
  THEN ZeroBased(p, p.addsourceOper,
                 AllocModified(p.refs, "bits32", p.addsource, p.addsourceOper, ConstOperand(0)))
  ELSE p

EndChain(p) == [p EXCEPT !.addsource.type = "none", !.indirect.type = "none"]

\* The last condition of a chain: its first operand becomes the sum s.
SumCondition(c, s) ==
  LET d == [c EXCEPT !.o1 = s.o, !.combining = TRUE]
  IN  [p |-> EndChain(s.p),
       c |-> IF c.type = "remember" THEN d ELSE [d EXCEPT !.comparator = Comparator(s.p.refs, d)]]

EndOfChain(p, c) ==
  IF p.addsource.type = "none" THEN [p |-> EndChain(p), c |-> c]
  ELSE SumCondition(c, AddSourceTo([p EXCEPT !.addsourceOper = IF c.type # "remember" /\ @ = "addacc"
                                                               THEN "add" ELSE @], c.o1, c.o1.size))

\* Measured in a value, and Remember, fold their own operator into the operand
\* v before they end a chain.
Folded(c, v) == EndOfChain(v.p, [c EXCEPT !.o1 = v.o])

\* What a Remember leaves for the recalls after it.
Remembered(e) == [e EXCEPT !.p.remember = e.c.o1]

\* The conditions that modify the next one, v the value of the condition; p in
\* Subtracting has a chain that begins from zero.
PointFrom(v)     == [v.p EXCEPT !.indirect = v.o]
AddToChain(v)    == [IF v.p.addsource.type = "none" THEN Chained(v) ELSE Accumulate(v)
                       EXCEPT !.addsourceOper = "addacc", !.indirect.type = "none"]
BeginNegative(v) == [Chained(v) EXCEPT !.addsourceOper = "subparent", !.indirect.type = "none"]
SubtractFrom(v)  == [Accumulate(v) EXCEPT !.addsourceOper = "addacc", !.indirect.type = "none"]
Subtracting(p)   == [p EXCEPT !.addsourceOper = IF IsMemref(p.addsource) THEN "subacc" ELSE "subparent"]

\* rc_condition_update_parse_state
UpdateParseState(p, c) ==
  CASE c.type = "addaddress" -> [p |-> PointFrom(ConvertToOperand(p, c)), c |-> c]
    [] c.type = "addsource"  -> [p |-> AddToChain(ConvertToOperand(p, c)), c |-> c]
    [] c.type = "subsource"  ->
         [p |-> IF p.addsource.type = "none" THEN BeginNegative(ConvertToOperand(p, c))
                ELSE SubtractFrom(ConvertToOperand(Subtracting(FromZero(p)), c)), c |-> c]
    [] c.type = "remember"   ->
         IF /\ c.o1.type = "recall" /\ c.oper = "none"
            /\ p.addsource.type = "none" /\ p.indirect.type = "none"
         THEN [p |-> p, c |-> c] ELSE Remembered(Folded(c, ConvertToOperand(p, c)))
    [] c.type = "measured" /\ p.isValue /\ Modifying(c.oper) /\ c.oper # "none" ->
         Folded(c, ConvertToOperand(p, c))
    [] OTHER -> EndOfChain(p, c)

-----------------------------------------------------------------------------
(* Classes                                                                    *)

Classes == <<"pause", "reset", "hittarget", "measured", "other">>

\* rc_classify_condition
Classify(c) ==
  CASE c.type = "pauseif" -> "pause"
    [] c.type = "resetif" -> "reset"
    [] c.type \in {"addaddress", "addsource", "subsource"} -> "indirect"
    [] c.type \in Combining -> "combining"
    [] c.type \in {"measured", "measuredif"} -> "measured"
    [] OTHER -> IF c.required # 0 THEN "hittarget" ELSE "other"

\* rc_find_next_classification: a combining condition goes with the condition
\* its chain ends in, and with "other" when the chain has no end.
ClassOf(conds, i) ==
  LET ends == {j \in i .. Len(conds) : Classify(conds[j]) \notin {"combining", "indirect"}}
  IN  CASE Classify(conds[i]) # "combining" -> Classify(conds[i])
        [] ends = {} -> "other"
        [] OTHER     -> Classify(conds[Min(ends)])

\* rc_classify_conditions
Order(conds) ==
  [class \in Range(Classes) |->
     SelectSeq([i \in DOMAIN conds |-> i], LAMBDA i : ClassOf(conds, i) = class)]

EmptyGroup == [conds |-> <<>>, order |-> Order(<<>>)]

-----------------------------------------------------------------------------
(* Recalls and pauses. Pause conditions are evaluated before the others: a    *)
(* recall in one of them never reads what a later class remembers, and what   *)
(* the last of them remembers is what the other conditions recall until they  *)
(* remember something themselves.                                             *)

Unresolved(o) == o.type = "recall" /\ IsMemrefType(o.access) /\ o.ref = NoRef
Resolve(o, remember) ==
  IF Unresolved(o) THEN [remember EXCEPT !.type = "recall", !.access = remember.type] ELSE o

\* The modified entries an operand is made of.
Reach(refs, o) ==
  LET parts(e) == {x \in {e.parent, e.modifier} : IsMemref(x) /\ x.ref[1] = "mod"}
      step(seen, i) == IF i \in seen THEN seen \cup {x.ref[2] : x \in parts(refs.mod[i])} ELSE seen
      downward == Reverse([i \in DOMAIN refs.mod |-> i])
  IN  FoldLeft(step, IF IsMemref(o) /\ o.ref[1] = "mod" THEN {o.ref[2]} ELSE {}, downward)

\* rc_condition_update_recall_operand
UpdateRecall(refs, o, remember) ==
  [refs EXCEPT !.mod = [i \in DOMAIN @ |->
     IF i \in Reach(refs, o)
     THEN [@[i] EXCEPT !.parent = Resolve(@, remember), !.modifier = Resolve(@, remember)]
     ELSE @[i]]]

\* rc_update_condition_pause_remember
PauseRemember(refs, group) ==
  LET pause  == Range(group.order["pause"])
      mem    == {i \in pause : group.conds[i].type = "remember"}
      isMem(i) == i \in mem
      drop(o) == IF o.type = "recall" /\ IsMemrefType(o.access) THEN [o EXCEPT !.ref = NoRef] ELSE o
      early  == {i \in pause \ mem : \A j \in mem : i < j}
      last   == group.conds[Max(mem)].o1
      firstRemember == Min({i \in DOMAIN group.conds : group.conds[i].type = "remember"})
      late   == {i \in DOMAIN group.conds \ pause : i <= firstRemember}
      conds  == [i \in DOMAIN group.conds |->
                   CASE i \in early -> [group.conds[i] EXCEPT !.o1 = drop(@), !.o2 = drop(@)]
                     [] i \in late /\ mem # {} ->
                          [group.conds[i] EXCEPT !.o1 = Resolve(@, last), !.o2 = Resolve(@, last)]
                     [] OTHER -> group.conds[i]]
      fix(r, i) == UpdateRecall(UpdateRecall(r, group.conds[i].o1, last), group.conds[i].o2, last)
  IN  [refs  |-> IF mem = {} THEN refs ELSE FoldLeft(fix, refs, SetToSortSeq(late, <)),
       group |-> [group EXCEPT !.conds = conds]]

-----------------------------------------------------------------------------
(* Parsing a group                                                            *)

\* What a Measured condition measures against, and what it may not be.
MeasuredTarget(p, c) ==
  CASE p.isValue          -> Word - 1
    [] c.required # 0     -> c.required
    [] c.o2.type = "const" -> c.o2.num
    [] OTHER              -> 0

CheckCondition(p, c, target) ==
  CASE c.oper = "none" /\ ~(c.type \in CanModify \/ (c.type = "measured" /\ p.isValue)) ->
         "invalid_operator"
    [] c.type = "measured" /\ target # 0 -> "multiple_measured"
    [] c.type = "measured" /\ ~p.isValue /\ c.required = 0 /\ c.o2.type # "const" ->
         "invalid_measured_target"
    [] c.type = "measured" /\ p.measuredTarget # 0 /\ MeasuredTarget(p, c) # p.measuredTarget ->
         "multiple_measured"
    [] c.type \in {"standard", "trigger"} /\ p.isValue -> "invalid_value_flag"
    [] OTHER -> "ok"

\* A condition of the group is complete: u is the condition and the parse state.
AddCondition(s, u) == [s EXCEPT !.p = u.p, !.conds = Append(@, u.c)]

\* The condition got from the text t, if the group may have it.
Accept(s, t, got) ==
  LET c      == IF t.type = "measured" /\ s.p.isValue /\ ~Modifying(got.c.oper)
                THEN [got.c EXCEPT !.required = Word - 1] ELSE got.c
      error  == CheckCondition(got.p, c, s.target)
      target == IF t.type = "measured" THEN MeasuredTarget(got.p, c) ELSE s.target
      q      == [got.p EXCEPT !.measuredTarget = IF t.type = "measured" THEN target ELSE @]
  IN  CASE got.p.error # "ok" -> [s EXCEPT !.p = got.p]
        [] error # "ok"       -> [s EXCEPT !.p = Fail(got.p, error)]
        [] OTHER -> AddCondition([s EXCEPT !.target = target], UpdateParseState(q, c))

\* rc_parse_condset: s carries the parse state, the conditions so far and the
\* measured target of this group.
ParseStep(s, t) == IF s.p.error # "ok" THEN s ELSE Accept(s, t, ParseCondition(s.p, t))

NoConditions(p) == [p |-> p, conds |-> <<>>, target |-> 0]

\* The group of the conditions that were parsed.
Grouped(s) ==
  LET group == [conds |-> s.conds, order |-> Order(s.conds)]
      fixed == PauseRemember(s.p.refs, group)
  IN  IF s.p.error = "ok" /\ group.order["pause"] # <<>> /\ s.p.remember.type # "none"
      THEN [p |-> [s.p EXCEPT !.refs = fixed.refs], group |-> fixed.group]
      ELSE [p |-> s.p, group |-> group]

ParseCondset(p, texts) ==
  IF texts = <<>> THEN [p |-> p, group |-> EmptyGroup]
  ELSE Grouped(FoldLeft(ParseStep, NoConditions([EndChain(p) EXCEPT !.addsourceOper = "none",
                                                                    !.remember.type = "none"]), texts))

-----------------------------------------------------------------------------
(* Evaluating a group. es is the evaluation state (rc_eval_state_t) with the  *)
(* hit counts of the group, in the order of the definition.                   *)

NoEval == [isTrue |-> TRUE, isPrimed |-> TRUE, isPaused |-> FALSE, canMeasure |-> TRUE,
           measured |-> Typed("none", 0), fromHits |-> FALSE, addHits |-> 0,
           andNext |-> TRUE, orNext |-> FALSE, resetNext |-> FALSE, stop |-> FALSE,
           wasReset |-> FALSE, wasCondReset |-> FALSE, hasHits |-> FALSE,
           valid |-> FALSE, hits |-> <<>>]

\* The next group keeps what the groups before it found.
NextEval(es, hits) == [NoEval EXCEPT !.wasReset = es.wasReset, !.wasCondReset = es.wasCondReset,
                                     !.hasHits = es.hasHits, !.hits = hits]

\* The hit count of condition i after it was met or not.
Tally(c, i, met, es) ==
  LET h    == es.hits[i]
      tick == c.required = 0 \/ h < c.required
      next == [es EXCEPT !.andNext = TRUE, !.orNext = FALSE]
  IN  CASE es.resetNext ->
             [next EXCEPT !.wasCondReset = @ \/ h # 0, !.hits[i] = 0, !.valid = FALSE]
        [] ~es.resetNext /\ met ->
             [next EXCEPT !.hasHits = TRUE, !.hits[i] = IF tick THEN h + 1 ELSE h,
                          !.valid = c.required = 0 \/ ~tick \/ h + 1 = c.required]
        [] OTHER -> [next EXCEPT !.hasHits = @ \/ h > 0, !.valid = h > 0 /\ h = c.required]

\* rc_condset_evaluate_condition_no_add_hits; the result is es.valid.
NoAddHits(refs, c, i, es) == Tally(c, i, (TestCondition(refs, c) /\ es.andNext) \/ es.orNext, es)

\* rc_condset_evaluate_total_hits
TotalHits(c, i, es) ==
  IF c.required # 0 /\ es.hits[i] + es.addHits < 0 THEN 0
  ELSE es.hits[i] + (IF c.required # 0 THEN es.addHits ELSE 0)

\* rc_condset_evaluate_condition, e being what NoAddHits found: the hits of the
\* chain count too.
Evaluate(c, i, e) ==
  IF e.addHits # 0 /\ c.required # 0
  THEN [e EXCEPT !.valid = TotalHits(c, i, e) >= c.required, !.addHits = 0, !.resetNext = FALSE]
  ELSE [e EXCEPT !.resetNext = FALSE]

\* The group holds only if ok.
Requires(es, ok) == [es EXCEPT !.isTrue = @ /\ ok, !.isPrimed = @ /\ ok]

\* rc_condset_evaluate_measured: a hit target measures hits, otherwise the
\* value of the left operand is measured.
EvaluateMeasured(refs, c, i, e) ==
  IF c.required = 0
  THEN [Requires(Evaluate(c, i, e), Evaluate(c, i, e).valid)
          EXCEPT !.measured = EvaluateOperand(refs, c.o1), !.fromHits = FALSE]
  ELSE [Requires(e, TotalHits(c, i, e) >= c.required)
          EXCEPT !.measured = Unsigned(TotalHits(c, i, e)), !.fromHits = TRUE, !.addHits = 0, !.resetNext = FALSE]

\* A condition that ends a chain and is not measured; v is its evaluation.
Conclude(c, i, v) ==
  CASE c.type = "standard"   -> Requires(v, v.valid)
    [] c.type = "pauseif"    ->
         IF v.valid THEN [Requires(v, FALSE) EXCEPT !.isPaused = TRUE, !.stop = TRUE]
         ELSE [v EXCEPT !.hits[i] = IF c.required = 0 THEN 0 ELSE @]
    [] c.type = "resetif"    ->
         IF v.valid THEN [Requires(v, FALSE) EXCEPT !.wasReset = TRUE, !.stop = TRUE] ELSE v
    [] c.type = "trigger"    -> [v EXCEPT !.isTrue = @ /\ v.valid]
    [] c.type = "measuredif" -> [Requires(v, v.valid) EXCEPT !.canMeasure = @ /\ v.valid]

\* What a condition of a chain leaves for the next one; n is what NoAddHits found.
Combined(c, i, n) ==
  CASE c.type = "addhits"     -> [n EXCEPT !.addHits = @ + n.hits[i], !.resetNext = FALSE]
    [] c.type = "subhits"     -> [n EXCEPT !.addHits = @ - n.hits[i], !.resetNext = FALSE]
    [] c.type = "resetnextif" -> [n EXCEPT !.resetNext = n.valid]
    [] c.type = "andnext"     -> [n EXCEPT !.andNext = n.valid]
    [] c.type = "ornext"      -> [n EXCEPT !.orNext = n.valid]

Judge(refs, c, i, n) ==
  CASE c.type \in Combining -> Combined(c, i, n)
    [] c.type = "measured"  -> EvaluateMeasured(refs, c, i, n)
    [] OTHER                -> Conclude(c, i, Evaluate(c, i, n))

\* One condition of rc_test_condset_internal; what modifies is read, not tested.
EvaluateCondition(refs, c, i, es) ==
  IF c.type \in CanModify THEN es ELSE Judge(refs, c, i, NoAddHits(refs, c, i, es))

\* rc_test_condset_internal: the conditions of one class.
TestClass(refs, group, class, es, shortCircuit) ==
  FoldLeft(LAMBDA e, i : IF e.stop /\ shortCircuit THEN e ELSE EvaluateCondition(refs, group.conds[i], i, e),
           es, group.order[class])

\* The counts of the measured conditions are cleared before they are tested.
ClearMeasured(group, es) ==
  [es EXCEPT !.hits = [i \in DOMAIN @ |-> IF i \in Range(group.order["measured"]) THEN 0 ELSE @[i]]]

\* Nothing is measured when a MeasuredIf fails or the hits are gone.
CheckMeasured(e) ==
  IF e.measured.type # "none" /\ (~e.canMeasure \/ (e.fromHits /\ e.wasReset))
  THEN [e EXCEPT !.measured = Unsigned(0)] ELSE e

\* The classes after the pauses, each from what the one before it found.
HitTargets(refs, group, es) ==
  IF es.wasReset THEN es ELSE TestClass(refs, group, "hittarget", es, FALSE)
Measured(refs, group, es) ==
  CheckMeasured(TestClass(refs, group, "measured", IF es.wasReset THEN ClearMeasured(group, es) ELSE es, FALSE))
Others(refs, group, es) ==
  IF es.isTrue \/ ~es.wasReset THEN TestClass(refs, group, "other", es, FALSE) ELSE es
Unpaused(refs, group, es) ==
  IF es.isPaused THEN [es EXCEPT !.isTrue = FALSE]
  ELSE Others(refs, group, Measured(refs, group, HitTargets(refs, group, TestClass(refs, group, "reset", es, FALSE))))

\* rc_test_condset, with nothing short-circuited but pauses, as
\* rc_evaluate_trigger calls it.
TestCondset(refs, group, es, hits) ==
  Unpaused(refs, group, TestClass(refs, group, "pause", NextEval(es, hits), TRUE))

\* rc_reset_condset
ResetHits(hits) == [i \in DOMAIN hits |-> 0]
=============================================================================
