----------------------------- MODULE RcValidate -----------------------------
(* What the engine tells the author of an achievement about its definition    *)
(* (rc_validate.c): comparisons that can never or always hold, conditions      *)
(* that contradict each other or add nothing, chains that lead nowhere.        *)
(*                                                                            *)
(* An error is [err, group, cond, at, source]: group and cond are what is      *)
(* reported, at is the position of the condition the code is looking at, and   *)
(* source is <<group, condition>> of the condition it clashes with. Groups     *)
(* are numbered as in the code: the core is 0, alternatives start at 1.        *)
(* Floating-point operands, the rules of other consoles and the wording are    *)
(* left out.                                                                   *)
EXTENDS RcTrigger

CONSTANTS MaxErrors,   \* 64 in the code
          MaxAddress   \* the last address of the console

ASSUME ValidateAssumption == MaxErrors \in Nat \ {0} /\ MaxAddress \in Nat

\* The errors, most severe first.
Severity ==
  <<"address_out_of_range", "recall_without_remember", "recall_before_remember",
    "never_true_with_max", "never_true", "conflicting",
    "always_true_with_max", "trailing_chain", "measuredif_without_measured", "addhits_without_target",
    "pointer_from_previous_frame", "pointer_transformed_offset",
    "different_sizes", "mask_always_zero",
    "redundant", "no_hits_to_reset", "reset_target_of_one", "mask_too_large">>

Rank(err) == SelectInSeq(Severity, LAMBDA x : x = err)

\* rc_validation_compare_severity
MoreSevere(a, b) ==
  \/ Rank(a.err) < Rank(b.err)
  \/ a.err = b.err /\ a.group < b.group
  \/ a.err = b.err /\ a.group = b.group /\ a.cond < b.cond

\* rc_validate_find_least_severe_error: the first of those no other is less than.
LeastSevere(errors) ==
  Min({i \in DOMAIN errors : \A j \in DOMAIN errors : ~MoreSevere(errors[i], errors[j])})

\* rc_validate_add_error: a full list gives up its least severe entry.
AddError(st, e) ==
  [st EXCEPT !.errors = IF Len(@) < MaxErrors THEN Append(@, e) ELSE [@ EXCEPT ![LeastSevere(@)] = e]]

At(st, err, i) == [err |-> err, group |-> st.group, cond |-> i, at |-> i, source |-> <<0, 0>>]
AddAt(st, i, errs) == FoldLeft(LAMBDA s, err : AddError(s, At(s, err, i)), st, errs)

When(p, err) == IF p THEN <<err>> ELSE <<>>

-----------------------------------------------------------------------------
(* The values an operand can take: [min, max], in words that wrap.             *)

\* rc_max_value. A byte is small in an instance: decimal digits may not fit.
MaxValue(o) ==
  LET digits(n) == MapThenSumSet(LAMBDA i : (Nibble - 1) * 10^i, 0 .. n - 1)
      fits(n)   == Min({digits(n), Word - 1})
      bcd       == o.type = "bcd"
  IN  CASE o.type = "const"  -> o.num
        [] o.type = "recall" -> Word - 1
        [] IsMemref(o) /\ o.size \in DOMAIN BitIndex -> 1
        [] IsMemref(o) /\ o.size \in {"low", "high"} -> Nibble - 1
        [] IsMemref(o) /\ o.size = "bitcount" -> ByteBits
        [] IsMemref(o) /\ o.size = "bits8"    -> IF bcd THEN fits(2) ELSE Byte - 1
        [] IsMemref(o) /\ o.size \in TwoBytes -> IF bcd THEN fits(4) ELSE Byte^2 - 1
        [] IsMemref(o) /\ o.size \in Three    -> IF bcd THEN fits(6) ELSE Byte^3 - 1
        [] OTHER                              -> IF bcd THEN fits(8) ELSE Word - 1

Saturated(v) == Min({v, Word - 1})

\* rc_combine_ranges: min > max stands for a range that wraps.
CombineRanges(r, oper, by) ==
  CASE oper = "mult" -> [min |-> Saturated(r.min * by.min), max |-> Saturated(r.max * by.max)]
    [] oper = "div"  -> [min |-> IF by.max = 0 THEN r.min ELSE r.min \div by.max,
                         max |-> IF by.min = 0 THEN r.max ELSE r.max \div by.min]
    [] oper = "and"  -> [min |-> 0, max |-> BitAnd(r.max, by.max)]
    [] oper = "xor"  -> [min |-> 0, max |-> r.max + by.max - BitAnd(r.max, by.max)]
    [] oper = "mod"  -> [min |-> 0, max |-> IF r.max >= by.max THEN (by.max - 1) % Word ELSE r.max]
    [] oper \in {"add", "addacc"} ->
         [min |-> (r.min + by.min) % Word,
          max |-> IF r.min > r.max THEN (r.max + by.max) % Word ELSE Saturated(r.max + by.max)]
    [] oper \in {"sub", "subacc"} -> [min |-> (r.min - by.max) % Word, max |-> (r.max - by.min) % Word]
    [] oper = "subparent" -> [min |-> (by.min - r.max) % Word, max |-> (by.max - r.min) % Word]
    [] OTHER -> r

IsModified(o) == IsMemref(o) /\ o.ref[1] = "mod"

\* rc_chain_get_value_range: an entry is made of entries made before it.
ValueRange(refs, operand) ==
  LET plain(o)  == [min |-> IF o.type = "const" THEN o.num ELSE 0, max |-> MaxValue(o)]
      chained(o) == IsModified(o) /\ refs.mod[o.ref[2]].oper # "indirect"
      range[n \in 0 .. Len(refs.mod)] ==
        LET e     == refs.mod[n]
            of(o) == IF chained(o) THEN range[o.ref[2]] ELSE plain(o)
        IN  CASE n = 0 -> [min |-> 0, max |-> 0]
              [] n # 0 /\ e.oper = "div" /\ IsMemref(e.modifier) /\ SameOperand(e.modifier, e.parent) ->
                   [min |-> 0, max |-> 1]
              [] OTHER -> CombineRanges(of(e.parent), e.oper, of(e.modifier))
  IN  IF chained(operand) THEN range[operand.ref[2]] ELSE plain(operand)

\* rc_validate_range: an operand of at most max against one within [low, high].
RangeErrors(low, high, oper, max) ==
  CASE oper = "and" -> When(low > max, "mask_too_large") \o When(low <= max /\ low = 0 /\ high = 0, "mask_always_zero")
    [] oper = "eq"  -> When(low > max, "never_true_with_max")
    [] oper = "ne"  -> When(low > max, "always_true_with_max")
    [] oper = "ge"  -> When(low > max, "never_true_with_max") \o When(low <= max /\ high = 0, "always_true_with_max")
    [] oper = "gt"  -> When(low >= max, "never_true_with_max")
    [] oper = "le"  -> When(low >= max, "always_true_with_max")
    [] oper = "lt"  -> When(low > max, "always_true_with_max") \o When(low <= max /\ high = 0, "never_true")
    [] OTHER        -> <<>>

Mirrored(oper) == CASE oper = "lt" -> "gt" [] oper = "le" -> "ge"
                    [] oper = "gt" -> "lt" [] oper = "ge" -> "le" [] OTHER -> oper

ComparisonErrors(refs, c) ==
  LET raw    == ValueRange(refs, c.o1)
      range  == IF raw.min > raw.max THEN [min |-> 0, max |-> Word - 1] ELSE raw
      low(o) == IF o.type = "const" THEN o.num ELSE 0
      plain(o) == IsMemref(o) /\ o.ref[1] = "mem"
  IN  When(plain(c.o1) /\ plain(c.o2) /\ MaxValue(c.o1) # MaxValue(c.o2), "different_sizes")
      \o (CASE IsMemref(c.o1) -> RangeErrors(low(c.o2), MaxValue(c.o2), c.oper, range.max)
            [] ~IsMemref(c.o1) /\ IsMemref(c.o2) ->
                 RangeErrors(low(c.o1), range.max, Mirrored(c.oper), MaxValue(c.o2))
            [] OTHER -> <<>>)

-----------------------------------------------------------------------------
(* One group                                                                   *)

\* rc_condition_get_real_operand1: the operand before it became part of a sum.
RealOperand1(refs, c) ==
  LET o == IF c.combining /\ IsModified(c.o1) THEN refs.mod[c.o1.ref[2]].modifier ELSE c.o1
      e == refs.mod[o.ref[2]]
  IN  IF IsModified(o) /\ e.oper # "indirect" /\ Modifying(c.oper) /\ c.oper # "none" THEN e.parent ELSE o

\* rc_validate_memref
OutOfRange(refs, o) == /\ IsMemref(o) /\ o.ref[1] = "mem"
                       /\ refs.mem[o.ref[2]].address > MaxAddress

AddressErrors(refs, c) ==
  When(OutOfRange(refs, RealOperand1(refs, c)), "address_out_of_range")
  \o When(OutOfRange(refs, c.o2), "address_out_of_range")

\* rc_validate_is_invalid_recall: nothing was remembered for it.
RecallErrors(refs, conds, c) ==
  LET remembers == \E i \in DOMAIN conds : conds[i].type = "remember"
  IN  When(Unresolved(RealOperand1(refs, c)) \/ Unresolved(c.o2),
           IF remembers THEN "recall_before_remember" ELSE "recall_without_remember")

PointerErrors(refs, c) ==
  LET o == RealOperand1(refs, c)
  IN  CASE o.type \in {"delta", "prior"} -> <<"pointer_from_previous_frame">>
        [] o.type \in {"bcd", "inverted"} /\ c.oper # "mult" -> <<"pointer_transformed_offset">>
        [] OTHER -> <<>>

\* A ResetIf that ends a chain of AddHits needs no hit target.
FlagErrors(st, c, inAddHits) ==
  CASE c.type \in Combining -> <<>>
    [] c.type = "resetif" /\ inAddHits -> <<>>
    [] c.type = "resetif" /\ ~inAddHits /\ ~st.hitTargets -> <<"no_hits_to_reset">>
    [] c.type = "resetif" /\ ~inAddHits /\ st.hitTargets -> When(c.required = 1, "reset_target_of_one")
    [] OTHER -> When(inAddHits /\ c.required = 0, "addhits_without_target")

\* rc_validate_condset_internal: errors are counted to know whether it is
\* worth comparing the conditions with each other.
ValidateGroup(st, refs, conds) ==
  LET step(s, i) ==
        LET c == conds[i]
            errs == (IF s.inAddAddress THEN <<>> ELSE AddressErrors(refs, c))
                    \o RecallErrors(refs, conds, c)
                    \o (IF c.type = "addaddress" THEN PointerErrors(refs, c) ELSE <<>>)
                    \o FlagErrors(s.st, c, s.inAddHits)
                    \o (IF c.type \in CanModify THEN <<>> ELSE ComparisonErrors(refs, c))
        IN  [st |-> AddAt(s.st, i, errs), inAddAddress |-> c.type = "addaddress",
             inAddHits |-> c.type \in {"addhits", "subhits"} \/ (s.inAddHits /\ c.type \in Combining)]
      all     == FoldLeftDomain(step, [st |-> st, inAddAddress |-> FALSE, inAddHits |-> FALSE], conds).st
      trailing == conds # <<>> /\ Last(conds).type \in Combining
      chained == AddAt(all, Len(conds), When(trailing, "trailing_chain"))
      ifs     == {i \in DOMAIN conds : conds[i].type = "measuredif"}
      lonely  == ifs # {} /\ ~\E i \in DOMAIN conds : conds[i].type = "measured"
  IN  IF lonely THEN AddAt(chained, Min(ifs), <<"measuredif_without_measured">>) ELSE chained

-----------------------------------------------------------------------------
(* Two conditions on the same operand                                          *)

\* rc_validate_get_opposite_comparison
Opposite(oper) == CASE oper = "eq" -> "ne" [] oper = "ne" -> "eq" [] oper = "lt" -> "ge"
                    [] oper = "le" -> "gt" [] oper = "gt" -> "le" [] oper = "ge" -> "lt" [] OTHER -> oper

\* rc_validate_get_comparison: a reference against a constant.
Comparable(c) == \/ IsMemref(c.o1) /\ c.o2.type = "const"
                 \/ c.o1.type = "const" /\ IsMemref(c.o2)
Operand(c)    == IF IsMemref(c.o1) THEN c.o1 ELSE c.o2
Comparison(c) == IF IsMemref(c.o1) THEN [oper |-> c.oper, v |-> c.o2.num]
                 ELSE [oper |-> Opposite(c.oper), v |-> c.o1.num]

\* rc_validate_comparison_overlap: by the second comparison, the first ones it
\* contradicts or follows from, when the first value is equal, less or greater.
NoPairs == [oper \in {"eq", "ne", "lt", "le", "gt", "ge"} |-> {}]
Up      == {"eq", "ge", "gt"}
Down    == {"eq", "le", "lt"}

ConflictTable ==
  [equal |-> [eq |-> {"ne", "lt", "gt"}, ne |-> {"eq"}, lt |-> Up, le |-> {"gt"}, gt |-> Down, ge |-> {"lt"}],
   less  |-> [eq |-> Down, gt |-> Down, ge |-> Down] @@ NoPairs,
   more  |-> [eq |-> Up, lt |-> Up, le |-> Up] @@ NoPairs]

RedundantTable ==
  [equal |-> [eq |-> {"eq"}, ne |-> {"ne", "lt", "gt"}, lt |-> {"lt"}, le |-> Down, gt |-> {"gt"}, ge |-> Up],
   less  |-> [ne |-> Down, lt |-> Down, le |-> Down, ge |-> {"ge"}] @@ NoPairs,
   more  |-> [ne |-> Up, gt |-> Up, ge |-> {"eq", "gt"}] @@ NoPairs]

\* Mutant of Column: the values change places.
ColumnSwapped(v, w) == CASE v = w -> "equal" [] v < w -> "more" [] OTHER -> "less"

Column(v, w) == CASE v = w -> "equal" [] v < w -> "less" [] OTHER -> "more"
Clash(a, b)  == a.oper \in ConflictTable[Column(a.v, b.v)][b.oper]
Follows(a, b) == a.oper \in RedundantTable[Column(a.v, b.v)][b.oper]

\* A ResetIf asks for the opposite of its comparison, and so does a PauseIf of
\* the conditions of its own group.
Asked(c, same) ==
  IF c.type = "resetif" \/ (c.type = "pauseif" /\ same)
  THEN [Comparison(c) EXCEPT !.oper = Opposite(@)] ELSE Comparison(c)

\* What is said of condition b because of condition a; same when both are of
\* one group, core when b is of the core and a of an alternative.
Overlap(st, a, b, same, core) ==
  LET x     == Asked(a, same)
      y     == Asked(b, same)
      kinds == {a.type, b.type}
      both  == Follows(y, x)
      pause == "pauseif" \in kinds
      reset == "resetif" \in kinds /\ kinds # {"resetif"}
      inner == "measuredif" \in kinds
      ignored == \/ core /\ ~both
                 \/ pause /\ (~same \/ ~both)
                 \/ ~pause /\ reset /\ st.hitTargets
                 \/ ~pause /\ ~reset /\ inner /\ (~same \/ a.type # "measuredif")
                 \/ ~pause /\ ~reset /\ ~inner /\ a.type = "trigger" /\ b.type # "trigger"
  IN  CASE ~(Comparing(x.oper) /\ Comparing(y.oper)) -> "none"
        [] Comparing(x.oper) /\ Comparing(y.oper) /\ Clash(x, y) ->
             IF pause /\ ~same /\ a.type # b.type THEN "none" ELSE "conflicting"
        [] Comparing(x.oper) /\ Comparing(y.oper) /\ Follows(x, y) /\ ~ignored ->
             IF pause /\ reset THEN "conflicting" ELSE "redundant"
        [] OTHER -> "none"

-----------------------------------------------------------------------------
(* Every condition of one group against those of another                       *)

Ends(conds)     == SelectSeq([i \in DOMAIN conds |-> i], LAMBDA i : conds[i].type \notin Combining)
Start(conds, e) == 1 + Max({0} \cup {i \in 1 .. e - 1 : conds[i].type \notin Combining})

\* Links after which two chains may still be the same.
SameLink(a, b) ==
  /\ a.type = b.type /\ a.oper = b.oper /\ a.required = b.required
  /\ SameOperand(a.o1, b.o1) /\ (b.oper # "none" => SameOperand(a.o2, b.o2))
  /\ b.type \in {"addaddress", "addsource", "subsource", "andnext"}

\* How many links of the chain a[s .. e] the conditions of b from t on repeat.
Repeated(a, s, e, b, t) ==
  Cardinality({n \in 1 .. e - s : \A k \in 0 .. n - 1 : t + k < Len(b) /\ SameLink(a[s + k], b[t + k])})

SameChain(a, e, b, f) ==
  LET s == Start(a, e) t == Start(b, f) IN e - s = f - t /\ Repeated(a, s, e, b, t) = e - s

\* The number the code has counted up to at condition f: of a chain it passed
\* over it counted the links that were alike and the end.
Counted(a, e, b, f, same) ==
  LET passed == {x \in 1 .. f - 1 : b[x].type \notin Combining}
      links(x) == IF same /\ x = e THEN e - Start(a, e) ELSE Repeated(a, Start(a, e), e, b, Start(b, x))
  IN  1 + MapThenSumSet(LAMBDA x : links(x) + 1, passed) + (f - Start(b, f))

\* rc_validate_conflicting_conditions: what was said of the pair the other way
\* round is not said again.
Conflicts(st, a, b, group, same) ==
  LET pairs == {p \in Range(Ends(a)) \X Range(Ends(b)) :
                  /\ ~(same /\ p[1] = p[2]) /\ SameChain(a, p[1], b, p[2])
                  /\ a[p[1]].required = 0 /\ b[p[2]].required = 0
                  /\ Comparable(a[p[1]]) /\ Comparable(b[p[2]])
                  /\ SameOperand(Operand(a[p[1]]), Operand(b[p[2]]))}
      order == SetToSortSeq(pairs, LAMBDA p, q : p[1] < q[1] \/ (p[1] = q[1] /\ p[2] < q[2]))
      step(s, p) ==
        LET said == Overlap(s, a[p[1]], b[p[2]], same, group # s.group /\ s.group = 0)
            k    == Counted(a, p[1], b, p[2], same)
            told == \E n \in DOMAIN s.errors : /\ s.errors[n].source = <<s.group, k>>
                                               /\ s.errors[n].err \in {"conflicting", "redundant"}
        IN  IF said = "none" \/ told THEN s
            ELSE AddError(s, [err |-> said, group |-> s.group, cond |-> k, at |-> p[2],
                              source |-> <<group, p[1]>>])
  IN  FoldLeft(step, st, order)

\* rc_condset_has_hittargets
HasHitTargets(group) ==
  \E class \in Range(Classes) : \E i \in Range(group.order[class]) : group.conds[i].required # 0

\* rc_validate_trigger_internal: groups with errors of their own are not
\* compared, and a comparison that found something is the last one.
Validate(refs, def) ==
  LET groups == def.groups
      first  == IF def.hasCore THEN 2 ELSE 1
      clean(s, t) == Len(s.errors) = Len(t.errors)
      start  == [errors |-> <<>>, group |-> 0,
                 hitTargets |-> \E g \in DOMAIN groups : HasHitTargets(groups[g])]
      core   == LET s == ValidateGroup(start, refs, groups[1].conds)
                IN  IF clean(start, s) THEN Conflicts(s, groups[1].conds, groups[1].conds, 0, TRUE) ELSE s
      step(s, g) ==
        LET index == g - first + 1
            alt  == groups[g].conds
            own  == [s EXCEPT !.group = index]
            one  == ValidateGroup(own, refs, alt)
            two  == Conflicts(one, alt, alt, index, TRUE)
            three == Conflicts(two, groups[1].conds, alt, 0, FALSE)
            four == Conflicts([three EXCEPT !.group = 0], alt, groups[1].conds, index, FALSE)
        IN  CASE ~clean(own, one) -> one
              [] clean(own, one) /\ (~clean(one, two) \/ ~def.hasCore) -> two
              [] clean(own, one) /\ clean(one, two) /\ def.hasCore /\ ~clean(two, three) -> three
              [] OTHER -> four
  IN  FoldLeft(step, IF def.hasCore THEN core ELSE start, [n \in 1 .. Len(groups) - first + 1 |-> n + first - 1]).errors
=============================================================================
