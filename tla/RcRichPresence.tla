--------------------------- MODULE RcRichPresence ---------------------------
(* Rich presence (richpresence.c): the line that says where the player is.    *)
(* A script is [lookups, displays]. A lookup is [items, default], an item a   *)
(* range of values with a label; a display is [when, parts], a part a text, a *)
(* value or a value looked up in a table. The first display whose condition   *)
(* holds is shown; the last one has none. Character macros and formats are    *)
(* left out: a value is shown as itself.                                      *)
EXTENDS RcTrigger

-----------------------------------------------------------------------------
(* Lookup tables: trees of ranges, rebuilt flat once they are complete.       *)

Leaf == [leaf |-> TRUE]
Node(item, left, right) == [leaf |-> FALSE, first |-> item.first, last |-> item.last,
                            label |-> item.label, left |-> left, right |-> right]

\* The way down to the place of an item: right of smaller ranges, left of
\* larger ones. It ends where the label of a neighbour is extended.
RECURSIVE Insert(_, _)
Insert(tree, item) ==
  LET same == tree.label = item.label
  IN  CASE tree.leaf -> Node(item, Leaf, Leaf)
        [] ~tree.leaf /\ item.first > tree.last ->
             IF item.first = tree.last + 1 /\ same THEN [tree EXCEPT !.last = item.last]
             ELSE [tree EXCEPT !.right = Insert(@, item)]
        [] ~tree.leaf /\ item.last < tree.first ->
             IF item.last = tree.first - 1 /\ same THEN [tree EXCEPT !.first = item.first]
             ELSE [tree EXCEPT !.left = Insert(@, item)]
        [] OTHER -> tree

\* A range met on the way down that overlaps: the table is refused.
RECURSIVE Clashes(_, _)
Clashes(tree, item) ==
  CASE tree.leaf -> FALSE
    [] ~tree.leaf /\ item.first > tree.last ->
         ~(item.first = tree.last + 1 /\ tree.label = item.label) /\ Clashes(tree.right, item)
    [] ~tree.leaf /\ item.last < tree.first ->
         ~(item.last = tree.first - 1 /\ tree.label = item.label) /\ Clashes(tree.left, item)
    [] OTHER -> TRUE

RECURSIVE InOrder(_)
InOrder(tree) == IF tree.leaf THEN <<>> ELSE InOrder(tree.left) \o <<tree>> \o InOrder(tree.right)

RECURSIVE Balanced(_)
Balanced(items) ==
  LET mid == (Len(items) + 1) \div 2
  IN  IF items = <<>> THEN Leaf
      ELSE Node(items[mid], Balanced(SubSeq(items, 1, mid - 1)), Balanced(SubSeq(items, mid + 1, Len(items))))

\* rc_rebalance_richpresence_lookup: one or two items stay as they are.
Rebalanced(tree) == IF Len(InOrder(tree)) < 3 THEN tree ELSE Balanced(InOrder(tree))

\* rc_parse_richpresence_lookup
ParseLookup(lookup) ==
  LET step(s, item) == IF Clashes(s.tree, item) THEN [s EXCEPT !.error = "duplicated"]
                       ELSE [s EXCEPT !.tree = Insert(@, item)]
      s == FoldLeft(LAMBDA a, item : IF a.error = "ok" THEN step(a, item) ELSE a,
                    [tree |-> Leaf, error |-> "ok"], lookup.items)
  IN  [tree |-> Rebalanced(s.tree), default |-> lookup.default, error |-> s.error]

RECURSIVE Find(_, _, _)
Find(tree, v, default) ==
  CASE tree.leaf -> default
    [] ~tree.leaf /\ v > tree.last  -> Find(tree.right, v, default)
    [] ~tree.leaf /\ v < tree.first -> Find(tree.left, v, default)
    [] OTHER -> tree.label

-----------------------------------------------------------------------------
(* Parsing a script. s is [p, values, displays], values the helper variables. *)

Variable(k) == [variable |-> k, operand |-> NoOperand]

\* A value that is nothing but one measured sum is read from its reference.
IsOneOperand(def) ==
  /\ Len(def.groups) = 1
  /\ Len(def.groups[1].order["measured"]) = 1
  /\ \A class \in {"pause", "reset", "hittarget", "other"} : def.groups[1].order[class] = <<>>
  /\ \E c \in Range(def.groups[1].conds) : c.type = "measured" /\ c.required = 0

\* rc_alloc_variable: one helper for all the places that name the same value.
AllocVariable(s, text, def) ==
  LET at == SelectInSeq(s.values, LAMBDA v : v.text = text)
  IN  IF at # 0 THEN [s |-> s, value |-> Variable(at)]
      ELSE [s |-> [s EXCEPT !.values = Append(@, [text |-> text, def |-> def, v |-> NewValue(def)])],
            value |-> Variable(Len(s.values) + 1)]

\* What is read in place of the value got from the text.
HelperFor(s, text, got) ==
  LET q   == [s EXCEPT !.p = [got.p EXCEPT !.measuredTarget = s.p.measuredTarget]]
      c   == CHOOSE x \in Range(got.def.groups[1].conds) : x.type = "measured" /\ x.required = 0
  IN  CASE got.p.error # "ok" -> [s |-> [s EXCEPT !.p = Fail(@, got.p.error)], value |-> Variable(0)]
        [] got.p.error = "ok" /\ IsOneOperand(got.def) -> [s |-> q, value |-> [variable |-> 0, operand |-> c.o1]]
        [] OTHER -> AllocVariable(q, text, got.def)

\* rc_alloc_helper_variable_memref_value
HelperValue(s, text) == HelperFor(s, text, ParseValue(s.p, text))

\* a carries the script and the parts of the display so far.
AddValue(a, part, got) == [s |-> got.s, parts |-> Append(a.parts, [part EXCEPT !.value = got.value])]

ParseDisplayPart(a, part) ==
  CASE a.s.p.error # "ok" -> a
    [] a.s.p.error = "ok" /\ part.kind = "text" -> [a EXCEPT !.parts = Append(@, part)]
    [] OTHER -> AddValue(a, part, HelperValue(a.s, part.value))

AddDisplay(a, got) ==
  [a.s EXCEPT !.p = got.p,
              !.displays = Append(@, [def |-> got.def, t |-> NewTrigger(got.def), parts |-> a.parts,
                                      counts |-> got.p.hasRequiredHits])]

ParseWhen(a, when) == IF a.s.p.error # "ok" THEN a.s ELSE AddDisplay(a, ParseTrigger(a.s.p, when))

\* rc_parse_richpresence_display_internal, then the trigger of the display.
ParseDisplay(s, display) ==
  ParseWhen(FoldLeft(ParseDisplayPart, [s |-> s, parts |-> <<>>], display.parts), display.when)

\* The tables and what was made of the displays.
WithTables(script, tables, s) ==
  LET bad    == \E k \in DOMAIN tables : tables[k].error # "ok"
      error  == CASE bad -> "duplicated"
                  [] ~bad /\ script.displays = <<>> -> "missing_display"
                  [] OTHER -> s.p.error
  IN  [p |-> Fail(s.p, error), rich |-> [lookups |-> tables, values |-> s.values, displays |-> s.displays]]

\* rc_parse_richpresence_internal: the tables first, the displays after them.
ParseScript(p, script) ==
  WithTables(script, [k \in DOMAIN script.lookups |-> ParseLookup(script.lookups[k])],
             FoldLeft(LAMBDA s, d : IF s.p.error = "ok" THEN ParseDisplay(s, d) ELSE s,
                      [p |-> p, values |-> <<>>, displays |-> <<>>], script.displays))

-----------------------------------------------------------------------------
(* Every frame, and when the line is asked for                                *)

\* rc_update_richpresence: displays that count hits are tested on every frame.
UpdateRich(refs, rich) ==
  [rich EXCEPT
     !.values = [k \in DOMAIN @ |-> [@[k] EXCEPT !.v = UpdateValue(refs, rich.values[k].def, @)]],
     !.displays = [k \in DOMAIN @ |-> IF @[k].counts
                                      THEN [@[k] EXCEPT !.t = TestTrigger(refs, rich.displays[k].def, @).t]
                                      ELSE @[k]]]

PartValue(refs, rich, x) ==
  IF x.variable = 0 THEN EvaluateOperand(refs, x.operand)
  ELSE Typed(rich.values[x.variable].v.type, rich.values[x.variable].v.value)

\* rc_evaluate_richpresence_display
ShowPart(refs, rich, part) ==
  CASE part.kind = "text" -> part.text
    [] part.kind = "lookup" -> LET table == rich.lookups[part.lookup]
                               IN  Find(table.tree, Convert(PartValue(refs, rich, part.value), "unsigned").v, table.default)
    [] OTHER -> PartValue(refs, rich, part.value)

\* The first display whose condition holds now, or the last one; those after it
\* were not tested.
ShowFirst(refs, rich, now) ==
  LET k == Min({Len(now)} \cup {n \in 1 .. Len(now) - 1 : now[n].state = "triggered"})
  IN  [rich |-> [rich EXCEPT !.displays = [n \in DOMAIN @ |-> IF n <= k THEN [@[n] EXCEPT !.t = now[n]] ELSE @[n]]],
       line |-> [n \in DOMAIN rich.displays[k].parts |-> ShowPart(refs, rich, rich.displays[k].parts[n])]]

\* rc_get_richpresence_display_string: conditions without hits are tested now.
ShowRich(refs, rich) ==
  ShowFirst(refs, rich, [k \in DOMAIN rich.displays |->
                           IF k = Len(rich.displays) \/ rich.displays[k].counts THEN rich.displays[k].t
                           ELSE TestTrigger(refs, rich.displays[k].def, rich.displays[k].t).t])

\* rc_reset_richpresence_triggers and rc_reset_richpresence
ResetDisplays(rich) ==
  [rich EXCEPT !.displays = [k \in DOMAIN @ |-> [@[k] EXCEPT !.t = ResetTrigger(rich.displays[k].def, @)]]]
ResetRich(rich) ==
  [ResetDisplays(rich) EXCEPT !.values = [k \in DOMAIN @ |-> [@[k] EXCEPT !.v = ResetValue(@)]]]
=============================================================================
