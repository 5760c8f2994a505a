------------------------------ MODULE RcLogic ------------------------------
(* What an achievement means, read off its definition: no shared references,  *)
(* no classes, no comparators and no early exits. The conditions of a group   *)
(* are taken in their order, the ones a PauseIf ends before the others; the   *)
(* value of an operand is computed from the memories of all frames so far.    *)
(* RcTrigger is the way the engine computes the same thing incrementally.     *)
EXTENDS RcMemory

CONSTANTS Texts,     \* the definitions: [hasCore, groups], a group a sequence of conditions
          Memories,  \* what the memory may hold in a frame
          MaxFrames

VARIABLES text,   \* the definition being evaluated
          past,   \* the memories of the frames so far, the last one first
          hits,   \* hit counts by group and condition
          phase   \* "waiting" for a frame in which it does not hold, "active", "triggered"

vars == <<text, past, hits, phase>>

Sources   == {"addsource", "subsource", "addaddress", "remember"}
Chaining  == Sources \cup {"addhits", "subhits", "resetnextif", "andnext", "ornext"}
EndOf(group, i) == LET ends == {j \in i .. Len(group) : group[j].type \notin Chaining}
                   IN  IF ends = {} THEN "none" ELSE group[Min(ends)].type
PausePart(group) == SelectSeq([i \in DOMAIN group |-> i], LAMBDA i : EndOf(group, i) = "pauseif")
MainPart(group)  == SelectSeq([i \in DOMAIN group |-> i], LAMBDA i : EndOf(group, i) # "pauseif")
Sequence(group)  == PausePart(group) \o MainPart(group)

-----------------------------------------------------------------------------
(* Operand values, k frames ago. Before the first frame everything is zero.   *)

Read(seen, address, size, k) ==
  IF k \notin DOMAIN seen THEN 0 ELSE PeekValue(seen[k], address, IF size \in OneByte THEN "bits8" ELSE size)

\* The part of a location an operand names, k frames ago, seen through pointers
\* p[j] of each frame.
Part(seen, p, tok, k) == Transform(Read(seen, tok.address + p[k], tok.size, k), tok.size)

Decoded(tok, v) == OperandValue(v, [type |-> tok.kind, size |-> tok.size])

\* The last different value a location had, zero before the first frame.
LastOther(seen, p, tok, k) ==
  LET other == {j \in k + 1 .. Len(seen) + 1 : Part(seen, p, tok, j) # Part(seen, p, tok, k)}
  IN  IF other = {} THEN 0 ELSE Part(seen, p, tok, Min(other))

OperandAt(seen, p, remembered, tok, k) ==
  CASE tok.kind = "const"  -> tok.num
    [] tok.kind = "recall" -> remembered
    [] tok.kind = "delta"  -> Part(seen, p, tok, k + 1)
    [] tok.kind = "prior"  -> LastOther(seen, p, tok, k)
    [] OTHER               -> Decoded(tok, Part(seen, p, tok, k))

Computed(a, oper, b) ==
  CASE oper = "none" -> a
    [] oper = "mult" -> (a * b) % Word
    [] oper = "div"  -> IF b = 0 THEN 0 ELSE a \div b
    [] oper = "mod"  -> IF b = 0 THEN 0 ELSE a % b
    [] oper = "and"  -> BitAnd(a, b)
    [] oper = "xor"  -> BitXor(a, b)
    [] oper = "add"  -> (a + b) % Word
    [] oper = "sub"  -> (a - b) % Word

\* What the conditions before the n-th of the sequence leave for it: the sum so
\* far, the pointer in every frame and what was remembered.
Carried(seen, group) ==
  LET order  == Sequence(group)
      frames == 1 .. Len(seen) + 2
      zero   == [j \in frames |-> 0]
      carried[n \in 0 .. Len(order)] ==
        IF n = 0 THEN [sum |-> zero, pointer |-> zero, remembered |-> zero, left |-> zero, right |-> zero]
        ELSE LET c == group[order[n]]
                 b == carried[n - 1]
                 at(tok) == [k \in frames |-> IF k > Len(seen) THEN 0
                                              ELSE OperandAt(seen, b.pointer, b.remembered[k], tok, k)]
                 left  == at(c.o1)
                 right == at(c.o2)
                 value == [k \in frames |-> Computed(left[k], c.oper, right[k])]
                 total == [k \in frames |-> (b.sum[k] + value[k]) % Word]
                 less  == [k \in frames |-> (b.sum[k] - value[k]) % Word]
             IN  CASE c.type = "addsource"  -> [b EXCEPT !.sum = total, !.pointer = zero]
                   [] c.type = "subsource"  -> [b EXCEPT !.sum = less, !.pointer = zero]
                   [] c.type = "addaddress" -> [b EXCEPT !.pointer = value]
                   [] c.type = "remember"   -> [b EXCEPT !.remembered = total, !.sum = zero, !.pointer = zero]
                   [] OTHER -> [b EXCEPT !.sum = zero, !.pointer = zero, !.right = right,
                                         !.left = [k \in frames |-> (b.sum[k] + left[k]) % Word]]
  IN  carried

\* What a {recall} in condition i reads in the last frame.
Recalled(seen, group, i) ==
  LET n == CHOOSE m \in 1 .. Len(group) : Sequence(group)[m] = i
  IN  Carried(seen, group)[n - 1].remembered[1]

\* Whether the comparison of condition i holds in the last frame.
Holds(seen, group, i) ==
  LET n == CHOOSE m \in 1 .. Len(group) : Sequence(group)[m] = i
      at == Carried(seen, group)[n]
  IN  CompareInt(at.left[1], at.right[1], group[i].oper)

-----------------------------------------------------------------------------
(* Logic and hit counts of one group. h are the counts before the frame.      *)

\* For the n-th condition of a sequence of positions: its count after the
\* frame, whether it is met, whether it was cleared, and the hits it adds.
Judged(seen, group, order, h) ==
  LET judged[n \in 0 .. Len(order)] ==
        IF n = 0 THEN [type |-> "start", count |-> 0, valid |-> FALSE, cleared |-> FALSE, add |-> 0, met |-> FALSE]
        ELSE LET i == order[n]
                 c == group[i]
                 b == judged[n - 1]
                 raw == \/ Holds(seen, group, i) /\ (b.type = "andnext" => b.valid)
                        \/ b.type = "ornext" /\ b.valid
                 cleared == IF b.type \in {"andnext", "ornext"} THEN b.cleared
                            ELSE b.type = "resetnextif" /\ b.valid
                 room  == c.required = 0 \/ h[i] < c.required
                 count == CASE cleared -> 0
                            [] ~cleared /\ raw /\ room -> h[i] + 1
                            [] OTHER -> h[i]
                 valid == ~cleared /\ (IF c.required = 0 THEN raw ELSE count = c.required)
                 total == count + b.add
                 base  == [type |-> c.type, count |-> count, valid |-> valid, cleared |-> cleared,
                           met |-> IF c.required = 0 THEN valid ELSE total >= c.required]
             IN  CASE c.type \in Sources -> b
                   [] c.type = "addhits" -> base @@ [add |-> b.add + count]
                   [] c.type = "subhits" -> base @@ [add |-> b.add - count]
                   [] c.type \in Chaining -> base @@ [add |-> b.add]
                   [] OTHER -> base @@ [add |-> 0]
  IN  judged

\* One group: paused by a PauseIf, or reset, or satisfied.
GroupFrame(seen, group, h) ==
  LET pause  == PausePart(group)
      main   == MainPart(group)
      jp     == Judged(seen, group, pause, h)
      jm     == Judged(seen, group, main, h)
      pausing == {n \in DOMAIN pause : group[pause[n]].type = "pauseif" /\ jp[n].met}
      last   == IF pausing = {} THEN Len(pause) ELSE Min(pausing)
      ends(types) == {n \in DOMAIN main : group[main[n]].type \in types}
      at(i, order) == CHOOSE n \in DOMAIN order : order[n] = i
      inPause(i) == i \in Range(pause)
      counted(i) == group[i].type \notin Sources
      after(i) ==
        CASE ~counted(i) -> h[i]
          [] counted(i) /\ inPause(i) ->
               IF at(i, pause) > last THEN h[i]
               ELSE IF group[i].type = "pauseif" /\ group[i].required = 0 /\ ~jp[at(i, pause)].met THEN 0
               ELSE jp[at(i, pause)].count
          [] OTHER -> IF pausing # {} THEN h[i] ELSE jm[at(i, main)].count
  IN  [paused |-> pausing # {},
       reset  |-> pausing = {} /\ \E n \in ends({"resetif"}) : jm[n].met,
       holds  |-> pausing = {} /\ \A n \in ends({"standard", "trigger", "measured", "measuredif"}) : jm[n].met,
       hits   |-> [i \in DOMAIN group |-> after(i)]]

-----------------------------------------------------------------------------

NoHits(t) == [g \in DOMAIN t.groups |-> [i \in DOMAIN t.groups[g] |-> 0]]

Init == text \in Texts /\ past = <<>> /\ hits = NoHits(text) /\ phase = "waiting"

\* The core and one of the alternatives hold in the same frame, and no group
\* that is not paused resets.
Frame == \E memory \in Memories :
  LET seen   == <<memory>> \o past
      frame  == [g \in DOMAIN text.groups |-> GroupFrame(seen, text.groups[g], hits[g])]
      core   == IF text.hasCore THEN {1} ELSE {}
      alts   == DOMAIN text.groups \ core
      reset  == \E g \in DOMAIN text.groups : frame[g].reset
      holds  == /\ ~reset
                /\ \A g \in core : frame[g].holds
                /\ alts = {} \/ \E g \in alts : frame[g].holds
  IN  /\ Len(past) < MaxFrames
      /\ past' = seen /\ UNCHANGED text
      /\ CASE phase = "triggered" -> UNCHANGED <<hits, phase>>
           [] phase = "waiting" /\ holds -> hits' = NoHits(text) /\ UNCHANGED phase
           [] OTHER -> /\ hits' = IF reset THEN NoHits(text) ELSE [g \in DOMAIN frame |-> frame[g].hits]
                       /\ phase' = IF holds THEN "triggered" ELSE "active"

\* The player resets the game.
Reset == past # <<>> /\ hits' = NoHits(text) /\ phase' = "waiting" /\ UNCHANGED <<text, past>>

Next == Frame \/ Reset

Spec == Init /\ [][Next]_vars
=============================================================================
