------------------------------ MODULE MCRcSaves ------------------------------
EXTENDS RcSaves

A == Token("address", 0, "bits8", 0)
B == Token("address", 1, "bits8", 0)
DA == [A EXCEPT !.kind = "delta"]
DB == [B EXCEPT !.kind = "delta"]
N(n) == Token("const", 0, "bits32", n)
C(type, o1, oper, o2, n) == Cond(type, o1, oper, o2, n)
S(o1, oper, o2, n) == Cond("standard", o1, oper, o2, n)
V(type, o1) == Cond(type, o1, "none", N(0), 0)

Only(c) == [hasCore |-> TRUE, groups |-> <<c>>]
With(c, a) == [hasCore |-> TRUE, groups |-> <<c, a>>]
Value(c) == [legacy |-> FALSE, groups |-> <<c>>]
NoScriptText == [lookups |-> <<>>, displays |-> <<>>]
Game(achievements, lboards, script, edited) ==
  [achievements |-> achievements, lboards |-> lboards, script |-> script, edited |-> edited]

Counted  == Only(<<S(A, "eq", N(1), 3), C("pauseif", B, "eq", N(2), 0), C("resetif", A, "eq", N(3), 0)>>)
Progress == Only(<<C("measured", A, "ge", N(1), 2), C("trigger", B, "eq", N(2), 0), C("resetif", A, "eq", N(3), 0)>>)
Pointer  == Only(<<V("addaddress", A), S(Token("delta", 0, "bits8", 0), "lt", N(2), 2), S(A, "ne", DA, 0)>>)
Sum      == Only(<<V("addsource", DA), S(DB, "ge", N(1), 2), C("trigger", A, "eq", N(3), 0)>>)
Paused   == With(<<S(A, "ge", N(1), 2)>>, <<C("pauseif", B, "eq", N(1), 2), S(B, "ne", N(0), 0)>>)

Board == << [part |-> "sta", text |-> Only(<<S(A, "eq", N(1), 0)>>)],
            [part |-> "can", text |-> Only(<<S(B, "eq", N(2), 2)>>)],
            [part |-> "sub", text |-> Only(<<S(A, "eq", N(3), 0)>>)],
            [part |-> "val", text |-> Value(<<C("measured", B, "ne", N(0), 0)>>)] >>
Race  == << [part |-> "sta", text |-> Only(<<S(A, "ne", DA, 0), S(A, "ge", N(1), 0)>>)],
            [part |-> "can", text |-> Only(<<S(A, "eq", N(0), 0)>>)],
            [part |-> "sub", text |-> Only(<<C("andnext", B, "eq", N(2), 0), S(A, "eq", N(2), 0)>>)],
            [part |-> "val", text |-> [legacy |-> TRUE, groups |-> <<<<
                [o1 |-> A, oper |-> "mult", o2 |-> N(2), negative |-> FALSE],
                [o1 |-> B, oper |-> "none", o2 |-> N(0), negative |-> TRUE]>>>>]],
            [part |-> "pro", text |-> Value(<<V("measured", B)>>)] >>

Item(first, last, label) == [first |-> first, last |-> last, label |-> label]
Say(text) == [kind |-> "text", text |-> text]
Look(k, v) == [kind |-> "lookup", lookup |-> k, value |-> v]
Show(v) == [kind |-> "value", value |-> v]
Always == [hasCore |-> FALSE, groups |-> <<>>]
Script == [lookups |-> <<[items |-> <<Item(2, 2, "cave"), Item(0, 0, "town"), Item(1, 1, "town"), Item(3, 3, "castle")>>,
                          default |-> "nowhere"]>>,
           displays |-> <<[when |-> Only(<<S(B, "eq", N(2), 2)>>), parts |-> <<Say("twice in two")>>],
                          [when |-> Only(<<S(A, "gt", DA, 0)>>), parts |-> <<Look(1, Value(<<V("measured", A)>>))>>],
                          [when |-> Always, parts |-> <<Say("at"), Show(Value(<<C("measured", A, "ne", N(0), 0)>>))>>]>>]

MCGames == { Game(<<Counted, Progress>>, <<>>, NoScriptText, {Progress, Counted}),
             Game(<<Pointer, Paused>>, <<Board>>, NoScriptText, {Sum}),
             Game(<<Sum>>, <<Race>>, NoScriptText, {Only(<<V("addsource", A)>>)}),
             Game(<<Progress>>, <<>>, Script, {Counted}) }

Triple == Only(<<V("addsource", DA), V("addsource", DB), S(DA, "lt", N(3), 0), S(A, "eq", N(9), 0)>>)
MCSumGames == { Game(<<Triple>>, <<>>, NoScriptText, {Triple}) }

Mem(a, b) == 0 :> a @@ 1 :> b
MCMemories == {Mem(0, 1), Mem(1, 2), Mem(3, 2), Mem(1, 0)}

-----------------------------------------------------------------------------
(* Rich presence against what its script says                                 *)

Ranges == {Item(first, last, label) : first \in 0 .. 3, last \in 0 .. 3, label \in {"x", "y"}}
Tables == {items \in UNION {[1 .. n -> {r \in Ranges : r.first <= r.last}] : n \in 0 .. 3} :
             \A i, j \in DOMAIN items : i # j => items[i].last < items[j].first \/ items[j].last < items[i].first}

\* Looking a value up finds the label of its range, whatever the order of the
\* ranges, the ones that are merged and the shape of the tree.
ASSUME LookupFindsTheRange ==
  \A items \in Tables : \A v \in 0 .. 4 :
    LET table == ParseLookup([items |-> items, default |-> "none"])
        in    == {i \in DOMAIN items : items[i].first <= v /\ v <= items[i].last}
    IN  /\ table.error = "ok"
        /\ Find(table.tree, v, "none") = IF in = {} THEN "none" ELSE items[CHOOSE i \in in : TRUE].label

\* The line that is shown, by the memories of the last frames, newest first.
Expected(past) ==
  LET a(k) == IF k \in DOMAIN past THEN past[k][0] ELSE 0
      twos == {k \in DOMAIN past : past[k][1] = 2}
      label == [n \in 0 .. 3 |-> CASE n \in {0, 1} -> "town" [] n = 2 -> "cave" [] OTHER -> "castle"]
      ones == {k \in DOMAIN past : past[k][0] # 0}
  IN  IF Cardinality(twos) >= 2 THEN <<"twice in two">>
      ELSE IF a(1) > a(2) THEN <<label[a(1)]>>
      ELSE <<"at", Unsigned(Cardinality(ones))>>

ASSUME RichPresenceIsTheScript ==
  \A play \in UNION {[1 .. n -> MCMemories] : n \in 1 .. 3} :
    LET end == FoldLeft(LAMBDA r, m : DoFrame(r, m).rt, ActivateScript(NewRuntime, Script), play)
    IN  GetRichPresence(end).line = Expected(Reverse(play))
=============================================================================
