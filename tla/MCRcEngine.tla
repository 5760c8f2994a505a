----------------------------- MODULE MCRcEngine -----------------------------
EXTENDS RcEngine

A == Token("address", 0, "bits8", 0)
B == Token("address", 1, "bits8", 0)
DA == [A EXCEPT !.kind = "delta"]
DB == [B EXCEPT !.kind = "delta"]
LowA == Token("address", 0, "low", 0)
HighA == Token("address", 0, "high", 0)
PHighA == Token("prior", 0, "high", 0)
PA == Token("prior", 0, "bits8", 0)
InvA == Token("inverted", 0, "bits8", 0)
Bit1A == Token("address", 0, "bit1", 0)
N(n) == Token("const", 0, "bits32", n)
Rec == Token("recall", 0, "bits32", 0)

C(type, o1, oper, o2, n) == Cond(type, o1, oper, o2, n)
S(o1, oper, o2, n) == Cond("standard", o1, oper, o2, n)
V(type, o1) == Cond(type, o1, "none", N(0), 0)

Only(c) == [hasCore |-> TRUE, groups |-> <<c>>]
With(c, a) == [hasCore |-> TRUE, groups |-> <<c>> \o a]
OnlyAlts(a) == [hasCore |-> FALSE, groups |-> a]

\* Every kind of condition before every kind that ends a chain.
Firsts == {C(type, A, "eq", N(1), 0) : type \in {"andnext", "addhits", "resetnextif"}}
  \union {C(type, A, "eq", N(1), 2) : type \in {"ornext", "standard", "pauseif", "resetif", "trigger"}}
Seconds == {C("resetif", B, "eq", N(1), 1), C("trigger", B, "eq", N(1), 1)}
  \union {C(type, B, "eq", N(1), 2) : type \in {"standard", "pauseif", "measured"}}
CrossTexts == {Only(<<f, s>>) : f \in Firsts, s \in Seconds}

\* Two conditions on one operand: every pair of comparators, with the second
\* value equal, larger and smaller.
Opers == {"eq", "ne", "lt", "le", "gt", "ge"}
PairTexts == {Only(<<S(A, x, N(v[1]), 0), S(A, y, N(v[2]), 0)>>) :
                x \in Opers, y \in Opers, v \in {<<1, 1>>, <<1, 2>>, <<2, 1>>}}

R(oper, v) == C("resetif", A, oper, N(v), 0)
P(oper, v) == C("pauseif", A, oper, N(v), 0)
Hit == S(B, "eq", N(1), 2)
C2 == Token("address", 2, "bits8", 0)
Count == Token("address", 0, "bitcount", 0)
Both16 == Token("address", 0, "bits16", 0)

\* What the author is told wrongly of: two lower bounds, a constant on the left,
\* PauseIf of two groups, a ResetIf or PauseIf behind an AndNext, and a mask over
\* the number of set bits.
AndB == C("andnext", B, "eq", N(1), 0)
WrongTexts == {
  Only(<<S(A, "ge", N(1), 0), S(A, "ge", N(2), 0)>>),
  Only(<<S(A, "ge", N(2), 0), S(A, "ge", N(1), 0)>>),
  Only(<<Hit, R("lt", 1), R("lt", 2)>>),
  With(<<S(A, "ge", N(1), 0)>>, <<<<S(A, "ge", N(2), 0)>>>>),
  Only(<<S(N(1), "le", A, 0), S(A, "eq", N(1), 0)>>),
  Only(<<S(N(1), "eq", A, 0), S(A, "eq", N(1), 0), S(N(2), "ge", A, 0)>>),
  With(<<P("eq", 1), Hit>>, <<<<P("eq", 2)>>, <<P("ne", 1)>>>>),
  Only(<<Hit, AndB, P("eq", 1), AndB, C("trigger", A, "ne", N(1), 0)>>),
  Only(<<Hit, AndB, R("le", 1), AndB, R("gt", 1)>>),
  Only(<<AndB, P("le", 1), AndB, P("gt", 1)>>),
  Only(<<C("addsource", Count, "xor", N(2), 0), S(N(0), "gt", N(2), 0)>>),
  Only(<<C("addsource", Count, "and", N(1), 0), S(N(0), "gt", N(0), 0)>>) }

FindingTexts == {
  \* what a value can be
  Only(<<V("addsource", A), S(B, "le", N(6), 0)>>),
  Only(<<C("addsource", A, "mult", N(2), 0), S(B, "gt", N(9), 0)>>),
  Only(<<V("subsource", A), S(B, "ge", N(250), 0)>>),
  Only(<<V("subsource", A), V("addsource", N(3)), S(B, "le", N(6), 0)>>),
  Only(<<C("addsource", A, "div", A, 0), S(N(0), "gt", N(1), 0)>>),
  Only(<<C("addsource", A, "div", N(2), 0), S(N(0), "le", N(1), 0)>>),
  Only(<<C("addsource", A, "mod", N(2), 0), S(N(0), "lt", N(2), 0)>>),
  Only(<<C("addsource", A, "and", N(2), 0), S(N(0), "ge", N(3), 0)>>),
  Only(<<C("addsource", A, "xor", N(1), 0), S(N(0), "gt", N(3), 0)>>),
  Only(<<V("addaddress", A), S(B, "lt", N(4), 0)>>),
  Only(<<S(Bit1A, "ne", N(2), 0), S(LowA, "eq", N(2), 0), S(HighA, "lt", N(2), 0), S(A, "lt", N(0), 0)>>),
  Only(<<S(A, "ge", N(0), 0), S(N(0), "le", B, 0), S(N(4), "gt", A, 0), S(Count, "gt", N(2), 0)>>),
  Only(<<S(Both16, "le", N(15), 0), S(C2, "eq", Both16, 0), S(A, "ne", LowA, 0)>>),
  \* chains and flags that do nothing
  Only(<<S(A, "eq", N(1), 2), C("andnext", B, "eq", N(1), 0)>>),
  Only(<<S(A, "eq", N(1), 0), C("resetnextif", B, "eq", N(1), 1), V("addsource", A)>>),
  Only(<<Hit, C("resetif", A, "eq", N(2), 1), C("measuredif", A, "ne", N(3), 0)>>),
  Only(<<Hit, C("addhits", A, "eq", N(1), 0), S(A, "eq", N(2), 0)>>),
  Only(<<C("addhits", A, "eq", N(1), 2), C("subhits", B, "eq", N(1), 0), R("eq", 2)>>),
  Only(<<S(A, "eq", N(1), 0), C("resetif", B, "eq", N(2), 0), C("trigger", A, "ne", N(2), 0)>>),
  With(<<C("resetnextif", B, "eq", N(2), 0), S(A, "ne", N(1), 0)>>, <<<<S(B, "ne", N(2), 0)>>>>),
  Only(<<S(Rec, "eq", N(0), 0), S(A, "ne", Rec, 2)>>),
  Only(<<S(Rec, "eq", A, 0), V("remember", B), S(Rec, "ne", N(1), 0)>>),
  Only(<<C("addaddress", PA, "none", N(0), 0), S(A, "eq", N(1), 0), V("addaddress", InvA), S(B, "ne", N(1), 0)>>),
  \* resets, pauses and the other flags against each other
  Only(<<Hit, R("lt", 2), S(A, "lt", N(2), 0)>>),
  Only(<<Hit, R("gt", 1), R("ne", 1)>>),
  Only(<<P("eq", 1), S(A, "eq", N(1), 0)>>),
  Only(<<Hit, P("le", 1), R("le", 1)>>),
  Only(<<Hit, R("le", 1), P("gt", 1)>>),
  Only(<<C("measured", A, "ge", N(2), 0), C("measuredif", A, "gt", N(1), 0), C("trigger", A, "ge", N(2), 0)>>),
  \* chains that are and are not the same
  Only(<<C("andnext", B, "eq", N(1), 0), S(A, "eq", N(1), 0), C("andnext", B, "eq", N(1), 0), S(A, "gt", N(1), 0)>>),
  Only(<<V("addsource", B), S(A, "eq", N(1), 0), S(A, "eq", N(1), 0), V("addsource", B), S(A, "le", N(1), 0)>>),
  Only(<<V("addaddress", B), S(A, "lt", N(1), 0), V("addaddress", B), S(A, "gt", N(1), 0)>>),
  Only(<<V("addaddress", B), S(A, "lt", N(1), 0), V("addaddress", A), S(A, "gt", N(1), 0), S(B, "eq", N(1), 0), S(B, "eq", N(2), 0)>>),
  \* the core against an alternative
  With(<<S(A, "eq", N(1), 0)>>, <<<<S(A, "gt", N(1), 0)>>, <<S(A, "ge", N(1), 0)>>>>),
  With(<<S(A, "ge", N(1), 0), P("eq", 2)>>, <<<<S(A, "eq", N(1), 0)>>, <<S(A, "ne", N(2), 0)>>>>),
  With(<<Hit, R("ne", 1)>>, <<<<S(A, "eq", N(2), 0)>>, <<S(A, "eq", N(1), 0)>>>>),
  OnlyAlts(<<<<S(A, "eq", N(1), 0), S(A, "eq", N(2), 0)>>, <<S(A, "lt", N(1), 0)>>>>) }

MCTexts == CrossTexts \union PairTexts \union WrongTexts \union FindingTexts \union {
  \* comparators
  Only(<<S(A, "eq", B, 0), S(A, "gt", DA, 0)>>),
  Only(<<S(DA, "lt", A, 0), S(DB, "eq", DA, 0)>>),
  Only(<<S(LowA, "eq", N(1), 0), S(HighA, "ne", PHighA, 0)>>),
  Only(<<S(PA, "gt", A, 0), S(InvA, "ge", N(1), 2)>>),
  Only(<<S(Bit1A, "ne", B, 2), S(N(1), "le", A, 0)>>),
  \* arithmetic
  Only(<<V("addsource", A), S(B, "eq", N(3), 0)>>),
  Only(<<V("addsource", DA), S(DB, "ge", N(1), 2)>>),
  Only(<<V("subsource", A), S(B, "ge", N(2), 0)>>),
  Only(<<C("addsource", A, "mult", N(2), 0), V("subsource", B), S(N(0), "gt", N(3), 0)>>),
  Only(<<V("subsource", A), V("addsource", DB), S(A, "eq", DB, 0)>>),
  Only(<<C("addsource", A, "div", B, 0), S(N(0), "eq", N(1), 0)>>),
  \* pointers
  Only(<<V("addaddress", A), S(Token("address", 0, "bits8", 0), "eq", N(1), 2)>>),
  Only(<<V("addaddress", A), S(Token("delta", 0, "bits8", 0), "lt", N(2), 2), S(A, "ne", DA, 0)>>),
  Only(<<C("addaddress", DA, "and", N(1), 0), S(Token("prior", 0, "bits8", 0), "eq", N(2), 0)>>),
  \* remember and recall
  Only(<<C("remember", A, "add", N(1), 0), S(Rec, "eq", B, 0)>>),
  Only(<<V("addsource", A), V("remember", B), V("addsource", Rec), S(A, "gt", N(3), 0)>>),
  Only(<<V("remember", A), C("pauseif", Rec, "eq", N(2), 0), S(Rec, "ne", B, 2)>>),
  Only(<<S(Rec, "eq", B, 0), V("remember", A), C("pauseif", Rec, "eq", N(2), 2), V("remember", B), S(Rec, "eq", A, 0)>>),
  \* hit counts and their chains
  Only(<<S(A, "eq", N(1), 2), C("resetif", B, "eq", N(2), 0)>>),
  Only(<<S(A, "eq", N(1), 2), C("resetif", B, "ne", N(0), 2), S(A, "eq", N(2), 0)>>),
  Only(<<C("andnext", A, "eq", N(1), 0), S(B, "eq", N(1), 2)>>),
  Only(<<C("ornext", A, "eq", N(1), 2), C("andnext", B, "eq", N(1), 0), S(A, "eq", N(1), 2)>>),
  Only(<<C("addhits", A, "eq", N(1), 0), C("subhits", B, "eq", N(1), 0), S(B, "eq", N(2), 2)>>),
  Only(<<C("resetnextif", B, "eq", N(2), 0), C("addhits", A, "eq", N(1), 0), C("measured", A, "eq", N(2), 3)>>),
  Only(<<C("resetnextif", B, "eq", N(2), 2), C("resetnextif", A, "eq", N(2), 0), C("andnext", A, "eq", N(1), 0), S(B, "ne", N(2), 3)>>),
  \* measured and primed
  Only(<<C("measured", A, "eq", N(1), 3), C("resetif", B, "eq", N(2), 0)>>),
  Only(<<C("measured", A, "eq", N(1), 3), C("measuredif", B, "ne", N(2), 0), C("resetif", B, "eq", N(2), 0)>>),
  Only(<<C("measured", A, "ge", N(2), 0), C("trigger", B, "eq", N(2), 0)>>),
  Only(<<S(A, "eq", N(1), 2), C("trigger", B, "eq", N(2), 0), C("resetif", A, "eq", N(2), 0)>>),
  \* pauses and alternatives
  Only(<<C("pauseif", B, "eq", N(2), 0), S(A, "eq", N(1), 2), C("resetif", A, "eq", N(2), 0)>>),
  Only(<<C("pauseif", A, "eq", N(1), 2), C("pauseif", B, "eq", N(1), 2), S(A, "eq", N(1), 1)>>),
  Only(<<C("andnext", A, "eq", N(1), 0), C("pauseif", B, "eq", N(1), 0), C("measured", A, "ne", N(1), 2)>>),
  With(<<S(A, "eq", N(1), 2)>>, <<<<C("resetif", B, "eq", N(2), 0)>>, <<S(B, "eq", N(1), 0)>>>>),
  With(<<C("measured", A, "eq", N(1), 3)>>, <<<<C("resetif", B, "eq", N(2), 0)>>>>),
  With(<<C("pauseif", B, "eq", N(1), 0), S(A, "eq", N(1), 2)>>, <<<<C("resetif", A, "eq", N(2), 0), S(B, "eq", N(0), 0)>>, <<S(B, "eq", N(2), 0)>>>>),
  OnlyAlts(<<<<C("pauseif", A, "eq", N(2), 0), C("measured", B, "eq", N(1), 2)>>, <<C("measured", B, "eq", N(2), 2), C("resetif", A, "eq", N(1), 3)>>>>) }

Mem(a, b) == 0 :> a @@ 1 :> b
MCMemories == {Mem(0, 0), Mem(1, 1), Mem(2, 1), Mem(1, 2), Mem(3, 2)}
=============================================================================
