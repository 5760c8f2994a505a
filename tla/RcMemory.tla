------------------------------ MODULE RcMemory ------------------------------
(* The values the achievement engine computes with (rcheevos value.c), the   *)
(* memory references it reads them from (memref.c) and the operands of its   *)
(* conditions (operand.c).                                                   *)
(*                                                                           *)
(* A byte is ByteBits wide and a word is four bytes, so that every mask,     *)
(* shift and wrap of the code keeps its place when the instance is small.    *)
(* Floating-point sizes and values are left out. A memory reference is an    *)
(* entry of one of the two lists of a pool `refs`, named by <<list, index>>: *)
(*   refs.mem[i]  [address, size, type, value, prior, changed]               *)
(*   refs.mod[i]  [size, parent, oper, modifier, type, value, prior, changed]*)
(* The lists never hold two entries with the same parts, so the recursive    *)
(* comparison of two operands is the comparison of the entries they name.    *)
EXTENDS Integers, Sequences, FiniteSetsExt, SequencesExt

CONSTANT ByteBits   \* 8 in the code

ASSUME ByteBitsAssumption == ByteBits \in Nat \ {0} /\ ByteBits % 2 = 0

Byte     == 2^ByteBits
Nibble   == 2^(ByteBits \div 2)
WordBits == 4 * ByteBits
Word     == 2^WordBits

-----------------------------------------------------------------------------
(* Sizes *)

BitIndex  == [bit0 |-> 0, bit1 |-> 1, bit2 |-> 2, bit3 |-> 3,
              bit4 |-> 4, bit5 |-> 5, bit6 |-> 6, bit7 |-> 7]
OneByte   == DOMAIN BitIndex \cup {"bits8", "low", "high", "bitcount"}
TwoBytes  == {"bits16", "bits16be"}
Three     == {"bits24", "bits24be"}

\* Sizes that read the same bytes share a reference of this size.
SharedSize(size) == CASE size \in OneByte  -> "bits8"
                      [] size \in TwoBytes -> "bits16"
                      [] OTHER             -> "bits32"

\* The bits of the value read that belong to the size.
Mask(size) == CASE size = "low"                   -> Nibble - 1
                [] size = "high"                  -> Byte - Nibble
                [] size \in DOMAIN BitIndex       -> 2^BitIndex[size]
                [] size \in {"bits8", "bitcount"} -> Byte - 1
                [] size \in TwoBytes              -> Byte^2 - 1
                [] size \in Three                 -> Byte^3 - 1
                [] OTHER                          -> Word - 1

Bit(v, i)     == (v \div 2^i) % 2
BitAnd(a, b)  == MapThenSumSet(LAMBDA i : Bit(a, i) * Bit(b, i) * 2^i, 0 .. WordBits - 1)
BitXor(a, b)  == MapThenSumSet(LAMBDA i : ((Bit(a, i) + Bit(b, i)) % 2) * 2^i, 0 .. WordBits - 1)
Swapped(v, n) == MapThenSumSet(LAMBDA i : ((v \div Byte^i) % Byte) * Byte^(n - 1 - i), 0 .. n - 1)

\* rc_transform_memref_value: the part of a shared value an operand asked for.
Transform(v, size) ==
  CASE size = "high"           -> (v \div Nibble) % Nibble
    [] size \in DOMAIN BitIndex -> Bit(v, BitIndex[size])
    [] size = "bitcount"       -> MapThenSumSet(LAMBDA i : Bit(v, i), 0 .. ByteBits - 1)
    [] size = "bits16be"       -> Swapped(v, 2)
    [] size = "bits24be"       -> Swapped(v, 3)
    [] size = "bits32be"       -> Swapped(v, 4)
    [] OTHER                   -> BitAnd(v, Mask(size))

\* The host's memory callback, for one, two or four bytes: 0 outside the memory.
ReadBytes(memory, address, n) ==
  IF {address + i : i \in 0 .. n - 1} \subseteq DOMAIN memory
  THEN MapThenSumSet(LAMBDA i : memory[address + i] * Byte^i, 0 .. n - 1) ELSE 0

\* rc_peek_value: a size that is not itself shared is masked, not shifted.
PeekValue(memory, address, size) ==
  LET n == CASE size \in OneByte -> 1 [] size \in TwoBytes -> 2 [] OTHER -> 4
      v == ReadBytes(memory, address, n)
  IN  IF SharedSize(size) = size THEN v ELSE BitAnd(v, Mask(size))

-----------------------------------------------------------------------------
(* Typed values: the bits of the word and how they are read.                 *)

Typed(type, v) == [type |-> type, v |-> v]
Unsigned(v)    == Typed("unsigned", v)
None(x)        == [x EXCEPT !.type = "none"]
SignedOf(x)    == IF x.v >= Word \div 2 THEN x.v - Word ELSE x.v
TruncDiv(a, b) == LET abs(n) == IF n < 0 THEN -n ELSE n
                      q      == abs(a) \div abs(b)
                  IN  IF (a < 0) = (b < 0) THEN q ELSE -q

Convert(x, type) == Typed(type, IF x.type = "none" /\ type # "none" THEN 0 ELSE x.v)
Negate(x)        == IF x.type = "none" THEN x ELSE Typed("signed", (Word - x.v) % Word)
Add(a, b)        == IF a.type = "none" THEN b
                    ELSE [a EXCEPT !.v = (@ + Convert(b, a.type).v) % Word]
Multiply(a, b)   == IF a.type = "none" \/ b.type = "none" THEN None(a)
                    ELSE [a EXCEPT !.v = (@ * b.v) % Word]

Divide(a, b) ==
  CASE a.type = "none" \/ b.type = "none" \/ b.v = 0 -> None(a)
    [] a.type = "unsigned" -> [a EXCEPT !.v = @ \div b.v]
    [] OTHER               -> [a EXCEPT !.v = TruncDiv(SignedOf(a), SignedOf(b)) % Word]

Modulus(a, b) ==
  CASE a.type = "none" \/ b.type = "none" \/ b.v = 0 -> None(a)
    [] a.type = "unsigned" -> [a EXCEPT !.v = @ % b.v]
    [] OTHER -> LET x == SignedOf(a) y == SignedOf(b)
                IN  [a EXCEPT !.v = (x - y * TruncDiv(x, y)) % Word]

\* rc_typed_value_combine: an operator that is not one of these leaves the value.
Combine(a, b, oper) ==
  CASE oper = "mult" -> Multiply(a, b)
    [] oper = "div"  -> Divide(a, b)
    [] oper = "mod"  -> Modulus(a, b)
    [] oper = "and"  -> Unsigned(BitAnd(Convert(a, "unsigned").v, Convert(b, "unsigned").v))
    [] oper = "xor"  -> Unsigned(BitXor(Convert(a, "unsigned").v, Convert(b, "unsigned").v))
    [] oper = "add"  -> Add(a, b)
    [] oper = "sub"  -> Add(a, Negate(b))
    [] OTHER         -> a

CompareInt(x, y, oper) ==
  CASE oper = "eq" -> x = y  [] oper = "ne" -> x # y
    [] oper = "lt" -> x < y  [] oper = "le" -> x <= y
    [] oper = "gt" -> x > y  [] oper = "ge" -> x >= y
    [] OTHER -> TRUE

\* rc_typed_value_compare: the right side takes the type of the left one.
Compare(a, b, oper) ==
  LET right == Convert(b, a.type)
  IN  CASE a.type = "unsigned" -> CompareInt(a.v, right.v, oper)
        [] a.type = "signed"   -> CompareInt(SignedOf(a), SignedOf(right), oper)
        [] OTHER               -> TRUE

-----------------------------------------------------------------------------
(* Operands *)

NoRef     == <<"null", 0>>
NoOperand == [type |-> "none", access |-> "none", size |-> "bits8", ref |-> NoRef, num |-> 0]
ConstOperand(n) == [NoOperand EXCEPT !.type = "const", !.size = "bits32", !.num = n % Word]

IsMemrefType(type) == type \notin {"const", "recall"}
IsMemref(o)        == IsMemrefType(o.type)

\* rc_operands_are_equal
SameOperand(a, b) ==
  /\ a.type = b.type
  /\ CASE a.type = "const"  -> a.num = b.num
       [] a.type = "recall" -> a.ref = b.ref
       [] OTHER             -> a.size = b.size /\ a.ref = b.ref

Entry(refs, ref) == IF ref[1] = "mem" THEN refs.mem[ref[2]] ELSE refs.mod[ref[2]]

\* rc_get_memref_value_value: an unchanged value is its own delta.
EntryValue(entry, access) ==
  IF access = "prior" \/ (access = "delta" /\ entry.changed) THEN entry.prior ELSE entry.value

\* rc_transform_operand_value: binary coded decimal and bitwise inversion.
OperandValue(v, o) ==
  LET digits == CASE o.size = "bits8" -> 2 [] o.size \in TwoBytes -> 4
                  [] o.size \in Three -> 6 [] OTHER -> 8
      flip   == CASE o.size \in {"low", "high"} -> Nibble - 1
                  [] o.size = "bits8"           -> Byte - 1
                  [] o.size \in TwoBytes        -> Byte^2 - 1
                  [] o.size \in Three           -> Byte^3 - 1
                  [] o.size \in {"bits32", "bits32be"} -> Word - 1
                  [] OTHER                      -> 1
  IN  CASE o.type = "bcd" /\ o.size \notin OneByte \ {"bits8"} ->
             MapThenSumSet(LAMBDA i : ((v \div Nibble^i) % Nibble) * 10^i, 0 .. digits - 1) % Word
        [] o.type = "inverted" -> BitXor(v, flip)
        [] OTHER -> v

\* What a recall reads is read the way it was when it was remembered.
Access(o) == IF o.type = "recall" THEN o.access ELSE o.type

ReadEntry(entry, o, v) == Typed(entry.type, IF entry.type = "unsigned" THEN OperandValue(v, o) ELSE v)

\* rc_evaluate_operand
EvaluateOperand(refs, o) ==
  CASE Access(o) = "const" -> Unsigned(o.num)
    [] o.ref = NoRef       -> Unsigned(0)
    [] OTHER -> LET entry == Entry(refs, o.ref)
                IN  ReadEntry(entry, o, Transform(EntryValue(entry, Access(o)), o.size))

-----------------------------------------------------------------------------
(* The pool *)

NoRefs == [mem |-> <<>>, mod |-> <<>>]

\* The entry of a list that was found, or a new one at its end.
Alloc(refs, list, at, entry) ==
  IF at # 0 THEN [refs |-> refs, ref |-> <<list, at>>]
  ELSE [refs |-> [refs EXCEPT ![list] = Append(@, entry)], ref |-> <<list, Len(refs[list]) + 1>>]

\* rc_alloc_memref: the entry with this address and size, a new one if there is none.
AllocMemref(refs, address, size) ==
  Alloc(refs, "mem", SelectInSeq(refs.mem, LAMBDA e : e.address = address /\ e.size = size),
        [address |-> address, size |-> size, type |-> "unsigned", value |-> 0, prior |-> 0, changed |-> FALSE])

\* rc_alloc_modified_memref
AllocModified(refs, size, parent, oper, modifier) ==
  Alloc(refs, "mod", SelectInSeq(refs.mod, LAMBDA e : /\ e.size = size /\ e.oper = oper
                                                      /\ SameOperand(e.parent, parent)
                                                      /\ SameOperand(e.modifier, modifier)),
        [size |-> size, parent |-> parent, oper |-> oper, modifier |-> modifier, type |-> "unsigned",
         value |-> 0, prior |-> 0, changed |-> FALSE])

\* rc_update_memref_value: prior is the last different value.
UpdateEntry(entry, v) ==
  IF entry.value = v THEN [entry EXCEPT !.changed = FALSE]
  ELSE [entry EXCEPT !.prior = entry.value, !.value = v, !.changed = TRUE]

Modify(e, value, modifier, memory) ==
  CASE e.oper = "indirect" -> PeekValue(memory, Convert(Add(value, modifier), "unsigned").v, e.size)
    [] e.oper = "subparent" -> Convert(Add(Negate(value), modifier), e.type).v
    [] e.oper = "subacc" -> Convert(Add(value, Convert(Negate(modifier), value.type)), e.type).v
    [] e.oper = "addacc" -> Convert(Add(value, Convert(modifier, value.type)), e.type).v
    [] OTHER -> Convert(Combine(value, modifier, e.oper), e.type).v

\* rc_get_modified_memref_value
ModifiedValue(refs, e, memory) ==
  Modify(e, EvaluateOperand(refs, e.parent), EvaluateOperand(refs, e.modifier), memory)

\* rc_update_memref_values: first the plain entries that are still valid, then
\* the modified ones in the order they were made, each from those before it.
UpdateRefs(refs, memory) ==
  LET plain == [refs EXCEPT !.mem = [i \in DOMAIN @ |->
                  IF @[i].type = "none" THEN @[i]
                  ELSE UpdateEntry(@[i], PeekValue(memory, @[i].address, @[i].size))]]
  IN  FoldLeftDomain(LAMBDA r, i : [r EXCEPT !.mod[i] = UpdateEntry(@, ModifiedValue(r, r.mod[i], memory))],
                     plain, refs.mod)

-----------------------------------------------------------------------------
(* Parsing an operand. The text of an operand is its kind and its fields;    *)
(* the parse state p carries what earlier conditions of the chain left for   *)
(* the next one.                                                             *)

Token(kind, address, size, num) == [kind |-> kind, address |-> address, size |-> size, num |-> num]

\* A parse state (rc_parse_state_t); accumulator 0 is the chain of AddSource.
ParseState(refs, isValue) ==
  [refs |-> refs, indirect |-> NoOperand, addsource |-> NoOperand, addsourceOper |-> "none",
   remember |-> NoOperand, isValue |-> isValue, measuredTarget |-> 0, hasMeasured |-> FALSE,
   measuredPercent |-> FALSE, hasRequiredHits |-> FALSE, usesRecall |-> FALSE, error |-> "ok"]

\* A prior value of part of a shared value is tracked by a reference of its
\* own, or a change of the other part would reach it.
SizeToTrack(tok) ==
  LET shared == SharedSize(tok.size)
  IN  IF tok.kind = "prior" /\ Mask(shared) # Mask(tok.size) THEN tok.size ELSE shared

MemoryOperand(p, tok, got) ==
  [p |-> [p EXCEPT !.refs = got.refs],
   o |-> [NoOperand EXCEPT !.type = tok.kind, !.access = tok.kind, !.size = tok.size, !.ref = got.ref]]

\* rc_parse_operand_memory
ParseMemory(p, tok) ==
  MemoryOperand(p, tok,
    IF p.indirect.type # "none"
    THEN AllocModified(p.refs, SizeToTrack(tok), p.indirect, "indirect", ConstOperand(tok.address))
    ELSE AllocMemref(p.refs, tok.address, SizeToTrack(tok)))

\* rc_parse_operand_variable: {recall} copies what was remembered last.
ParseRecall(p) ==
  [p |-> p, o |-> IF p.remember.type = "none"
                  THEN [NoOperand EXCEPT !.type = "recall", !.access = "address", !.size = "bits32"]
                  ELSE [p.remember EXCEPT !.type = "recall", !.access = p.remember.type]]

\* rc_parse_operand
ParseOperand(p, tok) ==
  CASE tok.kind = "const"  -> [p |-> p, o |-> ConstOperand(tok.num)]
    [] tok.kind = "recall" -> ParseRecall(p)
    [] OTHER               -> ParseMemory(p, tok)

\* The sum takes the place of the operand o that is added last.
SumOperand(p, o, parent, got) ==
  [p |-> [p EXCEPT !.refs = got.refs, !.addsource = parent],
   o |-> [o EXCEPT !.ref = got.ref, !.size = "bits32"]]

\* rc_operand_addsource: deltas (priors) of both are the delta of the sum.
AddSourceTo(p, o, newSize) ==
  LET parent == [p.addsource EXCEPT !.type = "address"]
  IN  IF o.type \in {"delta", "prior"} /\ o.type = p.addsource.type
      THEN SumOperand(p, o, parent,
             AllocModified(p.refs, newSize, parent, p.addsourceOper, [o EXCEPT !.type = "address"]))
      ELSE SumOperand(p, [o EXCEPT !.type = "address", !.access = "address"], p.addsource,
             AllocModified(p.refs, newSize, p.addsource, p.addsourceOper, o))
=============================================================================
