------------------------- MODULE DmaArbiter_proofs -------------------------
(* Proofs about DmaArbiter for every sample length, period, OAM size and     *)
(* write run.                                                                *)
EXTENDS DmaArbiter, TLAPS

-----------------------------------------------------------------------------
(* The reader's operators preserve its type.  A field that is computed is   *)
(* named first, so that the record equality is about names only.           *)

LEMMA LengthType ==
    ASSUME NEW r \in Readers
    PROVE  r.length \in Nat
<1>1. r.length \in Lengths
  BY DEF Readers
<1>2. QED
  BY <1>1, ReaderAssumption

\* The output unit keeps the types of the reader.
LEMMA OutputStepType ==
    ASSUME NEW r \in Readers
    PROVE  OutputStep(r) \in Readers
<1>1. CASE r.timer # 0
  BY <1>1, ReaderAssumption DEF OutputStep, Readers
<1>2. CASE r.timer = 0
  <2> DEFINE bits == IF r.bits = 1 THEN BitsPerByte ELSE r.bits - 1
             buffer == r.buffer /\ r.bits # 1
  <2>1. bits \in 1 .. BitsPerByte /\ Period - 1 \in 0 .. Period - 1
    BY ReaderAssumption DEF Readers
  <2>2. buffer \in BOOLEAN
    OBVIOUS
  <2>3. OutputStep(r) = [r EXCEPT !.timer = Period - 1, !.bits = bits, !.buffer = buffer]
    BY <1>2, Zenon DEF OutputStep
  <2> HIDE DEF bits, buffer
  <2>4. [r EXCEPT !.timer = Period - 1, !.bits = bits, !.buffer = buffer] \in Readers
    BY <2>1, <2>2 DEF Readers
  <2>5. QED
    BY <2>3, <2>4
<1>3. QED
  BY <1>1, <1>2

\* So does the countdown of a delayed enable or disable.
LEMMA DelayStepType ==
    ASSUME NEW r \in Readers
    PROVE  DelayStep(r) \in Readers
<1> DEFINE stops == r.disable = 1
           bytes == IF stops THEN 0 ELSE r.bytes
           pending == r.pending /\ ~stops
           abort == r.abort \/ stops
<1>1. /\ Dec(r.start) \in 0 .. 3
      /\ Dec(r.disable) \in 0 .. 255
      /\ bytes \in Nat
  BY DEF Readers, Dec
<1>2. pending \in BOOLEAN /\ abort \in BOOLEAN
  OBVIOUS
<1>3. DelayStep(r) = [r EXCEPT !.start = Dec(r.start), !.disable = Dec(r.disable),
                               !.bytes = bytes, !.pending = pending, !.abort = abort]
  BY Zenon DEF DelayStep
<1> HIDE DEF bytes, pending, abort, stops
<1>4. [r EXCEPT !.start = Dec(r.start), !.disable = Dec(r.disable),
                !.bytes = bytes, !.pending = pending, !.abort = abort] \in Readers
  BY <1>1, <1>2 DEF Readers
<1>5. QED
  BY <1>3, <1>4

\* So does the request for a byte.
LEMMA RequestStepType ==
    ASSUME NEW r \in Readers
    PROVE  RequestStep(r) \in Readers
BY DEF RequestStep, Readers

\* So does a whole clock of the reader.
LEMMA ClockTimerType ==
    ASSUME NEW r \in Readers
    PROVE  ClockTimer(r) \in Readers
BY OutputStepType, DelayStepType, RequestStepType DEF ClockTimer

\* So does what the bus tells the reader about its fetch.
LEMMA HandshakeType ==
    ASSUME NEW r \in Readers
    PROVE  /\ TakeRequest(r) \in Readers
           /\ TakeAbort(r) \in Readers
           /\ Cancel(r) \in Readers
BY DEF TakeRequest, TakeAbort, Cancel, Readers

\* So does a byte delivered.
LEMMA FilledType ==
    ASSUME NEW r \in Readers, r.bytes # 0
    PROVE  Filled(r) \in Readers
<1> DEFINE last == r.bytes = 1
           bytes == IF last /\ r.loop THEN r.length ELSE r.bytes - 1
           irq == r.irq \/ (last /\ ~r.loop /\ r.irqOn)
<1>1. bytes \in Nat
  <2>1. r.bytes - 1 \in Nat
    BY DEF Readers
  <2>2. QED
    BY <2>1, LengthType
<1>2. irq \in BOOLEAN
  OBVIOUS
<1>3. Filled(r) = [r EXCEPT !.busy = FALSE, !.buffer = TRUE, !.bytes = bytes, !.irq = irq]
  BY Zenon DEF Filled
<1> HIDE DEF bytes, irq
<1>4. [r EXCEPT !.busy = FALSE, !.buffer = TRUE, !.bytes = bytes, !.irq = irq] \in Readers
  BY <1>1, <1>2 DEF Readers
<1>5. QED
  BY <1>3, <1>4

\* So does an answer, whether it is still wanted or not.
LEMMA SupplyType ==
    ASSUME NEW r \in Readers
    PROVE  Supply(r) \in Readers
<1>1. [r EXCEPT !.busy = FALSE] \in Readers
  BY DEF Readers
<1>2. CASE r.bytes = 0
  BY <1>1, <1>2 DEF Supply
<1>3. CASE r.bytes # 0
  <2>1. Filled(r) \in Readers
    BY <1>3, FilledType
  <2>2. [Filled(r) EXCEPT !.bytes = r.length, !.disable = 3] \in Readers
    <3>1. \A q \in Readers, n \in Nat, d \in 0 .. 255 :
             [q EXCEPT !.bytes = n, !.disable = d] \in Readers
      BY DEF Readers
    <3>2. 3 \in 0 .. 255
      OBVIOUS
    <3>3. QED
      BY <2>1, <3>1, <3>2, LengthType
  <2>3. Supply(r) = IF Reschedules(r)
                    THEN [Filled(r) EXCEPT !.bytes = r.length, !.disable = 3]
                    ELSE Filled(r)
    BY <1>3, Zenon DEF Supply
  <2>4. QED
    BY <2>1, <2>2, <2>3, Zenon
<1>4. QED
  BY <1>2, <1>3

\* So does enabling the channel.
LEMMA EnableType ==
    ASSUME NEW r \in Readers, NEW odd \in BOOLEAN
    PROVE  Enable(r, odd) \in Readers
<1> DEFINE start == IF (~r.loop /\ MaxRate) \/ ~odd THEN 3 ELSE 2
<1>1. start \in 0 .. 3 /\ r.length \in Nat
  <2>1. start = 3 \/ start = 2
    BY Zenon
  <2>2. QED
    BY <2>1, LengthType
<1>2. Enable(r, odd) = IF r.bytes = 0
                       THEN [r EXCEPT !.irq = FALSE, !.bytes = r.length, !.start = start]
                       ELSE [r EXCEPT !.irq = FALSE]
  BY Zenon DEF Enable
<1> HIDE DEF start
<1>3. [r EXCEPT !.irq = FALSE, !.bytes = r.length, !.start = start] \in Readers
  BY <1>1 DEF Readers
<1>4. [r EXCEPT !.irq = FALSE] \in Readers
  BY DEF Readers
<1>5. QED
  BY <1>2, <1>3, <1>4

\* So does disabling it.
LEMMA DisableType ==
    ASSUME NEW r \in Readers, NEW odd \in BOOLEAN
    PROVE  Disable(r, odd) \in Readers
<1> DEFINE disable == IF r.disable # 0 THEN r.disable ELSE IF odd THEN 2 ELSE 3
<1>1. disable \in 0 .. 255
  <2>1. disable = r.disable \/ disable = 2 \/ disable = 3
    BY Zenon
  <2>2. QED
    BY <2>1 DEF Readers
<1>2. Disable(r, odd) = [r EXCEPT !.irq = FALSE, !.start = 0, !.disable = disable]
  BY Zenon DEF Disable
<1> HIDE DEF disable
<1>3. [r EXCEPT !.irq = FALSE, !.start = 0, !.disable = disable] \in Readers
  <2>1. \A s \in 0 .. 3, b \in BOOLEAN :
           [r EXCEPT !.irq = b, !.start = s, !.disable = disable] \in Readers
    BY <1>1 DEF Readers
  <2>2. 0 \in 0 .. 3
    OBVIOUS
  <2>3. QED
    BY <2>1, <2>2
<1>4. QED
  BY <1>2, <1>3

\* So does a disable that a write extends.
LEMMA ExtendDisableType ==
    ASSUME NEW r \in Readers
    PROVE  ExtendDisable(r) \in Readers
<1> DEFINE disable == IF r.disable = 0 \/ r.disable = 255 THEN r.disable
                      ELSE r.disable + 1
<1>1. disable \in 0 .. 255
  <2>1. r.disable \in 0 .. 255
    BY DEF Readers
  <2>2. CASE r.disable = 255
    BY <2>1, <2>2
  <2>3. CASE r.disable # 255
    BY <2>1, <2>3
  <2>4. QED
    BY <2>2, <2>3
<1>2. ExtendDisable(r) = [r EXCEPT !.disable = disable]
  BY Zenon DEF ExtendDisable
<1> HIDE DEF disable
<1>3. [r EXCEPT !.disable = disable] \in Readers
  BY <1>1 DEF Readers
<1>4. QED
  BY <1>2, <1>3

\* So does a write of $4010.
LEMMA WriteControlType ==
    ASSUME NEW r \in Readers, NEW loop \in BOOLEAN, NEW irqOn \in BOOLEAN
    PROVE  WriteControl(r, loop, irqOn) \in Readers
<1> DEFINE irq == r.irq /\ irqOn
<1>1. WriteControl(r, loop, irqOn) = [r EXCEPT !.loop = loop, !.irqOn = irqOn, !.irq = irq]
  BY Zenon DEF WriteControl
<1>2. irq \in BOOLEAN
  OBVIOUS
<1> HIDE DEF irq
<1>3. [r EXCEPT !.loop = loop, !.irqOn = irqOn, !.irq = irq] \in Readers
  BY <1>2 DEF Readers
<1>4. QED
  BY <1>1, <1>3

\* So does a write of $4013.
LEMMA WriteLengthType ==
    ASSUME NEW r \in Readers, NEW length \in Lengths
    PROVE  WriteLength(r, length) \in Readers
BY DEF WriteLength, Readers

-----------------------------------------------------------------------------
(* The handshake between reader and bus, as a predicate on both.           *)

Consistent(r) == /\ r.busy \/ r.pending => ~r.buffer
                 /\ ~(r.busy /\ r.pending)

Agreed(r, f) == /\ r \in Readers
                /\ f \in Fetches
                /\ Consistent(r)
                /\ r.busy = f.active
                /\ f.active \/ f = NoFetch

\* A clock neither begins nor ends a fetch, and asks for one only when none is under way.
LEMMA ClockTimerConsistent ==
    ASSUME NEW r \in Readers, Consistent(r)
    PROVE  /\ Consistent(ClockTimer(r))
           /\ ClockTimer(r).busy = r.busy
<1> DEFINE o == OutputStep(r)
           d == DelayStep(o)
           q == RequestStep(d)
<1>1. /\ o \in Readers /\ o.busy = r.busy /\ o.pending = r.pending
      /\ o.buffer => r.buffer
  <2>1. CASE r.timer # 0
    <3>1. o = [r EXCEPT !.timer = r.timer - 1]
      BY <2>1, Zenon DEF OutputStep
    <3> HIDE DEF o
    <3>2. o.busy = r.busy /\ o.pending = r.pending /\ o.buffer = r.buffer
      BY <3>1 DEF Readers
    <3>3. QED
      BY <3>2, OutputStepType DEF o
  <2>2. CASE r.timer = 0
    <3> DEFINE bits == IF r.bits = 1 THEN BitsPerByte ELSE r.bits - 1
               buffer == r.buffer /\ r.bits # 1
    <3>1. o = [r EXCEPT !.timer = Period - 1, !.bits = bits, !.buffer = buffer]
      BY <2>2, Zenon DEF OutputStep
    <3>2. buffer => r.buffer
      OBVIOUS
    <3> HIDE DEF bits, buffer
    <3>3. o.busy = r.busy /\ o.pending = r.pending /\ o.buffer = buffer
      BY <3>1 DEF Readers
    <3>4. QED
      BY <3>2, <3>3, OutputStepType
  <2>3. QED
    BY <2>1, <2>2
<1> HIDE DEF o
<1>2. /\ d \in Readers /\ d.busy = o.busy /\ d.buffer = o.buffer
      /\ d.pending => o.pending
  <2> DEFINE stops == o.disable = 1
             bytes == IF stops THEN 0 ELSE o.bytes
             pending == o.pending /\ ~stops
             abort == o.abort \/ stops
  <2>1. d = [o EXCEPT !.start = Dec(o.start), !.disable = Dec(o.disable),
                      !.bytes = bytes, !.pending = pending, !.abort = abort]
    BY Zenon DEF DelayStep
  <2>2. pending => o.pending
    OBVIOUS
  <2> HIDE DEF bytes, pending, abort, d
  <2>3. d.busy = o.busy /\ d.buffer = o.buffer /\ d.pending = pending
    BY <1>1, <2>1 DEF Readers
  <2>4. d \in Readers
    BY <1>1, DelayStepType DEF d
  <2>5. QED
    BY <2>2, <2>3, <2>4
<1> HIDE DEF d
<1>3. /\ q.busy = d.busy /\ q.buffer = d.buffer
      /\ q.pending => d.pending \/ (~d.buffer /\ ~d.busy)
  BY <1>2 DEF RequestStep, Readers
<1>4. ClockTimer(r) = q
  BY DEF ClockTimer, q, d, o
<1> HIDE DEF q
<1>5. QED
  BY <1>1, <1>2, <1>3, <1>4 DEF Consistent

\* An abort reaches the fetch it is meant for, or finds none.
LEMMA AbortRoutedAgreed ==
    ASSUME NEW r, NEW f, Agreed(r, f)
    PROVE  Agreed(AbortRouted(r, f).dmc, AbortRouted(r, f).fetch)
<1>1. CASE ~r.abort
  BY <1>1 DEF AbortRouted
<1>2. CASE r.abort /\ f.active /\ f.halt
  <2>1. /\ AbortRouted(r, f).dmc = Cancel(TakeAbort(r))
        /\ AbortRouted(r, f).fetch = NoFetch
    BY <1>2 DEF AbortRouted
  <2>2. /\ Cancel(TakeAbort(r)) \in Readers
        /\ ~Cancel(TakeAbort(r)).busy
        /\ ~Cancel(TakeAbort(r)).pending
    BY DEF Agreed, Cancel, TakeAbort, Readers
  <2>3. NoFetch \in Fetches /\ NoFetch.active = FALSE
    BY DEF NoFetch, Fetches
  <2>4. QED
    BY <2>1, <2>2, <2>3 DEF Agreed, Consistent, Readers
<1>3. CASE r.abort /\ ~(f.active /\ f.halt)
  <2> DEFINE g == IF f.active THEN [f EXCEPT !.abort = TRUE] ELSE f
  <2>1. /\ AbortRouted(r, f).dmc = TakeAbort(r)
        /\ AbortRouted(r, f).fetch = g
    BY <1>3 DEF AbortRouted
  <2>2. /\ TakeAbort(r) \in Readers
        /\ TakeAbort(r).busy = r.busy
        /\ TakeAbort(r).pending = r.pending
        /\ TakeAbort(r).buffer = r.buffer
    BY DEF Agreed, TakeAbort, Readers
  <2>3. /\ g \in Fetches
        /\ g.active = f.active
        /\ ~f.active => g = f
    BY DEF Agreed, Fetches
  <2> HIDE DEF g
  <2>4. QED
    BY <2>1, <2>2, <2>3 DEF Agreed, Consistent
<1>4. QED
  BY <1>1, <1>2, <1>3

\* A request is taken by reader and bus alike.
LEMMA RequestTakenAgreed ==
    ASSUME NEW s, Agreed(s.dmc, s.fetch)
    PROVE  Agreed(RequestTaken(s).dmc, RequestTaken(s).fetch)
<1>1. CASE ~s.fetch.active /\ s.dmc.pending
  <2>1. /\ RequestTaken(s).dmc = TakeRequest(s.dmc)
        /\ RequestTaken(s).fetch = NewFetch
    BY <1>1 DEF RequestTaken
  <2>2. /\ TakeRequest(s.dmc) \in Readers
        /\ TakeRequest(s.dmc).busy = TRUE
        /\ TakeRequest(s.dmc).pending = FALSE
        /\ TakeRequest(s.dmc).buffer = s.dmc.buffer
    BY DEF Agreed, TakeRequest, Readers
  <2>3. NewFetch \in Fetches /\ NewFetch.active = TRUE
    BY DEF NewFetch, Fetches
  <2>4. QED
    BY <1>1, <2>1, <2>2, <2>3 DEF Agreed, Consistent
<1>2. CASE ~(~s.fetch.active /\ s.dmc.pending)
  BY <1>2 DEF RequestTaken
<1>3. QED
  BY <1>1, <1>2

\* A hardware cycle keeps reader and bus in agreement.
LEMMA ClockedAgreed ==
    ASSUME NEW r, NEW f, Agreed(r, f)
    PROVE  Agreed(Clocked(r, f).dmc, Clocked(r, f).fetch)
<1>1. Agreed(ClockTimer(r), f)
  BY ClockTimerConsistent, ClockTimerType DEF Agreed
<1>2. QED
  BY <1>1, AbortRoutedAgreed, RequestTakenAgreed DEF Clocked

\* A cycle that finds no fetch, or one whose halt cycle is to come, leaves
\* it so.
LEMMA ClockedFresh ==
    ASSUME NEW r, NEW f \in {NoFetch, NewFetch}
    PROVE  Clocked(r, f).fetch \in {NoFetch, NewFetch}
<1> DEFINE s == AbortRouted(ClockTimer(r), f)
<1>1. s.fetch \in {NoFetch, NewFetch}
  <2>1. CASE f = NoFetch
    <3>1. ~f.active
      BY <2>1 DEF NoFetch
    <3>2. QED
      BY <2>1, <3>1 DEF AbortRouted
  <2>2. CASE f = NewFetch
    <3>1. f.active /\ f.halt
      BY <2>2 DEF NewFetch
    <3>2. QED
      BY <2>2, <3>1 DEF AbortRouted
  <2>3. QED
    BY <2>1, <2>2
<1> HIDE DEF s
<1>2. RequestTaken(s).fetch \in {NoFetch, NewFetch}
  BY <1>1 DEF RequestTaken
<1>3. QED
  BY <1>2 DEF Clocked, s

-----------------------------------------------------------------------------
(* Register writes and the bus's other calls keep the agreement.           *)

LEMMA SameHandshake ==
    ASSUME NEW r, NEW f, Agreed(r, f), NEW q \in Readers,
           q.busy = r.busy, q.pending = r.pending, q.buffer = r.buffer
    PROVE  Agreed(q, f)
BY DEF Agreed, Consistent

\* Enabling the channel leaves the fetch to both sides.
LEMMA EnableAgreed ==
    ASSUME NEW r, NEW f, Agreed(r, f), NEW odd \in BOOLEAN
    PROVE  Agreed(Enable(r, odd), f)
<1> DEFINE start == IF (~r.loop /\ MaxRate) \/ ~odd THEN 3 ELSE 2
           q == Enable(r, odd)
<1>1. r \in Readers
  BY DEF Agreed
<1>2. q = IF r.bytes = 0
          THEN [r EXCEPT !.irq = FALSE, !.bytes = r.length, !.start = start]
          ELSE [r EXCEPT !.irq = FALSE]
  BY DEF Enable
<1>3. q \in Readers
  BY <1>1, EnableType
<1> HIDE DEF start, q
<1>4. q.busy = r.busy /\ q.pending = r.pending /\ q.buffer = r.buffer
  BY <1>1, <1>2 DEF Readers
<1>5. QED
  BY <1>3, <1>4, SameHandshake DEF q

\* So does disabling it.
LEMMA DisableAgreed ==
    ASSUME NEW r, NEW f, Agreed(r, f), NEW odd \in BOOLEAN
    PROVE  Agreed(Disable(r, odd), f)
<1> DEFINE disable == IF r.disable # 0 THEN r.disable ELSE IF odd THEN 2 ELSE 3
           q == Disable(r, odd)
<1>1. r \in Readers
  BY DEF Agreed
<1>2. q = [r EXCEPT !.irq = FALSE, !.start = 0, !.disable = disable]
  BY Zenon DEF Disable
<1>3. q \in Readers
  BY <1>1, DisableType
<1> HIDE DEF disable, q
<1>4. q.busy = r.busy /\ q.pending = r.pending /\ q.buffer = r.buffer
  BY <1>1, <1>2 DEF Readers
<1>5. QED
  BY <1>3, <1>4, SameHandshake DEF q

\* So does extending a disable.
LEMMA ExtendDisableAgreed ==
    ASSUME NEW r, NEW f, Agreed(r, f)
    PROVE  Agreed(ExtendDisable(r), f)
<1> DEFINE disable == IF r.disable = 0 \/ r.disable = 255 THEN r.disable
                      ELSE r.disable + 1
           q == ExtendDisable(r)
<1>1. r \in Readers
  BY DEF Agreed
<1>2. q = [r EXCEPT !.disable = disable]
  BY Zenon DEF ExtendDisable
<1>3. q \in Readers
  BY <1>1, ExtendDisableType
<1> HIDE DEF disable, q
<1>4. q.busy = r.busy /\ q.pending = r.pending /\ q.buffer = r.buffer
  BY <1>1, <1>2 DEF Readers
<1>5. QED
  BY <1>3, <1>4, SameHandshake DEF q

\* So does a write of $4010.
LEMMA WriteControlAgreed ==
    ASSUME NEW r, NEW f, Agreed(r, f), NEW loop \in BOOLEAN, NEW irqOn \in BOOLEAN
    PROVE  Agreed(WriteControl(r, loop, irqOn), f)
<1> DEFINE irq == r.irq /\ irqOn
           q == WriteControl(r, loop, irqOn)
<1>1. r \in Readers
  BY DEF Agreed
<1>2. q = [r EXCEPT !.loop = loop, !.irqOn = irqOn, !.irq = irq]
  BY Zenon DEF WriteControl
<1>3. q \in Readers
  BY <1>1, WriteControlType
<1> HIDE DEF irq, q
<1>4. q.busy = r.busy /\ q.pending = r.pending /\ q.buffer = r.buffer
  BY <1>1, <1>2 DEF Readers
<1>5. QED
  BY <1>3, <1>4, SameHandshake DEF q

\* So does a write of $4013.
LEMMA WriteLengthAgreed ==
    ASSUME NEW r, NEW f, Agreed(r, f), NEW length \in Lengths
    PROVE  Agreed(WriteLength(r, length), f)
<1> DEFINE q == WriteLength(r, length)
<1>1. r \in Readers
  BY DEF Agreed
<1>2. q \in Readers
  BY <1>1, WriteLengthType
<1>3. q.busy = r.busy /\ q.pending = r.pending /\ q.buffer = r.buffer
  BY <1>1 DEF WriteLength, Readers
<1> HIDE DEF q
<1>4. QED
  BY <1>2, <1>3, SameHandshake DEF q

\* After a cancel neither side has a fetch.
LEMMA CancelAgreed ==
    ASSUME NEW r \in Readers
    PROVE  Agreed(Cancel(r), NoFetch)
BY DEF Agreed, Consistent, Cancel, NoFetch, Fetches, Readers

\* A delivery ends the transfer on both sides.  It relies on the buffer being
\* empty and on no second request waiting behind the one delivered.
LEMMA SupplyAgreed ==
    ASSUME NEW r, NEW f, Agreed(r, f), f.active
    PROVE  Agreed(Supply(r), NoFetch)
<1>1. r \in Readers /\ ~r.pending
  BY DEF Agreed, Consistent, Readers
<1>2. Supply(r) \in Readers
  BY <1>1, SupplyType
<1>3. ~Supply(r).busy /\ ~Supply(r).pending
  <2> DEFINE last == r.bytes = 1
             bytes == IF last /\ r.loop THEN r.length ELSE r.bytes - 1
             irq == r.irq \/ (last /\ ~r.loop /\ r.irqOn)
  <2>1. Filled(r) = [r EXCEPT !.busy = FALSE, !.buffer = TRUE, !.bytes = bytes, !.irq = irq]
    BY Zenon DEF Filled
  <2>2. \/ Supply(r) = [r EXCEPT !.busy = FALSE]
        \/ Supply(r) = Filled(r)
        \/ Supply(r) = [Filled(r) EXCEPT !.bytes = r.length, !.disable = 3]
    BY Zenon DEF Supply
  <2> HIDE DEF bytes, irq
  <2>3. QED
    BY <1>1, <2>1, <2>2 DEF Readers
<1>4. NoFetch \in Fetches /\ ~NoFetch.active
  BY DEF NoFetch, Fetches
<1>5. QED
  BY <1>2, <1>3, <1>4 DEF Agreed, Consistent, Readers, NoFetch

\* The cycles before the get change the fetch on the bus only.
LEMMA HaltClearedAgreed ==
    ASSUME NEW r, NEW f, Agreed(r, f)
    PROVE  /\ Agreed(r, [f EXCEPT !.halt = FALSE])
           /\ Agreed(r, Advanced(f))
<1>1. f \in Fetches
  BY DEF Agreed
<1>2. f = NoFetch => [f EXCEPT !.halt = FALSE] = NoFetch /\ Advanced(f) = NoFetch
  <2>1. NoFetch \in Fetches /\ ~NoFetch.halt /\ ~NoFetch.dummy
    BY DEF NoFetch, Fetches
  <2>2. [NoFetch EXCEPT !.halt = FALSE] = NoFetch
    BY <2>1 DEF Fetches
  <2>3. [NoFetch EXCEPT !.dummy = FALSE] = NoFetch
    BY <2>1 DEF Fetches
  <2>4. QED
    BY <2>1, <2>2, <2>3, Zenon DEF Advanced
<1>3. /\ [f EXCEPT !.halt = FALSE] \in Fetches
      /\ [f EXCEPT !.halt = FALSE].active = f.active
      /\ Advanced(f) \in Fetches
      /\ Advanced(f).active = f.active
  BY <1>1 DEF Fetches, Advanced
<1>4. QED
  BY <1>2, <1>3 DEF Agreed

-----------------------------------------------------------------------------
(* The inductive invariant.                                                *)

TransferShape == /\ oam.active \/ oam = NoTransfer
                 /\ oam.index < OamSize

IInv == /\ TypeOK
        /\ Agreed(dmc, fetch)
        /\ TransferShape
        /\ TransfersStartWithHalt

\* The invariant holds at power-on.
LEMMA InitIInv == Init => IInv
<1> SUFFICES ASSUME Init PROVE IInv
  OBVIOUS
<1>1. NewReader \in Readers
  BY ReaderAssumption DEF NewReader, Readers
<1>2. ~NewReader.busy /\ ~NewReader.pending
  BY DEF NewReader
<1>3. NoFetch \in Fetches /\ ~NoFetch.active
  BY DEF NoFetch, Fetches
<1>4. NoTransfer \in Transfers /\ ~NoTransfer.active /\ NoTransfer.index = 0
  BY ArbiterAssumption DEF NoTransfer, Transfers
<1>5. Agreed(dmc, fetch)
  BY <1>1, <1>2, <1>3 DEF Init, Agreed, Consistent, Readers, NoFetch
<1>6. pad \in Pads
  BY ArbiterAssumption DEF Init, Pads
<1>7. TypeOK
  BY <1>1, <1>3, <1>4, <1>6, ArbiterAssumption DEF Init, TypeOK, NothingStolen
<1>8. QED
  BY <1>3, <1>4, <1>5, <1>7, ArbiterAssumption
     DEF Init, IInv, TransferShape, TransfersStartWithHalt

\* A read of the pad keeps its types.
LEMMA PadReadType ==
    ASSUME NEW p \in Pads
    PROVE  PadRead(p) \in Pads
<1> DEFINE shift == IF p.strobe THEN 0
                    ELSE IF (FceuxCompat /\ p.oe) \/ p.shift = MaxShift THEN p.shift
                    ELSE p.shift + 1
<1>1. shift = 0 \/ shift = p.shift \/ (p.shift # MaxShift /\ shift = p.shift + 1)
  BY Zenon
<1>2. p.shift \in 0 .. MaxShift
  BY DEF Pads
<1>3. shift \in 0 .. MaxShift
  BY <1>1, <1>2, ArbiterAssumption
<1>4. PadRead(p) = [p EXCEPT !.oe = TRUE, !.shift = shift]
  BY Zenon DEF PadRead
<1> HIDE DEF shift
<1>5. QED
  BY <1>3, <1>4 DEF Pads

\* So does a read of the bus, wherever it goes.
LEMMA BusReadType ==
    ASSUME NEW p \in Pads, NEW target \in Targets
    PROVE  /\ BusRead(p, target) \in Pads
           /\ [p EXCEPT !.oe = FALSE] \in Pads
           /\ BusReadClocks(p, target) \in Nat
           /\ PadReadClocks(p) \in Nat
<1>1. [p EXCEPT !.oe = FALSE] \in Pads
  BY DEF Pads
<1>2. QED
  BY <1>1, PadReadType DEF BusRead, BusReadClocks, PadReadClocks, Targets

\* A write slot: the clock leaves an outstanding fetch untouched, and the
\* reader in agreement with it.
LEMMA WriteSlotFacts ==
    ASSUME IInv, WriteSlot
    PROVE  /\ Agreed(ClockedNow.dmc, fetch')
           /\ fetch' \in {NoFetch, NewFetch}
           /\ phase' \in 0 .. 1
           /\ writes' \in 0 .. MaxWrites
           /\ slot' = "none"
           /\ stolen' \in [cycles : Nat, gets : Nat, oam : BOOLEAN, clocks : Nat]
<1>1. fetch \in {NoFetch, NewFetch}
  BY DEF IInv, TransfersStartWithHalt, WriteSlot, Agreed
<1>2. Clocked(dmc, fetch).fetch \in {NoFetch, NewFetch}
  BY <1>1, ClockedFresh
<1>3. Agreed(Clocked(dmc, fetch).dmc, Clocked(dmc, fetch).fetch)
  BY ClockedAgreed DEF IInv
<1>4. stolen' \in [cycles : Nat, gets : Nat, oam : BOOLEAN, clocks : Nat]
  BY DEF WriteSlot, NothingStolen
<1>5. QED
  BY <1>2, <1>3, <1>4, ArbiterAssumption
     DEF WriteSlot, ClockedNow, Tick, IInv, TypeOK

\* What remains to be shown of a write that leaves the OAM engine alone.
LEMMA WriteKeepsIInv ==
    ASSUME IInv, WriteSlot, UNCHANGED oam, Agreed(dmc', fetch'), pad' \in Pads
    PROVE  IInv'
BY WriteSlotFacts
   DEF IInv, TypeOK, TransferShape, TransfersStartWithHalt, NewTransfer,
       Agreed, WriteSlot, NoFetch

\* So does the release of the output enable.
LEMMA ReleaseOeType ==
    ASSUME IInv, ReleaseOe
    PROVE  pad' \in Pads
BY DEF IInv, TypeOK, ReleaseOe, Pads

\* A write slot, whatever register it hits.
LEMMA WriteIInv ==
    ASSUME IInv, Write
    PROVE  IInv'
<1>1. CASE WriteEnable
  BY <1>1, WriteSlotFacts, ReleaseOeType, WriteKeepsIInv, EnableAgreed DEF WriteEnable
<1>2. CASE WriteDisable
  <2> DEFINE d == Disable(ClockedNow.dmc, phase = 0)
  <2>1. WriteSlot /\ ReleaseOe /\ UNCHANGED oam /\ (dmc' = d \/ dmc' = ExtendDisable(d))
    BY <1>2 DEF WriteDisable
  <2>2. Agreed(d, fetch')
    BY <2>1, WriteSlotFacts, DisableAgreed
  <2>3. Agreed(ExtendDisable(d), fetch')
    BY <2>2, ExtendDisableAgreed
  <2> HIDE DEF d
  <2>4. QED
    BY <2>1, <2>2, <2>3, ReleaseOeType, WriteKeepsIInv
<1>3. CASE \E loop, irqOn \in BOOLEAN : WriteDmcControl(loop, irqOn)
  <2>1. PICK loop \in BOOLEAN, irqOn \in BOOLEAN : WriteDmcControl(loop, irqOn)
    BY <1>3
  <2>2. QED
    BY <2>1, WriteSlotFacts, ReleaseOeType, WriteKeepsIInv, WriteControlAgreed
       DEF WriteDmcControl
<1>4. CASE \E length \in Lengths : WriteDmcLength(length)
  <2>1. PICK length \in Lengths : WriteDmcLength(length)
    BY <1>4
  <2>2. QED
    BY <2>1, WriteSlotFacts, ReleaseOeType, WriteKeepsIInv, WriteLengthAgreed
       DEF WriteDmcLength
<1>5. CASE WriteOamDma
  <2>1. NewTransfer \in Transfers /\ NewTransfer.active /\ NewTransfer.index = 0
    BY ArbiterAssumption DEF NewTransfer, Transfers
  <2>2. Agreed(dmc', fetch') /\ pad' \in Pads
    BY <1>5, WriteSlotFacts, ReleaseOeType DEF WriteOamDma
  <2>3. QED
    BY <1>5, <2>1, <2>2, WriteSlotFacts, ArbiterAssumption
       DEF WriteOamDma, IInv, TypeOK, TransferShape, TransfersStartWithHalt, Agreed,
           NoFetch
<1>6. CASE \E strobe, latched \in BOOLEAN : WriteStrobe(strobe, latched)
  <2>1. PICK strobe \in BOOLEAN, latched \in BOOLEAN : WriteStrobe(strobe, latched)
    BY <1>6
  <2>2. pad' \in Pads
    BY <2>1, ArbiterAssumption DEF WriteStrobe, Pads, IInv, TypeOK
  <2>3. QED
    BY <2>1, <2>2, WriteSlotFacts, WriteKeepsIInv DEF WriteStrobe
<1>7. CASE WriteOther
  BY <1>7, WriteSlotFacts, ReleaseOeType, WriteKeepsIInv DEF WriteOther
<1>8. QED
  BY <1>1, <1>2, <1>3, <1>4, <1>5, <1>6, <1>7 DEF Write

\* A cycle in which the engines proceed from a fetch the reader agrees with.
LEMMA CycleFacts ==
    ASSUME NEW f, Agreed(dmc, f), Cycle(f), phase \in 0 .. 1
    PROVE  Agreed(dmc', fetch') /\ phase' \in 0 .. 1
BY ClockedAgreed DEF Cycle, Tick

\* A read slot, halted or not.
LEMMA ReadIInv ==
    ASSUME IInv, NEW target \in Targets, CompleteRead(target) \/ Halt(target)
    PROVE  IInv'
<1>1. CASE CompleteRead(target)
  <2>1. fetch = NoFetch /\ oam = NoTransfer
    BY <1>1 DEF CompleteRead, Stealing, IInv, Agreed, TransferShape
  <2>2. fetch' \in {NoFetch, NewFetch}
    BY <1>1, <2>1, ClockedFresh DEF CompleteRead, Cycle
  <2>3. Agreed(dmc', fetch') /\ phase' \in 0 .. 1
    BY <1>1, CycleFacts DEF CompleteRead, IInv, TypeOK
  <2>4. pad' \in Pads
    BY <1>1, BusReadType DEF CompleteRead, IInv, TypeOK
  <2>5. stolen' \in [cycles : Nat, gets : Nat, oam : BOOLEAN, clocks : Nat]
    <3> DEFINE clocks == BusReadClocks(pad, target)
                         + IF slot = target THEN stolen.clocks ELSE 0
    <3>1. clocks \in Nat
      <4>1. BusReadClocks(pad, target) \in Nat /\ stolen.clocks \in Nat
        BY BusReadType DEF IInv, TypeOK
      <4>2. QED
        BY <4>1
    <3>2. stolen' = [NothingStolen EXCEPT !.clocks = clocks]
      BY <1>1 DEF CompleteRead
    <3> HIDE DEF clocks
    <3>3. QED
      BY <3>1, <3>2 DEF NothingStolen
  <2>6. QED
    BY <1>1, <2>1, <2>2, <2>3, <2>4, <2>5, ArbiterAssumption
       DEF CompleteRead, IInv, TypeOK, TransferShape, TransfersStartWithHalt,
           Agreed, NoFetch, NoTransfer
<1>2. CASE Halt(target)
  <2>1. Agreed(dmc', fetch') /\ phase' \in 0 .. 1
    BY <1>2, CycleFacts, HaltClearedAgreed DEF Halt, IInv, TypeOK
  <2>2. /\ oam' \in Transfers
        /\ oam'.active = oam.active
        /\ oam'.index = oam.index
    BY <1>2 DEF Halt, IInv, TypeOK, Transfers
  <2>3. oam = NoTransfer => oam' = NoTransfer
    <3>1. NoTransfer \in Transfers /\ ~NoTransfer.halt
      BY ArbiterAssumption DEF NoTransfer, Transfers
    <3>2. [NoTransfer EXCEPT !.halt = FALSE] = NoTransfer
      BY <3>1 DEF Transfers
    <3>3. QED
      BY <1>2, <3>2, Zenon DEF Halt
  <2>4. pad' \in Pads
    BY <1>2, BusReadType DEF Halt, IInv, TypeOK
  <2>5. stolen' \in [cycles : Nat, gets : Nat, oam : BOOLEAN, clocks : Nat]
    <3>1. oam.active \in BOOLEAN /\ BusReadClocks(pad, target) \in Nat
      BY BusReadType DEF IInv, TypeOK, Transfers
    <3>2. QED
      BY <1>2, <3>1 DEF Halt
  <2>6. slot' \in Targets \cup {"none"} /\ slot' # "none" /\ writes' = writes
    BY <1>2 DEF Halt, Targets
  <2>7. QED
    BY <2>1, <2>2, <2>3, <2>4, <2>5, <2>6
       DEF IInv, TypeOK, TransferShape, TransfersStartWithHalt, Agreed
<1>3. QED
  BY <1>1, <1>2

\* A cycle of the stall loop.
LEMMA StallLoopIInv ==
    ASSUME IInv, StallLoop
    PROVE  IInv'
<1>1. CASE CancelAborted
  BY <1>1, CancelAgreed
     DEF CancelAborted, IInv, TypeOK, TransferShape, TransfersStartWithHalt, Agreed
<1>2. CASE \E aliased \in BOOLEAN : DmcGet(aliased)
  <2>1. PICK aliased \in BOOLEAN : DmcGet(aliased)
    BY <1>2
  <2> DEFINE s == Clocked(dmc, fetch)
             r == RequestTaken([dmc |-> Supply(s.dmc), fetch |-> NoFetch])
             released == [pad EXCEPT !.oe = FALSE]
             conflict == aliased /\ Ntsc /\ Decodes
  <2>2. slot # "none" /\ fetch.active /\ ~fetch.halt /\ ~fetch.abort
    BY <2>1 DEF DmcGet, InLoop, DmcReady
  <2>3. Agreed(s.dmc, s.fetch)
    BY ClockedAgreed DEF IInv
  <2>4. s.fetch.active
    <3> DEFINE d == ClockTimer(dmc)
    <3>1. AbortRouted(d, fetch).fetch.active
      <4>1. [fetch EXCEPT !.abort = TRUE].active = fetch.active
        BY DEF IInv, TypeOK, Fetches
      <4>2. QED
        BY <2>2, <4>1 DEF AbortRouted
    <3>2. QED
      BY <3>1 DEF Clocked, RequestTaken
  <2>5. Agreed(Supply(s.dmc), NoFetch)
    BY <2>3, <2>4, SupplyAgreed
  <2>6. Agreed(r.dmc, r.fetch)
    BY <2>5, RequestTakenAgreed
  <2>7. dmc' = r.dmc /\ fetch' = r.fetch /\ oam' = oam
    BY <2>1 DEF DmcGet
  <2>8. released \in Pads /\ PadRead(released) \in Pads /\ PadReadClocks(released) \in Nat
    <3>1. released \in Pads
      BY DEF IInv, TypeOK, Pads
    <3>2. QED
      BY <3>1, PadReadType DEF PadReadClocks
  <2>9. pad' \in Pads
    BY <2>1, <2>8 DEF DmcGet
  <2>10. stolen' \in [cycles : Nat, gets : Nat, oam : BOOLEAN, clocks : Nat]
    <3> DEFINE more == IF conflict /\ slot = "pad" THEN PadReadClocks(released) ELSE 0
    <3>1. more \in Nat
      BY <2>8
    <3>2. stolen' = [stolen EXCEPT !.cycles = @ + 1, !.gets = @ + 1, !.clocks = @ + more]
      BY <2>1 DEF DmcGet
    <3>3. stolen \in [cycles : Nat, gets : Nat, oam : BOOLEAN, clocks : Nat]
      BY DEF IInv, TypeOK
    <3>4. stolen.clocks + more \in Nat /\ stolen.cycles + 1 \in Nat /\ stolen.gets + 1 \in Nat
      BY <3>1, <3>3
    <3> HIDE DEF more
    <3>5. QED
      BY <3>2, <3>3, <3>4
  <2>11. phase' \in 0 .. 1 /\ slot' = slot /\ writes' = writes
    BY <2>1 DEF DmcGet, Tick, InLoop, IInv, TypeOK
  <2> HIDE DEF s, r
  <2>12. QED
    BY <2>2, <2>6, <2>7, <2>9, <2>10, <2>11
       DEF IInv, TypeOK, TransferShape, TransfersStartWithHalt, Agreed
<1>3. CASE OamGet
  <2> DEFINE released == [pad EXCEPT !.oe = FALSE]
             conflict == Decodes /\ oam.index \in PadIndices
  <2>1. Agreed(dmc', fetch') /\ phase' \in 0 .. 1
    BY <1>3, CycleFacts, HaltClearedAgreed DEF OamGet, IInv, TypeOK
  <2>2. released \in Pads /\ PadReadClocks(released) \in Nat
    BY DEF IInv, TypeOK, Pads, PadReadClocks
  <2>3. [PadRead(released) EXCEPT !.oe = FALSE] \in Pads
    <3>1. \A p \in Pads : [p EXCEPT !.oe = FALSE] \in Pads
      BY DEF Pads
    <3>2. QED
      BY <2>2, <3>1, PadReadType
  <2>4. pad' \in Pads
    BY <1>3, <2>2, <2>3 DEF OamGet
  <2>5. stolen' \in [cycles : Nat, gets : Nat, oam : BOOLEAN, clocks : Nat]
    <3> DEFINE more == IF conflict /\ slot = "pad" THEN PadReadClocks(released) ELSE 0
    <3>1. more \in Nat
      BY <2>2
    <3>2. stolen' = [stolen EXCEPT !.cycles = @ + 1, !.clocks = @ + more]
      BY <1>3 DEF OamGet
    <3>3. stolen \in [cycles : Nat, gets : Nat, oam : BOOLEAN, clocks : Nat]
      BY DEF IInv, TypeOK
    <3>4. stolen.clocks + more \in Nat /\ stolen.cycles + 1 \in Nat /\ stolen.gets + 1 \in Nat
      BY <3>1, <3>3
    <3> HIDE DEF more
    <3>5. QED
      BY <3>2, <3>3, <3>4
  <2>6. oam' \in Transfers /\ oam'.active /\ oam'.index = oam.index
    BY <1>3 DEF OamGet, IInv, TypeOK, Transfers
  <2>7. slot # "none" /\ slot' = slot /\ writes' = writes
    BY <1>3 DEF OamGet, InLoop
  <2>8. QED
    BY <2>1, <2>4, <2>5, <2>6, <2>7
       DEF IInv, TypeOK, TransferShape, TransfersStartWithHalt, Agreed
<1>4. CASE OamPut
  <2>1. Agreed(dmc', fetch') /\ phase' \in 0 .. 1
    BY <1>4, CycleFacts, HaltClearedAgreed DEF OamPut, IInv, TypeOK
  <2>2. oam' \in Transfers /\ (oam'.active \/ oam' = NoTransfer) /\ oam'.index < OamSize
    <3>1. CASE oam.index + 1 = OamSize
      BY <1>4, <3>1, ArbiterAssumption DEF OamPut, NoTransfer, Transfers
    <3>2. CASE oam.index + 1 # OamSize
      <4>1. oam.index + 1 \in 0 .. OamSize /\ oam.index + 1 < OamSize
        BY <3>2, ArbiterAssumption DEF IInv, TypeOK, TransferShape, Transfers
      <4>2. oam' = [oam EXCEPT !.read = FALSE, !.index = @ + 1] /\ oam.active
        BY <1>4, <3>2 DEF OamPut
      <4>3. QED
        BY <4>1, <4>2 DEF IInv, TypeOK, Transfers
    <3>3. QED
      BY <3>1, <3>2
  <2>3. stolen' \in [cycles : Nat, gets : Nat, oam : BOOLEAN, clocks : Nat]
    BY <1>4 DEF OamPut, IInv, TypeOK
  <2>4. slot # "none" /\ slot' = slot /\ writes' = writes /\ pad' = pad
    BY <1>4 DEF OamPut, InLoop
  <2>5. QED
    BY <2>1, <2>2, <2>3, <2>4
       DEF IInv, TypeOK, TransferShape, TransfersStartWithHalt, Agreed
<1>5. CASE Align
  <2> DEFINE repeats == ~(Ntsc /\ slot = "pad")
  <2>1. Agreed(dmc', fetch') /\ phase' \in 0 .. 1
    BY <1>5, CycleFacts, HaltClearedAgreed DEF Align, IInv, TypeOK
  <2>2. slot \in Targets /\ slot # "none" /\ slot' = slot /\ writes' = writes /\ oam' = oam
    BY <1>5 DEF Align, InLoop, IInv, TypeOK
  <2>3. pad' \in Pads
    BY <1>5, <2>2, BusReadType DEF Align, IInv, TypeOK
  <2>4. stolen' \in [cycles : Nat, gets : Nat, oam : BOOLEAN, clocks : Nat]
    <3> DEFINE more == IF repeats THEN BusReadClocks(pad, slot) ELSE 0
    <3>1. more \in Nat
      BY <2>2, BusReadType DEF IInv, TypeOK
    <3>2. stolen' = [stolen EXCEPT !.cycles = @ + 1, !.clocks = @ + more]
      BY <1>5 DEF Align
    <3>3. stolen \in [cycles : Nat, gets : Nat, oam : BOOLEAN, clocks : Nat]
      BY DEF IInv, TypeOK
    <3>4. stolen.clocks + more \in Nat /\ stolen.cycles + 1 \in Nat /\ stolen.gets + 1 \in Nat
      BY <3>1, <3>3
    <3> HIDE DEF more
    <3>5. QED
      BY <3>2, <3>3, <3>4
  <2>5. QED
    BY <2>1, <2>2, <2>3, <2>4
       DEF IInv, TypeOK, TransferShape, TransfersStartWithHalt, Agreed
<1>6. QED
  BY <1>1, <1>2, <1>3, <1>4, <1>5 DEF StallLoop

\* A reset.
LEMMA ResetIInv ==
    ASSUME IInv, Reset
    PROVE  IInv'
<1>1. Agreed(dmc', fetch')
  <2>1. NewReader \in Readers /\ ~NewReader.busy /\ ~NewReader.pending
    BY ReaderAssumption DEF NewReader, Readers
  <2>2. NoFetch \in Fetches /\ ~NoFetch.active
    BY DEF NoFetch, Fetches
  <2>3. QED
    BY <2>1, <2>2 DEF Reset, Agreed, Consistent, Readers, NoFetch
<1>2. pad' \in Pads
  BY DEF Reset, ReleaseOe, Pads, IInv, TypeOK
<1>3. NoTransfer \in Transfers /\ ~NoTransfer.active /\ NoTransfer.index = 0
  BY ArbiterAssumption DEF NoTransfer, Transfers
<1>4. ~NoFetch.active
  BY DEF NoFetch
<1>5. QED
  BY <1>1, <1>2, <1>3, <1>4, ArbiterAssumption
     DEF Reset, IInv, TypeOK, TransferShape, TransfersStartWithHalt, Agreed, NothingStolen

\* Every cycle keeps the invariant.
LEMMA NextIInv == IInv /\ [Next]_vars => IInv'
<1> SUFFICES ASSUME IInv, [Next]_vars PROVE IInv'
  OBVIOUS
<1>1. CASE Write
  BY <1>1, WriteIInv
<1>2. CASE Read
  BY <1>2, ReadIInv DEF Read
<1>3. CASE StallLoop
  BY <1>3, StallLoopIInv
<1>4. CASE Reset
  BY <1>4, ResetIInv
<1>5. CASE UNCHANGED vars
  BY <1>5 DEF vars, IInv, TypeOK, TransferShape, TransfersStartWithHalt, Agreed, Consistent
<1>6. QED
  BY <1>1, <1>2, <1>3, <1>4, <1>5 DEF Next

\* The invariant holds in every state.
LEMMA Inductive == Spec => []IInv
BY InitIInv, NextIInv, PTL DEF Spec

-----------------------------------------------------------------------------
(* The results.                                                            *)

\* Every variable keeps its type: the reader's delays and bit counters stay
\* within the widths of channels.rs, the OAM index within the page.
THEOREM TypeCorrect == Spec => []TypeOK
BY Inductive, PTL DEF IInv

\* The reader and the bus never disagree about a transfer being under way.
THEOREM AgreementCorrect == Spec => []ReaderAndBusAgree
<1>1. IInv => ReaderAndBusAgree
  BY DEF IInv, Agreed, ReaderAndBusAgree
<1>2. QED
  BY <1>1, Inductive, PTL

\* A sample byte is fetched only into an empty buffer.
THEOREM NoByteOverwritten == Spec => []BufferFreeForFetch
<1>1. IInv => BufferFreeForFetch
  BY DEF IInv, Agreed, Consistent, BufferFreeForFetch
<1>2. QED
  BY <1>1, Inductive, PTL

\* No transfer is left half done between two CPU slots.
THEOREM NoHalfDoneTransfer == Spec => []TransfersStartWithHalt
BY Inductive, PTL DEF IInv

-----------------------------------------------------------------------------
(* The engine implements its contract, action by action.                   *)

LEMMA InitContract == Init => Contract!Init
BY DEF Init, Contract!Init, NoTransfer

\* Every cycle is a step of the contract or none.
LEMMA NextContract == IInv /\ [Next]_vars => [Contract!Next]_(Contract!vars)
<1> DEFINE left == IF oam.active THEN OamSize - oam.index ELSE 0
           stalled == slot # "none"
<1> SUFFICES ASSUME IInv, [Next]_vars
             PROVE  [Contract!Next]_(Contract!vars)
  OBVIOUS
<1>1. ASSUME oam' = oam, slot' = slot
      PROVE  [Contract!Next]_(Contract!vars)
  BY <1>1 DEF Contract!vars
<1>2. CASE WriteOamDma
  <2>1. oam'.active /\ oam'.index = 0
    BY <1>2 DEF WriteOamDma, NewTransfer
  <2>2. slot = "none" /\ slot' = slot
    BY <1>2 DEF WriteOamDma, WriteSlot
  <2>3. Contract!Ask
    BY <2>1, <2>2, ArbiterAssumption DEF Contract!Ask
  <2>4. QED
    BY <2>3 DEF Contract!Next
<1>3. CASE Write /\ ~WriteOamDma
  <2>1. oam' = oam /\ slot' = slot
    BY <1>3 DEF Write, WriteEnable, WriteDisable, WriteDmcControl, WriteDmcLength,
                WriteStrobe, WriteOther, WriteSlot
  <2>2. QED
    BY <1>1, <2>1
<1>4. CASE Read
  <2>1. PICK target \in Targets : CompleteRead(target) \/ Halt(target)
    BY <1>4 DEF Read
  <2>2. target # "none"
    BY DEF Targets
  <2>3. CASE CompleteRead(target)
    <3>1. ~oam.active /\ oam' = oam /\ slot' = "none"
      BY <2>3 DEF CompleteRead, Stealing
    <3>2. CASE slot = "none"
      BY <1>1, <3>1, <3>2
    <3>3. CASE slot # "none"
      <4>1. Contract!ReadDone
        BY <3>1, <3>3 DEF Contract!ReadDone
      <4>2. QED
        BY <4>1 DEF Contract!Next
    <3>4. QED
      BY <3>2, <3>3
  <2>4. CASE Halt(target)
    <3>1. slot = "none" /\ slot' # "none"
      BY <2>2, <2>4 DEF Halt
    <3>2. oam'.active = oam.active /\ oam'.index = oam.index
      BY <2>4 DEF Halt, IInv, TypeOK, Transfers
    <3>3. Contract!Stall
      BY <3>1, <3>2 DEF Contract!Stall
    <3>4. QED
      BY <3>3 DEF Contract!Next
  <2>5. QED
    BY <2>1, <2>3, <2>4
<1>5. CASE OamPut
  <2>1. slot # "none" /\ slot' = slot /\ oam.active
    BY <1>5 DEF OamPut, InLoop
  <2>2. oam.index \in 0 .. OamSize - 1
    BY ArbiterAssumption DEF IInv, TypeOK, TransferShape, Transfers
  <2>3. (IF oam'.active THEN OamSize - oam'.index ELSE 0) = OamSize - oam.index - 1
    <3>1. CASE oam.index + 1 = OamSize
      <4>1. ~oam'.active
        BY <1>5, <3>1 DEF OamPut, NoTransfer
      <4>2. QED
        BY <2>2, <3>1, <4>1, ArbiterAssumption
    <3>2. CASE oam.index + 1 # OamSize
      <4>1. oam' = [oam EXCEPT !.read = FALSE, !.index = @ + 1]
        BY <1>5, <3>2 DEF OamPut
      <4>2. oam'.active /\ oam'.index = oam.index + 1
        BY <2>1, <4>1 DEF IInv, TypeOK, Transfers
      <4>3. QED
        BY <2>2, <4>2, ArbiterAssumption
    <3>3. QED
      BY <3>1, <3>2
  <2>4. Contract!CopyByte
    BY <2>1, <2>2, <2>3, ArbiterAssumption DEF Contract!CopyByte
  <2>5. QED
    BY <2>4 DEF Contract!Next
<1>6. CASE OamGet
  <2>1. slot' = slot
    BY <1>6 DEF OamGet, InLoop
  <2>2. oam'.active = oam.active /\ oam'.index = oam.index
    BY <1>6 DEF OamGet, IInv, TypeOK, Transfers
  <2>3. QED
    BY <2>1, <2>2 DEF Contract!vars
<1>7. CASE CancelAborted \/ (\E aliased \in BOOLEAN : DmcGet(aliased)) \/ Align
  <2>1. oam' = oam /\ slot' = slot
    BY <1>7 DEF CancelAborted, DmcGet, Align, InLoop
  <2>2. QED
    BY <1>1, <2>1
<1>8. CASE Reset
  <2>1. slot = "none" /\ slot' = slot /\ ~oam'.active
    BY <1>8 DEF Reset, NoTransfer
  <2>2. Contract!Abandon
    BY <2>1 DEF Contract!Abandon
  <2>3. QED
    BY <2>2 DEF Contract!Next
<1>9. CASE UNCHANGED vars
  BY <1>1, <1>9 DEF vars
<1>10. QED
  BY <1>2, <1>3, <1>4, <1>5, <1>6, <1>7, <1>8, <1>9 DEF Next, StallLoop

\* An OAM transfer copies each byte once, in order, and all of them before
\* the halted CPU goes on, whatever DMC fetches interrupt it.
THEOREM ContractKept == Spec => OamCopiedBeforeRead
BY InitContract, NextContract, Inductive, PTL
   DEF Spec, OamCopiedBeforeRead, Contract!Spec

-----------------------------------------------------------------------------
(* Stalls: how long the CPU is halted, and how often its joypad read is     *)
(* repeated. The induction hypothesis says where a stall is, given the      *)
(* cycles it has taken.                                                     *)

\* The cycles an OAM transfer still needs, at the least.
ToCome ==
    LET left == 2 * (OamSize - oam.index)
    IN  IF phase = 1 THEN left ELSE IF oam.read THEN left - 1 ELSE left + 1

\* The cycles it has had.
Done == 2 * oam.index + IF oam.read THEN 1 ELSE 0

Ready == ~fetch.halt /\ ~fetch.dummy

\* A fetch alone: halt, dummy, perhaps one cycle to align, get.
DmcStall ==
    /\ ~oam.active
    /\ fetch.active =>
         /\ ~fetch.halt /\ stolen.gets = 0
         /\ \/ stolen.cycles = 1 /\ fetch.dummy
            \/ stolen.cycles = 2 /\ ~fetch.dummy
            \/ stolen.cycles = 3 /\ ~fetch.dummy /\ phase = 1
    /\ ~fetch.active => \/ stolen.gets = 0 /\ stolen.cycles \in 1 .. 3
                        \/ stolen.gets = 1 /\ stolen.cycles \in 3 .. 4

\* While the transfer runs a fetch costs two cycles of its own. A disable that
\* is counting down ends before the transfer does, or its fetch is delivered.
TransferRuns ==
    /\ phase = 1 => ~oam.read
    /\ stolen.cycles >= 1 + Done
    /\ stolen.cycles <= Done + 2 * stolen.gets + IF phase = 0 /\ ~oam.read THEN 1 ELSE 2
    /\ \/ dmc.disable <= ToCome
       \/ /\ dmc.disable <= ToCome + 1
          /\ fetch.active /\ ~fetch.halt /\ (oam.read => ~fetch.dummy)

\* A fetch that outlives the transfer is delivered, for three cycles at most.
TransferDone ==
    /\ stolen.cycles >= 1 + 2 * OamSize
    /\ fetch.active =>
         /\ phase = 0 => ~fetch.halt
         /\ dmc.disable = 0 \/ (phase = 1 /\ Ready /\ dmc.disable = 1)
         /\ stolen.cycles <= 2 * OamSize + 2 + 2 * stolen.gets
                             + IF fetch.abort THEN 0
                               ELSE IF phase = 0 THEN 1
                               ELSE IF Ready THEN 2 ELSE 0
    /\ ~fetch.active => stolen.cycles <= 2 * OamSize + 2 + 3 * stolen.gets

PadClocked ==
    slot = "pad" /\ ~stolen.oam /\ ~pad.strobe /\ ~FceuxCompat /\ Ntsc
        => stolen.clocks \in 1 .. 1 + stolen.gets

StallInv ==
    /\ ~dmc.abort
    /\ fetch.abort => dmc.disable = 0
    /\ dmc.disable <= 4
    /\ slot = "none" /\ dmc.disable = 4 => fetch.active
    /\ slot # "none" /\ ~stolen.oam => DmcStall
    /\ slot # "none" /\ stolen.oam => IF oam.active THEN TransferRuns ELSE TransferDone
    /\ PadClocked

-----------------------------------------------------------------------------
(* What a clock does to a delay, an abort and the fetch under way.           *)

LEMMA ClockTimerDelays ==
    ASSUME NEW r \in Readers, ~r.abort
    PROVE  /\ ClockTimer(r).disable = Dec(r.disable)
           /\ ClockTimer(r).abort <=> r.disable = 1
<1> DEFINE o == OutputStep(r)
           d == DelayStep(o)
           q == RequestStep(d)
<1>1. o \in Readers /\ o.disable = r.disable /\ ~o.abort
  <2>1. o \in Readers
    BY OutputStepType
  <2>2. CASE r.timer # 0
    <3>1. o = [r EXCEPT !.timer = r.timer - 1]
      BY <2>2, Zenon DEF OutputStep
    <3> HIDE DEF o
    <3>2. QED
      BY <2>1, <3>1 DEF Readers
  <2>3. CASE r.timer = 0
    <3> DEFINE bits == IF r.bits = 1 THEN BitsPerByte ELSE r.bits - 1
               buffer == r.buffer /\ r.bits # 1
    <3>1. o = [r EXCEPT !.timer = Period - 1, !.bits = bits, !.buffer = buffer]
      BY <2>3, Zenon DEF OutputStep
    <3> HIDE DEF bits, buffer, o
    <3>2. QED
      BY <2>1, <3>1 DEF Readers
  <2>4. QED
    BY <2>2, <2>3
<1> HIDE DEF o
<1>2. d \in Readers /\ d.disable = Dec(o.disable) /\ (d.abort <=> o.disable = 1)
  <2> DEFINE stops == o.disable = 1
             bytes == IF stops THEN 0 ELSE o.bytes
             pending == o.pending /\ ~stops
             abort == o.abort \/ stops
  <2>1. d = [o EXCEPT !.start = Dec(o.start), !.disable = Dec(o.disable),
                      !.bytes = bytes, !.pending = pending, !.abort = abort]
    BY Zenon DEF DelayStep
  <2>2. abort <=> o.disable = 1
    BY <1>1
  <2>3. d \in Readers
    BY <1>1, DelayStepType
  <2> HIDE DEF bytes, pending, abort, d
  <2>4. d.disable = Dec(o.disable) /\ d.abort = abort
    BY <1>1, <2>1 DEF Readers
  <2>5. QED
    BY <2>2, <2>3, <2>4
<1> HIDE DEF d
<1>3. q.disable = d.disable /\ (q.abort <=> d.abort)
  BY <1>2 DEF RequestStep, Readers
<1>4. ClockTimer(r) = q
  BY DEF ClockTimer, q, d, o
<1> HIDE DEF q
<1>5. QED
  BY <1>1, <1>2, <1>3, <1>4

\* A fetch that has been halted stays under way and is aborted when a disable has
\* counted down; one still to be halted stays or goes; without one, one may begin.
LEMMA ClockedFetch ==
    ASSUME NEW r, NEW f, Agreed(r, f), ~r.abort
    PROVE  LET d == Clocked(r, f).dmc
               g == Clocked(r, f).fetch
           IN  /\ ~d.abort
               /\ d.disable = Dec(r.disable)
               /\ f.active /\ ~f.halt => /\ g.active /\ ~g.halt
                                         /\ g.dummy <=> f.dummy
                                         /\ g.abort <=> f.abort \/ r.disable = 1
               /\ f.active /\ f.halt => g = f \/ g = NoFetch
               /\ ~f.active => g \in {NoFetch, NewFetch}
<1> DEFINE t == ClockTimer(r)
           s == AbortRouted(t, f)
           c == RequestTaken(s)
<1>1. r \in Readers /\ f \in Fetches
  BY DEF Agreed
<1>2. t \in Readers /\ t.disable = Dec(r.disable) /\ (t.abort <=> r.disable = 1)
  BY <1>1, ClockTimerType, ClockTimerDelays
<1>3. Agreed(t, f)
  BY <1>1, <1>2, ClockTimerConsistent DEF Agreed
<1>4. Clocked(r, f) = c
  BY DEF Clocked
<1> HIDE DEF t
<1>5. Agreed(s.dmc, s.fetch)
  BY <1>3, AbortRoutedAgreed
<1>6. ~s.dmc.abort /\ s.dmc.disable = t.disable
  BY <1>2 DEF AbortRouted, TakeAbort, Cancel, Readers
<1>7. f.active /\ ~f.halt => /\ s.fetch.active /\ ~s.fetch.halt
                             /\ s.fetch.dummy <=> f.dummy
                             /\ s.fetch.abort <=> f.abort \/ r.disable = 1
  BY <1>1, <1>2 DEF AbortRouted, Fetches
<1>8. f.active /\ f.halt => /\ s.fetch = f \/ s.fetch = NoFetch
                            /\ s.fetch = f \/ ~s.dmc.pending
  BY <1>1, <1>2 DEF AbortRouted, Cancel, TakeAbort, Readers
<1>9. ~f.active => s.fetch = f /\ f = NoFetch
  BY <1>2, <1>3 DEF AbortRouted, Agreed
<1> HIDE DEF s
<1>10. ~c.dmc.abort /\ c.dmc.disable = s.dmc.disable
  BY <1>5, <1>6 DEF RequestTaken, TakeRequest, Agreed, Readers
<1>11. c.fetch = s.fetch \/ (~s.fetch.active /\ s.dmc.pending /\ c.fetch = NewFetch)
  BY DEF RequestTaken
<1> HIDE DEF c
<1>12. QED
  BY <1>2, <1>4, <1>6, <1>7, <1>8, <1>9, <1>10, <1>11

\* The numbers of a stall, as arithmetic needs them.
LEMMA Numbers ==
    ASSUME IInv
    PROVE  /\ phase \in {0, 1}
           /\ stolen.cycles \in Nat /\ stolen.gets \in Nat /\ stolen.clocks \in Nat
           /\ stolen.oam \in BOOLEAN
           /\ oam.index \in Nat /\ oam.index < OamSize /\ OamSize \in Nat
           /\ dmc.disable \in Nat
           /\ dmc \in Readers /\ fetch \in Fetches /\ oam \in Transfers /\ pad \in Pads
           /\ slot = "none" => fetch \in {NoFetch, NewFetch}
BY ArbiterAssumption
   DEF IInv, TypeOK, TransferShape, Transfers, Agreed, Readers, TransfersStartWithHalt

\* A cycle in which the engines proceed from fetch state f.
LEMMA CycleStall ==
    ASSUME NEW f, IInv, StallInv, Agreed(dmc, f), Cycle(f), f.abort => dmc.disable = 0
    PROVE  /\ phase' = 1 - phase
           /\ ~dmc'.abort
           /\ dmc'.disable = Dec(dmc.disable)
           /\ fetch'.abort => dmc'.disable = 0
           /\ f.active /\ ~f.halt => /\ fetch'.active /\ ~fetch'.halt
                                     /\ fetch'.dummy <=> f.dummy
                                     /\ fetch'.abort <=> f.abort \/ dmc.disable = 1
           /\ f.active /\ f.halt => fetch' = f \/ fetch' = NoFetch
           /\ ~f.active => fetch' \in {NoFetch, NewFetch}
<1>1. phase' = 1 - phase /\ dmc' = Clocked(dmc, f).dmc /\ fetch' = Clocked(dmc, f).fetch
  BY DEF Cycle, Tick
<1>2. ~dmc.abort /\ dmc.disable \in Nat
  BY Numbers DEF StallInv
<1>3. ~NoFetch.abort /\ ~NewFetch.abort
  BY DEF NoFetch, NewFetch
<1>4. dmc'.disable = Dec(dmc.disable)
  BY <1>1, <1>2, ClockedFetch
<1>5. dmc.disable \in {0, 1} => dmc'.disable = 0
  BY <1>4 DEF Dec
<1>6. f.active \in BOOLEAN /\ f.halt \in BOOLEAN
  BY DEF Agreed, Fetches
<1>7. QED
  BY <1>1, <1>2, <1>3, <1>4, <1>5, <1>6, ClockedFetch

\* A stolen cycle takes a fetch from halt to dummy to ready.
LEMMA AdvancedFetch ==
    ASSUME NEW f \in Fetches
    PROVE  LET a == Advanced(f)
           IN  /\ a.active <=> f.active
               /\ a.abort <=> f.abort
               /\ ~a.halt
               /\ f.halt => (a.dummy <=> f.dummy)
               /\ ~f.halt => ~a.dummy
BY DEF Advanced, Fetches

\* A byte that is delivered restarts the delay or leaves it.
LEMMA SupplyDelays ==
    ASSUME NEW r \in Readers, ~r.pending
    PROVE  /\ ~Supply(r).pending
           /\ Supply(r).disable \in {r.disable, 3}
           /\ Supply(r).abort <=> r.abort
<1> DEFINE last == r.bytes = 1
           bytes == IF last /\ r.loop THEN r.length ELSE r.bytes - 1
           irq == r.irq \/ (last /\ ~r.loop /\ r.irqOn)
<1>1. Filled(r) = [r EXCEPT !.busy = FALSE, !.buffer = TRUE, !.bytes = bytes, !.irq = irq]
  BY Zenon DEF Filled
<1>2. \/ Supply(r) = [r EXCEPT !.busy = FALSE]
      \/ Supply(r) = Filled(r)
      \/ Supply(r) = [Filled(r) EXCEPT !.bytes = r.length, !.disable = 3]
  BY Zenon DEF Supply
<1> HIDE DEF bytes, irq
<1>3. QED
  BY <1>1, <1>2 DEF Readers

\* A read of the bus does not move the strobe.
LEMMA StrobeKept ==
    ASSUME NEW p \in Pads, NEW target
    PROVE  BusRead(p, target).strobe <=> p.strobe
BY DEF BusRead, PadRead, Pads

-----------------------------------------------------------------------------
(* Between stalls: only the delays matter.                                   *)

LEMMA NoStall ==
    ASSUME slot' = "none", ~dmc'.abort, ~fetch'.abort, dmc'.disable <= 4,
           dmc'.disable = 4 => fetch'.active
    PROVE  StallInv'
BY DEF StallInv, PadClocked

\* A write to the reader starts a delay of three at most, which a fetch on its way
\* extends by one.
LEMMA WriteStall ==
    ASSUME IInv, StallInv, Write
    PROVE  StallInv'
<1> DEFINE c == ClockedNow.dmc
           odd == phase = 0
<1>1. WriteSlot
  BY DEF Write, WriteEnable, WriteDisable, WriteDmcControl, WriteDmcLength, WriteOamDma, WriteStrobe,
         WriteOther
<1>2. slot' = "none" /\ fetch' = ClockedNow.fetch /\ ~fetch'.abort
  BY <1>1, WriteSlotFacts DEF WriteSlot, NoFetch, NewFetch
<1>3. c \in Readers
  BY <1>1, WriteSlotFacts DEF Agreed
<1>4. ~c.abort /\ c.disable \in 0 .. 3
  <2>1. ~c.abort /\ c.disable = Dec(dmc.disable)
    BY ClockedFetch DEF ClockedNow, IInv, StallInv
  <2>2. dmc.disable \in 0 .. 4
    BY Numbers DEF StallInv
  <2>3. QED
    BY <2>1, <2>2 DEF Dec
<1>5. ASSUME NEW d, d.disable = c.disable, d.abort <=> c.abort, dmc' = d
      PROVE  StallInv'
  BY <1>2, <1>4, <1>5, NoStall
<1>6. CASE WriteEnable
  <2>1. dmc' = Enable(c, odd)
    BY <1>6 DEF WriteEnable
  <2>2. Enable(c, odd).disable = c.disable /\ (Enable(c, odd).abort <=> c.abort)
    BY <1>3 DEF Enable, Readers
  <2>3. QED
    BY <1>5, <2>1, <2>2
<1>7. CASE WriteDisable
  <2> DEFINE d == Disable(c, odd)
             e == ExtendDisable(d)
             n == IF c.disable # 0 THEN c.disable ELSE IF odd THEN 2 ELSE 3
  <2>1. dmc' = IF fetch'.active THEN e ELSE d
    BY <1>2, <1>7, Zenon DEF WriteDisable
  <2>2. n \in 2 .. 3 \/ n = c.disable
    OBVIOUS
  <2>3. d = [c EXCEPT !.irq = FALSE, !.start = 0, !.disable = n]
    BY Zenon DEF Disable
  <2> HIDE DEF n
  <2>4. d.disable = n /\ ~d.abort
    BY <1>3, <1>4, <2>3 DEF Readers
  <2>5. d \in Readers
    BY <1>3, DisableType
  <2> HIDE DEF d
  <2>6. e.disable \in {d.disable, d.disable + 1} /\ ~e.abort
    BY <2>4, <2>5 DEF ExtendDisable, Readers
  <2> HIDE DEF e
  <2>7. ~dmc'.abort /\ dmc'.disable <= 4 /\ (dmc'.disable = 4 => fetch'.active)
    BY <1>4, <2>1, <2>2, <2>4, <2>6
  <2>8. QED
    BY <1>2, <2>7, NoStall
<1>8. CASE \E loop, irqOn \in BOOLEAN : WriteDmcControl(loop, irqOn)
  <2>1. PICK loop \in BOOLEAN, irqOn \in BOOLEAN : WriteDmcControl(loop, irqOn)
    BY <1>8
  <2> DEFINE irq == c.irq /\ irqOn
             d == WriteControl(c, loop, irqOn)
  <2>2. dmc' = d
    BY <2>1 DEF WriteDmcControl
  <2>3. d = [c EXCEPT !.loop = loop, !.irqOn = irqOn, !.irq = irq]
    BY Zenon DEF WriteControl
  <2> HIDE DEF irq, d
  <2>4. d.disable = c.disable /\ (d.abort <=> c.abort)
    BY <1>3, <2>3 DEF Readers
  <2>5. QED
    BY <1>5, <2>2, <2>4
<1>9. CASE \E length \in Lengths : WriteDmcLength(length)
  <2>1. PICK length \in Lengths : WriteDmcLength(length)
    BY <1>9
  <2>2. dmc' = WriteLength(c, length)
    BY <2>1 DEF WriteDmcLength
  <2>3. WriteLength(c, length).disable = c.disable /\ (WriteLength(c, length).abort <=> c.abort)
    BY <1>3 DEF WriteLength, Readers
  <2>4. QED
    BY <1>5, <2>2, <2>3
<1>10. CASE WriteOamDma \/ WriteOther \/ \E strobe, latched \in BOOLEAN : WriteStrobe(strobe, latched)
  <2>1. dmc' = c
    BY <1>10 DEF WriteOamDma, WriteOther, WriteStrobe
  <2>2. QED
    BY <1>5, <2>1
<1>11. QED
  BY <1>6, <1>7, <1>8, <1>9, <1>10 DEF Write

\* A reset ends whatever stall there was.
LEMMA ResetStall ==
    ASSUME Reset
    PROVE  StallInv'
<1>1. slot' = "none" /\ dmc' = NewReader /\ fetch' = NoFetch
  BY DEF Reset
<1>2. QED
  BY <1>1, NoStall DEF NewReader, NoFetch

\* A read that completes ends its stall.
LEMMA CompleteReadStall ==
    ASSUME IInv, StallInv, NEW target, CompleteRead(target)
    PROVE  StallInv'
<1>1. Cycle(fetch) /\ ~fetch.active /\ slot' = "none"
  BY DEF CompleteRead, Stealing
<1>2. Agreed(dmc, fetch) /\ (fetch.abort => dmc.disable = 0)
  BY DEF IInv, StallInv
<1>3. ~dmc'.abort /\ dmc'.disable = Dec(dmc.disable) /\ fetch' \in {NoFetch, NewFetch}
  BY <1>1, <1>2, CycleStall
<1>4. dmc.disable \in 0 .. 4
  BY Numbers DEF StallInv
<1>5. dmc'.disable \in 0 .. 3 /\ ~fetch'.abort
  BY <1>3, <1>4 DEF Dec, NoFetch, NewFetch
<1>6. QED
  BY <1>1, <1>3, <1>5, NoStall

\* The first cycle of a stall.
LEMMA HaltStall ==
    ASSUME IInv, StallInv, NEW target \in Targets, Halt(target)
    PROVE  StallInv'
<1> DEFINE f == [fetch EXCEPT !.halt = FALSE]
<1>1. /\ Cycle(f) /\ Stealing /\ slot = "none" /\ slot' = target /\ target # "none"
      /\ oam' = [oam EXCEPT !.halt = FALSE]
      /\ pad' = BusRead(pad, target)
      /\ stolen' = [cycles |-> 1, gets |-> 0, oam |-> oam.active, clocks |-> BusReadClocks(pad, target)]
  BY DEF Halt, Targets
<1>2. fetch \in {NoFetch, NewFetch} /\ fetch \in Fetches
  BY <1>1, Numbers
<1>3. (f.active <=> fetch.active) /\ ~f.halt /\ ~f.abort /\ (fetch.active => f.dummy)
  BY <1>2 DEF Fetches, NoFetch, NewFetch
<1>4. Agreed(dmc, f)
  BY HaltClearedAgreed DEF IInv
<1> HIDE DEF f
<1>5. /\ phase' = 1 - phase /\ ~dmc'.abort
      /\ dmc'.disable = Dec(dmc.disable)
      /\ fetch'.abort => dmc'.disable = 0
      /\ fetch.active => fetch'.active /\ ~fetch'.halt /\ fetch'.dummy
  BY <1>1, <1>3, <1>4, CycleStall
<1>6. dmc.disable \in 0 .. 4 /\ (dmc.disable = 4 => fetch.active)
  BY <1>1, Numbers DEF StallInv
<1>7. dmc'.disable \in 0 .. 3 /\ (dmc'.disable = 3 => fetch.active)
  BY <1>5, <1>6 DEF Dec
<1>8. PadClocked'
  <2>1. ASSUME slot' = "pad", ~pad'.strobe, ~FceuxCompat
        PROVE  stolen'.clocks = 1 /\ stolen'.gets = 0
    <3>1. target = "pad" /\ ~pad.strobe
      BY <1>1, <2>1, StrobeKept, Numbers
    <3>2. QED
      BY <1>1, <2>1, <3>1 DEF BusReadClocks, PadReadClocks
  <2>2. QED
    BY <2>1 DEF PadClocked
<1>9. CASE oam.active
  <2>1. oam = NewTransfer
    BY <1>1, <1>9 DEF IInv, TransfersStartWithHalt
  <2>2. oam'.active /\ oam'.index = 0 /\ ~oam'.read
    BY <1>1, <2>1, ArbiterAssumption DEF NewTransfer
  <2>3. stolen'.oam /\ stolen'.cycles = 1 /\ stolen'.gets = 0
    BY <1>1, <1>9
  <2>4. TransferRuns'
    BY <1>5, <1>7, <2>2, <2>3, ArbiterAssumption, Numbers DEF TransferRuns, ToCome, Done
  <2>5. QED
    BY <1>1, <1>5, <1>7, <1>8, <2>2, <2>3, <2>4 DEF StallInv
<1>10. CASE ~oam.active
  <2>1. fetch.active
    BY <1>1, <1>10 DEF Stealing
  <2>2. ~oam'.active
    BY <1>1, <1>10, Numbers DEF Transfers
  <2>3. ~stolen'.oam /\ stolen'.cycles = 1 /\ stolen'.gets = 0
    BY <1>1, <1>10
  <2>4. DmcStall'
    BY <1>5, <2>1, <2>2, <2>3 DEF DmcStall
  <2>5. QED
    BY <1>1, <1>5, <1>7, <1>8, <2>3, <2>4 DEF StallInv
<1>11. QED
  BY <1>9, <1>10

-----------------------------------------------------------------------------
(* During a stall.                                                           *)

LEMMA CancelStall ==
    ASSUME IInv, StallInv, CancelAborted
    PROVE  StallInv'
<1>1. /\ slot # "none" /\ fetch.abort /\ dmc' = Cancel(dmc) /\ fetch' = NoFetch
      /\ phase' = phase /\ oam' = oam /\ slot' = slot /\ pad' = pad /\ stolen' = stolen
  BY DEF CancelAborted
<1>2. dmc'.disable = 0 /\ ~dmc'.abort /\ ~fetch'.active /\ ~fetch'.abort
  BY <1>1, Numbers DEF StallInv, Cancel, Readers, NoFetch
<1>3. fetch.active
  BY <1>1 DEF IInv, Agreed, NoFetch
<1>4. PadClocked'
  BY <1>1 DEF StallInv, PadClocked
<1>5. CASE ~stolen.oam
  <2>1. DmcStall'
    BY <1>1, <1>2, <1>3, <1>5, Numbers DEF StallInv, DmcStall
  <2>2. QED
    BY <1>1, <1>2, <1>4, <1>5, <2>1 DEF StallInv
<1>6. CASE stolen.oam /\ oam.active
  <2>1. TransferRuns
    BY <1>1, <1>6 DEF StallInv
  <2>2. TransferRuns'
    BY <1>1, <1>2, <2>1, Numbers DEF TransferRuns, ToCome, Done
  <2>3. QED
    BY <1>1, <1>2, <1>4, <1>6, <2>2 DEF StallInv
<1>7. CASE stolen.oam /\ ~oam.active
  <2>1. TransferDone
    BY <1>1, <1>7 DEF StallInv
  <2>2. TransferDone'
    BY <1>1, <1>2, <1>3, <2>1, Numbers DEF TransferDone
  <2>3. QED
    BY <1>1, <1>2, <1>4, <1>7, <2>2 DEF StallInv
<1>8. QED
  BY <1>5, <1>6, <1>7

\* The get cycle of a fetch.
LEMMA DmcGetStall ==
    ASSUME IInv, StallInv, NEW aliased \in BOOLEAN, DmcGet(aliased)
    PROVE  StallInv'
<1> DEFINE s == Clocked(dmc, fetch)
           r == RequestTaken([dmc |-> Supply(s.dmc), fetch |-> NoFetch])
           released == [pad EXCEPT !.oe = FALSE]
           conflict == aliased /\ Ntsc /\ Decodes
           more == IF conflict /\ slot = "pad" THEN PadReadClocks(released) ELSE 0
<1>1. /\ slot # "none" /\ ~fetch.abort /\ slot' = slot /\ phase = 1 /\ phase' = 0
      /\ fetch.active /\ ~fetch.halt /\ ~fetch.dummy /\ oam' = oam
  BY DEF DmcGet, InLoop, DmcReady, Tick
<1>2. dmc' = r.dmc /\ fetch' = r.fetch
  BY DEF DmcGet
<1>3. Agreed(s.dmc, s.fetch) /\ Agreed(dmc, fetch) /\ ~dmc.abort
  BY ClockedAgreed DEF IInv, StallInv
<1>4. ~s.dmc.abort /\ s.dmc.disable = Dec(dmc.disable) /\ s.fetch.active
  BY <1>1, <1>3, ClockedFetch
<1> HIDE DEF s
<1>5. s.dmc \in Readers /\ ~s.dmc.pending
  BY <1>3, <1>4 DEF Agreed, Consistent, Readers
<1>6. /\ ~Supply(s.dmc).pending /\ Supply(s.dmc).disable \in {s.dmc.disable, 3}
      /\ ~Supply(s.dmc).abort
  BY <1>4, <1>5, SupplyDelays
<1>7. fetch' = NoFetch /\ ~dmc'.abort /\ dmc'.disable \in {Dec(dmc.disable), 3}
  BY <1>2, <1>4, <1>6 DEF RequestTaken
<1>8. ~fetch'.active /\ ~fetch'.abort
  BY <1>7 DEF NoFetch
<1>9. dmc.disable \in 0 .. 4
  BY Numbers DEF StallInv
<1>10. dmc'.disable \in 0 .. 3
  BY <1>7, <1>9 DEF Dec
<1>11. /\ more \in {0, 1}
       /\ stolen' = [stolen EXCEPT !.cycles = @ + 1, !.gets = @ + 1, !.clocks = @ + more]
  BY DEF DmcGet, PadReadClocks
<1> HIDE DEF more
<1>12. /\ stolen'.cycles = stolen.cycles + 1 /\ stolen'.gets = stolen.gets + 1
       /\ stolen'.clocks = stolen.clocks + more /\ (stolen'.oam <=> stolen.oam)
  BY <1>11 DEF IInv, TypeOK
<1>13. pad'.strobe <=> pad.strobe
  BY Numbers DEF DmcGet, PadRead, Pads
<1>14. PadClocked'
  BY <1>1, <1>11, <1>12, <1>13, Numbers DEF StallInv, PadClocked
<1>15. CASE ~stolen.oam
  <2>1. DmcStall
    BY <1>1, <1>15 DEF StallInv
  <2>2. DmcStall'
    BY <1>1, <1>8, <1>12, <2>1, Numbers DEF DmcStall
  <2>3. QED
    BY <1>1, <1>7, <1>8, <1>10, <1>12, <1>14, <1>15, <2>2 DEF StallInv
<1>16. CASE stolen.oam /\ oam.active
  <2>1. TransferRuns
    BY <1>1, <1>16 DEF StallInv
  <2>2. TransferRuns'
    BY <1>1, <1>8, <1>10, <1>12, <2>1, Numbers DEF TransferRuns, ToCome, Done
  <2>3. QED
    BY <1>1, <1>7, <1>8, <1>10, <1>12, <1>14, <1>16, <2>2 DEF StallInv
<1>17. CASE stolen.oam /\ ~oam.active
  <2>1. TransferDone
    BY <1>1, <1>17 DEF StallInv
  <2>2. TransferDone'
    BY <1>1, <1>8, <1>12, <2>1, Numbers DEF TransferDone, Ready
  <2>3. QED
    BY <1>1, <1>7, <1>8, <1>10, <1>12, <1>14, <1>17, <2>2 DEF StallInv
<1>18. QED
  BY <1>15, <1>16, <1>17

\* A cycle of the loop in which the fetch advances by one step.
LEMMA AdvancedStall ==
    ASSUME IInv, StallInv, InLoop, Cycle(Advanced(fetch))
    PROVE  /\ slot # "none" /\ slot' = slot /\ ~fetch.abort
           /\ phase' = 1 - phase
           /\ ~dmc'.abort
           /\ dmc'.disable = Dec(dmc.disable)
           /\ dmc.disable \in 0 .. 4
           /\ dmc'.disable <= 4
           /\ fetch'.abort => dmc'.disable = 0
           /\ fetch.active => /\ fetch'.active /\ ~fetch'.halt
                              /\ fetch.halt => (fetch'.dummy <=> fetch.dummy)
                              /\ ~fetch.halt => ~fetch'.dummy
                              /\ fetch'.abort <=> dmc.disable = 1
<1>1. slot # "none" /\ slot' = slot /\ ~fetch.abort
  BY DEF InLoop
<1>2. Agreed(dmc, Advanced(fetch)) /\ fetch \in Fetches
  BY HaltClearedAgreed, Numbers DEF IInv
<1>3. ~Advanced(fetch).abort
  BY <1>1, <1>2, AdvancedFetch
<1>4. dmc.disable \in 0 .. 4
  BY Numbers DEF StallInv
<1>5. /\ phase' = 1 - phase
      /\ ~dmc'.abort
      /\ dmc'.disable = Dec(dmc.disable)
      /\ fetch'.abort => dmc'.disable = 0
  BY <1>2, <1>3, CycleStall
<1>6. ASSUME fetch.active
      PROVE  /\ fetch'.active /\ ~fetch'.halt
             /\ fetch.halt => (fetch'.dummy <=> fetch.dummy)
             /\ ~fetch.halt => ~fetch'.dummy
             /\ fetch'.abort <=> dmc.disable = 1
  BY <1>2, <1>3, <1>6, AdvancedFetch, CycleStall
<1>7. dmc'.disable <= 4
  BY <1>4, <1>5 DEF Dec
<1>8. QED
  BY <1>1, <1>4, <1>5, <1>6, <1>7

\* The get cycle of a transfer.
LEMMA OamGetStall ==
    ASSUME IInv, StallInv, OamGet
    PROVE  StallInv'
<1> DEFINE released == [pad EXCEPT !.oe = FALSE]
           conflict == Decodes /\ oam.index \in PadIndices
           more == IF conflict /\ slot = "pad" THEN PadReadClocks(released) ELSE 0
<1>1. /\ InLoop /\ Cycle(Advanced(fetch)) /\ phase = 1 /\ oam.active
      /\ ~DmcReady /\ oam' = [oam EXCEPT !.read = TRUE]
  BY DEF OamGet
<1>2. stolen' = [stolen EXCEPT !.cycles = @ + 1, !.clocks = @ + more]
  BY DEF OamGet
<1> HIDE DEF more
<1>3. /\ stolen'.cycles = stolen.cycles + 1 /\ stolen'.gets = stolen.gets
      /\ (stolen'.oam <=> stolen.oam)
  BY <1>2 DEF IInv, TypeOK
<1>4. stolen.oam /\ TransferRuns
  BY <1>1 DEF StallInv, DmcStall, InLoop
<1>5. oam'.active /\ oam'.read /\ oam'.index = oam.index
  BY <1>1, Numbers DEF Transfers
<1>6. TransferRuns'
  BY <1>1, <1>3, <1>4, <1>5, AdvancedStall, Numbers DEF TransferRuns, ToCome, Done, DmcReady, Dec
<1>7. PadClocked'
  BY <1>3, <1>4 DEF PadClocked
<1>8. QED
  BY <1>1, <1>3, <1>4, <1>5, <1>6, <1>7, AdvancedStall DEF StallInv

\* The put cycle of a transfer, the last of which ends it.
LEMMA OamPutStall ==
    ASSUME IInv, StallInv, OamPut
    PROVE  StallInv'
<1>1. /\ InLoop /\ Cycle(Advanced(fetch)) /\ phase = 0 /\ oam.active /\ oam.read
      /\ oam' = IF oam.index + 1 = OamSize THEN NoTransfer
                ELSE [oam EXCEPT !.read = FALSE, !.index = @ + 1]
      /\ stolen' = [stolen EXCEPT !.cycles = @ + 1]
  BY DEF OamPut
<1>2. /\ stolen'.cycles = stolen.cycles + 1 /\ stolen'.gets = stolen.gets
      /\ (stolen'.oam <=> stolen.oam)
  BY <1>1 DEF IInv, TypeOK
<1>3. stolen.oam /\ TransferRuns
  BY <1>1 DEF StallInv, DmcStall, InLoop
<1>4. PadClocked'
  BY <1>2, <1>3 DEF PadClocked
<1>5. CASE oam.index + 1 = OamSize
  <2>1. ~oam'.active
    BY <1>1, <1>5 DEF NoTransfer
  <2>2. Done = 2 * OamSize - 1 /\ ToCome = 1
    BY <1>1, <1>5, Numbers DEF Done, ToCome
  <2>3. TransferDone'
    BY <1>1, <1>2, <1>3, <2>2, AdvancedStall, Numbers DEF TransferRuns, TransferDone, Ready, Dec
  <2>4. QED
    BY <1>1, <1>2, <1>3, <1>4, <2>1, <2>3, AdvancedStall DEF StallInv
<1>6. CASE oam.index + 1 # OamSize
  <2>1. oam'.active /\ ~oam'.read /\ oam'.index = oam.index + 1
    BY <1>1, <1>6, Numbers DEF Transfers
  <2>2. TransferRuns'
    BY <1>1, <1>2, <1>3, <1>6, <2>1, AdvancedStall, Numbers DEF TransferRuns, ToCome, Done, Dec
  <2>3. QED
    BY <1>1, <1>2, <1>3, <1>4, <2>1, <2>2, AdvancedStall DEF StallInv
<1>7. QED
  BY <1>5, <1>6

\* A cycle in which neither engine has the bus.
LEMMA AlignStall ==
    ASSUME IInv, StallInv, Align
    PROVE  StallInv'
<1> DEFINE repeats == ~(Ntsc /\ slot = "pad")
           more == IF repeats THEN BusReadClocks(pad, slot) ELSE 0
<1>1. /\ InLoop /\ Stealing /\ Cycle(Advanced(fetch)) /\ oam' = oam
      /\ IF phase = 1 THEN ~DmcReady /\ ~oam.active ELSE ~(oam.active /\ oam.read)
      /\ pad' = IF repeats THEN BusRead(pad, slot) ELSE pad
      /\ stolen' = [stolen EXCEPT !.cycles = @ + 1, !.clocks = @ + more]
  BY DEF Align, InLoop
<1>2. Ntsc /\ slot = "pad" => more = 0 /\ stolen.clocks + more = stolen.clocks
  BY Numbers
<1> HIDE DEF more
<1>3. /\ stolen'.cycles = stolen.cycles + 1 /\ stolen'.gets = stolen.gets
      /\ stolen'.clocks = stolen.clocks + more /\ (stolen'.oam <=> stolen.oam)
  BY <1>1 DEF IInv, TypeOK
<1>4. slot # "none" /\ slot' = slot
  BY <1>1 DEF InLoop
<1>5. PadClocked'
  BY <1>1, <1>2, <1>3, <1>4, Numbers DEF StallInv, PadClocked
<1>6. CASE ~stolen.oam
  <2>1. DmcStall /\ fetch.active
    BY <1>1, <1>4, <1>6 DEF StallInv, DmcStall, Stealing
  <2>2. DmcStall'
    BY <1>1, <1>3, <2>1, AdvancedStall, Numbers DEF DmcStall, DmcReady
  <2>3. QED
    BY <1>1, <1>3, <1>4, <1>5, <1>6, <2>2, AdvancedStall DEF StallInv
<1>7. CASE stolen.oam /\ oam.active
  <2>1. TransferRuns /\ phase = 0 /\ ~oam.read
    BY <1>1, <1>4, <1>7, Numbers DEF StallInv
  <2>2. TransferRuns'
    BY <1>1, <1>3, <2>1, AdvancedStall, Numbers DEF TransferRuns, ToCome, Done, Dec
  <2>3. QED
    BY <1>1, <1>3, <1>4, <1>5, <1>7, <2>2, AdvancedStall DEF StallInv
<1>8. CASE stolen.oam /\ ~oam.active
  <2>1. TransferDone /\ fetch.active
    BY <1>1, <1>4, <1>8 DEF StallInv, Stealing
  <2>2. dmc.disable = 0
    BY <1>1, <2>1, Numbers DEF TransferDone, Ready, DmcReady
  <2>3. TransferDone'
    BY <1>1, <1>3, <2>1, <2>2, AdvancedStall, Numbers DEF TransferDone, Ready, DmcReady, Dec
  <2>4. QED
    BY <1>1, <1>3, <1>4, <1>5, <1>8, <2>3, AdvancedStall DEF StallInv
<1>9. QED
  BY <1>6, <1>7, <1>8

-----------------------------------------------------------------------------
(* The results.                                                              *)

LEMMA InitStall == Init => StallInv
BY DEF Init, StallInv, PadClocked, NewReader, NoFetch

\* Every cycle keeps the account of the stall.
LEMMA NextStall == IInv /\ StallInv /\ [Next]_vars => StallInv'
<1> SUFFICES ASSUME IInv, StallInv, [Next]_vars PROVE StallInv'
  OBVIOUS
<1>1. CASE Write
  BY <1>1, WriteStall
<1>2. CASE Read
  BY <1>2, CompleteReadStall, HaltStall DEF Read
<1>3. CASE StallLoop
  BY <1>3, CancelStall, DmcGetStall, OamGetStall, OamPutStall, AlignStall DEF StallLoop
<1>4. CASE Reset
  BY <1>4, ResetStall
<1>5. CASE UNCHANGED vars
  BY <1>5 DEF vars, StallInv, DmcStall, TransferRuns, TransferDone, PadClocked, ToCome, Done, Ready
<1>6. QED
  BY <1>1, <1>2, <1>3, <1>4, <1>5 DEF Next

\* The account of the stall is right in every state.
LEMMA StallInductive == Spec => []StallInv
BY InitStall, NextStall, Inductive, PTL DEF Spec

\* A stall that is about to end has the cycles and clocks the chip would take.
LEMMA StallsBounded ==
    ASSUME IInv, StallInv, AboutToResume
    PROVE  DmcStallLength /\ OamStallLength /\ (Ntsc => HardwareDoubleClock)
<1>1. slot # "none" /\ ~oam.active /\ ~fetch.active
  BY DEF AboutToResume, Stealing
<1>2. DmcStallLength
  BY <1>1, Numbers DEF StallInv, DmcStall, DmcStallLength
<1>3. OamStallLength
  BY <1>1, Numbers DEF StallInv, TransferDone, OamStallLength
<1>4. Ntsc => HardwareDoubleClock
  BY DEF StallInv, PadClocked, HardwareDoubleClock
<1>5. QED
  BY <1>2, <1>3, <1>4

\* A stall is as long as on the chip, whatever is aborted, rescheduled or begun
\* during it, in either region: StallInv says where the engines are in it.
THEOREM StallLengths == Spec => [](AboutToResume => DmcStallLength /\ OamStallLength)
<1>1. IInv /\ StallInv => (AboutToResume => DmcStallLength /\ OamStallLength)
  BY StallsBounded
<1>2. QED
  BY <1>1, Inductive, StallInductive, PTL

\* With the bus conflicts of the NTSC chip the pad is clocked as there, too. The
\* PAL chip repeats the read in every cycle that is stolen.
THEOREM StallsCorrect == Ntsc => (Spec => []StallsAsOnTheChip)
<1>1. SUFFICES ASSUME Ntsc PROVE Spec => []StallsAsOnTheChip
  OBVIOUS
<1>2. IInv /\ StallInv => StallsAsOnTheChip
  BY <1>1, StallsBounded DEF StallsAsOnTheChip
<1>3. QED
  BY <1>2, Inductive, StallInductive, PTL
=============================================================================
