------------------------ MODULE FrameSequencer_proofs ------------------------
(* Proofs about FrameSequencer for every pair of increasing step tables and   *)
(* every set of length values: the four tables of the chip are instances.     *)
EXTENDS FrameSequencer, TLAPS

Sequencers ==
    [cycle : Nat, step : 0 .. 5, fiveStep : BOOLEAN, pendingFiveStep : BOOLEAN,
     resetDelay : 0 .. 4, irqInhibit : BOOLEAN, irqFlag : BOOLEAN,
     irqClearIn : 0 .. 2, block : 0 .. 1]

Lengths ==
    [enabled : BOOLEAN, halt : BOOLEAN, pendingHalt : BOOLEAN, counter : Nat,
     previous : Nat, reload : Reloads \cup {0}]

-----------------------------------------------------------------------------
(* The tables, and the position of the sequencer in them.                    *)

LEMMA StepsIncrease ==
    ASSUME NEW s \in Sequencers
    PROVE  /\ Steps(s) \in [1 .. 6 -> Nat \ {0}]
           /\ \A i \in 1 .. 5 : Steps(s)[i] < Steps(s)[i + 1]
  BY SequencerTables DEF Steps, IsTable

\* A sequencer that stands before its step.
Before(s) == s.cycle < Steps(s)[s.step + 1]

\* The position after a clock has the types of the sequencer.
LEMMA PositionType ==
    ASSUME NEW s \in Sequencers
    PROVE  Position(s).step \in 0 .. 5 /\ Position(s).cycle \in Nat
<1>1. s.step \in 0 .. 5 /\ s.cycle \in Nat
  BY DEF Sequencers
<1>2. CASE Restarts(s) \/ (AtStep(s) /\ s.step = 5)
  BY <1>2 DEF Position
<1>3. CASE ~(Restarts(s) \/ (AtStep(s) /\ s.step = 5))
  <2>1. AtStep(s) => s.step + 1 \in 0 .. 5
    BY <1>1, <1>3
  <2>2. s.cycle + 1 \in Nat
    BY <1>1
  <2>3. QED
    BY <1>1, <1>3, <2>1, <2>2 DEF Position
<1>4. QED
  BY <1>2, <1>3

\* So has the whole sequencer.
LEMMA ClockedType ==
    ASSUME NEW s \in Sequencers
    PROVE  Clocked(s) \in Sequencers
<1> DEFINE cycle == Position(s).cycle
           step == Position(s).step
           five == IF Restarts(s) THEN s.pendingFiveStep ELSE s.fiveStep
           delay == Less(s.resetDelay)
           flag == FlagAfter(s)
           clear == IF RaisesIrq(s) THEN 0 ELSE Less(s.irqClearIn)
           block == IF Events(s).quarter THEN 1 ELSE Less(s.block)
<1>1. cycle \in Nat /\ step \in 0 .. 5
  BY PositionType
<1>2. five \in BOOLEAN
  BY DEF Sequencers
<1>3. delay \in 0 .. 4 /\ clear \in 0 .. 2 /\ block \in 0 .. 1
  BY DEF Sequencers, Less
<1>4. flag \in BOOLEAN
  BY DEF Sequencers, FlagAfter
<1>5. Clocked(s) = [s EXCEPT !.cycle = cycle, !.step = step, !.fiveStep = five,
                             !.resetDelay = delay, !.irqFlag = flag,
                             !.irqClearIn = clear, !.block = block]
  BY Zenon DEF Clocked
<1> HIDE DEF cycle, step, five, delay, flag, clear, block
<1>6. [s EXCEPT !.cycle = cycle, !.step = step, !.fiveStep = five,
                !.resetDelay = delay, !.irqFlag = flag,
                !.irqClearIn = clear, !.block = block] \in Sequencers
  BY <1>1, <1>2, <1>3, <1>4 DEF Sequencers
<1>7. QED
  BY <1>5, <1>6

\* What a clock does to cycle, step, mode and block.
LEMMA ClockedFields ==
    ASSUME NEW s \in Sequencers
    PROVE  /\ Clocked(s).cycle = Position(s).cycle
           /\ Clocked(s).step = Position(s).step
           /\ Clocked(s).fiveStep = (IF Restarts(s) THEN s.pendingFiveStep ELSE s.fiveStep)
           /\ Clocked(s).block = (IF Events(s).quarter THEN 1 ELSE Less(s.block))
  BY DEF Clocked, Sequencers

\* A clock leaves the sequencer before the step it then waits for: it stops at
\* the step's own clock, and the next step or the first is still to come.
LEMMA ClockedBefore ==
    ASSUME NEW s \in Sequencers, Before(s)
    PROVE  Before(Clocked(s))
<1>1. s.step \in 0 .. 5 /\ s.cycle \in Nat
  BY DEF Sequencers
<1>2. Clocked(s) \in Sequencers
  BY ClockedType
<1>3. CASE Restarts(s) \/ (AtStep(s) /\ s.step = 5)
  <2>1. Clocked(s).step = 0 /\ Clocked(s).cycle = 0
    BY <1>3, ClockedFields DEF Position
  <2>2. Steps(Clocked(s))[1] > 0
    BY <1>2, StepsIncrease
  <2>3. QED
    BY <2>1, <2>2 DEF Before
<1>4. CASE ~Restarts(s) /\ ~(AtStep(s) /\ s.step = 5)
  <2>1. Steps(Clocked(s)) = Steps(s)
    BY <1>4, ClockedFields DEF Steps
  <2>2. Clocked(s).cycle = s.cycle + 1
    BY <1>4, ClockedFields DEF Position
  <2>3. CASE AtStep(s)
    <3>1. s.step + 1 \in 1 .. 5
      BY <1>1, <1>4, <2>3
    <3>2. Clocked(s).step = s.step + 1
      BY <1>4, <2>3, ClockedFields DEF Position
    <3>3. Steps(s)[s.step + 1] < Steps(s)[(s.step + 1) + 1]
      BY <3>1, StepsIncrease
    <3>4. s.cycle + 1 = Steps(s)[s.step + 1]
      BY <2>3 DEF AtStep
    <3>5. QED
      BY <2>1, <2>2, <3>2, <3>3, <3>4 DEF Before
  <2>4. CASE ~AtStep(s)
    <3>1. Clocked(s).step = s.step
      BY <1>4, <2>4, ClockedFields DEF Position
    <3>2. s.step + 1 \in 1 .. 6 /\ Steps(s)[s.step + 1] \in Nat
      BY <1>1, StepsIncrease
    <3>3. s.cycle + 1 < Steps(s)[s.step + 1]
      BY <1>1, <2>4, <3>2 DEF AtStep, Before
    <3>4. QED
      BY <2>1, <2>2, <3>1, <3>3 DEF Before
  <2>5. QED
    BY <2>3, <2>4
<1>5. QED
  BY <1>3, <1>4

\* The block counter: a clock with a quarter event sets it, and with it set there
\* is no quarter event.
LEMMA BlockSet ==
    ASSUME NEW s \in Sequencers
    PROVE  /\ Events(s).quarter => Clocked(s).block = 1
           /\ s.block = 1 => ~Events(s).quarter
<1>1. Events(s).quarter => Clocked(s).block = 1
  BY ClockedFields
<1>2. s.block = 1 => ~(s.block = 0)
  OBVIOUS
<1>3. StepEvents(s).quarter => s.block = 0
  BY Zenon DEF StepEvents
<1>4. ClocksAtOnce(s) => s.block = 0
  BY Zenon DEF ClocksAtOnce
<1>5. Events(s).quarter => StepEvents(s).quarter \/ ClocksAtOnce(s)
  BY Zenon DEF Events
<1>6. QED
  BY <1>1, <1>2, <1>3, <1>4, <1>5

-----------------------------------------------------------------------------
(* The invariant: the position, what a quarter event leaves behind, and the   *)
(* silence of a disabled channel.                                             *)

Inductive ==
    /\ seq \in Sequencers
    /\ length \in Lengths
    /\ odd \in BOOLEAN
    /\ events \in [quarter : BOOLEAN, half : BOOLEAN]
    /\ line \in BOOLEAN
    /\ Before(seq)
    /\ events.quarter => seq.block = 1
    /\ DisabledIsSilent

\* Counters are numbers.
LEMMA CounterTypes ==
    ASSUME NEW c \in Lengths
    PROVE  c.counter \in Nat /\ c.reload \in Nat
<1>1. Reloads \cup {0} \subseteq Nat
  BY SequencerTables DEF SequencerTables
<1>2. c.counter \in Nat /\ c.reload \in Reloads \cup {0}
  BY DEF Lengths
<1>3. QED
  BY <1>1, <1>2

\* A load that is applied is over, and touches only the count.
LEMMA AppliedType ==
    ASSUME NEW c \in Lengths
    PROVE  /\ Applied(c) \in Lengths
           /\ Applied(c).enabled = c.enabled
           /\ Applied(c).reload = 0
           /\ c.reload = 0 => Applied(c).counter = c.counter
<1> DEFINE counter == IF c.reload > 0 /\ c.counter = c.previous THEN c.reload ELSE c.counter
<1>1. counter \in Nat
  BY CounterTypes
<1>2. c.reload = 0 => counter = c.counter
  OBVIOUS
<1>3. Applied(c) = [c EXCEPT !.counter = counter, !.reload = 0, !.halt = c.pendingHalt]
  BY Zenon DEF Applied
<1> HIDE DEF counter
<1>4. Applied(c) \in Lengths
  BY <1>1, <1>3 DEF Lengths
<1>5. /\ Applied(c).enabled = c.enabled
      /\ Applied(c).reload = 0
      /\ Applied(c).counter = counter
  BY <1>3 DEF Lengths
<1>6. QED
  BY <1>2, <1>4, <1>5

\* A half clock counts down and wakes nothing up.
LEMMA HalvedType ==
    ASSUME NEW c \in Lengths, NEW half \in BOOLEAN
    PROVE  /\ Halved(c, half) \in Lengths
           /\ Halved(c, half).enabled = c.enabled
           /\ Halved(c, half).reload = c.reload
           /\ c.counter = 0 => Halved(c, half).counter = 0
<1>1. CASE half /\ c.counter > 0 /\ ~c.halt
  <2>1. c.counter - 1 \in Nat
    BY <1>1 DEF Lengths
  <2>2. Halved(c, half) = [c EXCEPT !.counter = c.counter - 1]
    BY <1>1 DEF Halved
  <2>3. Halved(c, half) \in Lengths
    BY <2>1, <2>2 DEF Lengths
  <2>4. Halved(c, half).enabled = c.enabled /\ Halved(c, half).reload = c.reload
    BY <2>2 DEF Lengths
  <2>5. c.counter # 0
    BY <1>1
  <2>6. QED
    BY <2>3, <2>4, <2>5
<1>2. CASE ~(half /\ c.counter > 0 /\ ~c.halt)
  BY <1>2 DEF Halved
<1>3. QED
  BY <1>1, <1>2

\* The events of a clock are two flags.
LEMMA EventsType ==
    ASSUME NEW s \in Sequencers
    PROVE  Events(s) \in [quarter : BOOLEAN, half : BOOLEAN]
  BY DEF Events

\* The clock of a slot keeps a disabled length counter silent.
LEMMA LengthClockedType ==
    ASSUME seq \in Sequencers, length \in Lengths, DisabledIsSilent
    PROVE  /\ LengthClocked \in Lengths
           /\ LengthClocked.enabled = length.enabled
           /\ LengthClocked.reload = 0
           /\ ~length.enabled => LengthClocked.counter = 0
<1> DEFINE halved == Halved(length, Events(seq).half)
<1>1. Events(seq).half \in BOOLEAN
  BY EventsType
<1>2. /\ halved \in Lengths
      /\ halved.enabled = length.enabled
      /\ halved.reload = length.reload
      /\ length.counter = 0 => halved.counter = 0
  BY <1>1, HalvedType
<1>3. LengthClocked = Applied(halved)
  BY DEF LengthClocked
<1>4. ~length.enabled => halved.reload = 0 /\ halved.counter = 0
  BY <1>2 DEF DisabledIsSilent
<1> HIDE DEF halved
<1>5. QED
  BY <1>2, <1>3, <1>4, AppliedType

-----------------------------------------------------------------------------
(* The invariant holds initially and every slot keeps it.                    *)

LEMMA InitInductive == Init => Inductive
<1> SUFFICES ASSUME Init PROVE Inductive
  OBVIOUS
<1>1. seq \in Sequencers /\ length \in Lengths
  BY DEF Init, Sequencers, Lengths
<1>2. Steps(seq)[1] > 0
  BY <1>1, StepsIncrease
<1>3. Before(seq) /\ DisabledIsSilent
  BY <1>2 DEF Init, Before, DisabledIsSilent
<1>4. QED
  BY <1>1, <1>3 DEF Init, Inductive

\* What a slot does to the sequencer besides its clock: an access touches neither
\* the position nor the block counter.
LEMMA ClockKeeps ==
    ASSUME Inductive, Clock, seq' \in Sequencers,
           seq'.cycle = Clocked(seq).cycle, seq'.step = Clocked(seq).step,
           seq'.fiveStep = Clocked(seq).fiveStep, seq'.block = Clocked(seq).block
    PROVE  /\ odd' \in BOOLEAN
           /\ events' \in [quarter : BOOLEAN, half : BOOLEAN]
           /\ line' \in BOOLEAN
           /\ Before(seq')
           /\ events'.quarter => seq'.block = 1
<1>1. seq \in Sequencers /\ Before(seq)
  BY DEF Inductive
<1>2. Before(Clocked(seq)) /\ Steps(seq') = Steps(Clocked(seq))
  BY <1>1, ClockedBefore DEF Steps
<1>3. Before(seq')
  BY <1>2 DEF Before
<1>4. events' = Events(seq) /\ odd' \in BOOLEAN
  BY DEF Clock
<1>5. events'.quarter => seq'.block = 1
  BY <1>1, <1>4, BlockSet
<1>6. line' \in BOOLEAN
  BY DEF Clock, IrqPending
<1>7. QED
  BY <1>1, <1>3, <1>4, <1>5, <1>6, EventsType

\* The slots that leave the sequencer to its clock.
LEMMA ClockOnly ==
    ASSUME Inductive, Clock, seq' = Clocked(seq), length' \in Lengths, DisabledIsSilent'
    PROVE  Inductive'
<1>1. seq' \in Sequencers
  BY ClockedType DEF Inductive
<1>2. /\ seq'.cycle = Clocked(seq).cycle /\ seq'.step = Clocked(seq).step
      /\ seq'.fiveStep = Clocked(seq).fiveStep /\ seq'.block = Clocked(seq).block
  OBVIOUS
<1>3. /\ odd' \in BOOLEAN
      /\ events' \in [quarter : BOOLEAN, half : BOOLEAN]
      /\ line' \in BOOLEAN
      /\ Before(seq')
      /\ events'.quarter => seq'.block = 1
  BY <1>1, <1>2, ClockKeeps
<1>4. QED
  BY <1>1, <1>3 DEF Inductive, Before, Steps

\* The slots that leave the length counter to its clock.
LEMMA LengthOnly ==
    ASSUME Inductive, length' = LengthClocked
    PROVE  length' \in Lengths /\ DisabledIsSilent'
  BY LengthClockedType DEF Inductive, DisabledIsSilent

\* An access that leaves position, mode and block to the clock keeps the invariant.
LEMMA SequencerAccess ==
    ASSUME Inductive, Clock, seq' \in Sequencers, length' = LengthClocked,
           seq'.cycle = Clocked(seq).cycle, seq'.step = Clocked(seq).step,
           seq'.fiveStep = Clocked(seq).fiveStep, seq'.block = Clocked(seq).block
    PROVE  Inductive'
<1>1. length' \in Lengths /\ DisabledIsSilent'
  BY LengthOnly
<1>2. /\ odd' \in BOOLEAN
      /\ events' \in [quarter : BOOLEAN, half : BOOLEAN]
      /\ line' \in BOOLEAN
      /\ Before(seq')
      /\ events'.quarter => seq'.block = 1
  BY ClockKeeps
<1>3. QED
  BY <1>1, <1>2 DEF Inductive, Before, Steps

\* A write of $4017.
LEMMA WriteFrameCounterInductive == Inductive /\ WriteFrameCounter => Inductive'
<1> SUFFICES ASSUME Inductive, WriteFrameCounter PROVE Inductive'
  OBVIOUS
<1> DEFINE c == Clocked(seq)
           delay == IF odd THEN 4 ELSE 3
<1>1. PICK five, inhibit \in BOOLEAN :
         seq' = [c EXCEPT !.pendingFiveStep = five, !.irqInhibit = inhibit,
                          !.irqFlag = @ /\ ~inhibit,
                          !.irqClearIn = IF inhibit THEN 0 ELSE @,
                          !.resetDelay = delay]
  BY DEF WriteFrameCounter
<1> DEFINE flag == c.irqFlag /\ ~inhibit
           clear == IF inhibit THEN 0 ELSE c.irqClearIn
<1>2. c \in Sequencers
  BY ClockedType DEF Inductive
<1>3. flag \in BOOLEAN /\ clear \in 0 .. 2 /\ delay \in 0 .. 4
  BY <1>2 DEF Sequencers
<1>4. seq' = [c EXCEPT !.pendingFiveStep = five, !.irqInhibit = inhibit,
                       !.irqFlag = flag, !.irqClearIn = clear, !.resetDelay = delay]
  BY <1>1, Zenon
<1>5. Clock /\ length' = LengthClocked
  BY DEF WriteFrameCounter
<1>6. c = Clocked(seq)
  OBVIOUS
<1> HIDE DEF c, flag, clear, delay
<1>7. seq' \in Sequencers
  BY <1>2, <1>3, <1>4 DEF Sequencers
<1>8. /\ seq'.cycle = c.cycle /\ seq'.step = c.step
      /\ seq'.fiveStep = c.fiveStep /\ seq'.block = c.block
  BY <1>2, <1>4 DEF Sequencers
<1>9. QED
  BY <1>5, <1>6, <1>7, <1>8, SequencerAccess

\* A read of $4015.
LEMMA ReadStatusInductive == Inductive /\ ReadStatus => Inductive'
<1> SUFFICES ASSUME Inductive, ReadStatus PROVE Inductive'
  OBVIOUS
<1> DEFINE c == Clocked(seq)
           clear == IF c.irqFlag /\ c.irqClearIn = 0 THEN IF odd THEN 2 ELSE 1
                    ELSE c.irqClearIn
<1>1. c \in Sequencers
  BY ClockedType DEF Inductive
<1>2. clear \in 0 .. 2
  BY <1>1 DEF Sequencers
<1>3. seq' = [c EXCEPT !.irqClearIn = clear]
  BY DEF ReadStatus
<1>4. Clock /\ length' = LengthClocked
  BY DEF ReadStatus
<1>5. c = Clocked(seq)
  OBVIOUS
<1> HIDE DEF c, clear
<1>6. seq' \in Sequencers
  BY <1>1, <1>2, <1>3 DEF Sequencers
<1>7. /\ seq'.cycle = c.cycle /\ seq'.step = c.step
      /\ seq'.fiveStep = c.fiveStep /\ seq'.block = c.block
  BY <1>1, <1>3 DEF Sequencers
<1>8. QED
  BY <1>4, <1>5, <1>6, <1>7, SequencerAccess

\* A write of a length.
LEMMA WriteLengthInductive == Inductive /\ WriteLength => Inductive'
<1> SUFFICES ASSUME Inductive, WriteLength PROVE Inductive'
  OBVIOUS
<1> DEFINE c == LengthClocked
<1>1. /\ c \in Lengths /\ c.enabled = length.enabled /\ c.reload = 0
      /\ ~length.enabled => c.counter = 0
  BY LengthClockedType DEF Inductive
<1>2. PICK value \in Reloads :
         length' = IF c.enabled THEN [c EXCEPT !.reload = value, !.previous = c.counter] ELSE c
  BY DEF WriteLength
<1> HIDE DEF c
<1>3. CASE c.enabled
  <2>1. length' = [c EXCEPT !.reload = value, !.previous = c.counter]
    BY <1>2, <1>3
  <2>2. c.counter \in Nat
    BY <1>1 DEF Lengths
  <2>3. length' \in Lengths
    BY <1>1, <2>1, <2>2 DEF Lengths
  <2>4. length'.enabled
    BY <1>1, <1>3, <2>1 DEF Lengths
  <2>5. QED
    BY <2>3, <2>4, ClockOnly DEF WriteLength, DisabledIsSilent
<1>4. CASE ~c.enabled
  <2>1. length' = c
    BY <1>2, <1>4
  <2>2. length' \in Lengths /\ DisabledIsSilent'
    BY <1>1, <2>1 DEF DisabledIsSilent
  <2>3. QED
    BY <2>2, ClockOnly DEF WriteLength
<1>5. QED
  BY <1>3, <1>4

\* A write of the halt bit.
LEMMA WriteHaltInductive == Inductive /\ WriteHalt => Inductive'
<1> SUFFICES ASSUME Inductive, WriteHalt PROVE Inductive'
  OBVIOUS
<1> DEFINE c == LengthClocked
<1>1. /\ c \in Lengths /\ c.enabled = length.enabled /\ c.reload = 0
      /\ ~length.enabled => c.counter = 0
  BY LengthClockedType DEF Inductive
<1>2. PICK halt \in BOOLEAN : length' = [c EXCEPT !.pendingHalt = halt]
  BY DEF WriteHalt
<1> HIDE DEF c
<1>3. length' \in Lengths
  BY <1>1, <1>2 DEF Lengths
<1>4. /\ length'.enabled = c.enabled
      /\ length'.counter = c.counter
      /\ length'.reload = c.reload
  BY <1>1, <1>2 DEF Lengths
<1>5. DisabledIsSilent'
  BY <1>1, <1>4 DEF DisabledIsSilent
<1>6. QED
  BY <1>3, <1>5, ClockOnly DEF WriteHalt

\* A write of $4015.
LEMMA WriteEnableInductive == Inductive /\ WriteEnable => Inductive'
<1> SUFFICES ASSUME Inductive, WriteEnable PROVE Inductive'
  OBVIOUS
<1> DEFINE c == LengthClocked
<1>1. c \in Lengths
  BY LengthClockedType DEF Inductive
<1>2. PICK enabled \in BOOLEAN : length' = Enabled(c, enabled)
  BY DEF WriteEnable
<1> HIDE DEF c
<1>3. CASE enabled
  <2>1. length' = [c EXCEPT !.enabled = TRUE]
    BY <1>2, <1>3 DEF Enabled
  <2>2. length' \in Lengths /\ length'.enabled
    BY <1>1, <2>1 DEF Lengths
  <2>3. QED
    BY <2>2, ClockOnly DEF WriteEnable, DisabledIsSilent
<1>4. CASE ~enabled
  <2>1. length' = [c EXCEPT !.enabled = FALSE, !.counter = 0, !.reload = 0]
    BY <1>2, <1>4 DEF Enabled
  <2>2. length' \in Lengths /\ length'.counter = 0 /\ length'.reload = 0
    BY <1>1, <2>1 DEF Lengths
  <2>3. QED
    BY <2>2, ClockOnly DEF WriteEnable, DisabledIsSilent
<1>5. QED
  BY <1>3, <1>4

\* Every slot keeps the invariant.
LEMMA NextInductive == Inductive /\ [Next]_vars => Inductive'
<1> SUFFICES ASSUME Inductive, [Next]_vars PROVE Inductive'
  OBVIOUS
<1>1. CASE NoAccess
  BY <1>1, LengthOnly, ClockOnly DEF NoAccess
<1>2. CASE WriteFrameCounter
  BY <1>2, WriteFrameCounterInductive
<1>3. CASE ReadStatus
  BY <1>3, ReadStatusInductive
<1>4. CASE WriteLength
  BY <1>4, WriteLengthInductive
<1>5. CASE WriteHalt
  BY <1>5, WriteHaltInductive
<1>6. CASE WriteEnable
  BY <1>6, WriteEnableInductive
<1>7. CASE UNCHANGED vars
  BY <1>7 DEF vars, Inductive, Before, Steps, DisabledIsSilent
<1>8. QED
  BY <1>1, <1>2, <1>3, <1>4, <1>5, <1>6, <1>7 DEF Next

\* The invariant holds in every state.
LEMMA AlwaysInductive == Spec => []Inductive
<1>1. Init => Inductive
  BY InitInductive
<1>2. Inductive /\ [Next]_vars => Inductive'
  BY NextInductive
<1>3. QED
  BY <1>1, <1>2, PTL DEF Spec

-----------------------------------------------------------------------------
(* The theorems.                                                             *)

\* Every field stays in its type: the delays, the block counter and the step never
\* leave the range the code's u8 and array index give them.
THEOREM TypeCorrect == Spec => []TypeOK
<1>1. Inductive => TypeOK
  BY DEF Inductive, TypeOK, Sequencers, Lengths
<1>2. QED
  BY <1>1, AlwaysInductive, PTL

\* The comparison for equality in FrameCounter::clock never misses: whatever the
\* tables, and however a program times its writes to $4017, the sequencer stands
\* before the clock of the step it waits for.
THEOREM SequencerNeverRunsAway == Spec => []NeverPastStep
<1>1. Inductive => NeverPastStep
  BY DEF Inductive, Before, NeverPastStep
<1>2. QED
  BY <1>1, AlwaysInductive, PTL

\* A channel that $4015 disabled holds no length and no load under way.
THEOREM DisabledStaysSilent == Spec => []DisabledIsSilent
<1>1. Inductive => DisabledIsSilent
  BY DEF Inductive
<1>2. QED
  BY <1>1, AlwaysInductive, PTL

\* The envelopes, sweeps and lengths are never clocked in two clocks running.
THEOREM QuarterClocksApart == Spec => NoDoubleClock
<1>1. Inductive /\ [Next]_vars => [~(events.quarter /\ events'.quarter)]_vars
  <2> SUFFICES ASSUME Inductive, Next PROVE ~(events.quarter /\ events'.quarter)
    OBVIOUS
  <2>1. Clock
    BY DEF Next, NoAccess, WriteFrameCounter, ReadStatus, WriteLength, WriteHalt, WriteEnable
  <2>2. events' = Events(seq)
    BY <2>1 DEF Clock
  <2>3. seq \in Sequencers /\ (events.quarter => seq.block = 1)
    BY DEF Inductive
  <2>4. QED
    BY <2>2, <2>3, BlockSet
<1>2. QED
  BY <1>1, AlwaysInductive, PTL DEF Spec, NoDoubleClock
=============================================================================
