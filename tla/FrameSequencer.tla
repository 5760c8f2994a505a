--------------------------- MODULE FrameSequencer ---------------------------
(***************************************************************************)
(* The frame sequencer of the audio unit (crates/nes-core/src/apu/mod.rs,    *)
(* FrameCounter) with a length counter it clocks (apu/channels.rs) and the   *)
(* registers a program reaches both through: $4017, $4015 and a channel's    *)
(* length and control registers.                                             *)
(*                                                                         *)
(* A step is one slot of the processor on its bus: the audio unit is clocked *)
(* once, the interrupt line is sampled, and then the slot's access, if any,  *)
(* takes effect.  Cycle numbers are kept modulo two, the only thing that is  *)
(* asked of them, and the clock number at which a read flag clears as the    *)
(* clocks until then.                                                        *)
(***************************************************************************)
EXTENDS Naturals, Sequences

CONSTANTS
    FourStep, FiveStep,   \* the clocks of the six steps of both modes
    Reloads               \* the values of LENGTH_TABLE

IsTable(steps) ==
    /\ steps \in [1 .. 6 -> Nat \ {0}]
    /\ \A i \in 1 .. 5 : steps[i] < steps[i + 1]

ASSUME SequencerTables ==
    /\ IsTable(FourStep) /\ IsTable(FiveStep)
    /\ Reloads \subseteq Nat \ {0}

VARIABLES
    seq,      \* FrameCounter
    length,   \* LengthCounter
    odd,      \* whether Apu::cycles is odd
    events,   \* the FrameEvents of the last clock
    line      \* the interrupt line as sampled in the last slot

vars == <<seq, length, odd, events, line>>

Init ==
    /\ seq = [cycle |-> 0, step |-> 0, fiveStep |-> FALSE, pendingFiveStep |-> FALSE,
              resetDelay |-> 0, irqInhibit |-> FALSE, irqFlag |-> FALSE,
              irqClearIn |-> 0, block |-> 0]
    /\ length = [enabled |-> FALSE, halt |-> FALSE, pendingHalt |-> FALSE,
                 counter |-> 0, previous |-> 0, reload |-> 0]
    /\ odd = FALSE
    /\ events = [quarter |-> FALSE, half |-> FALSE]
    /\ line = FALSE

Less(n) == IF n = 0 THEN 0 ELSE n - 1

---------------------------------------------------------------------------
(* One clock of the sequencer. *)

Steps(s) == IF s.fiveStep THEN FiveStep ELSE FourStep

\* The clock reaches the step the sequencer waits for.
AtStep(s) == s.cycle + 1 = Steps(s)[s.step + 1]

\* The last three steps of the four-step mode raise the frame interrupt; under
\* inhibition the last one takes it back.
RaisesIrq(s) == AtStep(s) /\ ~s.fiveStep /\ s.step >= 3

StepEvents(s) ==
    [quarter |-> AtStep(s) /\ s.block = 0 /\ s.step \in {0, 1, 2, 4},
     half |-> AtStep(s) /\ s.block = 0 /\ s.step \in {1, 4}]

\* A write to $4017 takes effect when its delay ends; for the five-step mode that
\* is a quarter and half clock of its own.
Restarts(s) == s.resetDelay = 1

\* Mutant of ClocksAtOnce: it is not kept apart from the clock before.
ClocksTwice(s) == Restarts(s) /\ s.pendingFiveStep /\ ~StepEvents(s).quarter

ClocksAtOnce(s) ==
    Restarts(s) /\ s.pendingFiveStep /\ s.block = 0 /\ ~StepEvents(s).quarter

Events(s) ==
    [quarter |-> StepEvents(s).quarter \/ ClocksAtOnce(s),
     half |-> StepEvents(s).half \/ ClocksAtOnce(s)]

\* Mutant of Position: a restart goes back to the first step and lets the clock run.
PositionKept(s) ==
    [step |-> IF Restarts(s) \/ (AtStep(s) /\ s.step = 5) THEN 0
              ELSE IF AtStep(s) THEN s.step + 1 ELSE s.step,
     cycle |-> IF AtStep(s) /\ s.step = 5 THEN 0 ELSE s.cycle + 1]

\* Where the sequencer stands after the clock.
Position(s) ==
    IF Restarts(s) \/ (AtStep(s) /\ s.step = 5) THEN [step |-> 0, cycle |-> 0]
    ELSE [step |-> IF AtStep(s) THEN s.step + 1 ELSE s.step, cycle |-> s.cycle + 1]

\* The interrupt flag after the clock.
FlagAfter(s) ==
    IF RaisesIrq(s) THEN ~(s.irqInhibit /\ s.step = 5)
    ELSE s.irqFlag /\ s.irqClearIn # 1

Clocked(s) ==
    [s EXCEPT !.cycle = Position(s).cycle,
              !.step = Position(s).step,
              !.fiveStep = IF Restarts(s) THEN s.pendingFiveStep ELSE @,
              !.resetDelay = Less(@),
              !.irqFlag = FlagAfter(s),
              !.irqClearIn = IF RaisesIrq(s) THEN 0 ELSE Less(@),
              !.block = IF Events(s).quarter THEN 1 ELSE Less(@)]

IrqPending(s) == s.irqFlag /\ ~s.irqInhibit /\ s.irqClearIn = 0

---------------------------------------------------------------------------
(* The length counter. *)

Halved(c, half) ==
    IF half /\ c.counter > 0 /\ ~c.halt THEN [c EXCEPT !.counter = @ - 1] ELSE c

\* Mutant of Applied: a reload that was applied stays pending.
AppliedAgain(c) ==
    [c EXCEPT !.counter = IF c.reload > 0 /\ c.counter = c.previous THEN c.reload ELSE @,
              !.halt = c.pendingHalt]

\* A pending reload is dropped when a half clock moved the counter meanwhile.
Applied(c) ==
    [c EXCEPT !.counter = IF c.reload > 0 /\ c.counter = c.previous THEN c.reload ELSE @,
              !.reload = 0,
              !.halt = c.pendingHalt]

---------------------------------------------------------------------------
(* One slot: the clock, the sample of the line, the access. *)

Clock ==
    /\ odd' = ~odd
    /\ events' = Events(seq)
    /\ line' = IrqPending(Clocked(seq))

LengthClocked == Applied(Halved(length, Events(seq).half))

NoAccess ==
    /\ Clock
    /\ seq' = Clocked(seq)
    /\ length' = LengthClocked

\* The delay counts from the cycle before the write.
WriteFrameCounter ==
    /\ Clock
    /\ \E five, inhibit \in BOOLEAN :
           seq' = [Clocked(seq) EXCEPT !.pendingFiveStep = five,
                                       !.irqInhibit = inhibit,
                                       !.irqFlag = @ /\ ~inhibit,
                                       !.irqClearIn = IF inhibit THEN 0 ELSE @,
                                       !.resetDelay = IF odd THEN 4 ELSE 3]
    /\ length' = LengthClocked

\* A flag that is read clears on the next even cycle, and releases the line now.
ReadStatus ==
    /\ Clock
    /\ seq' = [Clocked(seq) EXCEPT !.irqClearIn =
                   IF Clocked(seq).irqFlag /\ @ = 0 THEN IF odd THEN 2 ELSE 1 ELSE @]
    /\ length' = LengthClocked

WriteLength ==
    /\ Clock
    /\ seq' = Clocked(seq)
    /\ \E value \in Reloads :
           length' = IF LengthClocked.enabled
                     THEN [LengthClocked EXCEPT !.reload = value,
                                                !.previous = LengthClocked.counter]
                     ELSE LengthClocked

WriteHalt ==
    /\ Clock
    /\ seq' = Clocked(seq)
    /\ \E halt \in BOOLEAN : length' = [LengthClocked EXCEPT !.pendingHalt = halt]

\* Mutant of Enabled: disabling drops the load under way and keeps the counter.
EnabledOnly(c, enabled) ==
    IF enabled THEN [c EXCEPT !.enabled = TRUE]
    ELSE [c EXCEPT !.enabled = FALSE, !.reload = 0]

\* Disabling clears the counter and the load under way.
Enabled(c, enabled) ==
    IF enabled THEN [c EXCEPT !.enabled = TRUE]
    ELSE [c EXCEPT !.enabled = FALSE, !.counter = 0, !.reload = 0]

WriteEnable ==
    /\ Clock
    /\ seq' = Clocked(seq)
    /\ \E enabled \in BOOLEAN : length' = Enabled(LengthClocked, enabled)

Next ==
    \/ NoAccess
    \/ WriteFrameCounter
    \/ ReadStatus
    \/ WriteLength
    \/ WriteHalt
    \/ WriteEnable

Spec == Init /\ [][Next]_vars

\* The processor never stops going through bus slots.
FairSpec == Spec /\ WF_vars(Next)

---------------------------------------------------------------------------
(* Properties. *)

\* Types: the delays and the step stay within what the code gives them.
TypeOK ==
    /\ seq \in [cycle : Nat, step : 0 .. 5, fiveStep : BOOLEAN,
                pendingFiveStep : BOOLEAN, resetDelay : 0 .. 4, irqInhibit : BOOLEAN,
                irqFlag : BOOLEAN, irqClearIn : 0 .. 2, block : 0 .. 1]
    /\ length \in [enabled : BOOLEAN, halt : BOOLEAN, pendingHalt : BOOLEAN,
                   counter : Nat, previous : Nat,
                   reload : Reloads \cup {0}]
    /\ odd \in BOOLEAN
    /\ events \in [quarter : BOOLEAN, half : BOOLEAN]
    /\ line \in BOOLEAN

\* The sequencer compares for equality: it must never stand past the clock of the
\* step it waits for, or it would run on for 2^32 clocks.
NeverPastStep == seq.cycle < Steps(seq)[seq.step + 1]

\* The units of a channel are never clocked in two clocks running, however a
\* program times its writes to $4017.
NoDoubleClock == [][~(events.quarter /\ events'.quarter)]_vars

\* A disabled channel is silent and stays so: no load is under way for it.
DisabledIsSilent == ~length.enabled => length.counter = 0 /\ length.reload = 0

\* Under inhibition the interrupt flag is up in the last clocks of a four-step
\* frame only: "the final sequencer clock clears them again before the next frame
\* begins".
InhibitedFlagClears == seq.irqInhibit /\ seq.step < 4 => ~seq.irqFlag

\* A program that stops rewriting $4017 gets its quarter clocks.
KeepsClocking == []<>events.quarter

\* In the four-step mode the interrupt comes, also to a program that polls $4015
\* all the time, unless it is inhibited.
FrameIrqComes == []<>line \/ []<>seq.irqInhibit \/ []<>seq.fiveStep

\* A note ends, unless its counter is halted or loaded again.
NoteEnds ==
    []<>(length.counter = 0) \/ []<>length.halt \/ []<><<WriteLength>>_vars

\* What a program waits for comes, as long as it does not restart the sequencer
\* for ever: the quarter clocks, the frame interrupt and the end of a note.
SequencerDelivers ==
    \/ KeepsClocking /\ FrameIrqComes /\ NoteEnds
    \/ []<><<WriteFrameCounter>>_vars
=============================================================================
