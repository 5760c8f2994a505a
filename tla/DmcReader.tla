----------------------------- MODULE DmcReader -----------------------------
(***************************************************************************)
(* The memory reader of the delta modulation channel                       *)
(* (crates/nes-core/src/apu/channels.rs, struct Dmc) as pure operators on  *)
(* a record.  A sample byte is either in the one-byte buffer or it is not; *)
(* the level the byte drives is left out.                                  *)
(*                                                                         *)
(* The reader asks the bus for a byte by raising "pending"; the bus takes  *)
(* the request ("busy"), and later either supplies the byte or cancels.    *)
(***************************************************************************)
EXTENDS Integers

CONSTANTS Period,        \* CPU cycles of one output bit (54 .. 428 in the tables)
          BitsPerByte,   \* output bits per sample byte (8)
          Lengths,       \* values of $4013 as bytes: 16n+1, so 1 is the short one
          MaxRate        \* TRUE when $4010 selects rate 15

ASSUME ReaderAssumption ==
    /\ Period \in Nat \ {0}
    /\ BitsPerByte \in Nat \ {0}
    /\ Lengths \subseteq Nat \ {0}
    /\ 1 \in Lengths
    /\ MaxRate \in BOOLEAN

Readers == [length  : Lengths,
            bytes   : Nat,
            loop    : BOOLEAN,
            irqOn   : BOOLEAN,
            irq     : BOOLEAN,
            buffer  : BOOLEAN,           \* sample_buffer.is_some()
            bits    : 1 .. BitsPerByte,
            timer   : 0 .. Period - 1,
            start   : 0 .. 3,
            disable : 0 .. 255,
            pending : BOOLEAN,           \* dma_pending
            busy    : BOOLEAN,           \* dma_in_progress
            abort   : BOOLEAN]           \* dma_abort_pending

\* Dmc::new: the sample length after power-on is one byte.
NewReader ==
    [length |-> 1, bytes |-> 0, loop |-> FALSE, irqOn |-> FALSE,
     irq |-> FALSE, buffer |-> FALSE, bits |-> BitsPerByte,
     timer |-> Period - 1, start |-> 0, disable |-> 0,
     pending |-> FALSE, busy |-> FALSE, abort |-> FALSE]

\* Mutant of Dec: the delay is not saturated at zero.
DecPastZero(n) == n - 1

Dec(n) == IF n > 0 THEN n - 1 ELSE 0

-----------------------------------------------------------------------------
(* Register writes.                                                        *)

WriteControl(r, loop, irqOn) ==
    [r EXCEPT !.loop = loop, !.irqOn = irqOn, !.irq = @ /\ irqOn]

WriteLength(r, length) == [r EXCEPT !.length = length]

\* Enabling restarts an exhausted reader after a phase-dependent delay.  It
\* leaves a disable that is still counting down as it is.
Enable(r, odd) ==
    IF r.bytes = 0
    THEN [r EXCEPT !.irq = FALSE, !.bytes = r.length,
                   !.start = IF (~r.loop /\ MaxRate) \/ ~odd THEN 3 ELSE 2]
    ELSE [r EXCEPT !.irq = FALSE]

\* Disabling takes effect on the next APU cycle; a disable already counting
\* down is not restarted.
Disable(r, odd) ==
    [r EXCEPT !.irq = FALSE, !.start = 0,
              !.disable = IF @ # 0 THEN @ ELSE IF odd THEN 2 ELSE 3]

ExtendDisable(r) ==
    [r EXCEPT !.disable = IF @ = 0 \/ @ = 255 THEN @ ELSE @ + 1]

-----------------------------------------------------------------------------
(* One CPU clock of the channel: output unit, the two delays, the request. *)

OutputStep(r) ==
    IF r.timer # 0
    THEN [r EXCEPT !.timer = @ - 1]
    ELSE [r EXCEPT !.timer  = Period - 1,
                   !.bits   = IF @ = 1 THEN BitsPerByte ELSE @ - 1,
                   !.buffer = @ /\ r.bits # 1]

DelayStep(r) ==
    LET stops == r.disable = 1
    IN  [r EXCEPT !.start = Dec(@), !.disable = Dec(@),
                  !.bytes = IF stops THEN 0 ELSE @,
                  !.pending = @ /\ ~stops,
                  !.abort = @ \/ stops]

\* Mutant of RequestStep: asks whether or not the buffer is free.
RequestStepBlind(r) ==
    [r EXCEPT !.pending = @ \/ (r.start = 0 /\ r.bytes > 0 /\ ~r.busy)]

RequestStep(r) ==
    [r EXCEPT !.pending = @ \/ (/\ r.start = 0 /\ ~r.buffer
                                /\ r.bytes > 0 /\ ~r.busy)]

ClockTimer(r) == RequestStep(DelayStep(OutputStep(r)))

-----------------------------------------------------------------------------
(* The handshake with the bus.                                             *)

TakeRequest(r) == [r EXCEPT !.pending = FALSE, !.busy = TRUE]

TakeAbort(r) == [r EXCEPT !.abort = FALSE]

\* Mutant of Cancel: the reader goes on waiting for the cancelled transfer.
CancelKeepsBusy(r) == [r EXCEPT !.pending = FALSE]

Cancel(r) == [r EXCEPT !.pending = FALSE, !.busy = FALSE]

\* A byte for an exhausted reader is dropped.  Otherwise it fills the buffer,
\* and the last byte either rewinds a looping sample or raises the interrupt.
Filled(r) ==
    LET last == r.bytes = 1
    IN  [r EXCEPT !.busy = FALSE, !.buffer = TRUE,
                  !.bytes = IF last /\ r.loop THEN r.length ELSE @ - 1,
                  !.irq = @ \/ (last /\ ~r.loop /\ r.irqOn)]

\* A one-byte sample that arrives as the output unit is about to empty is
\* scheduled again and stopped three clocks later.
Reschedules(r) ==
    r.length = 1 /\ ~r.loop /\ r.bits = 1 /\ r.timer < 2

Supply(r) ==
    IF r.bytes = 0 THEN [r EXCEPT !.busy = FALSE]
    ELSE IF Reschedules(r)
         THEN [Filled(r) EXCEPT !.bytes = r.length, !.disable = 3]
         ELSE Filled(r)
=============================================================================
