----------------------------- MODULE DmaArbiter -----------------------------
(***************************************************************************)
(* CPU bus slots and the two DMA engines that steal them                   *)
(* (crates/nes-core/src/bus.rs).  Every action is one hardware cycle,      *)
(* except CancelAborted, the test at the head of the stall loop, which     *)
(* takes no time.                                                          *)
(*                                                                         *)
(* The CPU does reads and writes of its own choice.  A read slot that      *)
(* finds a DMA outstanding is halted and the stall loop of                 *)
(* service_dma_stalls runs until both engines are idle; a write slot is    *)
(* never halted.                                                           *)
(***************************************************************************)
EXTENDS DmcReader

CONSTANTS OamSize,      \* bytes of one OAM transfer (256)
          PadIndices,   \* OAM source offsets whose low five bits select $4016
          MaxWrites,    \* longest run of write slots of an instruction (3)
          MaxShift,     \* clocks after which a pad returns only ones (8)
          Ntsc,         \* the region has the NTSC bus conflicts
          FceuxCompat   \* fceux_joypad_compat

ASSUME ArbiterAssumption ==
    /\ OamSize \in Nat \ {0}
    /\ PadIndices \subseteq 0 .. OamSize - 1
    /\ MaxWrites \in Nat
    /\ MaxShift \in Nat \ {0}
    /\ Ntsc \in BOOLEAN
    /\ FceuxCompat \in BOOLEAN

VARIABLES phase,   \* cpu_cycles mod 2: 1 is a get cycle
          dmc,     \* the reader
          fetch,   \* dmc_dma
          oam,     \* oam_dma
          slot,    \* the halted read, or "none" while the CPU runs
          pad,     \* port 0: clocks since the latch, strobe, output enable
          writes,  \* write slots since the last read slot
          stolen   \* the present read slot: cycles stolen, gets, pad clocks

vars == <<phase, dmc, fetch, oam, slot, pad, writes, stolen>>

\* What a read slot addresses: joypad port $4016, another internal register,
\* anything else, or nothing (an idle slot).
Targets == {"pad", "io", "mem", "idle"}

Fetches == [active : BOOLEAN, halt : BOOLEAN, dummy : BOOLEAN, abort : BOOLEAN]
NoFetch == [active |-> FALSE, halt |-> FALSE, dummy |-> FALSE, abort |-> FALSE]
\* Mutant of NewFetch: the dummy cycle is forgotten.
NewFetchNoDummy == [active |-> TRUE, halt |-> TRUE, dummy |-> FALSE, abort |-> FALSE]

NewFetch == [active |-> TRUE, halt |-> TRUE, dummy |-> TRUE, abort |-> FALSE]

Transfers == [active : BOOLEAN, index : 0 .. OamSize, halt : BOOLEAN, read : BOOLEAN]
NoTransfer == [active |-> FALSE, index |-> 0, halt |-> FALSE, read |-> FALSE]
NewTransfer == [active |-> TRUE, index |-> 0, halt |-> TRUE, read |-> FALSE]

Pads == [shift : 0 .. MaxShift, strobe : BOOLEAN, oe : BOOLEAN]

NothingStolen == [cycles |-> 0, gets |-> 0, oam |-> FALSE, clocks |-> 0]

-----------------------------------------------------------------------------
(* clock_hardware_cycle: the reader is clocked, then its abort is routed   *)
(* to the fetch under way, then a new request is taken.                    *)

\* Mutant of AbortRouted: a fetch still to be halted is marked, not cancelled.
AbortRoutedLate(d, f) ==
    IF ~d.abort THEN [dmc |-> d, fetch |-> f]
    ELSE [dmc |-> TakeAbort(d),
          fetch |-> IF f.active THEN [f EXCEPT !.abort = TRUE] ELSE f]

AbortRouted(d, f) ==
    IF ~d.abort THEN [dmc |-> d, fetch |-> f]
    ELSE IF f.active /\ f.halt
         THEN [dmc |-> Cancel(TakeAbort(d)), fetch |-> NoFetch]
         ELSE [dmc |-> TakeAbort(d),
               fetch |-> IF f.active THEN [f EXCEPT !.abort = TRUE] ELSE f]

RequestTaken(s) ==
    IF ~s.fetch.active /\ s.dmc.pending
    THEN [dmc |-> TakeRequest(s.dmc), fetch |-> NewFetch]
    ELSE s

Clocked(d, f) == RequestTaken(AbortRouted(ClockTimer(d), f))

Tick == phase' = 1 - phase

\* One hardware cycle in which the engines proceed from fetch state f.
Cycle(f) ==
    LET s == Clocked(dmc, f)
    IN  /\ Tick
        /\ dmc' = s.dmc
        /\ fetch' = s.fetch

-----------------------------------------------------------------------------
(* read_joypad and the other readers, as seen from port 0.                 *)

PadRead(p) ==
    [p EXCEPT !.oe = TRUE,
              !.shift = IF p.strobe THEN 0
                        ELSE IF (FceuxCompat /\ p.oe) \/ @ = MaxShift THEN @
                        ELSE @ + 1]

PadReadClocks(p) == IF p.strobe \/ (FceuxCompat /\ p.oe) THEN 0 ELSE 1

\* read_untimed of the address of a slot.
BusRead(p, target) ==
    CASE target = "pad"  -> PadRead(p)
      [] target = "idle" -> p
      [] OTHER           -> [p EXCEPT !.oe = FALSE]

BusReadClocks(p, target) == IF target = "pad" THEN PadReadClocks(p) ELSE 0

-----------------------------------------------------------------------------
Init ==
    /\ phase = 0
    /\ dmc = NewReader
    /\ fetch = NoFetch
    /\ oam = NoTransfer
    /\ slot = "none"
    /\ pad = [shift |-> 0, strobe |-> FALSE, oe |-> FALSE]
    /\ writes = 0
    /\ stolen = NothingStolen

\* Mutant of Stealing: the stall ends with the DMC fetch.
StealingDmcOnly == fetch.active

Stealing == oam.active \/ fetch.active

(* Write slots are never halted, whatever is outstanding.                  *)

ClockedNow == Clocked(dmc, fetch)

WriteSlot ==
    /\ slot = "none"
    /\ writes < MaxWrites
    /\ writes' = writes + 1
    /\ Tick
    /\ fetch' = ClockedNow.fetch
    /\ stolen' = NothingStolen
    /\ UNCHANGED slot

ReleaseOe == pad' = [pad EXCEPT !.oe = FALSE]

\* A write to the reader; the channel sees the parity after the clock.
WriteEnable ==
    /\ WriteSlot /\ ReleaseOe /\ UNCHANGED oam
    /\ dmc' = Enable(ClockedNow.dmc, phase = 0)

WriteDisable ==
    LET d == Disable(ClockedNow.dmc, phase = 0)
    IN  /\ WriteSlot /\ ReleaseOe /\ UNCHANGED oam
        /\ dmc' = IF ClockedNow.fetch.active THEN ExtendDisable(d) ELSE d

WriteDmcControl(loop, irqOn) ==
    /\ WriteSlot /\ ReleaseOe /\ UNCHANGED oam
    /\ dmc' = WriteControl(ClockedNow.dmc, loop, irqOn)

WriteDmcLength(length) ==
    /\ WriteSlot /\ ReleaseOe /\ UNCHANGED oam
    /\ dmc' = WriteLength(ClockedNow.dmc, length)

WriteOamDma ==
    /\ WriteSlot /\ ReleaseOe
    /\ dmc' = ClockedNow.dmc
    /\ oam' = NewTransfer

\* An RMW pulse is latched only in one phase; latched says which it was.
WriteStrobe(strobe, latched) ==
    /\ ~strobe /\ phase = 0 => latched
    /\ WriteSlot /\ UNCHANGED oam
    /\ dmc' = ClockedNow.dmc
    /\ pad' = [shift  |-> IF latched /\ (strobe \/ pad.strobe) THEN 0 ELSE pad.shift,
               strobe |-> strobe,
               oe     |-> FALSE]

WriteOther ==
    /\ WriteSlot /\ ReleaseOe /\ UNCHANGED oam
    /\ dmc' = ClockedNow.dmc

-----------------------------------------------------------------------------
(* Read slots.                                                             *)

\* The read takes place: at once, or after a stall.
CompleteRead(target) ==
    /\ slot \in {"none", target}
    /\ ~Stealing
    /\ Cycle(fetch)
    /\ pad' = BusRead(pad, target)
    /\ slot' = "none"
    /\ writes' = 0
    /\ stolen' = [NothingStolen EXCEPT
                    !.clocks = BusReadClocks(pad, target)
                               + IF slot = target THEN stolen.clocks ELSE 0]
    /\ UNCHANGED oam

HaltPending == (oam.active /\ oam.halt) \/ (fetch.active /\ fetch.halt)

\* Both engines share the halt cycle, which repeats the halted read.
Halt(target) ==
    /\ slot = "none"
    /\ Stealing
    /\ HaltPending
    /\ Cycle([fetch EXCEPT !.halt = FALSE])
    /\ oam' = [oam EXCEPT !.halt = FALSE]
    /\ pad' = BusRead(pad, target)
    /\ slot' = target
    /\ stolen' = [cycles |-> 1, gets |-> 0, oam |-> oam.active,
                  clocks |-> BusReadClocks(pad, target)]
    /\ UNCHANGED writes

\* Mutant of CancelAborted: the bus keeps the fetch its reader has given up.
CancelAbortedReaderOnly ==
    /\ slot # "none"
    /\ fetch.abort
    /\ dmc' = Cancel(dmc)
    /\ UNCHANGED <<phase, fetch, oam, slot, pad, writes, stolen>>

\* cancel_dmc_dma, after the halt cycle and at the head of the loop.
CancelAborted ==
    /\ slot # "none"
    /\ fetch.abort
    /\ dmc' = Cancel(dmc)
    /\ fetch' = NoFetch
    /\ UNCHANGED <<phase, oam, slot, pad, writes, stolen>>

-----------------------------------------------------------------------------
(* The stall loop.                                                         *)

InLoop == slot # "none" /\ Stealing /\ ~fetch.abort /\ UNCHANGED <<slot, writes>>

DmcReady == fetch.active /\ ~fetch.halt /\ ~fetch.dummy

\* advance_dmc_setup
Advanced(f) == IF f.halt THEN [f EXCEPT !.halt = FALSE] ELSE [f EXCEPT !.dummy = FALSE]

\* The CPU's own address decides whether a DMA address can select a register.
Decodes == slot \in {"pad", "io"}

\* aliased: the low five bits of the sample's address select $4016.
DmcGet(aliased) ==
    LET s == Clocked(dmc, fetch)
        r == RequestTaken([dmc |-> Supply(s.dmc), fetch |-> NoFetch])
        released == [pad EXCEPT !.oe = FALSE]
        conflict == aliased /\ Ntsc /\ Decodes
    IN  /\ InLoop
        /\ phase = 1
        /\ DmcReady
        /\ Tick
        /\ dmc' = r.dmc
        /\ fetch' = r.fetch
        /\ pad' = IF conflict THEN PadRead(released) ELSE released
        /\ stolen' = [stolen EXCEPT
                        !.cycles = @ + 1, !.gets = @ + 1,
                        !.clocks = @ + IF conflict /\ slot = "pad"
                                       THEN PadReadClocks(released) ELSE 0]
        /\ UNCHANGED oam

OamGet ==
    LET released == [pad EXCEPT !.oe = FALSE]
        conflict == Decodes /\ oam.index \in PadIndices
    IN  /\ InLoop
        /\ phase = 1
        /\ ~DmcReady
        /\ oam.active
        /\ Cycle(Advanced(fetch))
        /\ oam' = [oam EXCEPT !.read = TRUE]
        /\ pad' = IF conflict THEN [PadRead(released) EXCEPT !.oe = FALSE] ELSE released
        /\ stolen' = [stolen EXCEPT
                        !.cycles = @ + 1,
                        !.clocks = @ + IF conflict /\ slot = "pad"
                                       THEN PadReadClocks(released) ELSE 0]

OamPut ==
    /\ InLoop
    /\ phase = 0
    /\ oam.active /\ oam.read
    /\ Cycle(Advanced(fetch))
    /\ oam' = IF oam.index + 1 = OamSize THEN NoTransfer
              ELSE [oam EXCEPT !.read = FALSE, !.index = @ + 1]
    /\ stolen' = [stolen EXCEPT !.cycles = @ + 1]
    /\ UNCHANGED pad

\* A dummy or alignment cycle repeats the halted read, except on a joypad.
Align ==
    LET repeats == ~(Ntsc /\ slot = "pad")
    IN  /\ InLoop
        /\ IF phase = 1 THEN ~DmcReady /\ ~oam.active ELSE ~(oam.active /\ oam.read)
        /\ Cycle(Advanced(fetch))
        /\ pad' = IF repeats THEN BusRead(pad, slot) ELSE pad
        /\ stolen' = [stolen EXCEPT
                        !.cycles = @ + 1,
                        !.clocks = @ + IF repeats THEN BusReadClocks(pad, slot) ELSE 0]
        /\ UNCHANGED oam

-----------------------------------------------------------------------------
\* Bus::reset: the controllers keep their shift registers.
Reset ==
    /\ slot = "none"
    /\ phase' = 0
    /\ dmc' = NewReader
    /\ fetch' = NoFetch
    /\ oam' = NoTransfer
    /\ ReleaseOe
    /\ writes' = 0
    /\ stolen' = NothingStolen
    /\ UNCHANGED slot

Write ==
    \/ WriteEnable
    \/ WriteDisable
    \/ \E loop, irqOn \in BOOLEAN : WriteDmcControl(loop, irqOn)
    \/ \E length \in Lengths : WriteDmcLength(length)
    \/ WriteOamDma
    \/ \E strobe, latched \in BOOLEAN : WriteStrobe(strobe, latched)
    \/ WriteOther

Read == \E target \in Targets : CompleteRead(target) \/ Halt(target)

StallLoop ==
    \/ CancelAborted
    \/ \E aliased \in BOOLEAN : DmcGet(aliased)
    \/ OamGet
    \/ OamPut
    \/ Align

Next == Write \/ Read \/ StallLoop \/ Reset

Spec == Init /\ [][Next]_vars

\* The CPU executes instructions for as long as the emulator runs: every
\* instruction fetches an opcode, and the stall loop runs to its end.
FairSpec == Spec /\ WF_vars(Read \/ StallLoop)
-----------------------------------------------------------------------------
(***************************************************************************)
(* Properties.                                                             *)
(***************************************************************************)

TypeOK ==
    /\ phase \in 0 .. 1
    /\ dmc \in Readers
    /\ fetch \in Fetches
    /\ oam \in Transfers
    /\ slot \in Targets \cup {"none"}
    /\ pad \in Pads
    /\ writes \in 0 .. MaxWrites
    /\ stolen \in [cycles : Nat, gets : Nat, oam : BOOLEAN, clocks : Nat]

\* The reader believes a transfer is under way exactly while the bus has one:
\* no cancellation, delivery or reset leaves either side waiting for the other.
ReaderAndBusAgree == dmc.busy = fetch.active

\* A fetch is asked for, and delivered, only into an empty buffer: no sample
\* byte is ever overwritten before the output unit has taken it.
BufferFreeForFetch == dmc.busy \/ dmc.pending => ~dmc.buffer

\* Between CPU slots (where snapshots are taken and the CPU may write) every
\* outstanding transfer is still untouched: its halt cycle is to come.
TransfersStartWithHalt ==
    slot = "none" =>
        /\ fetch.active => fetch = NewFetch
        /\ oam.active => oam = NewTransfer

AboutToResume == slot # "none" /\ ~Stealing

\* A DMC fetch alone steals three or four cycles; an aborted one fewer.
DmcStallLength ==
    ~stolen.oam =>
        \/ stolen.gets = 1 /\ stolen.cycles \in 3 .. 4
        \/ stolen.gets = 0 /\ stolen.cycles \in 1 .. 3

\* An OAM transfer steals one halt cycle, one more to align if it must, and
\* two cycles a byte; fetches that arrive meanwhile add at most three each.
OamStallLength ==
    stolen.oam =>
        /\ stolen.cycles >= 2 * OamSize + 1
        /\ stolen.cycles <= 2 * OamSize + 2 + 3 * stolen.gets

\* Hardware model: a $4016 read that lost cycles to one fetch clocks the pad
\* twice, at the halt cycle and when it resumes, or three times if the
\* sample's address selects the port as well.
HardwareDoubleClock ==
    slot = "pad" /\ ~stolen.oam /\ ~pad.strobe /\ ~FceuxCompat
        => stolen.clocks \in 1 .. 1 + stolen.gets

\* When the CPU is about to resume, what the engines took from it is what they
\* take on the chip: the cycles of a fetch alone, of an OAM transfer with
\* fetches inside it, and the clocks of the pad that its read repeated.
StallsAsOnTheChip ==
    AboutToResume => DmcStallLength /\ OamStallLength /\ HardwareDoubleClock

\* FCEUX model: back-to-back cycles on the port are one clock, so a read of
\* $4016 never consumes two bits.
CompatSingleClock == FceuxCompat => stolen.clocks <= 1

\* A fetch the bus has accepted is delivered or cancelled, and a halted CPU
\* resumes, whatever the reader asks for meanwhile.
TransfersEnd ==
    /\ fetch.active ~> ~fetch.active
    /\ slot # "none" ~> slot = "none"

\* A reader with bytes to play is not starved: its buffer is filled, or it runs
\* out of bytes, or a disable is on its way to it, whatever fetches were aborted
\* before. (A program that disables it over and over is not fed, as it should be.)
ReaderFed ==
    (dmc.bytes > 0 /\ ~dmc.buffer) ~> (dmc.buffer \/ dmc.bytes = 0 \/ dmc.disable # 0)

\* The OAM engine keeps the promise of DmaContract: a byte per put cycle, in
\* order, none twice, all of them before the halted read completes.
Contract == INSTANCE DmaContract WITH
                left    <- IF oam.active THEN OamSize - oam.index ELSE 0,
                stalled <- slot # "none"

OamCopiedBeforeRead == Contract!Spec
=============================================================================
