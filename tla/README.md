# A verification project for CrabNes

CrabNes is a NES and Famicom Disk System emulator in Rust, with a tool-assisted
speedrun (TAS) editor, a rewind, native audio and RetroAchievements. This
directory holds TLA+ models of the parts of it whose correctness depends on
orders of events, the TLC configurations that check them on small instances, and
proofs about seven of them that hold for every value of the constants. The parts are
the console's DMA and frame sequencer, the TAS session, the rewind, the audio
bridge, and achievements from the logic of one achievement up to the window: the
engine, the runtime and the client are the C code of rcheevos that CrabNes carries,
builds and calls, and most of what can go wrong in achievement mode goes wrong in
them. Paths below are relative to the repository's root (`src/` in `PROJECT.json`).

`PROJECT.json` lists the components, the runs, which lines of the source every
definition models (`map`), the hazards of the code with the properties that cover
them, what the checks found, and for every property a *mutant*: a plausible bug in
one definition (`Mutant of X` in the modules) with which the property fails.

## 1. Inventory

### 1.1 The parts of the system

| Part | Source | State | Operations | What is hard |
|---|---|---|---|---|
| DMA arbitration | `nes-core/src/bus.rs`, `apu/channels.rs` (`Dmc`), `controller.rs` | outstanding OAM and DMC transfers, the DMC reader, get/put phase, the pads' shift registers and output enable | CPU slots, `service_dma_stalls`, `clock_hardware_cycle`, register writes | two engines and the CPU interleave cycle by cycle; a fetch can be cancelled from three places; every lost cycle is visible to programs |
| Frame sequencer and lengths | `apu/mod.rs` (`FrameCounter`), `apu/channels.rs` (`LengthCounter`) | cycle, awaited step, delayed `$4017` write, interrupt flag, loads under way | one clock per CPU slot, `$4017`, `$4015`, length registers | a delayed write meets the step it interferes with; the step is found by an equality test |
| CPU and interrupts | `cpu.rs`, `bus.rs` | registers, sampled NMI/IRQ lines | one instruction at a time | which slot of which instruction polls; BRK/NMI hijacking; DMA in between |
| PPU | `ppu.rs` | scroll, vblank and NMI flags, sprite pipeline, frame | dots, `$2000`–`$2007` | reads and writes a dot or two around the vblank edge |
| Tone generators, mixer | `apu/channels.rs`, `apu/mixer.rs` | waveform state | clock, sample | numeric only |
| Boards | `cartridge/*.rs` | banks, serial registers, latches | CPU/PPU reads and writes | out-of-range banks, write filtering |
| Board interrupts | `mmc3.rs`, `mmc5.rs`, `vrc*.rs`, `n163.rs`, `fme7.rs` | counters, latches, acknowledge flags | PPU or CPU clocks, register writes | reload at zero, prescaler carry, disable between two clocks |
| FDS | `cartridge/fds.rs` | disk position, transfer flags, timer | timed transfers, eject and insert | transfer state against program and user |
| Machine facade | `emulator.rs` | everything above | `run_frame`, `save_state`, `load_state`, `reset`, power, cheats | what a snapshot must contain |
| TAS session | `nes-ui/src/tas.rs`, `app/tas_ui.rs` | movie (rows, marks, hashes), mode, cursor, checkpoint cache | record, play, pause, seek, rewind, rerecord, edit, import, reconcile | four copies of the truth (console, rows, cache, hashes) under any order of commands |
| Rewind | `app/rewind.rs`, `app/emulation.rs` | ring, generation, two channels, compressor thread | capture, collect, trim, hold, release, invalidate | results of another thread arrive after the timeline they belong to has gone |
| Audio bridge | `nes-audio-native/native/nes_audio.c`, `src/lib.rs`, `nes-ui/src/audio.rs` | lock-free PCM ring, `callback_primed`, `fade_in_remaining`, device | push, clear; the device callback | two threads and plain fields; start, underrun, restart |
| Play profiles and power | `app/emulation.rs`, `app/mod.rs`, `settings.rs` | profile, power, pause, cheats, console | switch profile, power, reset, load game, load slot | each must undo whatever the others left |
| Achievement logic | `rcheevos/src/rcheevos/`: `value.c`, `memref.c`, `operand.c`, `condition.c`, `condset.c`, `trigger.c`, `lboard.c` | shared memory references, classes of conditions, hit counts, states | parse, update the references, evaluate a frame, reset | the compiled form (shared references, folded sums, class order, early exits) must mean what the definition says |
| Validator of definitions | `rc_validate.c` | list of errors | validate a trigger | reasons about pairs of comparisons and ranges that wrap; used by authors, CrabNes calls it nowhere |
| Achievement runtime, saved progress, rich presence | `runtime.c`, `runtime_progress.c`, `richpresence.c` | achievements, leaderboards and a script over one pool of references | activate, deactivate, frame, reset, save, read back | definitions change between a save and its reading; items are disabled in the middle of a frame |
| Achievement client | `rc_client.c` | user, game, loads in progress, requests, lists, trackers, indicators, scheduled calls | login, logout, load, unload, frame, idle, mode switch, progress, answers | answers late, out of order or lost; loads that overlap; copies that go stale |
| Achievement mode | `nes_ra.c`, `nes-achievements-native/src/lib.rs`, `achievements.rs`, `app/achievements_ui.rs`, `achievement_archive.rs` | event ring of 64, request threads and their queue, token, archive | pump, dispatch, sign in and out, open a ROM, change of mode | the answer of a thread meets another ROM, user or mode than it was asked for |
| Files | `persistence.rs`, `save_states.rs` | slots, battery saves | atomic write, read | a crash between two file operations |
| Parsers | `tas.rs`, `tas_control.rs`, `ines.rs`, `fceux_state.rs`, `cheat.rs` | none | pure conversions | data only |
| Library, settings, windows, video, CLI, vendored code | `library.rs`, `settings.rs`, `app/windows.rs`, `crt.rs`, `nes-cli`, `native/vendor` | – | – | no protocol of their own |

### 1.2 How they interact

One thread, the window's, owns the console and calls it synchronously: a frame of
the emulation loop (`update_emulation`) collects rewind points, takes a capture,
asks the TAS manager for the row, runs the core until the frame is complete and
pushes the samples. Below that, every slot of the CPU on the bus clocks PPU, APU
and board (`clock_hardware_cycle`), samples the interrupt lines and lets the DMA
engines steal cycles: shared state, one order, no queue. Three things run beside
that thread: the audio device's callback (shared memory with atomics only in the
ring), the rewind compressor (two channels), and the achievement requests: the client
asks its host for a request, the bridge queues it, a thread per request carries it out,
and its answer waits in a queue until the window's thread hands it to the client, which
tells what came of it through the event ring. Files are written by the window's thread.

### 1.3 What makes each part correct

- **DMA**: bus and reader always agree on whether a fetch is under way; no sample
  byte is overwritten; the CPU resumes; a stall has the length of the chip at every
  alignment; a program that asks for a page sees it whole before its next read; a
  joypad read consumes the number of bits its timing model promises.
- **Sequencer**: never misses the step it waits for; never clocks units twice; the
  interrupt reaches a polling program; a disabled channel is silent; notes end.
- **TAS**: while nobody interferes, console = replay of the rows before the cursor,
  every checkpoint = replay up to its frame, every hash = that state; read-only
  stays read-only; lost rows are counted; a movie can always be saved; recovery never
  accepts a state the movie contradicts.
- **Rewind**: every point that is in the ring or may still reach it is a strictly
  earlier state of the running console, in order; a step goes back.
- **Audio**: the ring never over- or underruns its indices; the fields both threads
  write are rewritten only when the other cannot run; sound after silence is
  buffered and ramps up; silence ends.
- **Interrupts, PPU, boards, FDS**: an edge is seen once or not at all in exactly the
  documented windows; an acknowledged or disabled counter is silent, an armed one
  fires after its period.
- **Achievement logic**: evaluating the compiled form, frame by frame, is reading the
  definition condition by condition over the history of the memory.
- **Runtime and saves**: what is read back goes on exactly where it was saved, anything
  else starts over; the events of a frame tell what the frame changed.
- **Client and achievement mode**: a load ends once; the latest one is played; what the
  player is shown is what goes on; an unlock is neither lost nor asked for twice;
  hardcore counts nothing from softcore frames; the ROM on the screen is the one that is
  played, for the user whose token is saved.
- **Profiles, files**: a restricted profile has no assist left in any state; a save is
  the old or the new.

## 2. The modules

| Module | Models | Rests on |
|---|---|---|
| `DmcReader` | `struct Dmc`: memory reader and its timer, as operators on a record | – |
| `DmaArbiter` | CPU slots, both DMA engines, port 0; composes the reader with the bus | `DmcReader`, `DmaContract` |
| `DmaContract` | abstract: what `$4014` promises a program | – |
| `DmaArbiter_proofs` | theorems on `DmaArbiter`, the lengths of stalls among them | TLAPS |
| `FrameSequencer` | `FrameCounter` and a `LengthCounter` it clocks | – |
| `FrameSequencer_proofs` | theorems on `FrameSequencer` | TLAPS |
| `TasManager` | `tas.rs`: recorder, row editor, mode switches, checkpoints, reconciliation, as operators | – |
| `TasSession` | `tas_ui.rs` and the frame loop: manager, console and pause switch composed | `TasManager` |
| `TasSession_proofs` | theorems on `TasSession` | TLAPS |
| `RewindPipeline` | capture, channels, compressor, ring, generations | – |
| `RewindPipeline_proofs` | theorems on `RewindPipeline` | TLAPS |
| `AudioRing` | `nes_audio.c`: both threads | – |
| `AudioRing_proofs` | theorems on `AudioRing` | TLAPS |
| `RcMemory` | values, memory references and operands of the achievement logic | – |
| `RcCondset` | a condition, a group of them: parsing into classes, one frame of a group | `RcMemory` |
| `RcTrigger` | achievements, values, leaderboards: one frame of each | `RcCondset` |
| `RcValidate` | the errors the validator reports for a definition | `RcTrigger` |
| `RcLogic` | abstract: what a definition means, without references, classes or early exits | `RcMemory` (arithmetic) |
| `RcEngine` | one achievement from its text to its last frame, against `RcLogic` and the validator | `RcValidate`, `RcLogic` |
| `RcRichPresence`, `RcRuntime`, `RcProgress` | the rich-presence line; the runtime; writing and reading saved progress | each on the one before, on `RcTrigger` |
| `RcSaves` | a game that is played, saved, edited and read back | `RcProgress` |
| `RcSession` | the client: sign-in and loading of games | – |
| `RcSession_proofs` | theorems on `RcSession` | TLAPS |
| `RcAchievements`, `RcLeaderboards`, `RcSubmit` | the client with a game: achievements; leaderboards and trackers; requests that are retried | each on the one before |
| `RcPlay` | a signed-in player, frame after frame, with answers and scheduled calls | `RcSubmit` |
| `RcPlayStates` | the inductive invariant of `RcPlay`, and what its steps change | `RcPlay` |
| `RcPlay_proofs` | theorems on `RcPlay` | `RcPlayStates`, TLAPS |
| `AchievementSession` | windows, manager, threads and bridge around the client | `RcSession` |
| `AchievementSession_proofs` | theorems on `AchievementSession` | `RcSession_proofs`, TLAPS |
| `MC…` | the small instances (`RcSession` needs none) | each its own |

### 2.1 `DmcReader`, `DmaArbiter`, `DmaContract`

**State.** `dmc` is `struct Dmc` without the output level (a byte is in
`sample_buffer` or not); `fetch` and `oam` are `dmc_dma` and `oam_dma` with
`NoFetch`/`NoTransfer` for `None`; `phase` is `cpu_cycles % 2`, which runs in
lockstep with `Apu::cycles` because both advance in `clock_hardware_cycle` only and
are reset together; `pad` is port 0 (clocks since the latch, strobe, `joypad_oe`);
`slot` is the address class of the halted read. `writes` counts write slots since
the last read slot: no instruction has more than `MaxWrites` in a row. `stolen`
observes the present read slot (cycles, gets, pad clocks) and changes nothing.

**Actions.** Every action is one hardware cycle: `clock_hardware_cycle` (the reader's
clock, the abort it may raise, the request it may raise, in that order: `Clocked`)
together with what the cycle does. `Write…` are the write slots, which are never
halted; `CompleteRead` is a read slot without a halt or the end of one; `Halt`,
`DmcGet`, `OamGet`, `OamPut`, `Align` are the cycles of `service_dma_stalls`.
`CancelAborted`, the test at the head of the loop, takes no time. The CPU is free to
read and write anything: the properties hold for every program.

**Abstracted.** Addresses are four classes (the pad, another internal register,
memory, an idle slot). The OAM page is memory. The sample address matters only for
whether its low five bits alias `$4016` (`aliased`, `PadIndices`). The rate is fixed
for a behaviour by `Period` and `MaxRate`; `$4011` and the level are left out.

`DmaContract` has two variables, the bytes of the page not copied yet and whether the
CPU is halted; `DmaArbiter` implements it under `left <- OamSize - oam.index`,
`stalled <- slot # "none"`.

### 2.2 `FrameSequencer`

One step is one slot of the CPU: `Apu::clock_with_expansion` clocks sequencer and
length counter, the interrupt line is sampled, the slot's access (any of `$4017`,
`$4015` read, `$4015` write, length load, halt bit, none) takes effect. `seq` is
`FrameCounter`, `length` is `LengthCounter`, `line` what `irq_pending` returned.
`irq_clear_at`, an absolute clock, is kept as the clocks until then (`irqClearIn`),
`Apu::cycles` as its parity. A console reset builds a new unit, so it is `Init` again.

### 2.3 `TasManager`, `TasSession`

**State.** A console's state *is* its history since power-on: rows, and `Event` for
anything from outside the movie. The core is deterministic, so equality of histories
is equality of states; a SHA-256 is the state itself, `StaleHash` a hash from another
build, and so of no state. `tas` is `TasManager` (mode, mode to resume, movie, cursor, checkpoints,
interval), `nes` the console, `paused` the application's switch. Row and mark numbers
are the code's, from 0.

**Actions.** One user command or one emulated frame with everything its handler does:
`Tick` and `FrameAdvance` check the boundary, reconcile, take the row and run it;
`Seek` rebuilds from the last checkpoint and checks every boundary on the way;
`Rewind` is a seek followed by the truncation of a recording; editor commands
invalidate, pause and, for a row, seek. The selected rows, the clipboard, the buttons
held and the settings are inputs, since the user may change them between any two
commands. `drifts` only bounds exploration.

**Abstracted.** The `.tas` text, foreign formats, cheats and the profiles; a core that
fails while replaying.

### 2.4 `RewindPipeline`

The window's thread (`Tick`, `FrameAdvance`, `HoldStart`, `HoldStep`, `Release`,
`RewindStep`, `CollectPoints` and every command that replaces the machine or clears
the ring), the channel of bounded depth, and the worker (`Receive`, `Compress`).
A machine is its console's past and the frame number the interval is tested on. LZ4
is the identity on machines. With a movie loaded a rewind is a seek, which
`TasSession` has.

### 2.5 `AudioRing`

`PushBegin` (room read once), `PushChunk`* (a commit each), `PushEnd` (start of the
device) are `nes_audio_push`; `ClearStop`, `ClearReset` are `nes_audio_clear`;
`CallBegin` (frames counted once, priming), `CallChunk`*, `CallEnd` (underrun, fade)
are the callback: one action per access of what the threads share. `push` and `call`
are the two program counters. `heard` observes the audible frames since silence. The
device and the atomics of `ma_pcm_rb` are external, as miniaudio documents them.

### 2.6 `RcMemory`, `RcCondset`, `RcTrigger`, `RcLogic`, `RcEngine`

A definition is its tokens: groups of conditions, a condition a flag, two operands, a
comparison and a hit target. Parsing is modelled because it decides the behaviour: it
shares a memory reference between all conditions that name it, folds chains of
AddSource, AddAddress and Remember into references made of references, and sorts the
conditions of a group into classes (pause, reset, hit target, measured, other) that are
evaluated in that order with early exits. `refs` is the pool, `def`
what parsing gave and never changes, `trigger` the state. A frame is `UpdateRefs` (every
reference once, with delta and prior) and then `EvaluateTrigger`, as in `rc_client_do_frame`.

`RcLogic` says what a definition means and has none of this: the value of an operand is
computed from `past`, the memories of all frames so far, and conditions are taken in the
order they are written, the ones a PauseIf ends before the others. `RcEngine`
implements it (`Refines`) under `hits <- trigger.hits` and `phase`, which does not tell
active, primed and paused apart.

**Abstracted.** A byte is `ByteBits` wide and a word four bytes, so that masks, shifts,
bit counts and wraps keep their places. Floating-point sizes and values, the characters
of the text, the callback for custom functions and the two passes that compute the size
of a buffer are left out.

### 2.7 `RcValidate`

The error list that `rc_validate_trigger` makes of a parsed definition, with its limit
and its replacement of the least severe entry, ranges of values in words that wrap, the
tables of comparisons that contradict or imply each other, and the matching of chains.
It looks at the parsed form that the engine runs, so `RcEngine` can hold each verdict
against the frames. The limit is 64 in the code and `MaxErrors` here; the tables are the
code's, by the order of the two values.

### 2.8 `RcRichPresence`, `RcRuntime`, `RcProgress`, `RcSaves`

`rt` is `rc_runtime_t`: achievements and leaderboards by identifier, each with the
checksum of its definition (taken for the definition itself), the script and the one
pool of references they all use. `RcSaves` plays it: `Frame` raises the events of
`rc_runtime_do_frame`; `Save` is the list of chunks; `Load` reads them into whatever
the runtime has become, after an edit of a definition, a removal, an address that the
host turns out not to have, or from a save that was cut short or altered. `mark` is
the runtime at the time of the save and changes nothing; it is what a load is compared with.
Lookup tables are the trees of the code, rebuilt flat, which makes a recursive operator
of them: everything above `RcRichPresence` is for TLC only.

### 2.9 `RcSession`

`client` is the part of `rc_client_t` that signing in and loading use: user state, the
load in progress, the game, the loads waiting for the sign-in, and the requests under
way. Every C function is a function from client to client, and an action is one call of
the host or one answer, all of it: `FetchGameSetsCallback` for instance ends the load,
starts the session request or gives up its place, and calls the host. A load counts how
often it called the host and how often it was released. The game may be unknown to the
server, or (with `SetsMayBeMissing`) known and without a set.

### 2.10 `RcAchievements`, `RcLeaderboards`, `RcSubmit`, `RcPlay`

A game in play. The triggers are reduced to what a frame of `RcTrigger` can make of them
(state, result, measured value), chosen freely each frame; the client's own work is whole:
the pending-event flags and what is raised from them, the lists of running items, mode
switches, resets, trackers shared by leaderboards, the progress indicator and its timer,
requests with their retries, mastery, saved progress, pausing, and the lists made for
the menu. `client.setup` says which game it is and what its host does; `client.host` is
what the events have told the host so far: `Tell` raises an event and the host hears it
before the client goes on, as a callback does. The loops of the code are `After`, a
recursive function over the places of an array; an operator `Op(c, i)` is the body of each.
A server may fail a request before or after it has noted it. Where the C code would use a game that is gone,
`client.fault` says so and the behaviour ends.

### 2.11 `AchievementSession`

`client` is that of `RcSession`; `bridge` the event ring, the queue of requests and the
ROM buffer the client may hash again; `net` the threads and their answers; `app` the mode,
the ROM, the saved token, the archive. `Tick` is a frame of the window: `Pumped` hands
over answers and starts threads, `Handled` acts on everything in the ring, and then the
game runs and may unlock its achievement. It happens in achievement mode only, so
answers and events wait while the mode is left. Both operators are recursive functions
(`after[n]`: the state after `n` answers, after `n` events), as the loops are.

## 3. The runs

Every bound is a named CONSTANT; the longest runs, `achievement_session` and `tas_step`, take
a few minutes with two workers.

| Run | Question | States | Result |
|---|---|---|---|
| `dma_hardware` | Do reader and bus agree, do stalls have the chip's lengths, is the page whole, at every alignment? | 1.5 million | holds |
| `dma_live` | Is every accepted fetch served, does the CPU resume, is the reader fed? | 111 thousand | holds |
| `tas_step` | Which commands can make console, cache and hashes leave the movie, and which bring them back? | 438 thousand | holds |
| `tas_recovery` | Does recovery never accept an unexplained state? | – | violated |
| `audio_ring` | Do the two threads keep out of each other's way, and does sound come back? | 1.9 thousand | holds |
| `rewind_pipeline` | Does no abandoned timeline reach the ring, and every kept one's captures? | 239 thousand | holds |
| `frame_sequencer` | Does the sequencer keep its steps and its interrupt, however it is written? | 47 thousand | holds |
| `rc_engine` | Does the compiled achievement mean its definition, and is what its author is told true, five forms aside? | 102 thousand | holds |
| `rc_saves` | Does reading progress back restore or start over, and nothing between? | 152 thousand | holds |
| `rc_session` | Does every load end once, and the last one win, whatever overlaps? | 467 thousand | holds |
| `rc_play` | Is what is shown what goes on, and does an unlock reach the server once? | 100 thousand | holds |
| `achievement_session` | Does a late answer never act on another ROM, user or mode? | 2.0 million | holds |

### 3.1 What the properties say

- `dma_hardware`: `ReaderAndBusAgree`, `BufferFreeForFetch`, `TransfersStartWithHalt`
  (whenever a snapshot may be taken, an outstanding transfer has not begun),
  `StallsAsOnTheChip` (3–4 cycles for a fetch, `2n+1` or `2n+2` for a page and at most 3
  more per fetch inside; a pad read clocks once, and at most once more per fetch),
  `OamCopiedBeforeRead` (refinement of `DmaContract`).
- `dma_live`: `TransfersEnd`; `ReaderFed` – the reader is fed unless a disable is on its way to
  it. Without that excuse a program that enables and disables it for ever starves it, as a run
  at the highest rate showed.
- `tas_step`: `KeepsAgreement` – if console, cache and stored hashes agree with the movie
  they still do after any command except free play, an import, a reset, a loaded slot, a
  poked byte, an edit of the timeline behind the console's row and one on the line after
  the last row (`EditAtEnd`; section 5, number 2). An edit behind the console parts only the
  console from the rows: the checkpoints and hashes it leaves are those of the new rows,
  which is what the last two conjuncts say; `Recovers` – how agreement comes back (playing from the
  start, a seek, a boundary without a cached checkpoint); `RowsAreKept` – read-only
  playback keeps the movie, and rows are lost only where a rerecord is counted.
- `audio_ring`: `RingIsShared` (room a push has read and frames a callback has counted stay
  valid; the fields are cleared only while no callback runs), `SoundStartsClean`,
  `SoundReturns`.
- `rewind_pipeline`: `RingIsPast`, `RewindGoesBack`; `CapturesArrive` – each capture the
  channel took, named by its generation and its moment, is at last in the ring itself,
  unless it is invalidated or the ring is full of points taken after it.
- `frame_sequencer`: `NeverPastStep`, `DisabledIsSilent`, `NoDoubleClock`,
  `SequencerDelivers`.
- `rc_engine`: `Refines`; `ToldIsSo` – a primed achievement lacks only its Trigger
  conditions, counts do not vanish without a reset being told, the progress shown is
  the count; `VerdictsHold` – what the validator says can never or must always hold,
  conflicts, is redundant, has no effect or leads nowhere does so in every frame, outside
  the five forms `Mistaken` names, for which the code is wrong (section 5, number 3).
  Definitions of these forms are among those of the run. "No hits to reset" and "AddHits
  without a target" are held against the frame with those counts taken away. Remarks on the text alone (sizes, masks,
  pointers, addresses) claim nothing of a frame.
- `rc_saves`: `LoadRestores`; `LoadStartsOver` – states and hit counts of achievements and
  leaderboards, not the memory references or the rich presence; `EventsTellState` – from
  events alone the host knows what is primed and which attempts run.
- `rc_session`: `EndsOnce` – a load is released once, not under a request, and calls its
  host at most once; `LatestIsPlayed` – also that the ping is the played game's; `LoadEnds`.
- `rc_play`: `HostIsTold` – indicators, trackers, progress and the warning of a lost
  connection are those of the client; `ListsAgree`; `UnlocksCountOnce` – not lost, not asked
  for twice, completion announced once and not before; `HardcoreIsFair` – nothing counted in
  softcore, pauses apart; `RetrySent`; `IInv` – what the client keeps more than once
  agrees, which is what the proofs start from. Where they begin with `Ok` they say nothing of the
  two faults of section 5.
- `achievement_session`: `PlaysTheRom`, `TokenIsTheUsers`, `ArchiveIsTrue`, `Settles`.

### 3.2 Bounds, and why they are enough

- **DMA.** `Period = 3`, `BitsPerByte = 3`: a sample byte lasts nine cycles, longer than
  the longest fetch, as 8·54 is in the code, and odd, so that fetches meet both phases.
  `OamSize = 2` has a first and a last byte, so a fetch can fall before, between and
  after. `Lengths = {1, 2}`: the one-byte sample, which the code reschedules, and one
  longer. `MaxWrites = 3` is the longest run of an instruction (an interrupt's pushes).
  `MaxShift = 4` saturates the shift register above what one read can clock.
  `dma_live` uses `Period = 2`, two writes in a row (a read-modify-write instruction) and no
  NTSC conflicts to keep the graph small;
  conflicts touch the pad only.
- **TAS.** Two rows, one blank: enough for a row before, at and after any cursor.
  Intervals 1 and 2: a boundary at every frame, and a frame between boundaries. One
  frame the user marks, from where edits move the mark. One drift: the properties about agreement assume it before the step, or hold
  whatever came before (`PlayRestores`), and a drift leaves a console, a cache or a
  movie that disagree in every combination the bounds allow. `Wrap = 2` counts rerecords by
  parity; a command counts at most once or twice in a row of two. `MaxAge = 2` is the
  longest movie.
- **Rewind.** A ring of one point and a channel of one capture make everything the code
  does at a limit happen at once: drop, trim, invalidate. In a ring of one a capture that
  is trimmed away too early is missed at once (`CapturesArrive`). Two invalidations: a
  capture can be stale by one or by two generations. Three steps of past.
- **Audio.** `Capacity = 6` with `Target = 2`; pushes and periods 1 to 3 are below, at and
  above the target and do not divide the capacity evenly; `FadeFrames = 3` lets a fade
  end inside, at and after a callback.
- **Sequencer.** The first steps stand three to five clocks apart, about the delay of a
  write, and the last ones a single clock apart as on the chip, all with the chip's
  parities: a delayed write can land on, before and after every step. Two length values.

- **Engine.** `ByteBits = 2`: a nibble is one bit and a word eight, so masks, carries and
  wraps happen with small numbers. 230 definitions, of which 108 are the pairs of
  comparisons that the validator's tables distinguish and 12 the forms it misjudges, put every flag, operand kind,
  comparator, pointer form and legacy form together with the ones it interacts with; three
  frames are enough for delta and prior, for a hit target of two, and for a reset after it;
  five memories differ in every byte the definitions read. `MaxErrors = 2` lets the list
  overflow, `MaxAddress = 1` lets an address lie outside.
- **Saves.** Four games, each with the kinds of condition whose restoring differs (counts and
  pauses, measured and trigger, pointers, sums, leaderboards, a script), four frames,
  divided freely between before and after the save, one disturbance of each kind, one
  address that can be lost.
- **Session.** Two ROMs and two sign-ins, three loads: a load that is replaced by another
  while a third waits. One user: `rc_session` is about loads, and `achievement_session` has two.
- **Play.** Twelve games, one for each thing the client does for which order matters (the
  comments of `MCRcPlay` name them), at most two open requests and two loads;
  a pause delay of two frames that grows to six. Values 1 and 2: equal or different.
- **Achievement mode.** Two users, two ROMs, two sign-ins, three loads. A ring of four
  overflows in no behaviour of these bounds; with a ring of one, which overflows, all four
  properties hold too, because signing in and the game itself are read from the client.

### 3.3 Fairness

- `DmaArbiter`: `WF(Read \/ StallLoop)`. Every instruction fetches an opcode, so read
  slots recur, and the stall loop is a loop of the code that nothing suspends. Writes
  need no fairness.
- `FrameSequencer`: `WF(Next)`. The CPU goes through bus slots as long as frames run.
- `RewindPipeline`: the worker thread runs when it has work, and the window is redrawn
  for ever, which collects. No fairness on anything the user does.
- `AudioRing`: the emulation loop pushes every frame, a started device calls back, and a
  start tried again and again succeeds at last (strong fairness on the successful
  start only).
- `RcSession`: `WF(Answer)`. The host reports a transport error as an answer, so every
  request has one.
- `RcPlay`: the emulator keeps calling `do_frame` or `idle` and time passes, so a retry that
  waits becomes due (`WF` of a frame or idle with everything that is due). Nothing is
  assumed of the server or the player.
- `AchievementSession`: the window is drawn again and again, and in achievement mode each
  frame pumps (`FairTick`, weak fairness of `Tick` with its enabling condition written out);
  every thread ends, since requests time out after twenty seconds (`WF(Answer)`).
- `RcEngine` and `RcSaves` have none: every property is about a step.
- `TasSession` has none: its properties are about steps, and it may stop anywhere, so its
  runs do not check for deadlock. Neither do the bounded achievement runs, where the bounds
  themselves end behaviours.

Liveness properties name what excuses them: `SoundReturns` a game that keeps clearing
or a device that keeps disappearing, `SequencerDelivers` a program that restarts the
sequencer for ever.

## 4. What is proved

TLAPS checks eight modules, about 20 500 obligations. The only assumptions are the named
`ASSUME`s on constants, which TLC evaluates in every run, and the four hypotheses that
theorems state (below). Each of the invariants says where a thread, a transfer, a load
or a movie can be; each module proves that the initial states have it, that every action
keeps it, one lemma per action, and that it implies the property.

**`DmaArbiter`**, from `ReaderAssumption` (positive period, bits and lengths) and
`ArbiterAssumption` (a page of at least one byte). `TypeOK`, `ReaderAndBusAgree` and
`BufferFreeForFetch` are not inductive. The invariant adds that a fetch that is not
active is exactly `NoFetch`, that the reader is never busy and pending at once
(`Consistent`, `Agreed`), that an idle transfer is `NoTransfer` and the index stays
inside the page (`TransferShape`), and `TransfersStartWithHalt`. Without
`Consistent`, a request could be taken while the answer to an earlier one is on its
way; without `TransferShape`, `OamPut` could count past the page. The lemmas go
through `ClockTimer`, `AbortRouted` and `RequestTaken` once, and each action then uses
them.

- `TypeCorrect`, `AgreementCorrect`, `NoByteOverwritten`, `NoHalfDoneTransfer`
- `ContractKept`: `Spec => Contract!Spec`, for every page size and whatever the DMC does
  in between: initial states map to initial states, every action to a step of the
  contract or a stutter.

**`FrameSequencer`**, from `SequencerTables` (six increasing positive clocks per mode,
positive lengths): so for all four tables of the code. The invariant is the types, the
position before the awaited step (`Before`), `events.quarter => seq.block = 1` and
`DisabledIsSilent`. The third is what makes `NoDoubleClock` provable: the code's
`block` counter is one exactly after a quarter clock, and both sources of a clock test
it.

- `TypeCorrect`, `SequencerNeverRunsAway`, `DisabledStaysSilent`, `QuarterClocksApart`

**Stalls** (`DmaArbiter_proofs` as well), from the same assumptions and the invariant above.
`StallInv` relates `stolen`, the account of the present stall, to
both engines: a fetch alone has taken the cycles of its stage (`DmcStall`); a transfer
has had its bytes and two cycles per fetch at most (`TransferRuns`), and a countdown to
a disable ends before the transfer does or its fetch is delivered; a fetch that outlives
the transfer costs three cycles at most (`TransferDone`). The countdown
belongs to it because a disable that struck after the transfer would abort the fetch that
outlives it, at a stage where that stall has no length of the chip.

- `StallLengths`: the lengths, in both regions.
- `StallsCorrect`: with the clocks of the pad, under `Ntsc`. The PAL chip repeats the
  halted read in every stolen cycle, so `HardwareDoubleClock` is not about it.

**`TasSession`**, from `TasParameters` and `SessionParameters`. The latter says that the
hash of another build (`StaleHash`) is that of no state. `SessionInv`: the manager is
typed, a paused one has a mode to resume, the movie starts in a state the machine can
load, the first checkpoint is that of frame 0 and without checkpoints the session is at
frame 0 (`Anchored`: otherwise a seek has nothing to start from), hashes lie on the
grid of the interval (`OnGrid`: otherwise a replay passes a hash without a look at it),
and a recording has no checkpoint ahead of the cursor (`Branched`). A seek replays any
number of frames, each of which may store a hash or a checkpoint or reject the state: its
proof takes the least frame at which the claim fails (`LeastElement`) and contradicts it,
since the library's induction theorems take an operator. Every command then has a lemma
that says what it keeps.

- `SessionIsTyped`.
- `AgreementLasts`: `KeepsAgreement`, whatever the length of the movie, the interval,
  the marks and the number of frames a seek covers. It covers the timeline edits: one at or
  after the console's row keeps everything, one behind it keeps checkpoints and hashes. An
  edit has a first row it rewrites and a row it invalidates after, and `EditedStep` says what
  stays true when the second is not behind the first; only for two edits it is, and
  they are excepted by name (`EditAtEnd`; section 5, number 2).
- `DesyncsRecover`: `Recovers`, the three ways back from a desync.
- `RowsOutliveSteps`: `RowsAreKept`, under `Wrap > 1`. A counter with one value counts
  nothing; the code's has 64 bits, and saturates where no session comes.

**`RewindPipeline`**, from `PipelineParameters`. `HistoryInv`: the ring is an increasing
part of the machine's past (`RingInv`); so is what of the queue (results, the capture
being compressed, captures waiting) carries the present generation, and it comes after
the ring (`QueueInv`); nothing in the queue is wanted while rewind is held (`HoldInv`).
`RingIsPast` alone is not inductive: it forgets the machines of the captures that a
generation has made unwanted, and that no later generation may make wanted again.
Collecting is a loop over the results, so `Collected` is a recursive function and what it
keeps is proved along its positions.

- `RewindsReachThePast` (`RingIsPast`) and `RewindsGoBack` (`RewindGoesBack`), both under
  `StepsWhileHeld = FALSE`: that nobody advances a frame while the rewind key is
  held. Without it the code does jump forward (section 5, number 6).

**`AudioRing`**, from `BufferParameters`. The invariant says what each thread may rely on at
each place: the room a push has read is there (`PushFits`), the frames a callback counted
are there (`CallFits`), a stopped device has no callback inside (`StoppedIsOut`), and a
callback that is not primed was silent (`UnprimedIsSilent`). The last two carry
`SoundStartsClean` over a stop and an underrun.

- `SharedWithoutLock` (`RingIsShared`) and `NoClickAfterSilence` (`SoundStartsClean`), for
  every ring, fade, startup buffer and size of pushes and periods.

**`RcSession`**, for any users, games and number of loads and sign-ins. `Played`: the
current load is the newest one and there is no game while there is one; the ping is the
game's. `Ending`: a load has at most one request under way; while it has one it is not
released, and it is the current load or an aborted one; without one the current load
waits for the sign-in. The C functions call one another, so the lemmas follow the
functions, and each says what a function leaves of the load it was given.

- `NewestGameIsPlayed` (`LatestIsPlayed`).
- `LoadsEndOnce` (`EndsOnce`), under `SetsMayBeMissing = FALSE`: a game that is known has
  a set. With `TRUE` the property is false of the code (section 5, number 8).

What a host needs of the client is proved here as well: `Hosted` is the part of the
invariant a host has when no call of its own is inside the client, and a lemma each says
what a login, a load, an unload and an answer leave of it and what they tell the host.

**`AchievementSession`**, from `RingSizeAssumption` alone: a ring of one event at least.
The four actors see each other's state late, so the invariant says what may be under way:

- `Hosted`, of the client, from `RcSession_proofs`.
- `Carried`: every request is in one place only – to be taken, with a thread, or answered –
  and the client waits for it. Without it an answer could reach the client twice.
- `Rom`: the game there is, or the one being loaded, is the ROM of the window, and the
  bridge's buffer holds the ROM of that load. In standard mode there is neither.
- `Token`: between frames the ring holds no sign-in that is still to be handled but failed
  ones whose successor is under way, and the token is that of the user signed in.
- `Unlocks`: an unlock not handled yet was earned in the present game, and nothing that
  the next frame completes can put another in its place. This is what `Archive` needs,
  because the window names the game when it handles the event, not when it was earned.

The client's lemmas are stated in `RcSession_proofs`, whose instance `P` names the same
operators as the instance `Rc` of the model; the `Same…` lemmas say so. `Pumped` and
`Handled` go through any number of answers and events: what holds after `n` of them
(`Pumping`, `Handling`) is proved by the least `n` at which it fails, and that the
recursions are defined at all by one lemma for both (`RunsExists`). A full ring drops its
oldest event. `TokenIsKept` holds for every size of it because a sign-in that ends is the
newest event when it is told, and so the last to go.

- `GameIsTheRom` (`PlaysTheRom`), `TokenIsKept` (`TokenIsTheUsers`), `ArchiveNamesTheGame`
  (`ArchiveIsTrue`).

**`RcPlay`**, from `SetupsAssumption` (achievements and leaderboards of a game are of the
types the loader makes; boards that share a tracker are of one kind), `ValuesAssumption`
and `PauseAssumption` (a delay is positive and decays by a factor of two at least). A
frame runs loops over achievements, leaderboards and trackers and then announces what is
pending, so there are two invariants. `Inv` holds between calls, `Pending` inside one, before
`RaisePendingEvents`: there the host may be behind by exactly what the flags and marks owe
it. `Inv` is a part for each of what the host is told of:

- `AchInv`: an achievement is listed as unlocked exactly when the player has it in this
  mode, the runtime runs the active ones, those that run in hardcore have counted no
  softcore frame, and the challenges shown are the primed ones.
- `BoardInv`: a tracker's count of references is the number of boards that hold it. Without
  it, a tracker could be hidden or given to another board while a board still shows it. A
  tracker with nothing pending is shown exactly when somebody holds it, and shows its value.
- `ProgressInv`: the indicator is up while its hide is scheduled, and only in a game.
- `ServerInv`: a request waits for its retry only after a failure, and then the host has
  been told, or is about to be.
- `PauseInv`: how far the delay has decayed says how many frames the host has counted.
- `ModeInv`: without a game there are no lists.

The loops are folds of an operator over a sequence, of which the library says nothing the
provers can use. `Runs` says that a sequence of states is the run of such a loop, `Step` what
one turn of it may change, and `Climb` takes a claim to the end by the least turn at which it
fails. What a turn does is said of one part of the client alone (`OnlyAch`, `OnlyBoard`,
`OnlyServer`, `OnlyProgress`, `OnlyPause`); `Leaves` says which of the others stay.

- `InvariantHolds` (`IInv`, the invariant `Inv` of the variable), `HostIsAlwaysTold`
  (`HostIsTold`), `ListsAreRight` (`ListsAgree`), `HardcoreStaysFair` (`HardcoreIsFair`).

**Only model-checked.** Every liveness property (`TransfersEnd`, `ReaderFed`,
`CapturesArrive`, `SoundReturns`, `SequencerDelivers`, `LoadEnds`, `RetrySent`, `Settles`):
they need fairness, which is beyond the prover. `UnlocksCountOnce` of
`RcPlay`: it relates requests, server and lists over several loads, which `Inv` does not.
`RcEngine`: what a fold over the conditions computes for every trigger is an
induction the prover has no rule for. `RcSaves`: its modules use RECURSIVE operators
besides, since the tables are trees.

## 5. What the checks found

One disagreement with the repository's own words is a run:

1. *Recovery at a boundary visited before* (`tas_ui.rs:919`). The cached checkpoint, not
   the console, is compared with the replay; a diverged console plays on. Run
   `tas_recovery`; the part `FirstVisitRecovers` of `Recovers` shows that the first visit
   is right.

The following are properties that the modules state, that no run of the list checks, and
that TLC finds violated when a configuration names them; the constants that differ from the
configuration of the module's run are given.

2. *Timeline edit with the end row selected* (`tas_ui.rs:1276`). The edit clamps the range to
   the last row, the invalidation does not: a checkpoint that contradicts the rows survives.
   `EditInvalidates` of `TasSession`.
3. *Verdicts on five forms of definition* (`rc_validate.c`). Of two lower bounds the one that
   is needed is called redundant (`:1079`); a constant on the left has its comparison
   replaced by the opposite instead of the mirror image, so that `2 = a` is reported to conflict
   with `a = 2` (`:932`); two PauseIf in different groups are reported as a conflict (`:1237`);
   a ResetIf or PauseIf behind an AndNext is taken by the opposite of its last comparison
   (`:1223`); the range of an AND or XOR is made of the largest values, which for a number of set
   bits or for decimal digits is too small (`:499`). `EveryVerdictHolds` of
   `RcEngine`, `MaxErrors = 4`, `Texts` the definition `WrongTexts` of `MCRcEngine`, each of whose
   twelve definitions violates it alone; with two-bit bytes decimal digits do not show it.
   The validator is compiled in and called by nothing in CrabNes.
4. *FCEUX joypad model, sample address aliasing `$4016`* (`bus.rs:444`). The fetch drops the
   output enable before it reads the port it aliases, so that read clocks the pad again
   although the model "folds back-to-back cycles on the same port into a single clock"
   (`bus.rs:121`). `CompatSingleClock` of `DmaArbiter`, `FceuxCompat = TRUE`.
5. *Recording over marked rows* (`tas.rs:182`). The marks past the end stay, and the movie is
   then refused by its own writer. `SaveAccepted` of `TasSession`, `MaxAge = 3`,
   `MarkFrames = {0, 1, 2}`, `Intervals` the first one only.
6. *Frame advance while rewind is held* (`rewind.rs:143`). Its capture is newer than the
   points the steps restore, and the game jumps forward. `RewindGoesBack` of
   `RewindPipeline`, `StepsWhileHeld = TRUE`, `RingSize = 2`, `Depth = 2`, `MaxPast = 4`,
   `MaxGeneration = 1`.
7. *`$4017` restart on the clock that raises the inhibited flag* (`apu/mod.rs:447`). The clock
   that would take the flag back never comes. `InhibitedFlagClears` of `FrameSequencer`.
8. *A game without a set* (`rc_client.c`). If the server knows a game and sends no set for it,
   its load is released twice. `ReleasedOnce` of `RcSession`, `SetsMayBeMissing = TRUE`.
9. *An unlock answered after the game is gone* (`rc_client.c`). The award callback and the
   mastery event that may follow read the game through the client, which has none after
   an unload. `NoFault` of `RcPlay`.
10. *Shared trackers of attempts that count hits* (`rc_client.c`). The code says that
    attempts which may have begun in different frames "can't share the tracker", and tests
    whether their values differ when the second one gets its tracker: if they happen to be
    equal the tracker is shared, and shows the value of one attempt for both afterwards.
    `SharedValue` of `RcPlay`.
11. *RECONNECTED* (`rc_client.h:769`: "all pending unlocks have been completed"). It is raised
    when nothing *waits*; a retry may be under way. `ReconnectedIsTrue` of `RcPlay`.
12. *Sums after a load* (`runtime_progress.c:187`: "non-indirect memref values can be
    reconstructed from the parents"). The reconstruction ignores accumulators, so the sum of
    three values comes back wrong for a frame. `SumsAreReconstructed` of `RcSaves`, `Games`
    the definition `MCSumGames`.
13. *The archive loses an unlock* (`achievements_ui.rs`: "Achievements earned here will appear
    in this list"). One that is still in the ring when the player opens another ROM or leaves
    the mode is not archived, or is filed under "Unknown Game". `UnlocksAreArchived` of
    `AchievementSession`.

Also of the validator: the reported index is too small after a chain that did not
match, which is why an error has `at` beside `cond`.

Seen while modelling, and in the models as the code has it: a flag (`has_hits`) that is
not saved, only the first group of a value in a save, the value of a leaderboard not
restored; a failed load of progress re-arms a triggered achievement; a changed definition
that does not parse leaves the old one deactivated; a retry uses the user at that time, and
after a logout it is given up in silence while the warning stays; a load that was aborted
while it waited for the sign-in is never released; reloading while an unlock waits for its
retry re-activates the achievement; switching hardcore off while the reset is awaited
leaves the wait on, and frames are not processed until one comes; a second click on
sign-in clears the saved token until the first answer; in `nes_ra.c` the context of a load
that never calls back is not freed. Outside the models: rewinding a switched-off console
leaves `powered` false over a running machine; stopping a movie gives the per-game cheats
back and rerecording does not take them away again; `atomic_write` removes the old file
before it renames the new.

## 6. Not modelled, and why

Waveforms and mixing, pixels, palettes and filters, instruction arithmetic: data that no
control decision depends on, and that the repository's tests cover. Parsers (`.tas`,
FM2, BK2, iNES, FCEUX state, cheat codes): pure conversions; what they can deliver
enters as inputs (`Import`). Library, settings, windows, command line: no protocol.
Vendored miniaudio: external, `AudioRing` has it as the bridge uses it. Of rcheevos, what
converts (hashes of ROMs and discs, JSON, number formats, console tables, MD5), the
allocator, and what serves other front ends (`rc_libretro.c`, `rc_client_external.c`,
`rc_client_raintegration.c`).

An address invalidated while a frame runs (`rc_client.c:5651`, `5816`) is not in `RcPlay`,
whose addresses are lost at load only. Every reference has answered a read of one byte at load,
and the host answers each read below $10000 in full (`nes_ra.c:75`), so only a reference of
several bytes that reaches across $FFFF fails in a frame. Then the code disables its
achievements and leaderboards and makes anew the list of achievements alone: the list of leaderboards
and a challenge on the screen stay. `HostIsTold` and `ListsAgree` say nothing of such games.

Of the modelled parts of rcheevos: floating-point values; subsets of a game after the first;
spectator mode; change of media and libraries of hashes; fetches that only show something
(images, entries of a leaderboard, summaries of users); progress as a percentage of the
runtime (the client's is there); formats of texts; failed allocations. Callbacks of
`rc_client` that answer inside the call that made the request do not exist in CrabNes,
whose bridge always queues.

The other parts without a module – CPU and interrupts, PPU, boards, FDS, profiles and
files – are in the plan. They were put behind the achievement client because the
latter is where several actors meet; they are the largest gap of this project, and the
hazards they have are listed without a property.

## 7. Plan

Proofs, next:

1. **`RewindPipeline`** as an implementation of an abstract timeline (append, go back).
2. **`AudioRing`** as an implementation of a bounded FIFO.
3. **`RcPlay`** – `UnlocksCountOnce`, from `Inv` and what an unlock owed to the server says of
   the list it came from.

`TypeOK` of `FrameSequencer`, `TasSession`, `AudioRing`, `RewindPipeline` and `RcEngine` is in
no run's list; all but the last are proved, or parts of the invariants proved.

Modelling that is left, in order of what the system would lose if they were wrong:

1. **`CpuInterrupts`** – the poll slot of each class of instruction, the NMI latch, IRQ
   sampling, delayed I flag, branches, BRK hijacking; the line of `FrameSequencer` and
   the stalls of `DmaArbiter` as its environment. *No edge is lost or served twice; an
   acknowledged IRQ is not served.* Abstract: a device that asks and is answered once.
2. **`PpuStatus`** – the vblank edge, `$2002` and `$2000` around it, the NMI output, the
   warm-up lock. *At most one NMI per rising output; the flag is read at most once.*
3. **`PlaySession`** – profiles, cheats, power, reset, loading, with the movie and the ring
   as clients. *A restricted profile has no assist, reached from any state.*
5. **`MapperIrq`** – the counters of MMC3, VRC, FME-7, N163 and MMC5 against one abstract
   specification: armed, it fires after its period; disabled or acknowledged, silent.
6. **`MapperBanks`** – MMC1's serial port, MMC2's latches, bank windows inside the image.
7. **`AtomicFile`** – a write as its file operations with a crash between any two.
8. **`FdsDrive`** – transfer, timer, eject and insert.
