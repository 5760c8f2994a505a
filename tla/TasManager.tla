------------------------------ MODULE TasManager ------------------------------
(***************************************************************************)
(* The movie and its manager (crates/nes-ui/src/tas.rs) as operators: the   *)
(* recorder, the row editor, the mode switches, the checkpoints and the     *)
(* reconciliation of a checkpoint whose hash does not match.                *)
(*                                                                         *)
(* A machine state is the sequence of everything that happened to the       *)
(* console since power-on: the core is deterministic, so two states are     *)
(* equal exactly when their histories are.  A SHA-256 of a state is that    *)
(* state, or StaleHash for a hash no state of this build has.               *)
(*                                                                         *)
(* A movie is a record: its rows, the marked frames, the stored hashes by   *)
(* frame, the state it starts from and its rerecord count modulo Wrap.  The *)
(* manager record holds the mode pair, the movie, the next frame to execute *)
(* and the cached checkpoints, a function from frames to machine states, and *)
(* the interval at which they are taken.                                   *)
(***************************************************************************)
EXTENDS Integers, Sequences

CONSTANTS
    Inputs,        \* controller rows (the two masks of one frame)
    Blank,         \* the row with no button held
    Intervals,     \* the checkpoint intervals the settings may ask for
    StaleHash,     \* a stored hash that names no machine state
    Wrap           \* the rerecord counter is kept modulo Wrap

ASSUME TasParameters ==
    /\ Blank \in Inputs
    /\ Intervals \subseteq Nat \ {0}
    /\ Wrap \in Nat \ {0}

EmptyMap == [f \in {} |-> <<>>]

NoMovie == [frames |-> <<>>, marks |-> {}, sums |-> EmptyMap,
            start |-> StaleHash, rerecords |-> 0]

Modes == {"Inactive", "Recording", "Playback", "Paused", "ReadOnly"}

Lesser(a, b) == IF a < b THEN a ELSE b
Greater(a, b) == IF a < b THEN b ELSE a

\* retain(|frame| frame <= last) on a map keyed by frame.
UpTo(map, last) == [f \in {g \in DOMAIN map : g <= last} |-> map[f]]

WithEntry(map, frame, value) ==
    [f \in DOMAIN map \cup {frame} |-> IF f = frame THEN value ELSE map[f]]

Take(rows, n) == SubSeq(rows, 1, Lesser(n, Len(rows)))
Drop(rows, n) == SubSeq(rows, n + 1, Len(rows))

\* The console after the first n rows of a movie.
Replay(movie, n) == movie.start \o Take(movie.frames, n)

---------------------------------------------------------------------------
(* TasRecorder and TasEditor. *)

Counted(movie) == [movie EXCEPT !.rerecords = (@ + 1) % Wrap]

ChangedFrom(movie, frame) ==
    Counted([movie EXCEPT !.sums = UpTo(@, frame)])

Record(movie, cursor, input) ==
    IF cursor < Len(movie.frames)
    THEN ChangedFrom([movie EXCEPT !.frames = Append(Take(@, cursor), input)],
                     cursor)
    ELSE [movie EXCEPT !.frames = Append(@, input)]

SetFrame(movie, frame, input) ==
    ChangedFrom([movie EXCEPT !.frames[frame + 1] = input], frame)

Insert(movie, frame, rows) ==
    ChangedFrom(
        [movie EXCEPT
            !.frames = Take(@, frame) \o rows \o Drop(@, frame),
            !.marks = {IF k >= frame THEN k + Len(rows) ELSE k : k \in @}],
        frame)

\* Both ends are clamped to the last row before they are put in order.
Clamp(movie, frame) == Lesser(frame, Len(movie.frames) - 1)
FirstRow(movie, a, b) == Lesser(Clamp(movie, a), Clamp(movie, b))
LastRow(movie, a, b) == Greater(Clamp(movie, a), Clamp(movie, b))

Delete(movie, a, b) ==
    LET first == FirstRow(movie, a, b)
        last == LastRow(movie, a, b)
    IN ChangedFrom(
           [movie EXCEPT
               !.frames = Take(@, first) \o Drop(@, last + 1),
               !.marks = {IF k > last THEN k - (last - first + 1) ELSE k :
                              k \in @ \ (first .. last)}],
           first)

Fill(movie, a, b, input) ==
    LET first == FirstRow(movie, a, b)
        last == LastRow(movie, a, b)
    IN ChangedFrom(
           [movie EXCEPT !.frames =
               [r \in DOMAIN @ |-> IF r - 1 \in first .. last THEN input ELSE @[r]]],
           first)

\* The movie grows by blank rows when the pasted ones reach past its end.
PasteOverwrite(movie, frame, rows) ==
    ChangedFrom(
        [movie EXCEPT !.frames =
            Take(@, frame) \o rows
                \o (IF Len(@) > frame + Len(rows)
                    THEN Drop(@, frame + Len(rows)) ELSE <<>>)],
        frame)

---------------------------------------------------------------------------
(* TasManager: mode switches. *)

NoManager(interval) ==
    [mode |-> "Inactive", resume |-> "Inactive", movie |-> NoMovie,
     cursor |-> 0, points |-> EmptyMap, interval |-> interval]

HasMovie(tas) == tas.movie # NoMovie
Rows(tas) == Len(tas.movie.frames)

EffectiveMode(tas) == IF tas.mode = "Paused" THEN tas.resume ELSE tas.mode
ReadOnly(tas) == EffectiveMode(tas) = "ReadOnly"
RecordingContext(tas) == EffectiveMode(tas) = "Recording"

StartNewMovie(tas, start) ==
    [tas EXCEPT !.mode = "Recording", !.resume = "Recording",
                !.movie = [NoMovie EXCEPT !.start = start,
                                          !.sums = WithEntry(EmptyMap, 0, start)],
                !.cursor = 0, !.points = WithEntry(EmptyMap, 0, start)]

InstallMovie(tas, movie) == [NoManager(tas.interval) EXCEPT !.movie = movie]

StartPlayback(tas, readOnly) ==
    LET m == IF readOnly THEN "ReadOnly" ELSE "Playback"
    IN [tas EXCEPT !.cursor = 0, !.mode = m, !.resume = m]

Stop(tas) == [tas EXCEPT !.mode = "Inactive", !.resume = "Inactive"]

Pause(tas) ==
    IF tas.mode \in {"Recording", "Playback", "ReadOnly"}
    THEN [tas EXCEPT !.resume = tas.mode, !.mode = "Paused"]
    ELSE tas

Resume(tas) == IF tas.mode = "Paused" THEN [tas EXCEPT !.mode = tas.resume] ELSE tas

InvalidateAfter(tas, frame) ==
    [tas EXCEPT !.points = UpTo(@, frame), !.movie.sums = UpTo(@, frame)]

\* Mutant of CanRerecord: read-only playback may be recorded over.
CanRerecordReadOnly(tas) == HasMovie(tas) /\ tas.cursor <= Rows(tas)

CanRerecord(tas) == ~ReadOnly(tas) /\ HasMovie(tas) /\ tas.cursor <= Rows(tas)

ResumeRecording(tas) ==
    InvalidateAfter([tas EXCEPT !.mode = "Recording", !.resume = "Recording"],
                    tas.cursor)

\* Pause at a frame to preview rows: never in recording mode.
PausedForPreview(tas, frame) ==
    [tas EXCEPT !.cursor = frame, !.mode = "Paused",
                !.resume = IF ReadOnly(tas) THEN "ReadOnly" ELSE "Playback"]

\* A rerecord branch at a frame the machine has just been rewound to.
TruncateRecordingAt(tas, frame) ==
    LET at == Lesser(frame, Rows(tas))
        moved == [tas EXCEPT !.cursor = at, !.mode = "Paused",
                             !.resume = "Recording"]
        cut == ChangedFrom([tas.movie EXCEPT !.frames = Take(@, at),
                                             !.marks = {k \in @ : k < at}],
                           at)
    IN IF Rows(tas) = at
       THEN moved
       ELSE [moved EXCEPT !.movie = cut, !.points = UpTo(@, at)]

\* prepare_frame_advance: the manager to step with, and whether to step.
PrepareFrameAdvance(tas) ==
    IF ~HasMovie(tas) THEN [tas |-> tas, go |-> TRUE]
    ELSE IF tas.cursor < Rows(tas)
    THEN [tas |-> IF tas.mode = "Inactive" THEN PausedForPreview(tas, tas.cursor)
                  ELSE tas,
          go |-> TRUE]
    ELSE IF ReadOnly(tas) THEN [tas |-> tas, go |-> FALSE]
    ELSE IF RecordingContext(tas) THEN [tas |-> tas, go |-> TRUE]
    ELSE IF CanRerecord(tas) THEN [tas |-> ResumeRecording(tas), go |-> TRUE]
    ELSE [tas |-> tas, go |-> FALSE]

\* input_for_frame: the row to execute (none once playback is past its end) and
\* the manager after it.
InputForFrame(tas, live) ==
    CASE EffectiveMode(tas) = "Inactive" -> [row |-> {live}, tas |-> tas]
      [] EffectiveMode(tas) = "Recording" ->
            [row |-> {live},
             tas |-> [tas EXCEPT !.movie = Record(@, tas.cursor, live),
                                 !.cursor = @ + 1]]
      [] OTHER ->
            IF tas.cursor < Rows(tas)
            THEN [row |-> {tas.movie.frames[tas.cursor + 1]},
                  tas |-> [tas EXCEPT !.cursor = @ + 1]]
            ELSE [row |-> {}, tas |-> tas]

---------------------------------------------------------------------------
(* Checkpoints. *)

\* maybe_checkpoint, on a frame that is a multiple of the interval: whether the hash
\* stored for the frame differs from the machine's, and the manager after it.  A
\* checkpoint the frame already has is kept.
Mismatch(tas, frame, nes) ==
    /\ EffectiveMode(tas) # "Recording"
    /\ frame \in DOMAIN tas.movie.sums
    /\ tas.movie.sums[frame] # nes

\* Mutant of MaybeCheckpoint: the hash is filed under the row about to follow.
MaybeCheckpointNext(tas, frame, nes) ==
    LET hashed == IF HasMovie(tas) /\ EffectiveMode(tas) = "Recording"
                  THEN [tas EXCEPT !.movie.sums = WithEntry(@, frame + 1, nes)]
                  ELSE tas
    IN IF frame \in DOMAIN tas.points
       THEN hashed
       ELSE [hashed EXCEPT !.points = WithEntry(@, frame, nes)]

MaybeCheckpoint(tas, frame, nes) ==
    LET hashed == IF HasMovie(tas) /\ EffectiveMode(tas) = "Recording"
                  THEN [tas EXCEPT !.movie.sums = WithEntry(@, frame, nes)]
                  ELSE tas
    IN IF frame \in DOMAIN tas.points
       THEN hashed
       ELSE [hashed EXCEPT !.points = WithEntry(@, frame, nes)]

\* checkpoint_at_or_before: the last cached frame not after the target.
PointsBy(tas, target) == {f \in DOMAIN tas.points : f <= target}
PointAtOrBefore(tas, target) ==
    CHOOSE f \in PointsBy(tas, target) : \A g \in PointsBy(tas, target) : g <= f

\* Mutant of ReconcileCheckpoint: the replayed state is cached but not loaded.
ReconcileWithoutLoad(tas, nes, frame) ==
    LET earlier == PointsBy(tas, frame - 1)
        previous == PointAtOrBefore(tas, frame - 1)
        current == tas.points[frame]
        verified == tas.points[previous]
                        \o SubSeq(tas.movie.frames, previous + 1, frame)
        stay(verdict) == [tas |-> tas, nes |-> nes, verdict |-> verdict]
    IN IF earlier = {} \/ frame > Rows(tas)
       THEN stay("Unrecoverable")
       ELSE IF current = verified
       THEN [tas |-> [tas EXCEPT !.movie.sums = WithEntry(@, frame, current)],
             nes |-> nes, verdict |-> "RefreshedChecksum"]
       ELSE IF verified = tas.movie.sums[frame]
       THEN [tas |-> [tas EXCEPT !.points = WithEntry(@, frame, verified)],
             nes |-> nes, verdict |-> "Resynchronized"]
       ELSE stay("Unrecoverable")

\* reconcile_tas_checkpoint replays from the checkpoint before the frame and
\* compares with the checkpoint the cache holds for the frame.
ReconcileCheckpoint(tas, nes, frame) ==
    LET earlier == PointsBy(tas, frame - 1)
        previous == PointAtOrBefore(tas, frame - 1)
        current == tas.points[frame]
        verified == tas.points[previous]
                        \o SubSeq(tas.movie.frames, previous + 1, frame)
        stay(verdict) == [tas |-> tas, nes |-> nes, verdict |-> verdict]
    IN IF earlier = {} \/ frame > Rows(tas)
       THEN stay("Unrecoverable")
       ELSE IF current = verified
       THEN [tas |-> [tas EXCEPT !.movie.sums = WithEntry(@, frame, current)],
             nes |-> nes, verdict |-> "RefreshedChecksum"]
       ELSE IF verified = tas.movie.sums[frame]
       THEN [tas |-> [tas EXCEPT !.points = WithEntry(@, frame, verified)],
             nes |-> verified, verdict |-> "Resynchronized"]
       ELSE stay("Unrecoverable")

\* A checkpoint taken and, on a mismatch, reconciled.
CheckFrame(tas, nes, frame) ==
    IF frame % tas.interval # 0
    THEN [tas |-> tas, nes |-> nes, verdict |-> "Unchecked"]
    ELSE IF Mismatch(tas, frame, nes)
    THEN ReconcileCheckpoint(MaybeCheckpoint(tas, frame, nes), nes, frame)
    ELSE [tas |-> MaybeCheckpoint(tas, frame, nes), nes |-> nes,
          verdict |-> "Matched"]
=============================================================================
