------------------------------ MODULE TasSession ------------------------------
(***************************************************************************)
(* A TAS session (crates/nes-ui/src/app/tas_ui.rs, emulation.rs, rewind.rs): *)
(* the manager of TasManager, the console it drives and the pause switch of *)
(* the application.  One action is one user command or one emulated frame,   *)
(* with everything its handler does.                                        *)
(*                                                                         *)
(* The user's free choices are inputs of the actions: the selected rows      *)
(* (which the editor lets range over 0..len at any time), the clipboard and  *)
(* the controller.  The core reports no error from run_frame and load_state  *)
(* accepts its own states.  The profile is Standard throughout and the       *)
(* console is on; cheats are not part of this module.                       *)
(***************************************************************************)
EXTENDS TasManager

CONSTANTS
    Event,       \* something outside the movie happens to the console
    MaxRows,     \* bound: the rows of a movie
    MaxAge,      \* bound: the length of a console history
    MarkFrames,  \* bound: the frames the user marks
    MaxDrifts,   \* bound: imports, timeline edits and outside events
    Clips        \* the row sequences the clipboard may hold

ASSUME SessionParameters ==
    /\ MaxRows \in Nat \ {0}
    /\ MaxAge \in Nat /\ MarkFrames \subseteq Nat /\ MaxDrifts \in Nat
    /\ Clips \subseteq Seq(Inputs) \ {<<>>}
    /\ Event \notin Inputs
    /\ StaleHash \notin Seq(Inputs \cup {Event})

VARIABLES
    tas,       \* TasManager
    nes,       \* the console: its history since power-on
    paused,    \* App.paused
    drifts     \* how often the session drifted: only bounds the exploration

vars == <<tas, nes, paused, drifts>>

Movie == tas.movie

Init ==
    /\ tas \in {NoManager(i) : i \in Intervals}
    /\ nes = <<>>
    /\ paused = FALSE
    /\ drifts = 0

---------------------------------------------------------------------------
(* One emulated frame. *)

\* run_one_frame with manager m: check the machine against the movie, take the
\* row, run it.  A hash neither run reproduces pauses the session before the row
\* runs; a movie that is over stops the TAS, and pauses if the setting says so.
RunOneFrame(m, live, wasPaused) ==
    LET check == IF m.mode = "Inactive"
                 THEN [tas |-> m, nes |-> nes, verdict |-> "Unchecked"]
                 ELSE CheckFrame(m, nes, m.cursor)
        step == InputForFrame(check.tas, live)
    IN IF check.verdict = "Unrecoverable"
       THEN /\ tas' = Pause(check.tas)
            /\ nes' = check.nes
            /\ paused' = TRUE
       ELSE IF step.row = {}
       THEN /\ tas' = Stop(step.tas)
            /\ nes' = check.nes
            /\ \E pauseWhenPlaybackEnds \in BOOLEAN :
                   paused' = (wasPaused \/ pauseWhenPlaybackEnds)
       ELSE /\ tas' = step.tas
            /\ \E row \in step.row : nes' = Append(check.nes, row)
            /\ paused' = wasPaused

HasRoom(m) == Len(nes) < MaxAge /\ (RecordingContext(m) => m.cursor < MaxRows)

Tick ==
    /\ ~paused
    /\ HasRoom(tas)
    /\ \E live \in Inputs : RunOneFrame(tas, live, FALSE)

\* advance_frame: existing rows are previewed, the end row is recorded.
FrameAdvance ==
    LET prepared == PrepareFrameAdvance(tas)
    IN /\ HasRoom(prepared.tas)
       /\ IF prepared.go
          THEN \E live \in Inputs : RunOneFrame(Pause(prepared.tas), live, TRUE)
          ELSE paused' = TRUE /\ UNCHANGED <<tas, nes>>

TogglePause ==
    /\ paused' = ~paused
    /\ tas' = IF paused THEN Resume(tas) ELSE Pause(tas)
    /\ UNCHANGED nes

---------------------------------------------------------------------------
(* Starting, stopping and loading movies. *)

\* new_tas_movie: a fresh console, or the current one after a reset or as it is.
NewMovie ==
    \E start \in {<<>>, Append(nes, Event), nes} :
        /\ Len(start) < MaxAge
        /\ nes' = start
        /\ tas' = StartNewMovie(tas, start)
        /\ paused' = FALSE

\* restore_tas_start and start_tas_playback: the cache is rebuilt from frame 0,
\* and a hash stored for frame 0 is replaced by the one of the state restored.
PlayFromStart ==
    /\ HasMovie(tas)
    /\ \E readOnly \in BOOLEAN :
           LET start == Movie.start
               playing == [StartPlayback(tas, readOnly) EXCEPT
                              !.points = WithEntry(EmptyMap, 0, start)]
           IN tas' = IF Mismatch(playing, 0, start)
                     THEN [playing EXCEPT !.movie.sums = WithEntry(@, 0, start)]
                     ELSE playing
    /\ nes' = Movie.start
    /\ paused' = FALSE

StopTas ==
    /\ tas.mode # "Inactive"
    /\ tas' = Stop(tas)
    /\ UNCHANGED <<nes, paused>>

\* validate_movie, the test both the writer and the reader of .tas files apply.
Valid(movie) ==
    /\ \A k \in movie.marks : k <= Len(movie.frames)
    /\ \A f \in DOMAIN movie.sums : f <= Len(movie.frames)

\* import_tas: a power-on movie written earlier.  Its hashes are all those of
\* this build, all those of another build, or absent; the console is left as it is.
Import ==
    \E rows \in UNION {[1 .. n -> Inputs] : n \in 0 .. MaxRows} :
        LET movie == [NoMovie EXCEPT !.start = <<>>, !.frames = rows]
            checked == {f \in 0 .. Len(rows) : f % tas.interval = 0}
        IN /\ \E sums \in {EmptyMap,
                           [f \in checked |-> Replay(movie, f)],
                           [f \in checked |-> StaleHash]} :
                  tas' = InstallMovie(tas, [movie EXCEPT !.sums = sums])
           /\ UNCHANGED <<nes, paused>>

---------------------------------------------------------------------------
(* Seeking, rewinding and rerecording. *)

\* seek_tas, once the cache holds a base: replay from the last checkpoint,
\* checking every boundary reached; an irreconcilable one ends the replay there.
SeekFrom(m, target) ==
    LET base == PointAtOrBefore(m, target)
        run[k \in base .. target] ==
            IF k = base
            THEN [tas |-> m, nes |-> m.points[base], verdict |-> "Matched"]
            ELSE IF run[k - 1].verdict = "Unrecoverable"
            THEN run[k - 1]
            ELSE CheckFrame(run[k - 1].tas,
                            Append(run[k - 1].nes, m.movie.frames[k]), k)
    IN run[target]

\* The manager and console after a seek, and whether it arrived.
SeekTo(m, frame) ==
    LET target == Lesser(frame, Rows(m))
        based == IF DOMAIN m.points = {}
                 THEN [m EXCEPT !.points = WithEntry(EmptyMap, 0, m.movie.start)]
                 ELSE m
        end == SeekFrom(based, target)
    IN IF end.verdict = "Unrecoverable"
       THEN [tas |-> Pause(end.tas), nes |-> end.nes, arrived |-> FALSE]
       ELSE [tas |-> PausedForPreview(end.tas, target), nes |-> end.nes,
             arrived |-> TRUE]

Seek ==
    /\ HasMovie(tas)
    /\ \E target \in 0 .. Rows(tas) :
           LET sought == SeekTo(tas, target)
           IN /\ tas' = sought.tas
              /\ nes' = sought.nes
    /\ paused' = TRUE

\* rewind_tas_one_frame: a recording drops the row rewound over and its future.
\* A click leaves the game paused; Backspace pauses it, takes a step for every
\* interval it is down, and on release lets a game that ran run on, without
\* TasManager::resume.
Rewind ==
    LET target == tas.cursor - 1
        sought == SeekTo(tas, target)
    IN /\ HasMovie(tas)
       /\ tas.cursor > 0
       /\ nes' = sought.nes
       /\ tas' = IF sought.arrived /\ RecordingContext(tas) /\ CanRerecord(sought.tas)
                 THEN TruncateRecordingAt(ResumeRecording(sought.tas), target)
                 ELSE sought.tas
       /\ paused' \in {TRUE, paused}

\* "Rerecord from here".
Rerecord ==
    /\ CanRerecord(tas)
    /\ tas' = ResumeRecording(tas)
    /\ paused' = FALSE
    /\ UNCHANGED nes

---------------------------------------------------------------------------
(* Editing. *)

\* The row editor: the row is written, the future invalidated, and the console
\* taken to the row if it was elsewhere.
EditRow ==
    /\ HasMovie(tas) /\ ~ReadOnly(tas)
    /\ \E frame \in 0 .. Rows(tas) - 1 : \E input \in Inputs :
           /\ input # Movie.frames[frame + 1]
           /\ LET written == Pause([tas EXCEPT !.movie = SetFrame(@, frame, input)])
                  here == tas.cursor = frame
                  shown == IF here THEN PausedForPreview(written, frame) ELSE written
                  edited == InvalidateAfter(shown, frame)
                  sought == SeekTo(edited, frame)
              IN /\ tas' = IF here THEN edited ELSE sought.tas
                 /\ nes' = IF here THEN nes ELSE sought.nes
    /\ paused' = TRUE

\* The end row only arms the buttons held for the frames to come.
HoldInput ==
    /\ HasMovie(tas) /\ ~ReadOnly(tas)
    /\ paused' = TRUE
    /\ tas' = Pause(tas)
    /\ UNCHANGED nes

\* A timeline action that changed the movie: checkpoints after the first selected
\* row go, the session pauses and the console stays where it is.
Edited(movie, changedFrame) ==
    /\ Len(movie.frames) <= MaxRows
    /\ tas' = Pause(InvalidateAfter([tas EXCEPT !.movie = movie], changedFrame))
    /\ paused' = TRUE
    /\ UNCHANGED nes

InsertBlank(a, b) == Edited(Insert(Movie, a, <<Blank>>), Lesser(a, b))

Duplicate(a, b) ==
    /\ a < Rows(tas)
    /\ Edited(Insert(Movie, a + 1, <<Movie.frames[a + 1]>>), Lesser(a, b))

DeleteRange(a, b) ==
    /\ Rows(tas) > 0
    /\ Edited(Delete(Movie, a, b), Lesser(a, b))

FillRange(a, b) ==
    /\ a < Rows(tas)
    /\ Edited(Fill(Movie, a, b, Movie.frames[a + 1]), Lesser(a, b))

ClearRange(a, b) ==
    /\ Rows(tas) > 0
    /\ Edited(Fill(Movie, a, b, Blank), Lesser(a, b))

PasteAt(a) ==
    \E rows \in Clips :
        \/ Edited(Insert(Movie, a, rows), a)
        \/ Edited(PasteOverwrite(Movie, a, rows), a)

\* The actions of a selection from row a to row b; pasting looks at its first row.
Timeline(a, b) ==
    \/ InsertBlank(a, b)
    \/ Duplicate(a, b)
    \/ DeleteRange(a, b)
    \/ FillRange(a, b)
    \/ ClearRange(a, b)
    \/ a = b /\ PasteAt(a)

EditTimeline ==
    /\ HasMovie(tas) /\ ~ReadOnly(tas)
    /\ \E a, b \in 0 .. Rows(tas) : Timeline(a, b)

ToggleMark ==
    /\ HasMovie(tas) /\ ~ReadOnly(tas)
    /\ \E frame \in 0 .. Rows(tas) :
           /\ frame \in Movie.marks \cup MarkFrames
           /\ tas' = [tas EXCEPT !.movie.marks =
                      IF frame \in @ THEN @ \ {frame} ELSE @ \cup {frame}]
    /\ UNCHANGED <<nes, paused>>

---------------------------------------------------------------------------
(* What reaches the console from outside the movie. *)

\* reset, or quick_load of a slot: both stop the TAS; a load pauses.
ReplaceConsole ==
    /\ Len(nes) < MaxAge
    /\ \/ nes' = Append(nes, Event) /\ paused' = FALSE
       \/ nes' = <<Event>> /\ paused' = TRUE
    /\ tas' = Stop(tas)

\* A byte written in the hex editor.
PokeMemory ==
    /\ Len(nes) < MaxAge
    /\ nes' = Append(nes, Event)
    /\ UNCHANGED <<tas, paused>>

\* The commands that may let console and movie part.
Outside ==
    \/ Import
    \/ EditTimeline
    \/ ReplaceConsole
    \/ PokeMemory

Next ==
    \/ /\ \/ Tick
          \/ FrameAdvance
          \/ TogglePause
          \/ NewMovie
          \/ PlayFromStart
          \/ StopTas
          \/ Seek
          \/ Rewind
          \/ Rerecord
          \/ EditRow
          \/ HoldInput
          \/ ToggleMark
       /\ UNCHANGED drifts
    \/ /\ drifts < MaxDrifts
       /\ Outside
       /\ drifts' = drifts + 1

Spec == Init /\ [][Next]_vars

---------------------------------------------------------------------------
(* Properties. *)

Histories == Seq(Inputs \cup {Event})

IsMap(map, values) == DOMAIN map \subseteq Nat /\ \A f \in DOMAIN map : map[f] \in values

\* The types of the session's state; the manager is never Paused to resume Paused.
TypeOK ==
    /\ tas.mode \in Modes
    /\ tas.resume \in Modes \ {"Paused"}
    /\ tas.mode = "Paused" => tas.resume # "Inactive"
    /\ tas.cursor \in Nat
    /\ tas.interval \in Intervals
    /\ IsMap(tas.points, Histories)
    /\ Movie.frames \in Seq(Inputs)
    /\ Movie.marks \subseteq Nat
    /\ IsMap(Movie.sums, Histories \cup {StaleHash})
    /\ Movie.start \in Histories \cup {StaleHash}
    /\ Movie.rerecords \in 0 .. Wrap - 1
    /\ nes \in Histories
    /\ paused \in BOOLEAN
    /\ drifts \in 0 .. MaxDrifts

\* The console is where the movie says: it has executed the rows before the cursor.
InStep ==
    HasMovie(tas) => /\ tas.cursor <= Rows(tas)
                     /\ nes = Replay(Movie, tas.cursor)

\* Every cached checkpoint is the state the movie reaches at its frame.
PointsTrue ==
    \A f \in DOMAIN tas.points :
        f <= Rows(tas) /\ tas.points[f] = Replay(Movie, f)

\* Every stored hash is that of the state the movie reaches at its frame.
SumsTrue ==
    \A f \in DOMAIN Movie.sums :
        f <= Rows(tas) /\ Movie.sums[f] = Replay(Movie, f)

Sound == InStep /\ PointsTrue

\* Rows edited behind a console that has executed them: it stays where it is.
EditBehind ==
    /\ HasMovie(tas) /\ ~ReadOnly(tas)
    /\ \E a, b \in 0 .. Rows(tas) : Lesser(a, b) < tas.cursor /\ Timeline(a, b)

\* The selection on the line after the last row: deleting and clearing take it for
\* the last row, which may be the one the console or a checkpoint has executed,
\* and invalidating does not.
EditAtEnd ==
    /\ HasMovie(tas) /\ ~ReadOnly(tas)
    /\ \/ DeleteRange(Rows(tas), Rows(tas))
       \/ ClearRange(Rows(tas), Rows(tas))

\* The steps that let console and movie part: play outside the movie, a reset, a
\* loaded slot, a poked byte, another movie, rows edited behind the console, and
\* the two edits that EditInvalidates is violated by.
Drift ==
    \/ Tick /\ tas.mode = "Inactive"
    \/ FrameAdvance /\ ~HasMovie(tas)
    \/ Import \/ ReplaceConsole \/ PokeMemory
    \/ EditBehind \/ EditAtEnd

\* Only these break the agreement: recording, playing, frame advance, pausing,
\* seeking, rewinding, rerecording, editing rows and editing the timeline at or
\* after the console's row, in any order, keep a console and a checkpoint cache
\* that agree with the movie in agreement, and with them the hashes stored for the
\* file.  An edit of the timeline behind the console parts only the console from
\* the rows: of the checkpoints and hashes it leaves those the new rows still lead
\* to.
KeepsAgreement ==
    [][/\ Sound => Sound' \/ Drift
       /\ Sound /\ SumsTrue => SumsTrue' \/ Drift
       /\ PointsTrue => PointsTrue' \/ ~EditTimeline \/ EditAtEnd
       /\ SumsTrue => SumsTrue' \/ ~EditTimeline]_vars

Replaced == NewMovie \/ Import

\* Rows are not lost behind the player's back. Read-only playback changes no row
\* and no mark, and no command but a new start turns it into a mode that could:
\* it ends by stopping. In the other modes a recorded row is lost or replaced
\* only where a rerecord is counted.
RowsAreKept ==
    [][\/ /\ ReadOnly(tas) =>
                 /\ Movie'.frames = Movie.frames
                 /\ Movie'.marks = Movie.marks
                 /\ ReadOnly(tas') \/ tas'.mode = "Inactive" \/ PlayFromStart
          /\ HasMovie(tas) =>
                 \/ Take(Movie'.frames, Rows(tas)) = Movie.frames
                 \/ Movie'.rerecords # Movie.rerecords
       \/ Replaced]_vars

\* validate_movie accepts the movie being edited.
SaveAccepted == HasMovie(tas) => Valid(Movie)

\* "TAS timeline edited without seeking; future checkpoints invalidated": an edit of
\* the timeline leaves no checkpoint that the rows contradict.
EditInvalidates == [][PointsTrue => PointsTrue' \/ ~EditTimeline]_vars

\* On the first visit of a boundary, with no checkpoint cached for it yet, a
\* console that left the movie is put back: the replay the hash confirms is loaded
\* before the row runs.
FirstVisitRecovers ==
    /\ EffectiveMode(tas) \in {"Playback", "ReadOnly"}
    /\ EffectiveMode(tas') = EffectiveMode(tas)
    /\ tas.cursor \in DOMAIN Movie.sums \ DOMAIN tas.points
    /\ PointsTrue /\ SumsTrue
    /\ tas'.cursor = tas.cursor + 1
    => Sound' \/ ~(Tick \/ FrameAdvance)

\* What brings a session back into step: playing from the start, whatever
\* happened; a seek, as long as the cached checkpoints are those of the movie; and
\* a boundary played for the first time.
Recovers ==
    [][/\ Sound' \/ ~PlayFromStart
       /\ PointsTrue => Sound' \/ ~Seek
       /\ FirstVisitRecovers]_vars

\* "recovery never silently accepts an unexplained state": a frame that begins
\* with a console its movie's true hash contradicts is not executed on it.
NoSilentDivergence ==
    [][/\ EffectiveMode(tas) \in {"Playback", "ReadOnly"}
       /\ EffectiveMode(tas') = EffectiveMode(tas)
       /\ tas.cursor \in DOMAIN Movie.sums
       /\ PointsTrue /\ SumsTrue /\ ~InStep
       /\ tas'.cursor = tas.cursor + 1
       => InStep' \/ ~(Tick \/ FrameAdvance)]_vars
=============================================================================
