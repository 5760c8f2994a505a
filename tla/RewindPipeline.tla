--------------------------- MODULE RewindPipeline ---------------------------
(***************************************************************************)
(* The rewind ring (crates/nes-ui/src/app/rewind.rs) and what feeds it: the  *)
(* user-interface thread captures the machine in front of a frame and hands  *)
(* the capture to a bounded channel; a worker compresses it and returns it   *)
(* over a second channel; the user-interface thread collects what came back, *)
(* unless its generation was invalidated meanwhile, and rewinding pops it.   *)
(*                                                                         *)
(* A machine is what it has been through: its console's past, as the steps   *)
(* since it was created or replaced, and the frame number the interval is    *)
(* tested on.  Two frames differ by the input they ran with, so that a       *)
(* machine that was rewound and played on differently is another machine.    *)
(* No movie is loaded: with one, rewinding seeks in it (module TasSession)   *)
(* and the ring is not read.                                                 *)
(***************************************************************************)
EXTENDS Naturals, Sequences, SequencesExt

CONSTANTS
    Interval,        \* rewind_interval_frames
    RingSize,        \* the points that rewind_seconds keeps
    Depth,           \* the captures the channel to the worker holds
    Inputs,          \* the inputs a frame can run with
    StepsWhileHeld,  \* whether the user advances frames while holding rewind
    MaxPast,         \* bound: the steps of a console's past
    MaxGeneration    \* bound: the invalidations of a behaviour

ASSUME PipelineParameters ==
    /\ Interval \in Nat \ {0}
    /\ RingSize \in Nat \ {0}
    /\ Depth \in Nat \ {0}
    /\ StepsWhileHeld \in BOOLEAN
    /\ MaxPast \in Nat
    /\ MaxGeneration \in Nat

VARIABLES
    machine,      \* nes
    app,          \* powered, paused, rewind_active, resume_after_rewind, standard
    ring,         \* rewind, oldest first
    generation,   \* rewind_generation
    captures,     \* the channel to the worker
    worker,       \* the capture the worker compresses, if any
    points        \* the channel back

vars == <<machine, app, ring, generation, captures, worker, points>>

Origins == {"boot", "reset", "slot"}

Fresh(origin) == [past |-> <<origin>>, number |-> 0, on |-> TRUE]

Point(m) == [machine |-> m, generation |-> generation]

Init ==
    /\ machine = Fresh("boot")
    /\ app = [powered |-> TRUE, paused |-> FALSE, active |-> FALSE,
              resume |-> FALSE, standard |-> TRUE]
    /\ ring = <<>>
    /\ generation = 0
    /\ captures = <<>>
    /\ worker = <<>>
    /\ points = <<>>

---------------------------------------------------------------------------
(* The ring and its generations. *)

\* Mutant of Invalidated: captures under way stay valid.
InvalidatedNot == generation

\* The generation after an invalidation.
Invalidated == generation + 1

InvalidatePending ==
    /\ generation < MaxGeneration
    /\ generation' = Invalidated

ClearHistory ==
    /\ InvalidatePending
    /\ ring' = <<>>

\* A capture that finds the channel full is dropped.
Submitted(p) == IF Len(captures) < Depth THEN Append(captures, p) ELSE captures

\* Mutant of Wanted: whatever the worker returns is collected.
WantedAll(p) == TRUE

\* What the user-interface thread keeps of the points that came back.
Wanted(p) == p.generation = generation

\* The wanted ones of the points s, in the order they came.
Collected(s) ==
    LET kept[n \in 0 .. Len(s)] ==
            IF n = 0 THEN <<>>
            ELSE IF Wanted(s[n]) THEN Append(kept[n - 1], s[n]) ELSE kept[n - 1]
    IN  kept[Len(s)]

\* The newest n points.
LastN(r, n) == SubSeq(r, Len(r) - n + 1, Len(r))

\* Mutant of Trimmed: the newest points go.
TrimmedNewest(r) == IF Len(r) > RingSize THEN SubSeq(r, 1, RingSize) ELSE r

\* The ring forgets its oldest points.
Trimmed(r) == IF Len(r) > RingSize THEN LastN(r, RingSize) ELSE r

CollectPoints ==
    /\ points # <<>>
    /\ ring' = Trimmed(ring \o Collected(points))
    /\ points' = <<>>
    /\ UNCHANGED <<machine, app, generation, captures, worker>>

---------------------------------------------------------------------------
(* The worker. *)

Receive ==
    /\ worker = <<>> /\ captures # <<>>
    /\ worker' = <<Head(captures)>>
    /\ captures' = Tail(captures)
    /\ UNCHANGED <<machine, app, ring, generation, points>>

Compress ==
    /\ worker # <<>>
    /\ points' = points \o worker
    /\ worker' = <<>>
    /\ UNCHANGED <<machine, app, ring, generation, captures>>

---------------------------------------------------------------------------
(* Frames. *)

Capturing == app.standard /\ machine.number % Interval = 0

\* run_one_frame: the capture comes before the frame; a machine that is switched
\* off runs nothing.
RunOneFrame ==
    /\ captures' = IF Capturing THEN Submitted(Point(machine)) ELSE captures
    /\ IF machine.on
       THEN /\ Len(machine.past) < MaxPast
            /\ \E input \in Inputs :
                   machine' = [machine EXCEPT !.past = Append(@, input),
                                              !.number = @ + 1]
       ELSE UNCHANGED machine

\* The emulation loop runs no frame while rewind is held.
Tick ==
    /\ app.powered /\ ~app.paused
    /\ ~app.active
    /\ RunOneFrame
    /\ UNCHANGED <<app, ring, generation, worker, points>>

\* The frame advance key is read whether or not rewind is held.
FrameAdvance ==
    /\ app.standard /\ app.powered
    /\ app.active => StepsWhileHeld
    /\ RunOneFrame
    /\ app' = [app EXCEPT !.paused = TRUE]
    /\ UNCHANGED <<ring, generation, worker, points>>

---------------------------------------------------------------------------
(* Rewinding. *)

\* The point a rewind restores.
Popped == Last(ring)

\* rewind_once: an empty ring only sets the status line.
RewindOnce(held) ==
    IF ring = <<>>
    THEN /\ app' = held
         /\ UNCHANGED <<machine, ring>>
    ELSE /\ machine' = Popped.machine
         /\ ring' = Front(ring)
         /\ app' = [held EXCEPT !.paused = TRUE]

\* The rewind key goes down: the first step is taken at once.
HoldStart ==
    /\ ~app.active /\ app.standard /\ app.powered
    /\ InvalidatePending
    /\ RewindOnce([app EXCEPT !.active = TRUE, !.resume = ~app.paused, !.paused = TRUE])
    /\ UNCHANGED <<captures, worker, points>>

HoldStep ==
    /\ app.active /\ app.powered
    /\ RewindOnce(app)
    /\ UNCHANGED <<generation, captures, worker, points>>

\* The key goes up, or the console was switched off under it.
Release ==
    /\ app.active
    /\ app' = [app EXCEPT !.active = FALSE, !.resume = FALSE,
                          !.paused = IF app.resume /\ app.powered THEN FALSE ELSE @]
    /\ UNCHANGED <<machine, ring, generation, captures, worker, points>>

\* The menu and the windows offer a step while there is a point.
RewindStep ==
    /\ app.standard /\ ring # <<>>
    /\ IF app.active THEN UNCHANGED generation ELSE InvalidatePending
    /\ RewindOnce(app)
    /\ UNCHANGED <<captures, worker, points>>

---------------------------------------------------------------------------
(* The other commands. *)

\* Refused, like every assist, outside standard play.
TogglePause ==
    /\ app' = IF app.standard THEN [app EXCEPT !.paused = ~@] ELSE app
    /\ UNCHANGED <<machine, ring, generation, captures, worker, points>>

Reset ==
    /\ machine' = Fresh("reset")
    /\ app' = [app EXCEPT !.powered = TRUE, !.paused = FALSE]
    /\ ClearHistory
    /\ UNCHANGED <<captures, worker, points>>

\* toggle_power keeps the ring: one can rewind over a power cycle.
TogglePower ==
    /\ IF app.powered
       THEN /\ machine' = [machine EXCEPT !.on = FALSE]
            /\ app' = [app EXCEPT !.powered = FALSE, !.paused = TRUE]
       ELSE /\ app' = [app EXCEPT !.powered = TRUE, !.paused = FALSE]
            /\ IF machine.on THEN UNCHANGED machine
               ELSE /\ Len(machine.past) < MaxPast
                    /\ machine' = [past |-> Append(machine.past, "power"),
                                   number |-> 0, on |-> TRUE]
    /\ UNCHANGED <<ring, generation, captures, worker, points>>

QuickLoad ==
    /\ app.standard
    /\ \E n \in 0 .. 1, on \in BOOLEAN :
           /\ machine' = [Fresh("slot") EXCEPT !.number = n, !.on = on]
           /\ app' = [app EXCEPT !.paused = TRUE, !.powered = on]
    /\ ClearHistory
    /\ UNCHANGED <<captures, worker, points>>

ApplyCheats ==
    /\ ClearHistory
    /\ UNCHANGED <<machine, app, captures, worker, points>>

\* apply_play_mode: leaving standard play drops the ring and the held key;
\* coming back applies the cheats, which drops it again.
SwitchMode ==
    /\ app' = IF app.standard
              THEN [app EXCEPT !.standard = FALSE, !.active = FALSE, !.resume = FALSE,
                               !.paused = IF app.powered THEN FALSE ELSE @]
              ELSE [app EXCEPT !.standard = TRUE]
    /\ ClearHistory
    /\ UNCHANGED <<machine, captures, worker, points>>

Next ==
    \/ CollectPoints
    \/ Receive
    \/ Compress
    \/ Tick
    \/ FrameAdvance
    \/ HoldStart
    \/ HoldStep
    \/ Release
    \/ RewindStep
    \/ TogglePause
    \/ Reset
    \/ TogglePower
    \/ QuickLoad
    \/ ApplyCheats
    \/ SwitchMode

Spec == Init /\ [][Next]_vars

\* The worker runs whenever it has work, and the window is redrawn for ever.
FairSpec == Spec /\ WF_vars(Receive \/ Compress) /\ WF_vars(CollectPoints)

---------------------------------------------------------------------------
(* Properties. *)

Machines == [past : Seq(Origins \cup Inputs \cup {"power"}), number : Nat, on : BOOLEAN]
Points == [machine : Machines, generation : 0 .. MaxGeneration]

\* The types, and the bounds that keep the memory of the pipeline finite.
TypeOK ==
    /\ machine \in Machines
    /\ app \in [powered : BOOLEAN, paused : BOOLEAN, active : BOOLEAN,
                resume : BOOLEAN, standard : BOOLEAN]
    /\ generation \in 0 .. MaxGeneration
    /\ ring \in Seq(Points) /\ Len(ring) <= RingSize
    /\ captures \in Seq(Points) /\ Len(captures) <= Depth
    /\ worker \in Seq(Points) /\ Len(worker) <= 1
    /\ points \in Seq(Points)

\* The points that are or may still come into the ring, oldest first.
Pipeline == ring \o Collected(points \o worker \o captures)

Before(m, n) == IsStrictPrefix(m.past, n.past)

\* Every point that is or can come into the ring is a strictly earlier state of
\* the very console that is running, and the points are in the order of its past:
\* neither a rewind nor a load, reset or change of rules lets a capture of the
\* abandoned timeline through, and the worker reorders nothing.
RingIsPast ==
    /\ \A i \in DOMAIN Pipeline : Before(Pipeline[i].machine, machine)
    /\ \A i \in DOMAIN Pipeline : \A j \in 1 .. i - 1 :
           Before(Pipeline[j].machine, Pipeline[i].machine)

Rewinding == HoldStep \/ RewindStep \/ HoldStart

\* A rewind step never moves the console forward or to another timeline.
RewindGoesBack ==
    [][Rewinding => machine' = machine \/ Before(machine', machine)]_vars

\* A point of generation g whose console has been through n steps; among the valid
\* ones there is one of each at most.
Holding(s, g, n) == \E i \in DOMAIN s : s[i].generation = g /\ Len(s[i].machine.past) = n

\* The ring is full of points taken after it.
FullOfNewer(g, n) ==
    /\ Len(ring) = RingSize
    /\ \A i \in DOMAIN ring : ring[i].generation = g /\ Len(ring[i].machine.past) > n

\* Every single capture that the worker's channel took comes into the ring, however
\* many follow it and whatever is rewound meanwhile, unless it is invalidated or
\* enough newer ones to fill the ring come back with it: a slow worker costs only
\* what the channel refused.
CapturesArrive ==
    \A g \in 0 .. MaxGeneration, n \in 1 .. MaxPast :
        Holding(captures, g, n)
            ~> (generation # g \/ Holding(ring, g, n) \/ FullOfNewer(g, n))
=============================================================================
