------------------------------ MODULE AudioRing ------------------------------
(***************************************************************************)
(* The native audio bridge (crates/nes-audio-native/native/nes_audio.c): the *)
(* emulation thread pushes frames into a lock-free PCM ring and the device   *)
(* thread of miniaudio drains it in callbacks.  Both write the plain fields  *)
(* callback_primed and fade_in_remaining.                                    *)
(*                                                                         *)
(* External, as miniaudio documents and the bridge relies on: the ring holds *)
(* at most Capacity committed frames and hands out contiguous pieces of what *)
(* was asked; ma_device_start and ma_device_stop return once the device has  *)
(* started or stopped, a stop waits for a running callback, and a device may *)
(* fail to start or stop by itself between two callbacks.  Samples are       *)
(* abstracted to how many there are; a callback's output is described by     *)
(* `heard`, the audible frames since the output was last silent.             *)
(***************************************************************************)
EXTENDS Integers

CONSTANTS
    Capacity,     \* capacity_frames of the ring
    Target,       \* target_frames: buffered before sound starts
    FadeFrames,   \* the length of a fade-in
    Pushes,       \* frame counts the emulator may push
    Periods       \* frame counts a callback may be asked for

\* nes_audio_create refuses any other buffer configuration.
ASSUME BufferParameters ==
    /\ Target \in Nat \ {0}
    /\ Capacity \in Nat /\ Capacity >= Target * 2
    /\ FadeFrames \in Nat \ {0}
    /\ Pushes \subseteq Nat \ {0}
    /\ Periods \subseteq Nat \ {0}

VARIABLES
    queued,     \* committed frames in the ring
    device,     \* "stopped" or "started"
    primed,     \* callback_primed
    fade,       \* fade_in_remaining
    push,       \* the emulation thread: where it is, and the frames it still writes
    call,       \* the device thread: the frames asked for, to read and read
    heard       \* audible frames since silence, up to FadeFrames

vars == <<queued, device, primed, fade, push, call, heard>>

Idle == [at |-> "idle", left |-> 0]
NoCall == [at |-> "idle", asked |-> 0, left |-> 0, taken |-> 0]

Least(a, b) == IF a < b THEN a ELSE b

Init ==
    /\ queued = 0
    /\ device = "stopped"
    /\ primed = FALSE
    /\ fade = 0
    /\ push = Idle
    /\ call = NoCall
    /\ heard = 0

---------------------------------------------------------------------------
(* The emulation thread: nes_audio_push. *)

\* The frames of a push that fit: the room is read once, the others are dropped.
Fits(n) == Least(n, Capacity - queued)

PushBegin ==
    /\ push.at = "idle"
    /\ \E n \in Pushes :
           push' = [at |-> "writing", left |-> Fits(n)]
    /\ UNCHANGED <<queued, device, primed, fade, call, heard>>

PushChunk ==
    /\ push.at = "writing" /\ push.left > 0
    /\ \E n \in 1 .. push.left :
           /\ queued' = queued + n
           /\ push' = [push EXCEPT !.left = @ - n]
    /\ UNCHANGED <<device, primed, fade, call, heard>>

\* Mutant of Enough: the device waits for a full ring and one frame more.
EnoughNever == queued > Capacity

\* The frames a push needs to find before it starts the device.
Enough == queued >= Target

\* A stopped device with enough to play is started, primed and faded in; the start
\* may fail.
PushEnd ==
    /\ push.at = "writing" /\ push.left = 0
    /\ push' = Idle
    /\ IF device = "stopped" /\ Enough
       THEN /\ primed' = TRUE
            /\ fade' = FadeFrames
            /\ device' \in {"stopped", "started"}
       ELSE UNCHANGED <<device, primed, fade>>
    /\ UNCHANGED <<queued, call, heard>>

(* The emulation thread: nes_audio_clear. *)

\* Mutant of Quiet: the stop does not wait for the callback.
QuietAnyway == call.at \in {"idle", "reading"}

\* Where the device thread stands when a stop returns.
Quiet == call.at = "idle"

ClearStop ==
    /\ push.at = "idle"
    /\ Quiet
    /\ push' = [Idle EXCEPT !.at = "clearing"]
    /\ device' = "stopped"
    /\ heard' = 0
    /\ UNCHANGED <<queued, primed, fade, call>>

ClearReset ==
    /\ push.at = "clearing"
    /\ push' = Idle
    /\ primed' = FALSE
    /\ fade' = 0
    /\ queued' = 0
    /\ UNCHANGED <<device, call, heard>>

---------------------------------------------------------------------------
(* The device thread: nes_audio_callback. *)

\* Mutant of FadeOnPriming: sound resumes at full gain.
FadeNotRestarted == fade

\* The callback state a priming leaves.
FadeOnPriming == IF primed THEN fade ELSE FadeFrames

\* Until Target frames are queued an unprimed callback plays silence.
CallBegin ==
    /\ device = "started"
    /\ call.at = "idle"
    /\ \E n \in Periods :
           IF ~primed /\ queued < Target
           THEN /\ heard' = 0
                /\ UNCHANGED <<primed, fade, call>>
           ELSE /\ primed' = TRUE
                /\ fade' = FadeOnPriming
                /\ call' = [at |-> "reading", asked |-> n,
                            left |-> Least(n, queued), taken |-> 0]
                /\ UNCHANGED heard
    /\ UNCHANGED <<queued, device, push>>

CallChunk ==
    /\ call.at = "reading" /\ call.left > 0
    /\ \E n \in 1 .. call.left :
           /\ queued' = queued - n
           /\ call' = [call EXCEPT !.left = @ - n, !.taken = @ + n]
    /\ UNCHANGED <<device, primed, fade, push, heard>>

\* Whether the callback keeps playing: an underrun fades out and unprimes.
Primes(short) == ~short

\* The fade-in runs over the frames read; a short callback ends in silence.
CallEnd ==
    LET short == call.taken < call.asked
    IN /\ call.at = "reading" /\ call.left = 0
       /\ call' = NoCall
       /\ primed' = Primes(short)
       /\ fade' = IF short THEN 0 ELSE fade - Least(fade, call.taken)
       /\ heard' = IF short THEN 0 ELSE Least(FadeFrames, heard + call.taken)
       /\ UNCHANGED <<queued, device, push>>

\* The device goes away or is rerouted.
DeviceLost ==
    /\ device = "started"
    /\ call.at = "idle"
    /\ device' = "stopped"
    /\ heard' = 0
    /\ UNCHANGED <<queued, primed, fade, push, call>>

Next ==
    \/ PushBegin
    \/ PushChunk
    \/ PushEnd
    \/ ClearStop
    \/ ClearReset
    \/ CallBegin
    \/ CallChunk
    \/ CallEnd
    \/ DeviceLost

Spec == Init /\ [][Next]_vars

\* A game running at normal speed pushes every frame, a started device keeps
\* calling back, and a start that is tried again and again succeeds.
Fairness ==
    /\ WF_vars(PushBegin \/ PushChunk \/ PushEnd \/ ClearReset)
    /\ WF_vars(CallBegin \/ CallChunk \/ CallEnd)
    /\ SF_vars(PushEnd /\ device' = "started")

FairSpec == Spec /\ Fairness

---------------------------------------------------------------------------
(* Properties. *)

TypeOK ==
    /\ queued \in 0 .. Capacity
    /\ device \in {"stopped", "started"}
    /\ primed \in BOOLEAN
    /\ fade \in 0 .. FadeFrames
    /\ push.at \in {"idle", "writing", "clearing"} /\ push.left \in Nat
    /\ call.at \in {"idle", "reading"} /\ call.left \in Nat
    /\ call.taken \in Nat /\ call.taken + call.left <= call.asked
    /\ heard \in 0 .. FadeFrames

\* The two threads share the ring without a lock. The room a push has read stays
\* there while the device drains, and the frames a callback has counted while the
\* emulator writes; the ring and the callback's fields are reset only while the
\* device thread is out of the callback and cannot enter it.
RingIsShared ==
    /\ push.left <= Capacity - queued
    /\ call.left <= queued
    /\ push.at = "clearing" => device = "stopped" /\ call.at = "idle"

\* Sound after silence starts clean: never at full gain, since what is left of the
\* fade-in and what was heard since the silence add up to one fade, and never on
\* less than the startup buffer.
SoundStartsClean ==
    device = "started" /\ primed =>
        /\ fade + heard = FadeFrames
        /\ heard = 0 /\ call.at = "idle" => queued >= Target

\* While the emulator pushes, silence ends, unless it keeps clearing the pipeline
\* or the device keeps going away.
SoundReturns ==
    \/ []<>(call.taken > 0)
    \/ []<><<ClearStop>>_vars
    \/ []<><<DeviceLost>>_vars
=============================================================================
