-------------------------- MODULE AudioRing_proofs --------------------------
(* Proofs about AudioRing for every ring, startup buffer and fade length.    *)
EXTENDS AudioRing, TLAPS

(* The ring is shared without a lock because each side only gives the other  *)
(* more: a push that has read its room sees the room grow, a callback that   *)
(* has counted its frames sees them grow.  What is not shared that way, the  *)
(* callback's fields, is reset only while the device thread is out: hence    *)
(* the third part, which RingIsShared alone does not give.                   *)

\* A stopped device has no callback running, and no sound is left of it.
StoppedIsOut == device = "stopped" => call.at = "idle" /\ heard = 0

\* An unprimed callback was silent: the next sound starts a whole fade.
UnprimedIsSilent == ~primed => heard = 0

\* A push writes only while its frames fit, and only a push does.
PushFits ==
    /\ push \in [at : {"idle", "writing", "clearing"}, left : Nat]
    /\ push.left <= Capacity - queued
    /\ push.at # "writing" => push.left = 0
    /\ push.at = "clearing" => device = "stopped" /\ call.at = "idle"

\* A callback reads what it was asked for and no more, and only once primed.
CallFits ==
    /\ call \in [at : {"idle", "reading"}, asked : Nat, left : Nat, taken : Nat]
    /\ call.left <= queued
    /\ call.taken + call.left <= call.asked
    /\ call.at = "idle" => call = NoCall
    /\ call.at = "reading" => primed /\ call.asked > 0

\* The induction hypothesis.
IInv ==
    /\ TypeOK
    /\ StoppedIsOut
    /\ UnprimedIsSilent
    /\ PushFits
    /\ CallFits
    /\ SoundStartsClean

-----------------------------------------------------------------------------
\* The invariant holds before the first push.
LEMMA InitIInv == Init => IInv
<1> SUFFICES ASSUME Init PROVE IInv
  OBVIOUS
<1>1. TypeOK
  <2>1. primed \in BOOLEAN
    BY Zenon DEF Init
  <2>2. QED
    BY <2>1, BufferParameters DEF Init, TypeOK, Idle, NoCall
<1>2. StoppedIsOut /\ UnprimedIsSilent /\ SoundStartsClean
  BY DEF Init, StoppedIsOut, UnprimedIsSilent, SoundStartsClean, NoCall
<1>3. PushFits
  BY BufferParameters DEF Init, PushFits, Idle
<1>4. CallFits
  BY DEF Init, CallFits, NoCall
<1>5. QED
  BY <1>1, <1>2, <1>3, <1>4 DEF IInv

(* The emulation thread.                                                     *)

\* The room is read once; it can only grow until the frames are written.
LEMMA PushBeginIInv == IInv /\ PushBegin => IInv'
<1> SUFFICES ASSUME IInv, PushBegin PROVE IInv'
  OBVIOUS
<1>1. PICK n \in Pushes : push' = [at |-> "writing", left |-> Fits(n)]
  BY DEF PushBegin
<1>2. Fits(n) \in Nat /\ Fits(n) <= Capacity - queued
  BY BufferParameters DEF Fits, Least, IInv, TypeOK
<1>3. TypeOK' /\ PushFits'
  BY <1>1, <1>2 DEF PushBegin, IInv, TypeOK, PushFits
<1>4. StoppedIsOut' /\ UnprimedIsSilent' /\ CallFits' /\ SoundStartsClean'
  BY DEF PushBegin, IInv, StoppedIsOut, UnprimedIsSilent, CallFits, SoundStartsClean
<1>5. QED
  BY <1>3, <1>4 DEF IInv

\* A commit of the push takes from the room it has read, which a callback can only widen.
LEMMA PushChunkIInv == IInv /\ PushChunk => IInv'
<1> SUFFICES ASSUME IInv, PushChunk PROVE IInv'
  OBVIOUS
<1>1. PICK n \in 1 .. push.left :
          queued' = queued + n /\ push' = [push EXCEPT !.left = @ - n]
  BY DEF PushChunk
<1>2. n \in Nat /\ n <= push.left /\ push.left \in Nat
  BY DEF IInv, TypeOK
<1>3. TypeOK' /\ PushFits'
  BY <1>1, <1>2, BufferParameters DEF PushChunk, IInv, TypeOK, PushFits
<1>4. StoppedIsOut' /\ UnprimedIsSilent' /\ CallFits'
  BY <1>1, <1>2 DEF PushChunk, IInv, TypeOK, StoppedIsOut, UnprimedIsSilent, CallFits
<1>5. SoundStartsClean'
  BY <1>1, <1>2, BufferParameters DEF PushChunk, IInv, TypeOK, SoundStartsClean
<1>6. QED
  BY <1>3, <1>4, <1>5 DEF IInv

\* A start, whether it succeeds or fails, leaves a whole fade to play and what the
\* startup buffer asks for.
LEMMA PushEndIInv == IInv /\ PushEnd => IInv'
<1> SUFFICES ASSUME IInv, PushEnd PROVE IInv'
  OBVIOUS
<1>1. PushFits'
  BY BufferParameters DEF PushEnd, IInv, TypeOK, PushFits, Idle
<1>2. CallFits' /\ StoppedIsOut' /\ UnprimedIsSilent'
  <2>1. CASE device = "stopped" /\ Enough
    BY <2>1 DEF PushEnd, IInv, CallFits, StoppedIsOut, UnprimedIsSilent, NoCall
  <2>2. CASE ~(device = "stopped" /\ Enough)
    BY <2>2 DEF PushEnd, IInv, CallFits, StoppedIsOut, UnprimedIsSilent
  <2>3. QED
    BY <2>1, <2>2
<1>3. TypeOK' /\ SoundStartsClean'
  <2>1. CASE device = "stopped" /\ Enough
    <3>1. heard = 0 /\ queued >= Target
      BY <2>1 DEF IInv, StoppedIsOut, UnprimedIsSilent, Enough
    <3>2. /\ primed' = TRUE /\ fade' = FadeFrames
          /\ device' \in {"stopped", "started"} /\ UNCHANGED <<queued, call, heard>>
          /\ push' = Idle
      BY <2>1 DEF PushEnd
    <3>3. QED
      BY <3>1, <3>2, BufferParameters DEF IInv, TypeOK, SoundStartsClean, Idle
  <2>2. CASE ~(device = "stopped" /\ Enough)
    BY <2>2 DEF PushEnd, IInv, TypeOK, SoundStartsClean, Idle
  <2>3. QED
    BY <2>1, <2>2
<1>4. QED
  BY <1>1, <1>2, <1>3 DEF IInv

\* nes_audio_clear stops the device before it resets anything.
LEMMA ClearStopIInv == IInv /\ ClearStop => IInv'
BY BufferParameters
   DEF ClearStop, Quiet, IInv, TypeOK, StoppedIsOut, UnprimedIsSilent, PushFits, CallFits,
       SoundStartsClean, Idle, NoCall

\* The device was stopped for the whole of the clear: nobody is in the ring.
LEMMA ClearResetIInv == IInv /\ ClearReset => IInv'
<1> SUFFICES ASSUME IInv, ClearReset PROVE IInv'
  OBVIOUS
<1>1. device = "stopped" /\ call = NoCall
  BY DEF ClearReset, IInv, PushFits, CallFits
<1>2. TypeOK' /\ PushFits'
  <2>1. primed' \in BOOLEAN
    BY Zenon DEF ClearReset
  <2>2. QED
    BY <1>1, <2>1, BufferParameters DEF ClearReset, IInv, TypeOK, PushFits, Idle
<1>3. StoppedIsOut' /\ UnprimedIsSilent' /\ CallFits' /\ SoundStartsClean'
  BY <1>1 DEF ClearReset, IInv, StoppedIsOut, UnprimedIsSilent, CallFits, SoundStartsClean, NoCall
<1>4. QED
  BY <1>2, <1>3 DEF IInv

(* The device thread.                                                        *)

\* An unprimed callback finds nothing heard: the fade it starts is a whole one.
LEMMA CallBeginIInv == IInv /\ CallBegin => IInv'
<1> SUFFICES ASSUME IInv, CallBegin PROVE IInv'
  OBVIOUS
<1>1. PICK n \in Periods :
          IF ~primed /\ queued < Target
          THEN heard' = 0 /\ UNCHANGED <<primed, fade, call>>
          ELSE /\ primed' = TRUE
               /\ fade' = FadeOnPriming
               /\ call' = [at |-> "reading", asked |-> n,
                           left |-> Least(n, queued), taken |-> 0]
               /\ UNCHANGED heard
  BY DEF CallBegin
<1>2. CASE ~primed /\ queued < Target
  BY <1>1, <1>2, BufferParameters
     DEF CallBegin, IInv, TypeOK, StoppedIsOut, UnprimedIsSilent, PushFits, CallFits, SoundStartsClean
<1>3. CASE ~(~primed /\ queued < Target)
  <2>1. n \in Nat \ {0}
    BY BufferParameters
  <2>2. /\ Least(n, queued) \in Nat /\ Least(n, queued) <= n
        /\ Least(n, queued) <= queued
    BY <2>1 DEF Least, IInv, TypeOK
  <2>3. CallFits'
    BY <1>1, <1>3, <2>1, <2>2 DEF CallBegin, IInv, CallFits
  <2>4. StoppedIsOut' /\ UnprimedIsSilent' /\ PushFits'
    BY <1>1, <1>3 DEF CallBegin, IInv, StoppedIsOut, UnprimedIsSilent, PushFits
  <2>5. FadeOnPriming \in 0 .. FadeFrames
    BY BufferParameters DEF FadeOnPriming, IInv, TypeOK
  <2>6. TypeOK'
    <3>1. primed' \in BOOLEAN
      BY <1>1, <1>3, Zenon
    <3>2. QED
      BY <1>1, <1>3, <2>1, <2>2, <2>5, <3>1 DEF CallBegin, IInv, TypeOK
  <2>7. SoundStartsClean'
    <3>1. FadeOnPriming + heard = FadeFrames
      BY BufferParameters
         DEF CallBegin, FadeOnPriming, IInv, TypeOK, SoundStartsClean, UnprimedIsSilent
    <3>2. call'.at = "reading"
      BY <1>1, <1>3
    <3>3. fade' + heard' = FadeFrames
      BY <1>1, <1>3, <3>1
    <3>4. QED
      BY <3>2, <3>3 DEF SoundStartsClean
  <2>8. QED
    BY <2>3, <2>4, <2>6, <2>7 DEF IInv
<1>4. QED
  BY <1>2, <1>3

\* A chunk of the callback takes from the frames it has counted, which a push can only add to.
LEMMA CallChunkIInv == IInv /\ CallChunk => IInv'
<1> SUFFICES ASSUME IInv, CallChunk PROVE IInv'
  OBVIOUS
<1>1. PICK n \in 1 .. call.left :
          queued' = queued - n /\ call' = [call EXCEPT !.left = @ - n, !.taken = @ + n]
  BY DEF CallChunk
<1>2. n \in Nat /\ n <= call.left /\ call.left <= queued /\ queued - n \in 0 .. Capacity
  BY BufferParameters DEF IInv, TypeOK, CallFits
<1>3. call' = [at |-> "reading", asked |-> call.asked,
               left |-> call.left - n, taken |-> call.taken + n]
  BY <1>1 DEF CallChunk, IInv, CallFits
<1>4. TypeOK' /\ CallFits'
  BY <1>1, <1>2, <1>3 DEF CallChunk, IInv, TypeOK, CallFits
<1>5. StoppedIsOut' /\ UnprimedIsSilent' /\ PushFits'
  BY <1>1, <1>2, <1>3, BufferParameters
      DEF CallChunk, IInv, TypeOK, StoppedIsOut, UnprimedIsSilent, PushFits
<1>6. SoundStartsClean'
  BY <1>1, <1>3 DEF CallChunk, IInv, SoundStartsClean
<1>7. QED
  BY <1>4, <1>5, <1>6 DEF IInv

\* What the fade loses and what is heard are the same frames; an underrun ends both.
LEMMA CallEndIInv == IInv /\ CallEnd => IInv'
<1> SUFFICES ASSUME IInv, CallEnd PROVE IInv'
  OBVIOUS
<1> DEFINE short == call.taken < call.asked
<1>1. /\ call' = NoCall /\ primed' = ~short /\ UNCHANGED <<queued, device, push>>
      /\ fade' = IF short THEN 0 ELSE fade - Least(fade, call.taken)
      /\ heard' = IF short THEN 0 ELSE Least(FadeFrames, heard + call.taken)
  BY DEF CallEnd, Primes
<1>2. device = "started" /\ primed /\ call.asked > 0 /\ call.asked \in Nat
  BY DEF CallEnd, IInv, StoppedIsOut, UnprimedIsSilent, CallFits, TypeOK
<1>3. fade + heard = FadeFrames
  BY <1>2 DEF IInv, SoundStartsClean
<1>4. /\ fade' \in 0 .. FadeFrames /\ heard' \in 0 .. FadeFrames
      /\ ~short => fade' + heard' = FadeFrames /\ heard' > 0
  BY <1>1, <1>2, <1>3, BufferParameters DEF Least, IInv, TypeOK
<1>5. TypeOK' /\ CallFits'
  BY <1>1, <1>4 DEF IInv, TypeOK, CallFits, NoCall
<1>6. StoppedIsOut' /\ PushFits'
  BY <1>1, <1>2 DEF IInv, StoppedIsOut, PushFits, NoCall
<1>7. SoundStartsClean' /\ UnprimedIsSilent'
  <2>1. CASE short
    <3>1. ~primed' /\ heard' = 0
      BY <1>1, <2>1
    <3>2. QED
      BY <3>1 DEF SoundStartsClean, UnprimedIsSilent
  <2>2. CASE ~short
    <3>1. fade' + heard' = FadeFrames /\ heard' > 0
      BY <1>4, <2>2
    <3>2. primed'
      BY <1>1, <2>2
    <3>3. QED
      BY <3>1, <3>2 DEF SoundStartsClean, UnprimedIsSilent
  <2>3. QED
    BY <2>1, <2>2
<1>8. QED
  BY <1>5, <1>6, <1>7 DEF IInv

\* A device that goes away leaves no callback running.
LEMMA DeviceLostIInv == IInv /\ DeviceLost => IInv'
BY BufferParameters
   DEF DeviceLost, IInv, TypeOK, StoppedIsOut, UnprimedIsSilent, PushFits, CallFits, SoundStartsClean, NoCall

-----------------------------------------------------------------------------
\* Every step of either thread keeps the invariant.
LEMMA NextIInv == IInv /\ [Next]_vars => IInv'
<1> SUFFICES ASSUME IInv, [Next]_vars PROVE IInv'
  OBVIOUS
<1>1. CASE UNCHANGED vars
  BY <1>1
     DEF vars, IInv, TypeOK, StoppedIsOut, UnprimedIsSilent, PushFits, CallFits,
         SoundStartsClean
<1>2. CASE Next
  BY <1>2, PushBeginIInv, PushChunkIInv, PushEndIInv, ClearStopIInv, ClearResetIInv,
     CallBeginIInv, CallChunkIInv, CallEndIInv, DeviceLostIInv
     DEF Next
<1>3. QED
  BY <1>1, <1>2

\* The invariant holds in every state.
LEMMA Inductive == Spec => []IInv
BY InitIInv, NextIInv, PTL DEF Spec

\* Neither thread overruns or underruns the ring that both use without a lock, and
\* nes_audio_clear resets it only while the device thread is out, for every capacity
\* and every size of pushes and callbacks.
THEOREM SharedWithoutLock == Spec => []RingIsShared
<1>1. IInv => RingIsShared
  BY DEF IInv, RingIsShared, PushFits, CallFits
<1>2. QED
  BY <1>1, Inductive, PTL

\* Sound resumes through a whole fade and behind a full startup buffer, after every
\* underrun, clear, failed start and lost device.
THEOREM NoClickAfterSilence == Spec => []SoundStartsClean
<1>1. IInv => SoundStartsClean
  BY DEF IInv
<1>2. QED
  BY <1>1, Inductive, PTL
=============================================================================
