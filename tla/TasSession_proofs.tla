-------------------------- MODULE TasSession_proofs --------------------------
(***************************************************************************)
(* What a TAS session keeps, whatever the user does and for every length   *)
(* of movie, checkpoint interval and rerecord width: its types, the        *)
(* agreement of console, rows, checkpoints and hashes (AgreementLasts),    *)
(* the ways back from a desync (DesyncsRecover) and the rows themselves    *)
(* (RowsOutliveSteps).                                                     *)
(*                                                                         *)
(* A seek replays an unbounded number of frames and every one of them may  *)
(* store a hash and a checkpoint or load a checkpoint, so the work is in   *)
(* CheckFrame, in the replay of a seek (by induction on the frame, with    *)
(* LeastElement) and in the frame of a session, FrameRuns.  The steps of   *)
(* the application follow, one lemma each, then the invariant SessionInv   *)
(* and the theorems.                                                       *)
(***************************************************************************)
EXTENDS TasSession, TLAPS, WellFoundedInduction

\* A set of numbers has a least one: the induction of the proofs below.
LEMMA LeastElement ==
    ASSUME NEW T, T \subseteq Nat, T # {} PROVE \E x \in T : \A y \in T : ~(y < x)
<1> DEFINE R == {p \in Nat \X Nat : p[1] < p[2]}
<1>1. IsWellFoundedOn(R, Nat)
  BY NatLessThanWellFounded DEF OpToRel, IsWellFoundedOn
<1>2. \E x \in T : \A y \in T : ~ (<<y, x>> \in R)
  <2> HIDE DEF R
  <2> QED BY <1>1, WFMin
<1> QED BY <1>2

---------------------------------------------------------------------------
(* Rows and histories. *)

\* A part of a row sequence.
LEMMA TakeTyped ==
    ASSUME NEW S, NEW s \in Seq(S), NEW n \in Nat
    PROVE  /\ Take(s, n) \in Seq(S)
           /\ Len(Take(s, n)) = Lesser(n, Len(s))
           /\ \A i \in 1 .. Lesser(n, Len(s)) : Take(s, n)[i] = s[i]
<1> DEFINE k == Lesser(n, Len(s))
<1>1. k \in 0 .. Len(s) /\ Len(s) \in Nat
  BY DEF Lesser
<1> HIDE DEF k
<1>2. SubSeq(s, 1, k) \in Seq(S) /\ Len(SubSeq(s, 1, k)) = k
  BY <1>1
<1>3. \A i \in 1 .. k : SubSeq(s, 1, k)[i] = s[i]
  BY <1>1
<1> QED BY <1>2, <1>3 DEF Take, k

\* Two row sequences that agree up to a frame have the same rows before it.
LEMMA TakeAgrees ==
    ASSUME NEW S, NEW s \in Seq(S), NEW t \in Seq(S), NEW n \in Nat,
           n <= Len(s), n <= Len(t), \A i \in 1 .. n : s[i] = t[i]
    PROVE  Take(s, n) = Take(t, n)
<1>1. Lesser(n, Len(s)) = n /\ Lesser(n, Len(t)) = n
  BY DEF Lesser
<1>2. /\ Take(s, n) \in Seq(S) /\ Len(Take(s, n)) = n
      /\ \A i \in 1 .. n : Take(s, n)[i] = s[i]
  BY <1>1, TakeTyped
<1>3. /\ Take(t, n) \in Seq(S) /\ Len(Take(t, n)) = n
      /\ \A i \in 1 .. n : Take(t, n)[i] = t[i]
  BY <1>1, TakeTyped
<1> DEFINE a == Take(s, n)
           b == Take(t, n)
<1>4. a \in Seq(S) /\ b \in Seq(S) /\ Len(a) = Len(b) /\ \A i \in 1 .. Len(a) : a[i] = b[i]
  BY <1>2, <1>3
<1> HIDE DEF a, b
<1>5. a = b
  BY <1>4
<1> QED BY <1>5 DEF a, b

\* All the rows are a part of the rows.
LEMMA TakeAll ==
    ASSUME NEW S, NEW s \in Seq(S) PROVE Take(s, Len(s)) = s
<1>1. SubSeq(s, 1, Len(s)) = s
  OBVIOUS
<1> QED BY <1>1 DEF Take, Lesser

\* What is left of a row sequence.
LEMMA DropTyped ==
    ASSUME NEW S, NEW s \in Seq(S), NEW n \in Nat
    PROVE  Drop(s, n) \in Seq(S)
<1>1. CASE n + 1 <= Len(s)
  BY <1>1 DEF Drop
<1>2. CASE ~(n + 1 <= Len(s))
  <2>1. SubSeq(s, n + 1, Len(s)) = <<>>
    BY <1>2
  <2> QED BY <2>1 DEF Drop
<1> QED BY <1>1, <1>2

\* A history grows by what happens.
LEMMA HistoryGrows ==
    ASSUME NEW h \in Histories, NEW e \in Inputs \cup {Event}
    PROVE  Append(h, e) \in Histories
BY DEF Histories

\* Concatenation is associative.
LEMMA ConcatAssociates ==
    ASSUME NEW S, NEW s \in Seq(S), NEW t \in Seq(S), NEW u \in Seq(S)
    PROVE  (s \o t) \o u = s \o (t \o u)
<1> DEFINE x == (s \o t) \o u
           y == s \o (t \o u)
<1>1. x \in Seq(S) /\ y \in Seq(S) /\ Len(x) = Len(y) /\ Len(x) = Len(s) + Len(t) + Len(u)
  OBVIOUS
<1>2. \A i \in 1 .. Len(x) : x[i] = y[i]
  <2>1. \A i \in 1 .. Len(s) : x[i] = s[i] /\ y[i] = s[i]
    OBVIOUS
  <2>2. \A i \in Len(s) + 1 .. Len(s) + Len(t) : x[i] = t[i - Len(s)] /\ y[i] = t[i - Len(s)]
    OBVIOUS
  <2>3. \A i \in Len(s) + Len(t) + 1 .. Len(s) + Len(t) + Len(u) :
           x[i] = u[i - Len(s) - Len(t)] /\ y[i] = u[i - Len(s) - Len(t)]
    OBVIOUS
  <2> QED BY <1>1, <2>1, <2>2, <2>3
<1>3. x \in Seq(S) /\ y \in Seq(S) /\ Len(x) = Len(y)
  BY <1>1
<1> HIDE DEF x, y
<1>4. x = y
  BY <1>2, <1>3
<1> QED BY <1>4 DEF x, y

\* A movie that starts in a state the machine can load replays to such states.
LEMMA ReplayTyped ==
    ASSUME NEW v, v.start \in Histories, v.frames \in Seq(Inputs), NEW n \in Nat
    PROVE  Replay(v, n) \in Histories
<1>1. Take(v.frames, n) \in Seq(Inputs)
  BY TakeTyped
<1>2. \A r \in Seq(Inputs) : r \in Seq(Inputs \cup {Event})
  OBVIOUS
<1> QED BY <1>1, <1>2 DEF Replay, Histories

\* The console before any row is the one the movie starts from.
LEMMA ReplayNothing ==
    ASSUME NEW v, v.start \in Histories, v.frames \in Seq(Inputs)
    PROVE  Replay(v, 0) = v.start
<1>1. Take(v.frames, 0) = <<>>
  BY TakeTyped DEF Lesser
<1>2. v.start \o <<>> = v.start
  BY DEF Histories
<1> QED BY <1>1, <1>2 DEF Replay

\* One more row.
LEMMA ReplayNext ==
    ASSUME NEW v, v.start \in Histories, v.frames \in Seq(Inputs),
           NEW n \in Nat, n < Len(v.frames)
    PROVE  Append(Replay(v, n), v.frames[n + 1]) = Replay(v, n + 1)
<1> DEFINE r == v.frames
           A == Inputs \cup {Event}
<1>0. r \in Seq(Inputs) /\ Len(r) \in Nat
  OBVIOUS
<1>1. Lesser(n, Len(r)) = n /\ Lesser(n + 1, Len(r)) = n + 1
  BY <1>0 DEF Lesser
<1>2. /\ Take(r, n) \in Seq(Inputs) /\ Len(Take(r, n)) = n
      /\ \A i \in 1 .. n : Take(r, n)[i] = r[i]
  BY <1>1, TakeTyped
<1>3. /\ Take(r, n + 1) \in Seq(Inputs) /\ Len(Take(r, n + 1)) = n + 1
      /\ \A i \in 1 .. n + 1 : Take(r, n + 1)[i] = r[i]
  <2>1. n + 1 \in Nat
    OBVIOUS
  <2> HIDE DEF r
  <2> QED BY <2>1, <1>0, <1>1, TakeTyped
<1> DEFINE a == Take(r, n)
           b == Take(r, n + 1)
           last == r[n + 1]
<1>4. a \in Seq(A) /\ b \in Seq(A) /\ last \in A
  BY <1>0, <1>2, <1>3
<1>5. Append(a, last) = b
  <2>1. /\ Append(a, last) \in Seq(A) /\ Len(Append(a, last)) = n + 1
        /\ \A i \in 1 .. n : Append(a, last)[i] = a[i]
        /\ Append(a, last)[n + 1] = last
    BY <1>4, <1>2
  <2>2. \A i \in 1 .. n + 1 : Append(a, last)[i] = b[i]
    BY <2>1, <1>2, <1>3
  <2> HIDE DEF a, b, last
  <2> QED BY <2>1, <2>2, <1>3, <1>4 DEF b
<1>6. v.start \in Seq(A)
  BY DEF Histories
<1> HIDE DEF a, b, last
<1>7. Append(v.start \o a, last) = v.start \o Append(a, last)
  <2> DEFINE s == v.start
  <2>1. s \in Seq(A)
    BY <1>6
  <2> HIDE DEF s, A
  <2>2. Append(s \o a, last) = s \o Append(a, last)
    <3>1. a \in Seq(A) /\ last \in A
      BY <1>4
    <3> QED BY <2>1, <3>1, SMTT(60)
  <2> QED BY <2>2 DEF s
<1> QED BY <1>5, <1>7 DEF Replay, a, b, last

\* The rows between two frames lead from one to the other.
LEMMA ReplayOn ==
    ASSUME NEW v, v.start \in Histories, v.frames \in Seq(Inputs),
           NEW p \in Nat, NEW n \in Nat, p <= n, n <= Len(v.frames)
    PROVE  Replay(v, p) \o SubSeq(v.frames, p + 1, n) = Replay(v, n)
<1> DEFINE r == v.frames
           A == Inputs \cup {Event}
<1>0. r \in Seq(Inputs) /\ Len(r) \in Nat
  OBVIOUS
<1>1. Lesser(n, Len(r)) = n /\ Lesser(p, Len(r)) = p
  BY <1>0 DEF Lesser
<1>2. /\ Take(r, n) \in Seq(Inputs) /\ Len(Take(r, n)) = n
      /\ \A i \in 1 .. n : Take(r, n)[i] = r[i]
  BY <1>1, TakeTyped
<1>3. /\ Take(r, p) \in Seq(Inputs) /\ Len(Take(r, p)) = p
      /\ \A i \in 1 .. p : Take(r, p)[i] = r[i]
  BY <1>1, TakeTyped
<1> DEFINE a == Take(r, p)
           b == Take(r, n)
           m == SubSeq(r, p + 1, n)
<1>4. /\ m \in Seq(Inputs) /\ Len(m) = n - p
      /\ \A i \in 1 .. n - p : m[i] = r[p + i]
  <2>1. CASE p = n
    <3>1. m = <<>>
      BY <2>1, <1>0
    <3> QED BY <3>1, <2>1
  <2>2. CASE p < n
    BY <2>2, <1>0
  <2> QED BY <2>1, <2>2
<1>5. a \in Seq(A) /\ b \in Seq(A) /\ m \in Seq(A)
  BY <1>2, <1>3, <1>4
<1>6. v.start \in Seq(A)
  BY DEF Histories
<1>7. a \o m = b
  <2>1. /\ Len(a) = p /\ Len(m) = n - p /\ Len(b) = n
        /\ \A i \in 1 .. p : a[i] = r[i]
        /\ \A i \in 1 .. n - p : m[i] = r[p + i]
        /\ \A i \in 1 .. n : b[i] = r[i]
    BY <1>2, <1>3, <1>4
  <2> HIDE DEF a, b, m
  <2>2. a \o m \in Seq(A) /\ Len(a \o m) = n
    BY <2>1, <1>5
  <2>3. \A i \in 1 .. n : (a \o m)[i] = IF i <= p THEN a[i] ELSE m[i - p]
    BY <2>1, <1>5
  <2>4. \A i \in 1 .. n : (a \o m)[i] = b[i]
    BY <2>1, <2>3
  <2> QED BY <2>1, <2>2, <2>4, <1>5
<1> HIDE DEF a, b, m
<1>8. (v.start \o a) \o m = v.start \o (a \o m)
  <2>1. ASSUME NEW s, NEW x, NEW y, s \in Seq(A), x \in Seq(A), y \in Seq(A)
        PROVE  (s \o x) \o y = s \o (x \o y)
    <3> HIDE DEF A
    <3> QED BY <2>1, ConcatAssociates
  <2> DEFINE s == v.start
  <2>2. s \in Seq(A)
    BY <1>6
  <2> HIDE DEF s, A
  <2>3. \A x, y : x \in Seq(A) /\ y \in Seq(A) => (s \o x) \o y = s \o (x \o y)
    BY <2>1, <2>2
  <2>4. (s \o a) \o m = s \o (a \o m)
    BY <2>3, <1>5
  <2> QED BY <2>4 DEF s
<1> QED BY <1>7, <1>8 DEF Replay, a, b, m

---------------------------------------------------------------------------
(* Maps from frames. *)

Maps(V) == UNION {[D -> V] : D \in SUBSET Nat}

\* A map by frame has frames for keys and values of its type.
LEMMA MapsAre ==
    ASSUME NEW V, NEW m \in Maps(V)
    PROVE  DOMAIN m \subseteq Nat /\ \A f \in DOMAIN m : m[f] \in V
BY DEF Maps

\* The map without entries is one.
LEMMA EmptyMapTyped ==
    ASSUME NEW V PROVE EmptyMap \in Maps(V) /\ DOMAIN EmptyMap = {}
<1>1. EmptyMap \in [{} -> V] /\ {} \in SUBSET Nat
  BY DEF EmptyMap
<1> QED BY <1>1 DEF Maps, EmptyMap

\* Dropping the entries after a frame leaves the others as they were.
LEMMA UpToTyped ==
    ASSUME NEW V, NEW m \in Maps(V), NEW last
    PROVE  /\ UpTo(m, last) \in Maps(V)
           /\ DOMAIN UpTo(m, last) = {f \in DOMAIN m : f <= last}
           /\ \A f \in DOMAIN UpTo(m, last) : UpTo(m, last)[f] = m[f]
<1> DEFINE D == {f \in DOMAIN m : f <= last}
<1>1. D \in SUBSET Nat /\ \A f \in D : m[f] \in V
  BY MapsAre
<1>2. UpTo(m, last) = [f \in D |-> m[f]]
  BY DEF UpTo
<1>3. UpTo(m, last) \in [D -> V]
  BY <1>1, <1>2
<1> QED BY <1>1, <1>2, <1>3 DEF Maps

\* Storing an entry replaces that of its frame and no other.
LEMMA WithEntryTyped ==
    ASSUME NEW V, NEW m \in Maps(V), NEW frame \in Nat, NEW value \in V
    PROVE  /\ WithEntry(m, frame, value) \in Maps(V)
           /\ DOMAIN WithEntry(m, frame, value) = DOMAIN m \cup {frame}
           /\ WithEntry(m, frame, value)[frame] = value
           /\ \A f \in DOMAIN m \ {frame} : WithEntry(m, frame, value)[f] = m[f]
<1> DEFINE D == DOMAIN m \cup {frame}
<1>1. D \in SUBSET Nat /\ \A f \in DOMAIN m : m[f] \in V
  BY MapsAre
<1>2. WithEntry(m, frame, value) = [f \in D |-> IF f = frame THEN value ELSE m[f]]
  BY DEF WithEntry
<1>3. WithEntry(m, frame, value) \in [D -> V]
  BY <1>1, <1>2
<1> QED BY <1>1, <1>2, <1>3 DEF Maps

---------------------------------------------------------------------------
(* Managers. *)

Movies == [frames : Seq(Inputs), marks : SUBSET Nat, sums : Maps(Histories \cup {StaleHash}),
           start : Histories \cup {StaleHash}, rerecords : 0 .. Wrap - 1]

Managers == [mode : Modes, resume : Modes \ {"Paused"}, movie : Movies, cursor : Nat,
             points : Maps(Histories), interval : Intervals]

\* The checkpoints begin with the start of the movie; without any, so does the session.
Anchored(m) == IF DOMAIN m.points = {} THEN m.cursor = 0 ELSE 0 \in DOMAIN m.points

\* Hashes are stored at the frames that are checked.
OnGrid(m) == \A f \in DOMAIN m.movie.sums : f % m.interval = 0

\* What a recording branched off from is gone.
Branched(m) == RecordingContext(m) => \A f \in DOMAIN m.points : f <= m.cursor

\* A manager that has a movie; a seek takes a recording beyond where it branched off.
Ready(m) ==
    /\ m \in Managers
    /\ m.mode = "Paused" => m.resume # "Inactive"
    /\ m.movie.start \in Histories
    /\ Anchored(m) /\ OnGrid(m)

Loaded(m) == Ready(m) /\ Branched(m)

\* The manager as it is before any movie.
Unloaded(m) == \E i \in Intervals : m = NoManager(i)

SessionInv ==
    /\ Loaded(tas) \/ Unloaded(tas)
    /\ nes \in Histories
    /\ paused \in BOOLEAN
    /\ drifts \in 0 .. MaxDrifts

\* InStep, PointsTrue and SumsTrue of any manager and console.
AtCursor(m, n) == m.cursor <= Rows(m) /\ n = Replay(m.movie, m.cursor)
PointsOf(m) == \A f \in DOMAIN m.points : f <= Rows(m) /\ m.points[f] = Replay(m.movie, f)
SumsOf(m) ==
    \A f \in DOMAIN m.movie.sums : f <= Rows(m) /\ m.movie.sums[f] = Replay(m.movie, f)

\* The fields of a movie.
LEMMA MovieFields ==
    ASSUME NEW v \in Movies
    PROVE  /\ v.frames \in Seq(Inputs) /\ Len(v.frames) \in Nat /\ v.marks \subseteq Nat
           /\ v.sums \in Maps(Histories \cup {StaleHash})
           /\ v.start \in Histories \cup {StaleHash}
           /\ v.rerecords \in 0 .. Wrap - 1
BY DEF Movies

\* The fields of a manager.
LEMMA ManagerFields ==
    ASSUME NEW m \in Managers
    PROVE  /\ m.mode \in Modes /\ m.resume \in Modes \ {"Paused"} /\ m.movie \in Movies
           /\ m.cursor \in Nat /\ m.points \in Maps(Histories) /\ m.interval \in Intervals
           /\ m.movie.frames \in Seq(Inputs) /\ Rows(m) \in Nat /\ Rows(m) = Len(m.movie.frames)
           /\ m.interval \in Nat \ {0}
<1>1. /\ m.mode \in Modes /\ m.resume \in Modes \ {"Paused"} /\ m.movie \in Movies
      /\ m.cursor \in Nat /\ m.points \in Maps(Histories) /\ m.interval \in Intervals
  BY DEF Managers
<1>2. m.movie.frames \in Seq(Inputs) /\ Len(m.movie.frames) \in Nat
  BY <1>1, MovieFields
<1> QED BY <1>1, <1>2, TasParameters DEF Rows

\* A typed manager that can seek has a movie.
LEMMA ReadyHasMovie ==
    ASSUME NEW m, Ready(m) PROVE HasMovie(m)
<1>1. m.movie.start \in Histories
  BY DEF Ready
<1>2. NoMovie.start = StaleHash
  BY DEF NoMovie
<1> QED BY <1>1, <1>2, SessionParameters DEF HasMovie, Histories

\* A manager without a movie is inactive, at frame 0, with no checkpoint.
LEMMA UnloadedHasNone ==
    ASSUME NEW m, Unloaded(m)
    PROVE  /\ ~ HasMovie(m) /\ m.mode = "Inactive" /\ m.resume = "Inactive"
           /\ m.points = EmptyMap /\ m.movie = NoMovie /\ m.cursor = 0
           /\ EffectiveMode(m) = "Inactive" /\ m.interval \in Intervals
BY DEF Unloaded, NoManager, HasMovie, EffectiveMode

\* Assigning one field.
LEMMA SetField ==
    ASSUME NEW m \in Managers
    PROVE  /\ \A x \in Modes :
                 [m EXCEPT !.mode = x] \in Managers
           /\ \A x \in Modes \ {"Paused"} : [m EXCEPT !.resume = x] \in Managers
           /\ \A x \in Movies : [m EXCEPT !.movie = x] \in Managers
           /\ \A x \in Nat : [m EXCEPT !.cursor = x] \in Managers
           /\ \A x \in Maps(Histories) : [m EXCEPT !.points = x] \in Managers
BY DEF Managers

\* A movie with one field replaced is a movie.
LEMMA SetMovieField ==
    ASSUME NEW v \in Movies
    PROVE  /\ \A x \in Seq(Inputs) : [v EXCEPT !.frames = x] \in Movies
           /\ \A x \in SUBSET Nat : [v EXCEPT !.marks = x] \in Movies
           /\ \A x \in Maps(Histories \cup {StaleHash}) : [v EXCEPT !.sums = x] \in Movies
           /\ \A x \in 0 .. Wrap - 1 : [v EXCEPT !.rerecords = x] \in Movies
BY DEF Movies

---------------------------------------------------------------------------
(* Checkpoints. *)

Hashes == Histories \cup {StaleHash}

\* The manager with other hashes and checkpoints.
With(m, s, p) == [m EXCEPT !.movie.sums = s, !.points = p]

\* w is m with the hashes s and the checkpoints p.
Differs(m, w, s, p) ==
    /\ w \in Managers /\ w.movie = [m.movie EXCEPT !.sums = s]
    /\ w.movie.sums = s /\ w.movie.frames = m.movie.frames /\ w.movie.start = m.movie.start
    /\ w.movie.marks = m.movie.marks /\ w.movie.rerecords = m.movie.rerecords
    /\ w.points = p /\ w.mode = m.mode /\ w.resume = m.resume
    /\ w.cursor = m.cursor /\ w.interval = m.interval
    /\ Rows(w) = Rows(m) /\ EffectiveMode(w) = EffectiveMode(m)
    /\ \A k : Replay(w.movie, k) = Replay(m.movie, k)

\* Other hashes and checkpoints leave the rows, and what they lead to, as they are.
LEMMA WithDiffers ==
    ASSUME NEW m \in Managers, NEW s \in Maps(Hashes), NEW p \in Maps(Histories)
    PROVE  Differs(m, With(m, s, p), s, p)
<1>1. m.movie \in Movies
  BY ManagerFields
<1> DEFINE v == [m.movie EXCEPT !.sums = s]
           w == With(m, s, p)
<1>2. /\ v \in Movies /\ v.sums = s /\ v.frames = m.movie.frames /\ v.start = m.movie.start
      /\ v.marks = m.movie.marks /\ v.rerecords = m.movie.rerecords
  BY <1>1 DEF Movies, Hashes
<1>3. w = [m EXCEPT !.movie = v, !.points = p]
  BY DEF With
<1> HIDE DEF v, w
<1>4. /\ w \in Managers /\ w.movie = v /\ w.points = p
      /\ w.mode = m.mode /\ w.resume = m.resume
      /\ w.cursor = m.cursor /\ w.interval = m.interval
  BY <1>2, <1>3 DEF Managers
<1>5. Rows(w) = Rows(m)
  BY <1>2, <1>4 DEF Rows
<1>6. \A k : Replay(w.movie, k) = Replay(m.movie, k)
  BY <1>2, <1>4 DEF Replay
<1>7. EffectiveMode(w) = EffectiveMode(m)
  BY <1>4 DEF EffectiveMode
<1>8. w.movie = [m.movie EXCEPT !.sums = s]
  BY <1>4 DEF v
<1>9. Differs(m, w, s, p)
  BY <1>2, <1>4, <1>5, <1>6, <1>7, <1>8 DEF Differs
<1> QED BY <1>9 DEF w

\* The checkpoint a seek starts from is the last one at or before its target.
LEMMA LargestBy ==
    ASSUME NEW m, m.points \in Maps(Histories), NEW t \in Int, PointsBy(m, t) # {}
    PROVE  /\ PointAtOrBefore(m, t) \in DOMAIN m.points
           /\ PointAtOrBefore(m, t) \in Nat /\ PointAtOrBefore(m, t) <= t
           /\ \A g \in PointsBy(m, t) : g <= PointAtOrBefore(m, t)
<1> DEFINE B == PointsBy(m, t)
           T == {t - g : g \in B}
<1>1. B \subseteq Nat /\ \A g \in B : g <= t /\ g \in DOMAIN m.points
  BY MapsAre DEF PointsBy
<1>2. T \subseteq Nat /\ T # {}
  BY <1>1
<1>3. PICK x \in T : \A y \in T : ~(y < x)
  <2> HIDE DEF T
  <2> QED BY <1>2, LeastElement
<1>4. PICK f \in B : x = t - f
  BY <1>3
<1>5. \A g \in B : g <= f
  <2> TAKE g \in B
  <2>1. ~(t - g < t - f)
    BY <1>3, <1>4
  <2> QED BY <2>1, <1>1
<1>6. PointAtOrBefore(m, t) \in B /\ \A g \in B : g <= PointAtOrBefore(m, t)
  <2> HIDE DEF B
  <2>1. \E h \in B : \A g \in B : g <= h
    BY <1>5
  <2>2. (CHOOSE h \in B : \A g \in B : g <= h) \in B
        /\ \A g \in B : g <= (CHOOSE h \in B : \A k \in B : k <= h)
    BY <2>1
  <2> QED BY <2>2 DEF PointAtOrBefore, B
<1> QED BY <1>1, <1>6

\* A checkpoint is taken where there is none; a recording stores the hash with it.
LEMMA MaybeCheckpointIs ==
    ASSUME NEW m, Ready(m), NEW n \in Histories, NEW f \in Nat
    PROVE  \E s \in Maps(Hashes), p \in Maps(Histories) :
             /\ MaybeCheckpoint(m, f, n) = With(m, s, p)
             /\ s = IF EffectiveMode(m) = "Recording" THEN WithEntry(m.movie.sums, f, n)
                    ELSE m.movie.sums
             /\ p = IF f \in DOMAIN m.points THEN m.points ELSE WithEntry(m.points, f, n)
<1>1. m \in Managers /\ HasMovie(m)
  BY ReadyHasMovie DEF Ready
<1>2. m.points \in Maps(Histories) /\ m.movie.sums \in Maps(Hashes) /\ n \in Hashes
  BY <1>1, ManagerFields, MovieFields DEF Hashes
<1> DEFINE s == IF EffectiveMode(m) = "Recording" THEN WithEntry(m.movie.sums, f, n)
                ELSE m.movie.sums
           p == IF f \in DOMAIN m.points THEN m.points ELSE WithEntry(m.points, f, n)
           h == [m EXCEPT !.movie.sums = s]
<1>3. s \in Maps(Hashes) /\ p \in Maps(Histories)
  BY <1>2, WithEntryTyped
<1>4. IF HasMovie(m) /\ EffectiveMode(m) = "Recording"
      THEN [m EXCEPT !.movie.sums = WithEntry(@, f, n)] = h
      ELSE m = h
  <2>1. CASE EffectiveMode(m) = "Recording"
    <3>1. s = WithEntry(m.movie.sums, f, n)
      BY <2>1
    <3> HIDE DEF s
    <3>2. [m EXCEPT !.movie.sums = WithEntry(@, f, n)] = [m EXCEPT !.movie.sums = s]
      BY <3>1, Zenon
    <3> QED BY <3>2, <2>1, <1>1
  <2>2. CASE EffectiveMode(m) # "Recording"
    <3>1. m = [m EXCEPT !.movie.sums = m.movie.sums]
      <4>1. m.movie \in Movies
        BY <1>1, ManagerFields
      <4>2. [m.movie EXCEPT !.sums = m.movie.sums] = m.movie
        BY <4>1 DEF Movies
      <4>3. [m EXCEPT !.movie = m.movie] = m
        BY <1>1 DEF Managers
      <4> QED BY <4>2, <4>3, Zenon
    <3> QED BY <3>1, <2>2
  <2> QED BY <2>1, <2>2
<1>5. MaybeCheckpoint(m, f, n) = IF f \in DOMAIN m.points THEN h
                                 ELSE [h EXCEPT !.points = WithEntry(@, f, n)]
  <2>1. h.points = m.points
    BY <1>1 DEF Managers
  <2> HIDE DEF h
  <2> QED BY <1>1, <1>4, <2>1 DEF MaybeCheckpoint
<1>6. h \in Managers /\ h.points = m.points
  <2>1. h = [m EXCEPT !.movie = [m.movie EXCEPT !.sums = s]]
    OBVIOUS
  <2>2. [m.movie EXCEPT !.sums = s] \in Movies
    BY <1>1, <1>3, ManagerFields, SetMovieField DEF Hashes
  <2> HIDE DEF s
  <2> QED BY <2>1, <2>2, <1>1 DEF Managers
<1>7. MaybeCheckpoint(m, f, n) = [h EXCEPT !.points = p]
  <2> HIDE DEF h
  <2>1. CASE f \in DOMAIN m.points
    <3>1. h = [h EXCEPT !.points = h.points]
      BY <1>6 DEF Managers
    <3> QED BY <3>1, <2>1, <1>5, <1>6
  <2>2. CASE f \notin DOMAIN m.points
    BY <2>2, <1>5, <1>6
  <2> QED BY <2>1, <2>2
<1>8. With(m, s, p) = [h EXCEPT !.points = p]
  BY DEF With
<1> HIDE DEF s, p, h
<1> QED BY <1>3, <1>7, <1>8 DEF s, p

\* What a check leaves: other hashes and checkpoints, of the frame only.
Checked(m, f, r, s, p) ==
    /\ s \in Maps(Hashes) /\ p \in Maps(Histories)
    /\ r.tas = With(m, s, p)
    /\ DOMAIN m.movie.sums \subseteq DOMAIN s
    /\ \A g \in DOMAIN s : g \in DOMAIN m.movie.sums \/ (g = f /\ f % m.interval = 0)
    /\ DOMAIN m.points \subseteq DOMAIN p /\ DOMAIN p \subseteq DOMAIN m.points \cup {f}
    /\ f % m.interval = 0 => f \in DOMAIN p
    /\ r.nes \in Histories
    /\ r.verdict = "Unrecoverable" => EffectiveMode(m) # "Recording"

\* A history with the rows that follow it.
LEMMA RunsOn ==
    ASSUME NEW h \in Histories, NEW r \in Seq(Inputs), NEW a \in Nat, NEW b \in Nat,
           a <= b, b <= Len(r)
    PROVE  h \o SubSeq(r, a + 1, b) \in Histories
<1>1. SubSeq(r, a + 1, b) \in Seq(Inputs)
  OBVIOUS
<1>2. \A q \in Seq(Inputs) : q \in Seq(Inputs \cup {Event})
  OBVIOUS
<1> QED BY <1>1, <1>2 DEF Histories


\* Assigning the hashes, or the checkpoints, alone.
LEMMA SumsAssigned ==
    ASSUME NEW m \in Managers, NEW t
    PROVE  [m EXCEPT !.movie.sums = t] = With(m, t, m.points)
<1>1. [m EXCEPT !.movie.sums = t] = [m EXCEPT !.movie = [m.movie EXCEPT !.sums = t]]
  OBVIOUS
<1>2. With(m, t, m.points) = [m EXCEPT !.movie = [m.movie EXCEPT !.sums = t], !.points = m.points]
  BY DEF With
<1> DEFINE v == [m.movie EXCEPT !.sums = t]
<1> HIDE DEF v
<1>3. [m EXCEPT !.movie = v] = [m EXCEPT !.movie = v, !.points = m.points]
  BY DEF Managers
<1> QED BY <1>1, <1>2, <1>3 DEF v

\* Replacing the checkpoints keeps the hashes.
LEMMA PointsAssigned ==
    ASSUME NEW m \in Managers, NEW q
    PROVE  [m EXCEPT !.points = q] = With(m, m.movie.sums, q)
<1>1. m.movie \in Movies
  BY ManagerFields
<1>2. [m.movie EXCEPT !.sums = m.movie.sums] = m.movie
  BY <1>1 DEF Movies
<1>3. With(m, m.movie.sums, q) = [m EXCEPT !.movie = m.movie, !.points = q]
  BY <1>2, Zenon DEF With
<1>4. [m EXCEPT !.movie = m.movie, !.points = q] = [m EXCEPT !.points = q]
  BY DEF Managers
<1> QED BY <1>3, <1>4

\* Hashes and checkpoints replaced twice are those of the second time.
LEMMA WithTwice ==
    ASSUME NEW m \in Managers, NEW s, NEW p, NEW t, NEW q
    PROVE  With(With(m, s, p), t, q) = With(m, t, q)
<1>1. m.movie \in Movies
  BY ManagerFields
<1> DEFINE v == [m.movie EXCEPT !.sums = s]
           w == [m EXCEPT !.movie = v, !.points = p]
<1>2. [v EXCEPT !.sums = t] = [m.movie EXCEPT !.sums = t]
  BY <1>1 DEF Movies
<1>3. With(m, s, p) = w
  BY DEF With
<1>4. w.movie = v
  <2> HIDE DEF v
  <2> QED BY DEF Managers
<1>5. With(w, t, q) = [w EXCEPT !.movie = [w.movie EXCEPT !.sums = t], !.points = q]
  BY DEF With
<1>6. With(m, t, q) = [m EXCEPT !.movie = [m.movie EXCEPT !.sums = t], !.points = q]
  BY DEF With
<1> DEFINE u == [m.movie EXCEPT !.sums = t]
<1>7. [w EXCEPT !.movie = u, !.points = q] = [m EXCEPT !.movie = u, !.points = q]
  <2> HIDE DEF u, v
  <2> QED BY DEF Managers
<1>8. [w.movie EXCEPT !.sums = t] = u
  <2> HIDE DEF w
  <2> QED BY <1>2, <1>4
<1> HIDE DEF w, u
<1> QED BY <1>3, <1>5, <1>6, <1>7, <1>8 DEF u

\* What the replay behind a reconciliation reaches, when the checkpoints are true.
LEMMA ReplayedFromPoint ==
    ASSUME NEW k \in Managers, k.movie.start \in Histories, NEW f \in Nat,
           f <= Rows(k), PointsBy(k, f - 1) # {},
           \A g \in DOMAIN k.points : g < f => k.points[g] = Replay(k.movie, g)
    PROVE  k.points[PointAtOrBefore(k, f - 1)]
             \o SubSeq(k.movie.frames, PointAtOrBefore(k, f - 1) + 1, f) = Replay(k.movie, f)
<1> DEFINE b == PointAtOrBefore(k, f - 1)
<1>1. /\ k.points \in Maps(Histories) /\ k.movie.frames \in Seq(Inputs)
      /\ Rows(k) = Len(k.movie.frames)
  BY ManagerFields
<1>2. b \in DOMAIN k.points /\ b \in Nat /\ b <= f - 1
  <2>1. f - 1 \in Int
    OBVIOUS
  <2> QED BY <2>1, <1>1, LargestBy
<1> HIDE DEF b
<1>3. k.points[b] = Replay(k.movie, b)
  BY <1>2
<1>4. b <= f /\ f <= Len(k.movie.frames)
  BY <1>1, <1>2
<1>5. Replay(k.movie, b) \o SubSeq(k.movie.frames, b + 1, f) = Replay(k.movie, f)
  BY <1>1, <1>2, <1>4, ReplayOn
<1> QED BY <1>3, <1>5 DEF b

\* The four ways a check ends.
Outcome(m, k, n, f, r) ==
    LET found == k.points[PointAtOrBefore(k, f - 1)]
                     \o SubSeq(k.movie.frames, PointAtOrBefore(k, f - 1) + 1, f)
    IN  \/ f % m.interval # 0 /\ r.tas = m /\ r.nes = n /\ r.verdict = "Unchecked"
        \/ /\ f % m.interval = 0 /\ ~ Mismatch(m, f, n)
           /\ r.tas = k /\ r.nes = n /\ r.verdict = "Matched"
        \/ /\ f % m.interval = 0 /\ Mismatch(m, f, n)
           /\ \/ r.tas = k /\ r.nes = n /\ r.verdict = "Unrecoverable"
                 /\ (PointsBy(k, f - 1) = {} \/ f > Rows(k)
                     \/ (k.points[f] # found /\ found # k.movie.sums[f]))
              \/ /\ PointsBy(k, f - 1) # {} /\ f <= Rows(k) /\ k.points[f] = found
                 /\ r.tas = [k EXCEPT !.movie.sums = WithEntry(k.movie.sums, f, k.points[f])]
                 /\ r.nes = n /\ r.verdict = "RefreshedChecksum"
              \/ /\ PointsBy(k, f - 1) # {} /\ f <= Rows(k) /\ found = k.movie.sums[f]
                 /\ k.points[f] # found
                 /\ r.tas = [k EXCEPT !.points = WithEntry(k.points, f, found)]
                 /\ r.nes = found /\ r.verdict = "Resynchronized"

\* A check of a frame ends in one of its four ways.
LEMMA CheckEnds ==
    ASSUME NEW m, Ready(m), NEW n \in Histories, NEW f \in Nat
    PROVE  Outcome(m, MaybeCheckpoint(m, f, n), n, f, CheckFrame(m, n, f))
<1> DEFINE r == CheckFrame(m, n, f)
           k == MaybeCheckpoint(m, f, n)
<1>0. m \in Managers
  BY DEF Ready
<1>1. k \in Managers
  <2>1. PICK s \in Maps(Hashes), p \in Maps(Histories) : k = With(m, s, p)
    BY MaybeCheckpointIs
  <2>2. Differs(m, With(m, s, p), s, p)
    BY <1>0, WithDiffers
  <2> HIDE DEF k
  <2> QED BY <2>1, <2>2 DEF Differs
<1>2. CASE f % m.interval # 0
  <2>1. r.tas = m /\ r.nes = n /\ r.verdict = "Unchecked"
    BY <1>2 DEF CheckFrame
  <2> HIDE DEF r, k
  <2>2. Outcome(m, k, n, f, r)
    BY <2>1, <1>2 DEF Outcome
  <2> QED BY <2>2 DEF r, k
<1>3. CASE f % m.interval = 0 /\ ~ Mismatch(m, f, n)
  <2>1. r.tas = k /\ r.nes = n /\ r.verdict = "Matched"
    BY <1>3 DEF CheckFrame
  <2> HIDE DEF r, k
  <2>2. Outcome(m, k, n, f, r)
    BY <2>1, <1>3 DEF Outcome
  <2> QED BY <2>2 DEF r, k
<1>4. CASE f % m.interval = 0 /\ Mismatch(m, f, n)
  <2>1. r = ReconcileCheckpoint(k, n, f)
    BY <1>4 DEF CheckFrame
  <2> DEFINE found == k.points[PointAtOrBefore(k, f - 1)]
                        \o SubSeq(k.movie.frames, PointAtOrBefore(k, f - 1) + 1, f)
             refreshed == [k EXCEPT !.movie.sums = WithEntry(k.movie.sums, f, k.points[f])]
             resynced == [k EXCEPT !.points = WithEntry(k.points, f, found)]
  <2> HIDE DEF r, k
  <2>2. r = IF PointsBy(k, f - 1) = {} \/ f > Rows(k)
              THEN [tas |-> k, nes |-> n, verdict |-> "Unrecoverable"]
              ELSE IF k.points[f] = found
              THEN [tas |-> refreshed, nes |-> n, verdict |-> "RefreshedChecksum"]
              ELSE IF found = k.movie.sums[f]
              THEN [tas |-> resynced, nes |-> found, verdict |-> "Resynchronized"]
              ELSE [tas |-> k, nes |-> n, verdict |-> "Unrecoverable"]
    <3>1. [k EXCEPT !.movie.sums = WithEntry(@, f, k.points[f])] = refreshed
      BY <1>1, Zenon
    <3>2. [k EXCEPT !.points = WithEntry(@, f, found)] = resynced
      BY <1>1, Zenon
    <3> HIDE DEF refreshed, resynced
    <3> QED BY <2>1, <3>1, <3>2 DEF ReconcileCheckpoint
  <2>3. f \in Nat /\ Rows(k) \in Nat
    BY <1>1, ManagerFields
  <2> HIDE DEF found, refreshed, resynced
  <2>4. \/ r.tas = k /\ r.nes = n /\ r.verdict = "Unrecoverable"
                 /\ (PointsBy(k, f - 1) = {} \/ f > Rows(k)
                     \/ (k.points[f] # found /\ found # k.movie.sums[f]))
        \/ /\ PointsBy(k, f - 1) # {} /\ f <= Rows(k) /\ k.points[f] = found
           /\ r.tas = refreshed
           /\ r.nes = n /\ r.verdict = "RefreshedChecksum"
        \/ /\ PointsBy(k, f - 1) # {} /\ f <= Rows(k) /\ found = k.movie.sums[f]
           /\ k.points[f] # found
           /\ r.tas = resynced
           /\ r.nes = found /\ r.verdict = "Resynchronized"
    BY <2>2, <2>3
  <2>5. Outcome(m, k, n, f, r)
    BY <2>4, <1>4 DEF Outcome, found, refreshed, resynced
  <2> QED BY <2>5 DEF r, k
<1> QED BY <1>2, <1>3, <1>4

\* A check changes hashes and checkpoints alone, and only those of its frame.
LEMMA CheckFrameIs ==
    ASSUME NEW m, Ready(m), NEW n \in Histories, NEW f \in Nat
    PROVE  \E s, p : Checked(m, f, CheckFrame(m, n, f), s, p)
<1> DEFINE r == CheckFrame(m, n, f)
           k == MaybeCheckpoint(m, f, n)
           found == k.points[PointAtOrBefore(k, f - 1)]
                        \o SubSeq(k.movie.frames, PointAtOrBefore(k, f - 1) + 1, f)
<1>1. m \in Managers /\ m.points \in Maps(Histories) /\ m.movie.sums \in Maps(Hashes)
      /\ m.movie.frames \in Seq(Inputs) /\ Rows(m) = Len(m.movie.frames)
  BY ManagerFields, MovieFields DEF Ready, Hashes
<1>2. PICK s \in Maps(Hashes), p \in Maps(Histories) :
             /\ k = With(m, s, p)
             /\ s = IF EffectiveMode(m) = "Recording" THEN WithEntry(m.movie.sums, f, n)
                    ELSE m.movie.sums
             /\ p = IF f \in DOMAIN m.points THEN m.points ELSE WithEntry(m.points, f, n)
  BY MaybeCheckpointIs
<1>3. /\ DOMAIN m.movie.sums \subseteq DOMAIN s
      /\ \A g \in DOMAIN s : g \in DOMAIN m.movie.sums \/ g = f
      /\ DOMAIN m.points \subseteq DOMAIN p /\ DOMAIN p \subseteq DOMAIN m.points \cup {f}
      /\ f \in DOMAIN p
  <2>1. DOMAIN WithEntry(m.movie.sums, f, n) = DOMAIN m.movie.sums \cup {f}
    BY DEF WithEntry
  <2>2. DOMAIN WithEntry(m.points, f, n) = DOMAIN m.points \cup {f}
    BY DEF WithEntry
  <2> QED BY <2>1, <2>2, <1>2
<1>4. Differs(m, k, s, p)
  <2>1. Differs(m, With(m, s, p), s, p)
    BY <1>1, WithDiffers
  <2> QED BY <2>1, <1>2
<1>5. Outcome(m, k, n, f, r)
  BY CheckEnds
<1> HIDE DEF r, k
<1>6. /\ k \in Managers /\ k.points = p /\ k.movie.sums = s
      /\ k.movie.frames = m.movie.frames /\ Rows(k) = Rows(m)
  BY <1>4 DEF Differs
<1>7. CASE f % m.interval # 0
  <2>1. r.tas = m /\ r.nes = n /\ r.verdict = "Unchecked"
    BY <1>5, <1>7 DEF Outcome
  <2>2. m = With(m, m.movie.sums, m.points)
    <3>1. m = [m EXCEPT !.points = m.points]
      BY <1>1 DEF Managers
    <3> QED BY <3>1, <1>1, PointsAssigned
  <2>3. Checked(m, f, r, m.movie.sums, m.points)
    BY <2>1, <2>2, <1>1, <1>7 DEF Checked
  <2> QED BY <2>3 DEF r
<1>8. CASE f % m.interval = 0 /\ r.tas = k /\ r.nes = n
  <2>1. r.verdict = "Unrecoverable" => EffectiveMode(m) # "Recording"
    BY <1>5, <1>8 DEF Outcome, Mismatch
  <2>2. Checked(m, f, r, s, p)
    BY <2>1, <1>2, <1>3, <1>8 DEF Checked
  <2> QED BY <2>2 DEF r
<1>9. CASE /\ f % m.interval = 0
           /\ r.tas = [k EXCEPT !.movie.sums = WithEntry(k.movie.sums, f, k.points[f])]
           /\ r.nes = n /\ r.verdict = "RefreshedChecksum"
  <2> DEFINE t == WithEntry(s, f, p[f])
  <2>1. p[f] \in Hashes
    BY <1>2, <1>3, MapsAre DEF Hashes
  <2>2. t \in Maps(Hashes)
    BY <2>1, <1>2, WithEntryTyped
  <2>3. DOMAIN t = DOMAIN s \cup {f}
    BY DEF WithEntry
  <2>4. r.tas = [k EXCEPT !.movie.sums = t]
    BY <1>6, <1>9
  <2> HIDE DEF t
  <2>5. r.tas = With(m, t, p)
    <3>1. [k EXCEPT !.movie.sums = t] = With(k, t, p)
      BY <1>6, SumsAssigned
    <3>2. With(k, t, p) = With(m, t, p)
      BY <1>1, <1>2, WithTwice
    <3> QED BY <3>1, <3>2, <2>4
  <2>6. Checked(m, f, r, t, p)
    BY <2>2, <2>3, <2>5, <1>2, <1>3, <1>9 DEF Checked
  <2> QED BY <2>6 DEF r
<1>10. CASE /\ f % m.interval = 0 /\ PointsBy(k, f - 1) # {} /\ f <= Rows(k)
            /\ r.tas = [k EXCEPT !.points = WithEntry(k.points, f, found)]
            /\ r.nes = found /\ r.verdict = "Resynchronized"
  <2> DEFINE b == PointAtOrBefore(k, f - 1)
             q == WithEntry(p, f, found)
  <2>1. b \in DOMAIN p /\ b \in Nat /\ b <= f
    <3>1. f - 1 \in Int /\ k.points \in Maps(Histories)
      BY <1>2, <1>6
    <3>2. b \in DOMAIN k.points /\ b \in Nat /\ b <= f - 1
      BY <3>1, <1>10, LargestBy
    <3> HIDE DEF b
    <3> QED BY <3>2, <1>6
  <2>2. found \in Histories
    <3>1. p[b] \in Histories
      BY <2>1, <1>2, MapsAre
    <3>2. p[b] \o SubSeq(m.movie.frames, b + 1, f) \in Histories
      <4> HIDE DEF b
      <4> QED BY <3>1, <2>1, <1>1, <1>6, <1>10, RunsOn
    <3> QED BY <3>2, <1>6
  <2> HIDE DEF found
  <2>3. q \in Maps(Histories)
    BY <2>2, <1>2, WithEntryTyped
  <2>4. DOMAIN q = DOMAIN p \cup {f}
    BY DEF WithEntry
  <2>5. r.tas = [k EXCEPT !.points = q]
    BY <1>6, <1>10
  <2> HIDE DEF q
  <2>6. r.tas = With(m, s, q)
    <3>1. [k EXCEPT !.points = q] = With(k, s, q)
      BY <1>6, PointsAssigned
    <3>2. With(k, s, q) = With(m, s, q)
      BY <1>1, <1>2, WithTwice
    <3> QED BY <3>1, <3>2, <2>5
  <2>7. Checked(m, f, r, s, q)
    BY <2>2, <2>3, <2>4, <2>6, <1>2, <1>3, <1>10 DEF Checked
  <2> QED BY <2>7 DEF r
<1> QED BY <1>5, <1>7, <1>8, <1>9, <1>10 DEF Outcome

\* A check of a console that is where the movie says leaves it there; what is added
\* to the checkpoints and hashes is true; and a frame after a checkpoint passes.
LEMMA CheckTrue ==
    ASSUME NEW m, Ready(m), NEW f \in Nat, f <= Rows(m), PointsOf(m),
           NEW n \in Histories, n = Replay(m.movie, f), NEW r, r = CheckFrame(m, n, f)
    PROVE  /\ r.nes = n /\ PointsOf(r.tas)
           /\ SumsOf(m) => SumsOf(r.tas)
           /\ PointsBy(m, f - 1) # {} => r.verdict # "Unrecoverable"
<1> DEFINE k == MaybeCheckpoint(m, f, n)
           found == k.points[PointAtOrBefore(k, f - 1)]
                        \o SubSeq(k.movie.frames, PointAtOrBefore(k, f - 1) + 1, f)
<1>1. m \in Managers /\ m.points \in Maps(Histories) /\ m.movie.sums \in Maps(Hashes)
      /\ m.movie.start \in Histories
  BY ManagerFields, MovieFields DEF Ready, Hashes
<1>2. PICK s \in Maps(Hashes), p \in Maps(Histories) :
             /\ k = With(m, s, p)
             /\ s = IF EffectiveMode(m) = "Recording" THEN WithEntry(m.movie.sums, f, n)
                    ELSE m.movie.sums
             /\ p = IF f \in DOMAIN m.points THEN m.points ELSE WithEntry(m.points, f, n)
  BY MaybeCheckpointIs
<1>3. Differs(m, k, s, p)
  <2>1. Differs(m, With(m, s, p), s, p)
    BY <1>1, WithDiffers
  <2> QED BY <2>1, <1>2
<1>4. Outcome(m, k, n, f, r)
  BY CheckEnds
<1> HIDE DEF k
<1>5. /\ k \in Managers /\ k.points = p /\ k.movie.sums = s /\ k.movie.start = m.movie.start
      /\ Rows(k) = Rows(m) /\ \A g : Replay(k.movie, g) = Replay(m.movie, g)
  BY <1>3 DEF Differs
<1>6. PointsOf(k)
  <2>1. \A g \in DOMAIN p : g <= Rows(m) /\ p[g] = Replay(m.movie, g)
    BY <1>2 DEF PointsOf, WithEntry
  <2> QED BY <2>1, <1>5 DEF PointsOf
<1>7. SumsOf(m) => SumsOf(k)
  <2>1. SumsOf(m) => \A g \in DOMAIN s : g <= Rows(m) /\ s[g] = Replay(m.movie, g)
    BY <1>2 DEF SumsOf, WithEntry
  <2> QED BY <2>1, <1>5 DEF SumsOf
<1>8. f \in DOMAIN p /\ p[f] = n
  BY <1>2 DEF PointsOf, WithEntry
<1>9. f <= Rows(k) /\ PointsBy(k, f - 1) # {} => found = n
  <2> SUFFICES ASSUME f <= Rows(k), PointsBy(k, f - 1) # {} PROVE found = n
    OBVIOUS
  <2>1. \A g \in DOMAIN k.points : g < f => k.points[g] = Replay(k.movie, g)
    BY <1>6 DEF PointsOf
  <2>2. k.movie.start \in Histories
    BY <1>1, <1>5
  <2>3. found = Replay(k.movie, f)
    BY <2>1, <2>2, <1>5, ReplayedFromPoint
  <2> QED BY <2>3, <1>5
<1>10. PointsBy(m, f - 1) # {} => PointsBy(k, f - 1) # {}
  <2>1. DOMAIN m.points \subseteq DOMAIN p
    BY <1>2 DEF WithEntry
  <2> QED BY <2>1, <1>5 DEF PointsBy
<1>11. CASE r.tas = m /\ r.nes = n /\ r.verdict = "Unchecked"
  BY <1>11
<1>12. CASE r.tas = k /\ r.nes = n /\ r.verdict = "Matched"
  BY <1>12, <1>6, <1>7
<1>13. CASE r.tas = k /\ r.nes = n
            /\ (PointsBy(k, f - 1) = {} \/ f > Rows(k) \/ k.points[f] # found)
  <2>1. PointsBy(k, f - 1) = {}
    <3> HIDE DEF found
    <3>1. f <= Rows(k)
      BY <1>5
    <3>2. Rows(k) \in Nat
      BY <1>5, ManagerFields
    <3> QED BY <3>1, <3>2, <1>13, <1>5, <1>8, <1>9
  <2> QED BY <2>1, <1>13, <1>6, <1>7, <1>10
<1>14. CASE /\ r.tas = [k EXCEPT !.movie.sums = WithEntry(k.movie.sums, f, k.points[f])]
            /\ r.nes = n /\ r.verdict = "RefreshedChecksum"
  <2> DEFINE t == WithEntry(s, f, n)
  <2>1. t \in Maps(Hashes)
    BY <1>2, WithEntryTyped DEF Hashes
  <2>2. SumsOf(m) => \A g \in DOMAIN t : g <= Rows(m) /\ t[g] = Replay(m.movie, g)
    BY <1>7, <1>5 DEF SumsOf, WithEntry
  <2>3. r.tas = With(k, t, p)
    <3>1. r.tas = [k EXCEPT !.movie.sums = t]
      BY <1>5, <1>8, <1>14
    <3> HIDE DEF t
    <3> QED BY <3>1, <1>5, SumsAssigned
  <2>4. Differs(k, r.tas, t, p)
    <3>1. Differs(k, With(k, t, p), t, p)
      <4> HIDE DEF t
      <4> QED BY <2>1, <1>5, WithDiffers
    <3> QED BY <3>1, <2>3
  <2> HIDE DEF t
  <2>5. /\ r.tas.movie.sums = t /\ r.tas.points = p /\ Rows(r.tas) = Rows(k)
        /\ \A g : Replay(r.tas.movie, g) = Replay(k.movie, g)
    BY <2>4 DEF Differs
  <2>6. PointsOf(r.tas)
    BY <2>5, <1>5, <1>6 DEF PointsOf
  <2>7. SumsOf(m) => SumsOf(r.tas)
    BY <2>2, <2>5, <1>5 DEF SumsOf
  <2> QED BY <2>6, <2>7, <1>14
<1>15. CASE PointsBy(k, f - 1) # {} /\ f <= Rows(k) /\ k.points[f] # found
  <2>1. FALSE
    <3> HIDE DEF found
    <3> QED BY <1>15, <1>5, <1>8, <1>9
  <2> QED BY <2>1
<1> QED BY <1>4, <1>11, <1>12, <1>13, <1>14, <1>15 DEF Outcome

\* The first check of a stored hash puts a console back that is elsewhere.
LEMMA CheckRecovers ==
    ASSUME NEW m, Ready(m), NEW f \in DOMAIN m.movie.sums \ DOMAIN m.points,
           EffectiveMode(m) # "Recording", PointsOf(m), SumsOf(m),
           NEW n \in Histories, NEW r, r = CheckFrame(m, n, f)
    PROVE  r.verdict = "Unrecoverable" \/ (r.nes = Replay(m.movie, f) /\ PointsOf(r.tas))
<1> DEFINE k == MaybeCheckpoint(m, f, n)
           found == k.points[PointAtOrBefore(k, f - 1)]
                        \o SubSeq(k.movie.frames, PointAtOrBefore(k, f - 1) + 1, f)
<1>1. m \in Managers /\ m.points \in Maps(Histories) /\ m.movie.sums \in Maps(Hashes)
      /\ m.movie.start \in Histories
  BY ManagerFields, MovieFields DEF Ready, Hashes
<1>0. f \in Nat /\ f <= Rows(m) /\ m.movie.sums[f] = Replay(m.movie, f) /\ f % m.interval = 0
  BY <1>1, MapsAre DEF SumsOf, Ready, OnGrid
<1>2. PICK s \in Maps(Hashes), p \in Maps(Histories) :
             /\ k = With(m, s, p)
             /\ s = IF EffectiveMode(m) = "Recording" THEN WithEntry(m.movie.sums, f, n)
                    ELSE m.movie.sums
             /\ p = IF f \in DOMAIN m.points THEN m.points ELSE WithEntry(m.points, f, n)
  BY <1>0, MaybeCheckpointIs
<1>3. Differs(m, k, s, p)
  <2>1. Differs(m, With(m, s, p), s, p)
    BY <1>1, WithDiffers
  <2> QED BY <2>1, <1>2
<1>4. Outcome(m, k, n, f, r)
  BY <1>0, CheckEnds
<1>5. CASE n = Replay(m.movie, f)
  BY <1>0, <1>5, CheckTrue
<1>6. CASE n # Replay(m.movie, f)
  <2>0. Mismatch(m, f, n)
    BY <1>0, <1>6 DEF Mismatch
  <2> HIDE DEF k
  <2>1. /\ k \in Managers /\ k.points = p /\ k.movie.sums = s /\ k.movie.start = m.movie.start
        /\ Rows(k) = Rows(m) /\ \A g : Replay(k.movie, g) = Replay(m.movie, g)
    BY <1>3 DEF Differs
  <2>2. s = m.movie.sums /\ p = WithEntry(m.points, f, n)
    BY <1>2
  <2>3. p[f] = n /\ \A g \in DOMAIN p : g # f => g <= Rows(m) /\ p[g] = Replay(m.movie, g)
    BY <2>2 DEF PointsOf, WithEntry
  <2>4. f <= Rows(k) /\ PointsBy(k, f - 1) # {} => found = Replay(m.movie, f)
    <3> SUFFICES ASSUME f <= Rows(k), PointsBy(k, f - 1) # {} PROVE found = Replay(m.movie, f)
      OBVIOUS
    <3>1. \A g \in DOMAIN k.points : g < f => k.points[g] = Replay(k.movie, g)
      BY <2>1, <2>3, <1>0
    <3>2. k.movie.start \in Histories
      BY <1>1, <2>1
    <3>3. found = Replay(k.movie, f)
      BY <3>1, <3>2, <2>1, <1>0, ReplayedFromPoint
    <3> QED BY <3>3, <2>1
  <2>5. CASE /\ PointsBy(k, f - 1) # {} /\ f <= Rows(k)
             /\ r.tas = [k EXCEPT !.points = WithEntry(k.points, f, found)]
             /\ r.nes = found
    <3> DEFINE q == WithEntry(p, f, Replay(m.movie, f))
    <3>1. \A g \in DOMAIN q : g <= Rows(m) /\ q[g] = Replay(m.movie, g)
      BY <2>3, <1>0 DEF WithEntry
    <3>2. Replay(m.movie, f) \in Histories
      BY <1>0, <1>1, ReplayTyped, ManagerFields
    <3>3. q \in Maps(Histories)
      BY <3>2, <1>0, <1>2, WithEntryTyped
    <3>4. r.tas = [k EXCEPT !.points = q] /\ r.nes = Replay(m.movie, f)
      <4> HIDE DEF found
      <4> QED BY <2>1, <2>4, <2>5
    <3> HIDE DEF q
    <3>5. r.tas = With(k, s, q)
      BY <3>4, <2>1, PointsAssigned
    <3>6. Differs(k, r.tas, s, q)
      <4>1. Differs(k, With(k, s, q), s, q)
        BY <3>3, <2>1, <1>2, WithDiffers
      <4> QED BY <4>1, <3>5
    <3>7. /\ r.tas.points = q /\ Rows(r.tas) = Rows(k)
          /\ \A g : Replay(r.tas.movie, g) = Replay(k.movie, g)
      BY <3>6 DEF Differs
    <3>8. PointsOf(r.tas)
      BY <3>1, <3>7, <2>1 DEF PointsOf
    <3> QED BY <3>4, <3>8
  <2>6. CASE /\ PointsBy(k, f - 1) # {} /\ f <= Rows(k) /\ k.points[f] = found
    <3>1. FALSE
      <4> HIDE DEF found
      <4> QED BY <2>1, <2>3, <2>4, <2>6, <1>6
    <3> QED BY <3>1
  <2> QED BY <1>0, <1>4, <2>0, <2>5, <2>6 DEF Outcome
<1> QED BY <1>5, <1>6

---------------------------------------------------------------------------
(* Seeking. *)

LEMMA ReadyWith ==
    ASSUME NEW m, Ready(m), NEW s \in Maps(Hashes), NEW p \in Maps(Histories),
           \A g \in DOMAIN s : g % m.interval = 0,
           0 \in DOMAIN p \/ (DOMAIN p = {} /\ m.cursor = 0)
    PROVE  Ready(With(m, s, p))
<1> DEFINE w == With(m, s, p)
<1>1. Differs(m, w, s, p)
  BY WithDiffers DEF Ready
<1> HIDE DEF w
<1>2. /\ w \in Managers /\ w.movie.sums = s /\ w.points = p /\ w.mode = m.mode
      /\ w.resume = m.resume /\ w.movie.start = m.movie.start /\ w.interval = m.interval
      /\ w.cursor = m.cursor
  BY <1>1 DEF Differs
<1>3. Anchored(w) /\ OnGrid(w)
  BY <1>2 DEF Anchored, OnGrid
<1>4. Ready(w)
  BY <1>2, <1>3 DEF Ready
<1> QED BY <1>4 DEF w

\* g has at every frame from b to n what the replay of a seek has found there.
Replays(g, m, b, n) ==
    g = [k \in b .. n |->
            IF k = b
            THEN [tas |-> m, nes |-> m.points[b], verdict |-> "Matched"]
            ELSE IF g[k - 1].verdict = "Unrecoverable"
            THEN g[k - 1]
            ELSE CheckFrame(g[k - 1].tas,
                            Append(g[k - 1].nes, m.movie.frames[k]), k)]

\* The replay of a seek is a function of the frame, however many frames it covers.
LEMMA ReplaysExists ==
    ASSUME NEW m, NEW b \in Nat, NEW n \in Nat, b <= n
    PROVE  \E g : Replays(g, m, b, n)
<1> DEFINE Bad == {i \in Nat : b <= i /\ ~ \E g : Replays(g, m, b, i)}
<1> SUFFICES ASSUME Bad # {} PROVE FALSE
  OBVIOUS
<1>1. PICK i \in Bad : \A k \in Bad : ~(k < i)
  <2>1. Bad \subseteq Nat
    OBVIOUS
  <2> HIDE DEF Bad
  <2> QED BY <2>1, LeastElement
<1>2. i \in Nat /\ b <= i /\ ~ \E g : Replays(g, m, b, i)
  BY <1>1
<1> DEFINE start == [tas |-> m, nes |-> m.points[b], verdict |-> "Matched"]
           Next1(x, k) == IF x.verdict = "Unrecoverable" THEN x
                          ELSE CheckFrame(x.tas, Append(x.nes, m.movie.frames[k]), k)
<1>3. i # b
  <2> SUFFICES ASSUME i = b PROVE FALSE
    OBVIOUS
  <2> DEFINE g == [k \in b .. b |-> start]
  <2>1. g = [k \in b .. b |-> IF k = b THEN start ELSE Next1(g[k - 1], k)]
    <3>1. \A k \in b .. b : k = b
      OBVIOUS
    <3> HIDE DEF start, Next1
    <3> QED BY <3>1
  <2>2. Replays(g, m, b, b)
    <3> HIDE DEF g
    <3> QED BY <2>1 DEF Replays
  <2> QED BY <2>2, <1>2
<1>4. PICK g : Replays(g, m, b, i - 1)
  BY <1>1, <1>2, <1>3
<1>5. \A k \in b .. i - 1 : g[k] = IF k = b THEN start ELSE Next1(g[k - 1], k)
  BY <1>4 DEF Replays
<1> DEFINE h == [k \in b .. i |-> IF k < i THEN g[k] ELSE Next1(g[i - 1], i)]
<1> HIDE DEF start, Next1
<1>6. \A k \in b .. i : h[k] = IF k = b THEN start ELSE Next1(h[k - 1], k)
  <2> TAKE k \in b .. i
  <2>1. CASE k = i
    <3>1. k - 1 \in b .. i /\ k - 1 < i /\ k # b
      BY <2>1, <1>2, <1>3
    <3>2. h[k - 1] = g[i - 1] /\ h[k] = Next1(g[i - 1], i)
      BY <3>1, <2>1
    <3> HIDE DEF h
    <3> QED BY <3>1, <3>2, <2>1
  <2>2. CASE k # i /\ k # b
    <3>1. k - 1 \in b .. i /\ k - 1 < i /\ k \in b .. i - 1 /\ k < i
      BY <2>2, <1>2, <1>3
    <3>2. h[k - 1] = g[k - 1] /\ h[k] = g[k]
      BY <3>1
    <3> HIDE DEF h
    <3> QED BY <3>1, <3>2, <1>5, <2>2
  <2>3. CASE k # i /\ k = b
    <3>1. h[k] = g[k] /\ k \in b .. i - 1
      BY <2>3, <1>2, <1>3
    <3> HIDE DEF h
    <3> QED BY <3>1, <1>5, <2>3
  <2> QED BY <2>1, <2>2, <2>3
<1>7. h = [k \in b .. i |-> h[k]]
  OBVIOUS
<1> HIDE DEF h
<1>8. h = [k \in b .. i |-> IF k = b THEN start ELSE Next1(h[k - 1], k)]
  BY <1>6, <1>7
<1>9. Replays(h, m, b, i)
  BY <1>8 DEF Replays, start, Next1
<1> QED BY <1>9, <1>2

\* A seek ends with what its replay has found at the target.
LEMMA SeekFromReplays ==
    ASSUME NEW m, NEW target \in Nat, PointAtOrBefore(m, target) \in Nat,
           PointAtOrBefore(m, target) <= target
    PROVE  \E g : /\ Replays(g, m, PointAtOrBefore(m, target), target)
                  /\ SeekFrom(m, target) = g[target]
<1> DEFINE b == PointAtOrBefore(m, target)
           f == CHOOSE g : Replays(g, m, b, target)
<1>1. Replays(f, m, b, target)
  BY ReplaysExists
<1>2. SeekFrom(m, target) = f[target]
  BY DEF SeekFrom, Replays
<1> QED BY <1>1, <1>2

\* x is the manager and the console of a seek of m on its way.
Sought(m, x, s, p) ==
    /\ s \in Maps(Hashes) /\ p \in Maps(Histories)
    /\ x.tas = With(m, s, p)
    /\ \A g \in DOMAIN s : g % m.interval = 0
    /\ DOMAIN m.points \subseteq DOMAIN p
    /\ x.nes \in Histories
    /\ x.verdict = "Unrecoverable" => EffectiveMode(m) # "Recording"

\* ... when what the session has cached is true.
SoughtTrue(m, x, k) ==
    PointsOf(m) =>
        /\ x.verdict # "Unrecoverable"
        /\ x.nes = Replay(m.movie, k) /\ PointsOf(x.tas)
        /\ SumsOf(m) => SumsOf(x.tas)

\* A seek on its way leaves a manager that can seek again.
LEMMA SoughtIsReady ==
    ASSUME NEW m, Ready(m), DOMAIN m.points # {}, NEW x, NEW s, NEW p, Sought(m, x, s, p)
    PROVE  Ready(x.tas) /\ Differs(m, x.tas, s, p) /\ 0 \in DOMAIN p
<1>1. 0 \in DOMAIN p
  BY DEF Ready, Anchored, Sought
<1>2. Ready(With(m, s, p))
  BY <1>1, ReadyWith DEF Sought
<1>3. Differs(m, With(m, s, p), s, p)
  BY WithDiffers DEF Sought, Ready
<1> QED BY <1>1, <1>2, <1>3 DEF Sought

\* One frame of the replay of a seek: the row is applied, the frame is checked.
LEMMA SeekStep ==
    ASSUME NEW m, Ready(m), NEW b \in DOMAIN m.points, NEW k \in Nat, b < k, k <= Rows(m),
           NEW x, NEW s, NEW p, Sought(m, x, s, p), SoughtTrue(m, x, k - 1),
           NEW y, y = CheckFrame(x.tas, Append(x.nes, m.movie.frames[k]), k)
    PROVE  /\ \E t, q : Sought(m, y, t, q)
           /\ SoughtTrue(m, y, k)
<1> DEFINE w == x.tas
           n == Append(x.nes, m.movie.frames[k])
<1>0. /\ m \in Managers /\ m.points \in Maps(Histories) /\ m.movie.start \in Histories
      /\ m.movie.frames \in Seq(Inputs) /\ Rows(m) = Len(m.movie.frames)
  BY ManagerFields DEF Ready
<1>1. Ready(w) /\ Differs(m, w, s, p)
  BY SoughtIsReady
<1>2. /\ w.movie.sums = s /\ w.points = p /\ w.interval = m.interval /\ Rows(w) = Rows(m)
      /\ EffectiveMode(w) = EffectiveMode(m) /\ \A g : Replay(w.movie, g) = Replay(m.movie, g)
  BY <1>1 DEF Differs
<1>3. n \in Histories
  <2>1. m.movie.frames[k] \in Inputs \cup {Event}
    BY <1>0, MapsAre
  <2> QED BY <2>1, HistoryGrows DEF Sought
<1>4. PICK t, q : Checked(w, k, y, t, q)
  <2> HIDE DEF w, n
  <2> QED BY <1>1, <1>3, CheckFrameIs DEF w, n
<1>5. Sought(m, y, t, q)
  <2>1. y.tas = With(m, t, q)
    <3>1. y.tas = With(With(m, s, p), t, q)
      BY <1>4 DEF Checked, Sought
    <3> QED BY <3>1, <1>0, WithTwice
  <2> QED BY <2>1, <1>2, <1>4 DEF Checked, Sought
<1>6. SoughtTrue(m, y, k)
  <2> SUFFICES ASSUME PointsOf(m)
               PROVE  /\ y.verdict # "Unrecoverable"
                      /\ y.nes = Replay(m.movie, k) /\ PointsOf(y.tas)
                      /\ SumsOf(m) => SumsOf(y.tas)
    BY DEF SoughtTrue
  <2>1. x.nes = Replay(m.movie, k - 1) /\ PointsOf(w) /\ (SumsOf(m) => SumsOf(w))
    BY DEF SoughtTrue
  <2>2. n = Replay(m.movie, k)
    <3>1. k - 1 \in Nat /\ k - 1 < Len(m.movie.frames) /\ (k - 1) + 1 = k
      BY <1>0, MapsAre
    <3>2. Append(Replay(m.movie, k - 1), m.movie.frames[(k - 1) + 1]) = Replay(m.movie, (k - 1) + 1)
      BY <3>1, <1>0, ReplayNext
    <3> QED BY <3>1, <3>2, <2>1
  <2>3. PointsBy(w, k - 1) # {}
    <3>1. b \in DOMAIN w.points /\ b <= k - 1
      BY <1>0, <1>2, MapsAre DEF Sought
    <3> QED BY <3>1 DEF PointsBy
  <2>4. k <= Rows(w) /\ n = Replay(w.movie, k)
    BY <2>2, <1>2
  <2>5. y = CheckFrame(w, n, k)
    OBVIOUS
  <2> HIDE DEF w, n
  <2>6. y.nes = n /\ PointsOf(y.tas) /\ (SumsOf(w) => SumsOf(y.tas))
        /\ y.verdict # "Unrecoverable"
    BY <2>1, <2>3, <2>4, <2>5, <1>1, <1>3, CheckTrue
  <2> QED BY <2>1, <2>2, <2>6
<1> QED BY <1>5, <1>6

\* Where a seek ends, with the manager it had.
LEMMA SeekFromEnds ==
    ASSUME NEW m, Ready(m), DOMAIN m.points # {}, NEW target \in Nat, target <= Rows(m),
           NEW r, r = SeekFrom(m, target)
    PROVE  /\ \E s, p : Sought(m, r, s, p)
           /\ SoughtTrue(m, r, target)
<1> DEFINE b == PointAtOrBefore(m, target)
<1>0. /\ m \in Managers /\ m.points \in Maps(Histories) /\ m.movie.sums \in Maps(Hashes)
  BY ManagerFields, MovieFields DEF Ready, Hashes
<1>1. b \in DOMAIN m.points /\ b \in Nat /\ b <= target
  <2>1. 0 \in PointsBy(m, target)
    BY DEF Ready, Anchored, PointsBy
  <2> QED BY <2>1, <1>0, LargestBy
<1>2. PICK g : Replays(g, m, b, target) /\ r = g[target]
  <2> HIDE DEF b
  <2> QED BY <1>1, SeekFromReplays DEF b
<1> HIDE DEF b
<1> DEFINE Good(k) == (\E s, p : Sought(m, g[k], s, p)) /\ SoughtTrue(m, g[k], k)
           Bad == {k \in b .. target : ~ Good(k)}
<1>3. g[b] = [tas |-> m, nes |-> m.points[b], verdict |-> "Matched"]
  BY <1>1, <1>2 DEF Replays
<1>4. \A k \in b + 1 .. target :
        g[k] = IF g[k - 1].verdict = "Unrecoverable" THEN g[k - 1]
               ELSE CheckFrame(g[k - 1].tas, Append(g[k - 1].nes, m.movie.frames[k]), k)
  BY <1>1, <1>2 DEF Replays
<1>5. Good(b)
  <2>1. m = With(m, m.movie.sums, m.points)
    <3>1. m = [m EXCEPT !.points = m.points]
      BY <1>0 DEF Managers
    <3> QED BY <3>1, <1>0, PointsAssigned
  <2>2. m.points[b] \in Histories
    BY <1>0, <1>1, MapsAre
  <2>3. g[b].tas = m /\ g[b].nes = m.points[b] /\ g[b].verdict = "Matched"
    BY <1>3
  <2>4. Sought(m, g[b], m.movie.sums, m.points)
    BY <2>1, <2>2, <2>3, <1>0 DEF Sought, Ready, OnGrid
  <2>5. SoughtTrue(m, g[b], b)
    BY <2>3, <1>1 DEF SoughtTrue, PointsOf
  <2> QED BY <2>4, <2>5
<1> SUFFICES ASSUME Bad # {} PROVE FALSE
  BY <1>1, <1>2
<1>6. PICK k \in Bad : \A j \in Bad : ~(j < k)
  <2>1. Bad \subseteq Nat
    BY <1>1
  <2> HIDE DEF Bad
  <2> QED BY <2>1, LeastElement
<1>7. k \in b + 1 .. target /\ k \in Nat /\ b < k /\ Good(k - 1) /\ ~ Good(k)
  <2>1. k \in b .. target /\ ~ Good(k)
    BY <1>6
  <2>2. k # b
    BY <2>1, <1>5
  <2>3. k - 1 \in b .. target /\ k - 1 < k
    BY <2>1, <2>2, <1>1
  <2>4. Good(k - 1)
    <3> HIDE DEF Good
    <3> QED BY <2>3, <1>6
  <2> HIDE DEF Good
  <2> QED BY <2>1, <2>2, <2>4, <1>1
<1>8. PICK s, p : Sought(m, g[k - 1], s, p)
  BY <1>7
<1>9. SoughtTrue(m, g[k - 1], k - 1)
  BY <1>7
<1>10. k <= Rows(m)
  BY <1>0, <1>1, <1>7, ManagerFields
<1>11. CASE g[k - 1].verdict = "Unrecoverable"
  <2>1. g[k] = g[k - 1]
    BY <1>4, <1>7, <1>11
  <2>2. SoughtTrue(m, g[k], k)
    BY <2>1, <1>9, <1>11 DEF SoughtTrue
  <2> QED BY <2>1, <2>2, <1>7, <1>8
<1>12. CASE g[k - 1].verdict # "Unrecoverable"
  <2>1. g[k] = CheckFrame(g[k - 1].tas, Append(g[k - 1].nes, m.movie.frames[k]), k)
    BY <1>4, <1>7, <1>12
  <2>2. Good(k)
    BY <2>1, <1>1, <1>7, <1>8, <1>9, <1>10, SeekStep
  <2> QED BY <2>2, <1>7
<1> QED BY <1>11, <1>12

---------------------------------------------------------------------------
(* Modes. *)

\* w is m in another mode, or with the cursor elsewhere.
Moves(m, w, x, y, c) ==
    /\ w \in Managers /\ w.mode = x /\ w.resume = y /\ w.cursor = c
    /\ w.movie = m.movie /\ w.points = m.points /\ w.interval = m.interval

\* w has the rows, checkpoints and hashes of m.
Same(m, w) ==
    /\ w.movie = m.movie /\ w.points = m.points /\ w.interval = m.interval
    /\ Rows(w) = Rows(m) /\ HasMovie(w) = HasMovie(m)
    /\ (PointsOf(m) <=> PointsOf(w)) /\ (SumsOf(m) <=> SumsOf(w))
    /\ \A n : w.cursor = m.cursor => (AtCursor(m, n) <=> AtCursor(w, n))

\* Assigning mode, resume mode and cursor moves a manager.
LEMMA MovesFields ==
    ASSUME NEW m \in Managers, NEW x \in Modes, NEW y \in Modes \ {"Paused"}, NEW c \in Nat
    PROVE  Moves(m, [m EXCEPT !.mode = x, !.resume = y, !.cursor = c], x, y, c)
<1> DEFINE w == [m EXCEPT !.mode = x, !.resume = y, !.cursor = c]
<1>1. /\ w \in Managers /\ w.mode = x /\ w.resume = y /\ w.cursor = c
      /\ w.movie = m.movie /\ w.points = m.points /\ w.interval = m.interval
  BY DEF Managers
<1> HIDE DEF w
<1>2. Moves(m, w, x, y, c)
  BY <1>1 DEF Moves
<1> QED BY <1>2 DEF w

\* A manager that is moved keeps its movie, its checkpoints and its anchor.
LEMMA MovesKeep ==
    ASSUME NEW m, NEW w, NEW x, NEW y, NEW c, Moves(m, w, x, y, c), m \in Managers
    PROVE  /\ Same(m, w)
           /\ EffectiveMode(w) = IF x = "Paused" THEN y ELSE x
           /\ Ready(m) /\ (x = "Paused" => y # "Inactive") /\ (DOMAIN m.points = {} => c = 0)
                => Ready(w)
<1>1. Rows(w) = Rows(m)
  BY DEF Moves, Rows
<1>2. HasMovie(w) = HasMovie(m)
  BY DEF Moves, HasMovie
<1>3. PointsOf(m) <=> PointsOf(w)
  BY <1>1 DEF Moves, PointsOf
<1>4. SumsOf(m) <=> SumsOf(w)
  BY <1>1 DEF Moves, SumsOf
<1>5. \A n : w.cursor = m.cursor => (AtCursor(m, n) <=> AtCursor(w, n))
  BY <1>1 DEF Moves, AtCursor
<1>6. EffectiveMode(w) = IF x = "Paused" THEN y ELSE x
  BY DEF EffectiveMode, Moves
<1>7. Ready(m) /\ (x = "Paused" => y # "Inactive") /\ (DOMAIN m.points = {} => c = 0) => Ready(w)
  BY DEF Ready, Moves, Anchored, OnGrid
<1>8. Same(m, w)
  BY <1>1, <1>2, <1>3, <1>4, <1>5 DEF Same, Moves
<1> QED BY <1>6, <1>7, <1>8

\* The modes a manager with a movie can be in.
LEMMA ModesOf ==
    ASSUME NEW m, Ready(m)
    PROVE  /\ m \in Managers /\ m.mode \in Modes /\ m.resume \in Modes \ {"Paused"}
           /\ m.cursor \in Nat
           /\ m.mode = "Paused" => m.resume # "Inactive"
           /\ m.mode # "Inactive" => EffectiveMode(m) # "Inactive"
           /\ EffectiveMode(m) \in Modes \ {"Paused"}
           /\ DOMAIN m.points = {} => m.cursor = 0
<1>1. m \in Managers /\ m.mode \in Modes /\ m.resume \in Modes \ {"Paused"} /\ m.cursor \in Nat
  BY ManagerFields DEF Ready
<1>2. m.mode = "Paused" => m.resume # "Inactive"
  BY DEF Ready
<1>3. DOMAIN m.points = {} => m.cursor = 0
  BY DEF Ready, Anchored
<1> QED BY <1>1, <1>2, <1>3 DEF EffectiveMode, Modes

\* Pausing keeps the mode to resume.
LEMMA PauseKeeps ==
    ASSUME NEW m, Ready(m)
    PROVE  /\ Ready(Pause(m)) /\ Same(m, Pause(m)) /\ Pause(m).cursor = m.cursor
           /\ EffectiveMode(Pause(m)) = EffectiveMode(m)
           /\ Branched(m) => Branched(Pause(m))
           /\ m.mode # "Inactive" => Pause(m).mode # "Inactive"
<1> DEFINE w == Pause(m)
<1>0. /\ m \in Managers /\ m.mode \in Modes /\ m.resume \in Modes \ {"Paused"}
      /\ m.mode = "Paused" => m.resume # "Inactive"
      /\ m.cursor \in Nat /\ (DOMAIN m.points = {} => m.cursor = 0)
  BY ModesOf
<1>1. \E x \in Modes, y \in Modes \ {"Paused"} :
         /\ Moves(m, w, x, y, m.cursor)
         /\ x = "Paused" => y # "Inactive"
         /\ (IF x = "Paused" THEN y ELSE x) = EffectiveMode(m)
         /\ m.mode # "Inactive" => x # "Inactive"
  <2>1. CASE m.mode \in {"Recording", "Playback", "ReadOnly"}
    <3>1. w = [m EXCEPT !.mode = "Paused", !.resume = m.mode, !.cursor = m.cursor]
      BY <2>1, <1>0 DEF Pause, Managers
    <3>2. "Paused" \in Modes /\ m.mode \in Modes \ {"Paused"} /\ m.mode # "Inactive"
      BY <2>1 DEF Modes
    <3> HIDE DEF w
    <3>3. Moves(m, w, "Paused", m.mode, m.cursor)
      BY <3>1, <3>2, <1>0, MovesFields
    <3>4. EffectiveMode(m) = m.mode
      BY <2>1 DEF EffectiveMode
    <3> QED BY <3>2, <3>3, <3>4
  <2>2. CASE m.mode \notin {"Recording", "Playback", "ReadOnly"}
    <3>1. w = m
      BY <2>2 DEF Pause
    <3>2. Moves(m, w, m.mode, m.resume, m.cursor)
      BY <3>1, <1>0 DEF Moves
    <3>3. EffectiveMode(m) = IF m.mode = "Paused" THEN m.resume ELSE m.mode
      BY DEF EffectiveMode
    <3> HIDE DEF w
    <3> QED BY <3>2, <3>3, <1>0
  <2> QED BY <2>1, <2>2
<1> HIDE DEF w
<1>2. Same(m, w) /\ Ready(w) /\ EffectiveMode(w) = EffectiveMode(m) /\ w.cursor = m.cursor
      /\ (m.mode # "Inactive" => w.mode # "Inactive")
  <2>1. PICK x \in Modes, y \in Modes \ {"Paused"} :
         /\ Moves(m, w, x, y, m.cursor)
         /\ x = "Paused" => y # "Inactive"
         /\ (IF x = "Paused" THEN y ELSE x) = EffectiveMode(m)
         /\ m.mode # "Inactive" => x # "Inactive"
    BY <1>1
  <2>2. Same(m, w) /\ Ready(w) /\ EffectiveMode(w) = IF x = "Paused" THEN y ELSE x
    BY <2>1, <1>0, MovesKeep
  <2> QED BY <2>1, <2>2 DEF Moves
<1>3. Branched(m) => Branched(w)
  BY <1>2 DEF Branched, RecordingContext, Same
<1> QED BY <1>2, <1>3 DEF w

\* Resuming keeps all but the mode.
LEMMA ResumeKeeps ==
    ASSUME NEW m, Ready(m)
    PROVE  /\ Ready(Resume(m)) /\ Same(m, Resume(m)) /\ Resume(m).cursor = m.cursor
           /\ EffectiveMode(Resume(m)) = EffectiveMode(m)
           /\ Branched(m) => Branched(Resume(m))
<1> DEFINE w == Resume(m)
<1>0. /\ m \in Managers /\ m.mode \in Modes /\ m.resume \in Modes \ {"Paused"}
      /\ m.mode = "Paused" => m.resume # "Inactive"
      /\ m.cursor \in Nat /\ (DOMAIN m.points = {} => m.cursor = 0)
  BY ModesOf
<1>1. \E x \in Modes : Moves(m, w, x, m.resume, m.cursor) /\ x = EffectiveMode(m)
                       /\ x # "Paused"
  <2>1. CASE m.mode = "Paused"
    <3>1. w = [m EXCEPT !.mode = m.resume, !.resume = m.resume, !.cursor = m.cursor]
      BY <2>1, <1>0 DEF Resume, Managers
    <3> HIDE DEF w
    <3>2. Moves(m, w, m.resume, m.resume, m.cursor)
      BY <3>1, <1>0, MovesFields
    <3> QED BY <3>2, <2>1, <1>0 DEF EffectiveMode
  <2>2. CASE m.mode # "Paused"
    <3>1. w = m
      BY <2>2 DEF Resume
    <3>2. Moves(m, w, m.mode, m.resume, m.cursor)
      BY <3>1, <1>0 DEF Moves
    <3> HIDE DEF w
    <3> QED BY <3>2, <2>2, <1>0 DEF EffectiveMode
  <2> QED BY <2>1, <2>2
<1> HIDE DEF w
<1>2. Same(m, w) /\ Ready(w) /\ EffectiveMode(w) = EffectiveMode(m) /\ w.cursor = m.cursor
  BY <1>0, <1>1, MovesKeep DEF Moves
<1>3. Branched(m) => Branched(w)
  BY <1>2 DEF Branched, RecordingContext, Same
<1> QED BY <1>2, <1>3 DEF w

\* Stopping ends the mode, and with it a recording.
LEMMA StopKeeps ==
    ASSUME NEW m, Ready(m)
    PROVE  /\ Loaded(Stop(m)) /\ Same(m, Stop(m)) /\ Stop(m).cursor = m.cursor
           /\ Stop(m).mode = "Inactive"
<1> DEFINE w == Stop(m)
<1>0. m \in Managers /\ m.cursor \in Nat /\ (DOMAIN m.points = {} => m.cursor = 0)
  BY ModesOf
<1>1. Moves(m, w, "Inactive", "Inactive", m.cursor)
  <2>1. w = [m EXCEPT !.mode = "Inactive", !.resume = "Inactive", !.cursor = m.cursor]
    BY <1>0 DEF Stop, Managers
  <2>2. "Inactive" \in Modes /\ "Inactive" \in Modes \ {"Paused"}
    BY DEF Modes
  <2> HIDE DEF w
  <2> QED BY <2>1, <2>2, <1>0, MovesFields
<1> HIDE DEF w
<1>2. Same(m, w) /\ Ready(w) /\ EffectiveMode(w) = "Inactive" /\ w.cursor = m.cursor
  BY <1>0, <1>1, MovesKeep DEF Moves
<1>3. Branched(w)
  BY <1>2 DEF Branched, RecordingContext
<1>4. w.mode = "Inactive"
  BY <1>1 DEF Moves
<1> QED BY <1>2, <1>3, <1>4 DEF w, Loaded

\* A preview is never a recording.
LEMMA PreviewKeeps ==
    ASSUME NEW m, Ready(m), NEW f \in Nat, DOMAIN m.points = {} => f = 0
    PROVE  /\ Loaded(PausedForPreview(m, f)) /\ Same(m, PausedForPreview(m, f))
           /\ PausedForPreview(m, f).cursor = f
           /\ PausedForPreview(m, f).mode = "Paused"
           /\ EffectiveMode(PausedForPreview(m, f)) =
                IF ReadOnly(m) THEN "ReadOnly" ELSE "Playback"
<1> DEFINE w == PausedForPreview(m, f)
           y == IF ReadOnly(m) THEN "ReadOnly" ELSE "Playback"
<1>0. m \in Managers
  BY ModesOf
<1>1. y \in Modes \ {"Paused"} /\ y # "Inactive" /\ y # "Recording" /\ "Paused" \in Modes
  BY DEF Modes
<1>2. w = [m EXCEPT !.mode = "Paused", !.resume = y, !.cursor = f]
  <2> HIDE DEF y
  <2>1. w = [m EXCEPT !.cursor = f, !.mode = "Paused", !.resume = y]
    BY DEF PausedForPreview, y
  <2> QED BY <2>1, <1>0 DEF Managers
<1> HIDE DEF w, y
<1>3. Moves(m, w, "Paused", y, f)
  BY <1>0, <1>1, <1>2, MovesFields
<1>4. Same(m, w) /\ Ready(w) /\ EffectiveMode(w) = y /\ w.cursor = f /\ w.mode = "Paused"
  BY <1>0, <1>1, <1>3, MovesKeep DEF Moves
<1>5. Branched(w)
  BY <1>1, <1>4 DEF Branched, RecordingContext
<1> QED BY <1>4, <1>5 DEF w, y, Loaded

\* Playback begins at the first row.
LEMMA StartKeeps ==
    ASSUME NEW m, Ready(m), NEW readOnly \in BOOLEAN
    PROVE  /\ Loaded(StartPlayback(m, readOnly)) /\ Same(m, StartPlayback(m, readOnly))
           /\ StartPlayback(m, readOnly).cursor = 0
           /\ EffectiveMode(StartPlayback(m, readOnly)) # "Recording"
<1> DEFINE w == StartPlayback(m, readOnly)
           y == IF readOnly THEN "ReadOnly" ELSE "Playback"
<1>0. m \in Managers
  BY ModesOf
<1>1. y \in Modes \ {"Paused"} /\ y \in Modes /\ y # "Inactive" /\ y # "Recording" /\ y # "Paused"
  BY DEF Modes
<1>2. w = [m EXCEPT !.mode = y, !.resume = y, !.cursor = 0]
  <2> HIDE DEF y
  <2>1. w = [m EXCEPT !.cursor = 0, !.mode = y, !.resume = y]
    BY DEF StartPlayback, y
  <2> QED BY <2>1, <1>0 DEF Managers
<1> HIDE DEF w, y
<1>3. Moves(m, w, y, y, 0)
  BY <1>0, <1>1, <1>2, MovesFields
<1>4. Same(m, w) /\ Ready(w) /\ EffectiveMode(w) = y /\ w.cursor = 0
  BY <1>0, <1>1, <1>3, MovesKeep DEF Moves
<1>5. Branched(w)
  BY <1>1, <1>4 DEF Branched, RecordingContext
<1> QED BY <1>1, <1>4, <1>5 DEF w, Loaded

---------------------------------------------------------------------------
(* Rows. *)

\* w is the movie v with other rows and marks from row f on, and counted.
Rewrites(v, w, rows, marks, f) ==
    /\ w \in Movies /\ w.frames = rows /\ w.marks = marks /\ w.start = v.start
    /\ w.sums = UpTo(v.sums, f)
    /\ Wrap > 1 => w.rerecords # v.rerecords

\* changed_from drops what was stored after the first changed row.
LEMMA ChangedFromRewrites ==
    ASSUME NEW v \in Movies, NEW rows \in Seq(Inputs), NEW marks \in SUBSET Nat, NEW f
    PROVE  /\ Rewrites(v, ChangedFrom([v EXCEPT !.frames = rows, !.marks = marks], f),
                       rows, marks, f)
           /\ Rewrites(v, ChangedFrom([v EXCEPT !.frames = rows], f), rows, v.marks, f)
<1> USE DEF Rewrites
<1>0. Wrap \in Nat \ {0}
  BY TasParameters
<1>1. /\ UpTo(v.sums, f) \in Maps(Histories \cup {StaleHash}) /\ v.marks \in SUBSET Nat
      /\ v.rerecords \in 0 .. Wrap - 1
  BY MovieFields, UpToTyped
<1>2. ASSUME NEW k \in SUBSET Nat, NEW u, u = [v EXCEPT !.frames = rows, !.marks = k]
      PROVE  Rewrites(v, ChangedFrom(u, f), rows, k, f)
  <2>1. u \in Movies /\ u.frames = rows /\ u.marks = k /\ u.start = v.start /\ u.sums = v.sums
        /\ u.rerecords = v.rerecords
    BY <1>2 DEF Movies
  <2> DEFINE s == UpTo(v.sums, f)
             x == [u EXCEPT !.sums = s]
             r == (v.rerecords + 1) % Wrap
             w == [x EXCEPT !.rerecords = r]
  <2> HIDE DEF s
  <2>2. x \in Movies /\ x.frames = rows /\ x.marks = k /\ x.start = v.start /\ x.sums = s
        /\ x.rerecords = v.rerecords
    BY <2>1, <1>1 DEF Movies, s
  <2>3. r \in 0 .. Wrap - 1 /\ (Wrap > 1 => r # v.rerecords)
    BY <1>0, <1>1
  <2>4. ChangedFrom(u, f) = w
    <3>1. [u EXCEPT !.sums = UpTo(@, f)] = x
      BY <2>1, Zenon DEF s
    <3>2. [x EXCEPT !.rerecords = (@ + 1) % Wrap] = [x EXCEPT !.rerecords = r]
      <4> HIDE DEF x
      <4> QED BY <2>2, Zenon
    <3> HIDE DEF x, r
    <3> QED BY <3>1, <3>2 DEF ChangedFrom, Counted
  <2> HIDE DEF x, r
  <2>5. w \in Movies /\ w.frames = rows /\ w.marks = k /\ w.start = v.start /\ w.sums = s
        /\ w.rerecords = r
    BY <2>2, <2>3 DEF Movies
  <2> HIDE DEF w
  <2> QED BY <2>3, <2>4, <2>5 DEF s
<1>3. [v EXCEPT !.frames = rows] = [v EXCEPT !.frames = rows, !.marks = v.marks]
  BY DEF Movies
<1> HIDE DEF Rewrites
<1>4. Rewrites(v, ChangedFrom([v EXCEPT !.frames = rows, !.marks = marks], f), rows, marks, f)
  BY <1>2
<1>5. Rewrites(v, ChangedFrom([v EXCEPT !.frames = rows], f), rows, v.marks, f)
  BY <1>1, <1>2, <1>3
<1> QED BY <1>4, <1>5

\* Rows that agree before row f lead to the same states up to it.
LEMMA AgreeingReplay ==
    ASSUME NEW v \in Movies, NEW w \in Movies, w.start = v.start, NEW f \in Nat,
           f <= Len(v.frames), f <= Len(w.frames),
           \A i \in 1 .. f : w.frames[i] = v.frames[i], NEW g \in Nat, g <= f
    PROVE  Replay(w, g) = Replay(v, g)
<1>1. v.frames \in Seq(Inputs) /\ w.frames \in Seq(Inputs)
  BY MovieFields
<1>2. Take(w.frames, g) = Take(v.frames, g)
  BY <1>1, TakeAgrees
<1> QED BY <1>2 DEF Replay

\* The manager with another movie.
Holds(m, w, v) ==
    /\ w \in Managers /\ w.movie = v /\ w.mode = m.mode /\ w.resume = m.resume
    /\ w.cursor = m.cursor /\ w.points = m.points /\ w.interval = m.interval
    /\ EffectiveMode(w) = EffectiveMode(m)

\* A manager stays fit to seek when its movie is given other rows and fewer hashes.
LEMMA MovieHeld ==
    ASSUME NEW m, Ready(m), NEW v \in Movies, v.start = m.movie.start,
           DOMAIN v.sums \subseteq DOMAIN m.movie.sums
    PROVE  /\ Holds(m, [m EXCEPT !.movie = v], v) /\ Ready([m EXCEPT !.movie = v])
           /\ Branched(m) => Branched([m EXCEPT !.movie = v])
<1> DEFINE w == [m EXCEPT !.movie = v]
<1>1. /\ w \in Managers /\ w.movie = v /\ w.mode = m.mode /\ w.resume = m.resume
      /\ w.cursor = m.cursor /\ w.points = m.points /\ w.interval = m.interval
  BY DEF Ready, Managers
<1> HIDE DEF w
<1>2. EffectiveMode(w) = EffectiveMode(m)
  BY <1>1 DEF EffectiveMode
<1>3. Ready(w)
  BY <1>1 DEF Ready, Anchored, OnGrid
<1>4. Branched(m) => Branched(w)
  BY <1>1, <1>2 DEF Branched, RecordingContext
<1>5. Holds(m, w, v)
  BY <1>1, <1>2 DEF Holds
<1> QED BY <1>3, <1>4, <1>5 DEF w

\* The manager after an edit of its rows.
LEMMA RewrittenHeld ==
    ASSUME NEW m, Ready(m), NEW v, NEW rows, NEW marks, NEW f, Rewrites(m.movie, v, rows, marks, f)
    PROVE  /\ Holds(m, [m EXCEPT !.movie = v], v) /\ Ready([m EXCEPT !.movie = v])
           /\ Branched(m) => Branched([m EXCEPT !.movie = v])
<1>1. v \in Movies /\ v.start = m.movie.start /\ DOMAIN v.sums \subseteq DOMAIN m.movie.sums
  BY DEF Rewrites, UpTo
<1> QED BY <1>1, MovieHeld

\* Dropping what lies after a frame.
LEMMA InvalidateKeeps ==
    ASSUME NEW m, Ready(m), NEW f \in Nat
    PROVE  /\ Ready(InvalidateAfter(m, f))
           /\ Differs(m, InvalidateAfter(m, f), UpTo(m.movie.sums, f), UpTo(m.points, f))
           /\ Branched(m) => Branched(InvalidateAfter(m, f))
           /\ m.cursor <= f => Branched(InvalidateAfter(m, m.cursor))
           /\ DOMAIN m.points # {} => DOMAIN InvalidateAfter(m, f).points # {}
           /\ PointsOf(m) => PointsOf(InvalidateAfter(m, f))
           /\ SumsOf(m) => SumsOf(InvalidateAfter(m, f))
<1>0. m \in Managers /\ m.points \in Maps(Histories) /\ m.movie.sums \in Maps(Hashes)
      /\ m.cursor \in Nat
  BY ManagerFields, MovieFields DEF Ready, Hashes
<1>1. ASSUME NEW g \in Nat, NEW w, w = InvalidateAfter(m, g)
      PROVE  /\ Ready(w) /\ Differs(m, w, UpTo(m.movie.sums, g), UpTo(m.points, g))
             /\ Branched(m) => Branched(w)
             /\ g <= m.cursor => Branched(w)
             /\ DOMAIN m.points # {} => DOMAIN w.points # {}
             /\ PointsOf(m) => PointsOf(w)
             /\ SumsOf(m) => SumsOf(w)
  <2> DEFINE s == UpTo(m.movie.sums, g)
             p == UpTo(m.points, g)
  <2>1. w = With(m, s, p)
    <3>1. w = [m EXCEPT !.points = UpTo(@, g), !.movie.sums = UpTo(@, g)]
      BY <1>1 DEF InvalidateAfter
    <3>2. [m EXCEPT !.points = UpTo(@, g), !.movie.sums = UpTo(@, g)]
            = [m EXCEPT !.points = p, !.movie.sums = s]
      <4> DEFINE u == [m EXCEPT !.points = UpTo(@, g)]
                 x == [m EXCEPT !.points = p]
      <4>1. u = x
        BY <1>0, Zenon
      <4>2. x.movie = m.movie
        BY <1>0 DEF Managers
      <4>3. [x EXCEPT !.movie.sums = UpTo(@, g)] = [x EXCEPT !.movie.sums = UpTo(x.movie.sums, g)]
        <5> HIDE DEF x
        <5> QED BY Zenon
      <4> HIDE DEF x
      <4> QED BY <4>1, <4>2, <4>3 DEF x
    <3>3. [m EXCEPT !.points = p, !.movie.sums = s] = With(m, s, p)
      <4> DEFINE v == [m.movie EXCEPT !.sums = s]
      <4>1. [m EXCEPT !.points = p, !.movie.sums = s] = [m EXCEPT !.points = p, !.movie = v]
        BY <1>0 DEF Managers
      <4>2. With(m, s, p) = [m EXCEPT !.movie = v, !.points = p]
        BY DEF With
      <4> HIDE DEF v, s, p
      <4> QED BY <4>1, <4>2, <1>0 DEF Managers
    <3> QED BY <3>1, <3>2, <3>3
  <2>2. s \in Maps(Hashes) /\ p \in Maps(Histories)
    BY <1>0, UpToTyped
  <2>3. /\ DOMAIN s = {h \in DOMAIN m.movie.sums : h <= g}
        /\ DOMAIN p = {h \in DOMAIN m.points : h <= g}
        /\ \A h \in DOMAIN s : s[h] = m.movie.sums[h]
        /\ \A h \in DOMAIN p : p[h] = m.points[h]
    BY DEF UpTo
  <2> HIDE DEF s, p
  <2>4. Differs(m, w, s, p)
    BY <2>1, <2>2, <1>0, WithDiffers
  <2>5. 0 \in DOMAIN m.points => 0 \in DOMAIN p
    BY <2>3
  <2>6. Ready(w)
    <3>1. \A h \in DOMAIN s : h % m.interval = 0
      BY <2>3 DEF Ready, OnGrid
    <3>2. 0 \in DOMAIN p \/ (DOMAIN p = {} /\ m.cursor = 0)
      BY <2>3, <2>5 DEF Ready, Anchored
    <3> QED BY <3>1, <3>2, <2>1, <2>2, ReadyWith
  <2>7. /\ w.points = p /\ w.cursor = m.cursor /\ Rows(w) = Rows(m) /\ w.movie.sums = s
        /\ EffectiveMode(w) = EffectiveMode(m) /\ \A k : Replay(w.movie, k) = Replay(m.movie, k)
    BY <2>4 DEF Differs
  <2>8. Branched(m) => Branched(w)
    BY <2>3, <2>7 DEF Branched, RecordingContext
  <2>9. g <= m.cursor => Branched(w)
    BY <2>3, <2>7, <1>0, MapsAre DEF Branched
  <2>10. DOMAIN m.points # {} => DOMAIN w.points # {}
    BY <2>5, <2>7 DEF Ready, Anchored
  <2>11. PointsOf(m) => PointsOf(w)
    BY <2>3, <2>7 DEF PointsOf
  <2>12. SumsOf(m) => SumsOf(w)
    BY <2>3, <2>7 DEF SumsOf
  <2> QED BY <2>4, <2>6, <2>8, <2>9, <2>10, <2>11, <2>12 DEF s, p
<1>2. Branched(InvalidateAfter(m, m.cursor))
  BY <1>0, <1>1
<1> QED BY <1>1, <1>2

\* The manager and console r that a seek of m to a frame ends with.
SeekEnds(m, target, r) ==
    /\ Loaded(r.tas) /\ r.nes \in Histories /\ r.arrived \in BOOLEAN
    /\ Rows(r.tas) = Rows(m) /\ r.tas.movie.frames = m.movie.frames
    /\ r.tas.movie.marks = m.movie.marks /\ r.tas.movie.rerecords = m.movie.rerecords
    /\ DOMAIN r.tas.points # {}
    /\ ReadOnly(m) => ReadOnly(r.tas)
    /\ r.arrived => r.tas.cursor = target
    /\ PointsOf(m) =>
         /\ r.arrived /\ AtCursor(r.tas, r.nes) /\ PointsOf(r.tas)
         /\ SumsOf(m) => SumsOf(r.tas)

\* seek_to stops at the target, or at the last row, with the replay of its rows.
LEMMA SeekToEnds ==
    ASSUME NEW m, Ready(m), NEW frame \in Nat
    PROVE  SeekEnds(m, Lesser(frame, Rows(m)), SeekTo(m, frame))
<1> DEFINE target == Lesser(frame, Rows(m))
           based == IF DOMAIN m.points = {}
                    THEN [m EXCEPT !.points = WithEntry(EmptyMap, 0, m.movie.start)]
                    ELSE m
           end == SeekFrom(based, target)
           r == SeekTo(m, frame)
<1>0. /\ m \in Managers /\ m.points \in Maps(Histories) /\ m.movie.sums \in Maps(Hashes)
      /\ m.movie.start \in Histories /\ Rows(m) \in Nat /\ m.movie.frames \in Seq(Inputs)
  BY ManagerFields, MovieFields DEF Ready, Hashes
<1>1. target \in Nat /\ target <= Rows(m)
  BY <1>0 DEF Lesser
<1>2. PICK p \in Maps(Histories) :
        /\ based = With(m, m.movie.sums, p) /\ DOMAIN p # {} /\ 0 \in DOMAIN p
        /\ PointsOf(m) => \A f \in DOMAIN p : f <= Rows(m) /\ p[f] = Replay(m.movie, f)
  <2>1. CASE DOMAIN m.points = {}
    <3> DEFINE p == WithEntry(EmptyMap, 0, m.movie.start)
    <3>1. p \in Maps(Histories)
      BY <1>0, EmptyMapTyped, WithEntryTyped
    <3>2. DOMAIN p = {0} /\ p[0] = m.movie.start
      BY DEF WithEntry, EmptyMap
    <3> HIDE DEF p
    <3>3. [m EXCEPT !.points = p] = With(m, m.movie.sums, p)
      BY <1>0, PointsAssigned
    <3>4. \A f \in DOMAIN p : f <= Rows(m) /\ p[f] = Replay(m.movie, f)
      BY <3>2, <1>0, ReplayNothing
    <3>5. based = [m EXCEPT !.points = p]
      BY <2>1 DEF p
    <3> QED BY <3>1, <3>2, <3>3, <3>4, <3>5
  <2>2. CASE DOMAIN m.points # {}
    <3>1. m = [m EXCEPT !.points = m.points]
      BY <1>0 DEF Managers
    <3>2. based = With(m, m.movie.sums, m.points)
      BY <3>1, <2>2, <1>0, PointsAssigned
    <3>3. 0 \in DOMAIN m.points
      BY <2>2 DEF Ready, Anchored
    <3> QED BY <3>2, <3>3, <2>2, <1>0 DEF PointsOf
  <2> QED BY <2>1, <2>2
<1> HIDE DEF based
<1>3. Ready(based) /\ Differs(m, based, m.movie.sums, p)
  <2>1. Differs(m, With(m, m.movie.sums, p), m.movie.sums, p)
    BY <1>0, WithDiffers
  <2>2. \A g \in DOMAIN m.movie.sums : g % m.interval = 0
    BY DEF Ready, OnGrid
  <2>3. Ready(With(m, m.movie.sums, p))
    BY <2>2, <1>0, <1>2, ReadyWith
  <2> QED BY <2>1, <2>3, <1>2
<1>4. /\ DOMAIN based.points # {} /\ Rows(based) = Rows(m)
      /\ based.movie.frames = m.movie.frames /\ based.movie.marks = m.movie.marks
      /\ based.movie.rerecords = m.movie.rerecords
      /\ EffectiveMode(based) = EffectiveMode(m)
      /\ \A k : Replay(based.movie, k) = Replay(m.movie, k)
  BY <1>2, <1>3 DEF Differs
<1>5. /\ PointsOf(m) => PointsOf(based)
      /\ SumsOf(m) => SumsOf(based)
  BY <1>2, <1>3 DEF PointsOf, SumsOf, Differs
<1> HIDE DEF target
<1>6. /\ \E s, q : Sought(based, end, s, q)
      /\ SoughtTrue(based, end, target)
  <2> HIDE DEF end
  <2> QED BY <1>1, <1>3, <1>4, SeekFromEnds DEF end
<1>7. r = IF end.verdict = "Unrecoverable"
          THEN [tas |-> Pause(end.tas), nes |-> end.nes, arrived |-> FALSE]
          ELSE [tas |-> PausedForPreview(end.tas, target), nes |-> end.nes, arrived |-> TRUE]
  BY DEF SeekTo, end, based, target
<1> HIDE DEF end, r
<1>8. PICK s, q : Sought(based, end, s, q)
  BY <1>6
<1>9. Ready(end.tas) /\ Differs(based, end.tas, s, q) /\ 0 \in DOMAIN q
  BY <1>3, <1>4, <1>8, SoughtIsReady
<1>10. /\ Rows(end.tas) = Rows(m) /\ end.tas.movie.frames = m.movie.frames
       /\ end.tas.movie.marks = m.movie.marks /\ end.tas.movie.rerecords = m.movie.rerecords
       /\ EffectiveMode(end.tas) = EffectiveMode(m) /\ end.nes \in Histories
       /\ end.tas.points = q
       /\ \A k : Replay(end.tas.movie, k) = Replay(m.movie, k)
  BY <1>4, <1>8, <1>9 DEF Differs, Sought
<1>11. CASE end.verdict = "Unrecoverable"
  <2>1. r.tas = Pause(end.tas) /\ r.nes = end.nes /\ r.arrived = FALSE
    BY <1>7, <1>11
  <2>2. /\ Ready(r.tas) /\ Same(end.tas, r.tas) /\ EffectiveMode(r.tas) = EffectiveMode(end.tas)
    BY <2>1, <1>9, PauseKeeps
  <2>3. EffectiveMode(m) # "Recording"
    BY <1>4, <1>8, <1>11 DEF Sought
  <2>4. Loaded(r.tas)
    BY <2>2, <2>3, <1>10 DEF Loaded, Branched, RecordingContext
  <2>5. ~ PointsOf(m)
    BY <1>5, <1>6, <1>11 DEF SoughtTrue
  <2>6. ReadOnly(m) => ReadOnly(r.tas)
    BY <2>2, <1>10 DEF ReadOnly
  <2>7. SeekEnds(m, target, r)
    BY <2>1, <2>2, <2>4, <2>5, <2>6, <1>9, <1>10 DEF SeekEnds, Same
  <2> QED BY <2>7 DEF r, target
<1>12. CASE end.verdict # "Unrecoverable"
  <2>1. r.tas = PausedForPreview(end.tas, target) /\ r.nes = end.nes /\ r.arrived = TRUE
    BY <1>7, <1>12
  <2>2. /\ Loaded(r.tas) /\ Same(end.tas, r.tas) /\ r.tas.cursor = target
        /\ EffectiveMode(r.tas) = IF ReadOnly(end.tas) THEN "ReadOnly" ELSE "Playback"
    BY <2>1, <1>1, <1>9, <1>10, PreviewKeeps
  <2>3. ReadOnly(m) => ReadOnly(r.tas)
    BY <2>2, <1>10 DEF ReadOnly
  <2>4. PointsOf(m) => AtCursor(r.tas, r.nes) /\ PointsOf(r.tas) /\ (SumsOf(m) => SumsOf(r.tas))
    <3> SUFFICES ASSUME PointsOf(m)
                 PROVE  AtCursor(r.tas, r.nes) /\ PointsOf(r.tas) /\ (SumsOf(m) => SumsOf(r.tas))
      OBVIOUS
    <3>1. end.nes = Replay(m.movie, target) /\ PointsOf(end.tas)
          /\ (SumsOf(m) => SumsOf(end.tas))
      BY <1>4, <1>5, <1>6 DEF SoughtTrue
    <3>2. AtCursor(r.tas, r.nes)
      BY <3>1, <2>1, <2>2, <1>1, <1>10 DEF AtCursor, Same
    <3> QED BY <3>1, <3>2, <2>2 DEF Same
  <2>5. SeekEnds(m, target, r)
    BY <2>1, <2>2, <2>3, <2>4, <1>9, <1>10 DEF SeekEnds, Same
  <2> QED BY <2>5 DEF r, target
<1> QED BY <1>11, <1>12

\* A recording goes on from the cursor; everything cached after it is dropped.
LEMMA ResumeRecordingKeeps ==
    ASSUME NEW m, Ready(m), NEW w, w = ResumeRecording(m)
    PROVE  /\ Loaded(w) /\ w.cursor = m.cursor /\ w.mode = "Recording"
           /\ EffectiveMode(w) = "Recording"
           /\ Rows(w) = Rows(m) /\ w.movie.frames = m.movie.frames
           /\ w.movie.marks = m.movie.marks /\ w.movie.rerecords = m.movie.rerecords
           /\ \A n : AtCursor(m, n) <=> AtCursor(w, n)
           /\ PointsOf(m) => PointsOf(w)
           /\ SumsOf(m) => SumsOf(w)
           /\ DOMAIN m.points # {} => DOMAIN w.points # {}
<1> DEFINE u == [m EXCEPT !.mode = "Recording", !.resume = "Recording"]
<1>0. m \in Managers /\ m.cursor \in Nat /\ (DOMAIN m.points = {} => m.cursor = 0)
  BY ModesOf
<1>1. Moves(m, u, "Recording", "Recording", m.cursor)
  <2>1. u = [m EXCEPT !.mode = "Recording", !.resume = "Recording", !.cursor = m.cursor]
    BY <1>0 DEF Managers
  <2>2. "Recording" \in Modes /\ "Recording" \in Modes \ {"Paused"}
    BY DEF Modes
  <2> HIDE DEF u
  <2> QED BY <2>1, <2>2, <1>0, MovesFields
<1>2. w = InvalidateAfter(u, m.cursor)
  BY DEF ResumeRecording
<1> HIDE DEF u
<1>3. /\ Same(m, u) /\ Ready(u) /\ EffectiveMode(u) = "Recording" /\ u.cursor = m.cursor
      /\ u.mode = "Recording"
  BY <1>0, <1>1, MovesKeep DEF Moves
<1>4. /\ Ready(w) /\ Differs(u, w, UpTo(u.movie.sums, m.cursor), UpTo(u.points, m.cursor))
      /\ Branched(w)
      /\ DOMAIN u.points # {} => DOMAIN w.points # {}
      /\ PointsOf(u) => PointsOf(w)
      /\ SumsOf(u) => SumsOf(w)
  BY <1>0, <1>2, <1>3, InvalidateKeeps
<1>5. /\ Rows(w) = Rows(m) /\ w.movie.frames = m.movie.frames /\ w.movie.marks = m.movie.marks
      /\ w.movie.rerecords = m.movie.rerecords /\ w.cursor = m.cursor /\ w.mode = "Recording"
      /\ EffectiveMode(w) = "Recording" /\ \A k : Replay(w.movie, k) = Replay(m.movie, k)
  BY <1>3, <1>4 DEF Differs, Same
<1>6. \A n : AtCursor(m, n) <=> AtCursor(w, n)
  BY <1>5 DEF AtCursor
<1> QED BY <1>3, <1>4, <1>5, <1>6 DEF Loaded, Same

\* A rewound recording drops the rows from the cursor on.
LEMMA TruncateKeeps ==
    ASSUME NEW m, Loaded(m), RecordingContext(m), DOMAIN m.points # {},
           NEW frame \in Nat, NEW f \in Nat, f = Lesser(frame, Rows(m)), f <= Rows(m),
           m.cursor = f, NEW w, w = TruncateRecordingAt(m, frame)
    PROVE  /\ Loaded(w)
           /\ Wrap > 1 => \/ w.movie.frames = m.movie.frames
                          \/ w.movie.rerecords # m.movie.rerecords
           /\ \A n : AtCursor(m, n) => AtCursor(w, n)
           /\ PointsOf(m) => PointsOf(w)
           /\ SumsOf(m) => SumsOf(w)
<1> DEFINE u == [m EXCEPT !.cursor = f, !.mode = "Paused", !.resume = "Recording"]
           at == Lesser(frame, Rows(m))
<1>0. /\ Ready(m) /\ m \in Managers /\ m.movie \in Movies /\ Rows(m) \in Nat
      /\ m.points \in Maps(Histories) /\ m.movie.frames \in Seq(Inputs)
      /\ Rows(m) = Len(m.movie.frames)
  BY ManagerFields DEF Loaded, Ready
<1>1. at = f
  OBVIOUS
<1>2. Moves(m, u, "Paused", "Recording", f)
  <2>1. u = [m EXCEPT !.mode = "Paused", !.resume = "Recording", !.cursor = f]
    BY <1>0 DEF Managers
  <2>2. "Paused" \in Modes /\ "Recording" \in Modes \ {"Paused"}
    BY DEF Modes
  <2> HIDE DEF u
  <2> QED BY <2>1, <2>2, <1>0, MovesFields
<1>3. w = IF Rows(m) = at THEN u
          ELSE [u EXCEPT !.movie = ChangedFrom([m.movie EXCEPT !.frames = Take(@, at),
                                                 !.marks = {k \in @ : k < at}], at),
                         !.points = UpTo(@, at)]
  BY <1>1 DEF TruncateRecordingAt
<1> HIDE DEF u, at
<1>4. /\ Same(m, u) /\ Ready(u) /\ EffectiveMode(u) = "Recording" /\ u.cursor = f
      /\ u \in Managers
  BY <1>0, <1>2, MovesKeep DEF Moves
<1>5. \A g \in DOMAIN m.points : g <= f
  BY DEF Loaded, Branched
<1>6. Rows(m) = at => Loaded(w) /\ Same(m, w) /\ w.cursor = m.cursor
  <2> SUFFICES ASSUME Rows(m) = at PROVE Loaded(w) /\ Same(m, w) /\ w.cursor = m.cursor
    OBVIOUS
  <2>1. w = u
    BY <1>3
  <2>2. Branched(u)
    BY <1>4, <1>5 DEF Branched, Same
  <2> QED BY <2>1, <2>2, <1>4 DEF Loaded
<1>7. CASE Rows(m) = at
  BY <1>6, <1>7 DEF Same
<1>8. CASE Rows(m) # at
  <2> DEFINE rows == Take(m.movie.frames, at)
             marks == {k \in m.movie.marks : k < at}
             v == ChangedFrom([m.movie EXCEPT !.frames = rows, !.marks = marks], at)
             x == [u EXCEPT !.movie = v]
             p == UpTo(m.points, at)
  <2>1. rows \in Seq(Inputs) /\ Len(rows) = f /\ \A i \in 1 .. f : rows[i] = m.movie.frames[i]
    <3>1. rows = Take(m.movie.frames, f) /\ f <= Len(m.movie.frames)
      BY <1>0, <1>1
    <3>2. Lesser(f, Len(m.movie.frames)) = f
      BY <3>1, <1>0 DEF Lesser
    <3>3. m.movie.frames \in Seq(Inputs)
      BY <1>0
    <3>4. /\ Take(m.movie.frames, f) \in Seq(Inputs)
          /\ Len(Take(m.movie.frames, f)) = Lesser(f, Len(m.movie.frames))
          /\ \A i \in 1 .. Lesser(f, Len(m.movie.frames)) :
                Take(m.movie.frames, f)[i] = m.movie.frames[i]
      BY <3>3, TakeTyped
    <3> HIDE DEF rows
    <3> QED BY <3>1, <3>2, <3>4
  <2>2. marks \in SUBSET Nat
    BY <1>0, MovieFields
  <2>3. w = [x EXCEPT !.points = p]
    <3>1. w = [u EXCEPT !.movie = ChangedFrom([m.movie EXCEPT !.frames = Take(@, at),
                                                 !.marks = {k \in @ : k < at}], at),
                        !.points = UpTo(@, at)]
      BY <1>3, <1>8
    <3>2. [m.movie EXCEPT !.frames = Take(@, at), !.marks = {k \in @ : k < at}]
            = [m.movie EXCEPT !.frames = rows, !.marks = marks]
      BY <1>0 DEF Movies
    <3>3. w = [u EXCEPT !.movie = v, !.points = UpTo(@, at)]
      <4> HIDE DEF rows, marks
      <4> QED BY <3>1, <3>2
    <3>4. x.points = m.points
      <4> HIDE DEF v
      <4> QED BY <1>4 DEF Managers, Same
    <3>5. [x EXCEPT !.points = UpTo(@, at)] = [x EXCEPT !.points = p]
      <4> HIDE DEF x
      <4> QED BY <3>4, Zenon
    <3>6. [u EXCEPT !.movie = v, !.points = UpTo(@, at)] = [x EXCEPT !.points = UpTo(@, at)]
      OBVIOUS
    <3> HIDE DEF x, p
    <3> QED BY <3>3, <3>5, <3>6
  <2>4. Rewrites(m.movie, v, rows, marks, at)
    <3> HIDE DEF rows, marks
    <3> QED BY <2>1, <2>2, <1>0, ChangedFromRewrites
  <2> HIDE DEF v
  <2>5. Holds(u, x, v) /\ Ready(x)
    <3>1. Rewrites(u.movie, v, rows, marks, at)
      BY <2>4, <1>4 DEF Same
    <3> QED BY <3>1, <1>4, RewrittenHeld
  <2> HIDE DEF x, rows, marks
  <2>6. p \in Maps(Histories) /\ DOMAIN p = {g \in DOMAIN m.points : g <= at}
        /\ \A g \in DOMAIN p : p[g] = m.points[g]
    BY <1>0, UpToTyped DEF UpTo
  <2>7. 0 \in DOMAIN p
    <3>1. 0 \in DOMAIN m.points
      BY <1>0 DEF Ready, Anchored
    <3> QED BY <3>1, <2>6, <1>1
  <2> HIDE DEF p
  <2>8. x \in Managers /\ x.movie = v /\ EffectiveMode(x) = "Recording" /\ x.cursor = f
        /\ v \in Movies
    BY <2>4, <2>5, <1>4 DEF Holds, Rewrites
  <2>9. w = With(x, x.movie.sums, p)
    BY <2>3, <2>8, PointsAssigned
  <2>10. x.movie.sums \in Maps(Hashes)
    BY <2>8, MovieFields DEF Hashes
  <2>11. Differs(x, w, x.movie.sums, p)
    BY <2>6, <2>8, <2>9, <2>10, WithDiffers
  <2>12. Ready(w)
    <3>1. \A g \in DOMAIN x.movie.sums : g % x.interval = 0
      BY <2>5 DEF Ready, OnGrid
    <3> QED BY <3>1, <2>5, <2>6, <2>7, <2>9, <2>10, ReadyWith
  <2>13. /\ w.movie.frames = rows /\ w.movie.rerecords = v.rerecords /\ w.points = p
         /\ w.movie.sums = UpTo(m.movie.sums, at) /\ w.cursor = f
         /\ EffectiveMode(w) = "Recording" /\ Rows(w) = f
         /\ \A k : Replay(w.movie, k) = Replay(v, k)
    <3>1. Rows(x) = f
      BY <2>1, <2>4, <2>8 DEF Rows, Rewrites
    <3> QED BY <3>1, <2>4, <2>8, <2>11 DEF Differs, Rewrites
  <2>14. Loaded(w)
    BY <2>6, <2>12, <2>13, <1>1 DEF Loaded, Branched
  <2>15. \A g \in Nat : g <= f => Replay(w.movie, g) = Replay(m.movie, g)
    <3> TAKE g \in Nat
    <3> HAVE g <= f
    <3>1. /\ v.start = m.movie.start /\ f <= Len(v.frames) /\ f <= Len(m.movie.frames)
          /\ \A i \in 1 .. f : v.frames[i] = m.movie.frames[i]
      BY <2>1, <2>4, <1>0 DEF Rewrites
    <3>2. Replay(v, g) = Replay(m.movie, g)
      BY <3>1, <2>8, <1>0, AgreeingReplay
    <3> QED BY <3>2, <2>13
  <2>16. \A n : AtCursor(m, n) => AtCursor(w, n)
    BY <2>13, <2>15 DEF AtCursor
  <2>17. PointsOf(m) => PointsOf(w)
    BY <2>6, <2>13, <2>15, <1>0, <1>1, MapsAre DEF PointsOf
  <2>18. SumsOf(m) => SumsOf(w)
    <3>1. DOMAIN m.movie.sums \subseteq Nat
      BY <1>0, MovieFields, MapsAre
    <3> QED BY <3>1, <2>13, <2>15, <1>1 DEF SumsOf, UpTo
  <2>19. Wrap > 1 => w.movie.rerecords # m.movie.rerecords
    BY <2>4, <2>13 DEF Rewrites
  <2> QED BY <2>14, <2>16, <2>17, <2>18, <2>19
<1> QED BY <1>7, <1>8

---------------------------------------------------------------------------
(* One frame. *)

\* A recorded row takes the place of the rows it overwrites.
LEMMA RecordKeeps ==
    ASSUME NEW m, Loaded(m), NEW live \in Inputs, NEW v, v = Record(m.movie, m.cursor, live)
    PROVE  /\ v \in Movies /\ v.start = m.movie.start /\ v.frames \in Seq(Inputs)
           /\ DOMAIN v.sums \subseteq DOMAIN m.movie.sums
           /\ Wrap > 1 => \/ Take(v.frames, Rows(m)) = m.movie.frames
                          \/ v.rerecords # m.movie.rerecords
           /\ m.cursor <= Rows(m) =>
                /\ Len(v.frames) = m.cursor + 1 /\ v.frames[m.cursor + 1] = live
                /\ \A g \in Nat : g <= m.cursor => Replay(v, g) = Replay(m.movie, g)
                /\ \A g \in DOMAIN v.sums : SumsOf(m) => g <= m.cursor
                /\ \A g \in DOMAIN v.sums : v.sums[g] = m.movie.sums[g]
<1> DEFINE c == m.cursor
           fr == m.movie.frames
<1>0. /\ m \in Managers /\ m.movie \in Movies /\ c \in Nat /\ fr \in Seq(Inputs)
      /\ Rows(m) = Len(fr) /\ Len(fr) \in Nat
      /\ m.movie.sums \in Maps(Histories \cup {StaleHash})
  BY ManagerFields, MovieFields DEF Loaded, Ready
<1>1. v = IF c < Len(fr)
          THEN ChangedFrom([m.movie EXCEPT !.frames = Append(Take(fr, c), live)], c)
          ELSE [m.movie EXCEPT !.frames = Append(fr, live)]
  <2>1. [m.movie EXCEPT !.frames = Append(Take(@, c), live)]
          = [m.movie EXCEPT !.frames = Append(Take(fr, c), live)]
    BY Zenon
  <2>2. [m.movie EXCEPT !.frames = Append(@, live)] = [m.movie EXCEPT !.frames = Append(fr, live)]
    BY Zenon
  <2> QED BY <2>1, <2>2 DEF Record
<1>2. CASE c < Len(fr)
  <2> DEFINE kept == Take(fr, c)
             rows == Append(kept, live)
  <2>1. kept \in Seq(Inputs) /\ Len(kept) = c /\ \A i \in 1 .. c : kept[i] = fr[i]
    <3>1. Lesser(c, Len(fr)) = c
      BY <1>2, <1>0 DEF Lesser
    <3>2. /\ Take(fr, c) \in Seq(Inputs)
          /\ Len(Take(fr, c)) = Lesser(c, Len(fr))
          /\ \A i \in 1 .. Lesser(c, Len(fr)) : Take(fr, c)[i] = fr[i]
      <4> HIDE DEF c, fr
      <4> QED BY <1>0, TakeTyped
    <3> HIDE DEF c, fr
    <3> QED BY <3>1, <3>2
  <2> HIDE DEF kept
  <2>2. rows \in Seq(Inputs) /\ Len(rows) = c + 1 /\ rows[c + 1] = live
        /\ \A i \in 1 .. c : rows[i] = fr[i]
    <3> HIDE DEF c, fr
    <3> QED BY <2>1, <1>0
  <2> HIDE DEF rows
  <2>3. Rewrites(m.movie, v, rows, m.movie.marks, c)
    <3>1. v = ChangedFrom([m.movie EXCEPT !.frames = rows], c)
      BY <1>1, <1>2 DEF rows, kept
    <3> QED BY <3>1, <2>2, <1>0, ChangedFromRewrites, MovieFields
  <2>4. v \in Movies /\ v.start = m.movie.start /\ v.frames = rows
        /\ v.sums = UpTo(m.movie.sums, c)
        /\ (Wrap > 1 => v.rerecords # m.movie.rerecords)
    BY <2>3 DEF Rewrites
  <2>5. \A g \in Nat : g <= c => Replay(v, g) = Replay(m.movie, g)
    <3> TAKE g \in Nat
    <3> HAVE g <= c
    <3>1. c <= Len(v.frames) /\ c <= Len(m.movie.frames)
          /\ \A i \in 1 .. c : v.frames[i] = m.movie.frames[i]
      BY <2>2, <2>4, <1>0, <1>2
    <3> HIDE DEF c
    <3> QED BY <3>1, <2>4, <1>0, AgreeingReplay
  <2> QED BY <2>2, <2>4, <2>5 DEF UpTo
<1>3. CASE ~ (c < Len(fr))
  <2> DEFINE rows == Append(fr, live)
  <2>1. rows \in Seq(Inputs) /\ Len(rows) = Len(fr) + 1 /\ rows[Len(fr) + 1] = live
        /\ \A i \in 1 .. Len(fr) : rows[i] = fr[i]
    <3> HIDE DEF fr
    <3> QED BY <1>0
  <2> HIDE DEF rows
  <2>2. v = [m.movie EXCEPT !.frames = rows]
    BY <1>1, <1>3 DEF rows
  <2>3. v \in Movies /\ v.start = m.movie.start /\ v.frames = rows /\ v.sums = m.movie.sums
    BY <2>1, <2>2, <1>0 DEF Movies
  <2>4. Take(rows, Len(fr)) = fr
    <3>1. Take(rows, Len(fr)) = Take(fr, Len(fr))
      BY <2>1, <1>0, TakeAgrees
    <3> QED BY <3>1, <1>0, TakeAll
  <2>5. c <= Len(fr) => \A g \in Nat : g <= c => Replay(v, g) = Replay(m.movie, g)
    <3> SUFFICES ASSUME c <= Len(fr), NEW g \in Nat, g <= c PROVE Replay(v, g) = Replay(m.movie, g)
      OBVIOUS
    <3>1. c <= Len(v.frames) /\ c <= Len(m.movie.frames)
          /\ \A i \in 1 .. c : v.frames[i] = m.movie.frames[i]
      BY <2>1, <2>3, <1>0
    <3> HIDE DEF c
    <3> QED BY <3>1, <2>3, <1>0, AgreeingReplay
  <2>6. c <= Len(fr) => c = Len(fr)
    BY <1>0, <1>3
  <2>7. SumsOf(m) /\ c <= Len(fr) => \A g \in DOMAIN v.sums : g <= c
    BY <2>3, <2>6, <1>0 DEF SumsOf
  <2> QED BY <2>1, <2>3, <2>4, <2>5, <2>6, <2>7, <1>0
<1> QED BY <1>2, <1>3

\* What taking the input of a frame does: w is the manager m becomes.
Taken(m, w, rows) ==
    /\ Loaded(w) /\ EffectiveMode(w) = EffectiveMode(m) /\ rows \subseteq Inputs
    /\ rows = {} => w = m
    /\ ReadOnly(m) => w.movie = m.movie
    /\ Wrap > 1 => \/ Take(w.movie.frames, Rows(m)) = m.movie.frames
                   \/ w.movie.rerecords # m.movie.rerecords
    /\ EffectiveMode(m) # "Inactive" =>
        \A n \in Histories, row \in rows :
         AtCursor(m, n) /\ PointsOf(m) =>
            /\ AtCursor(w, Append(n, row)) /\ PointsOf(w)
            /\ SumsOf(m) => SumsOf(w)

\* All the rows of a manager are a part of its rows.
LEMMA AllRows ==
    ASSUME NEW m \in Managers PROVE Take(m.movie.frames, Rows(m)) = m.movie.frames
BY ManagerFields, TakeAll

\* Taking the input of a frame follows the mode: a row is read, written, or neither.
LEMMA InputTaken ==
    ASSUME NEW m, Loaded(m), NEW live \in Inputs,
           EffectiveMode(m) # "Inactive" => DOMAIN m.points # {}
    PROVE  Taken(m, InputForFrame(m, live).tas, InputForFrame(m, live).row)
<1> DEFINE x == InputForFrame(m, live)
           c == m.cursor
<1>0. /\ Ready(m) /\ Branched(m) /\ m \in Managers /\ m.movie \in Movies /\ c \in Nat
      /\ m.mode \in Modes /\ m.resume \in Modes \ {"Paused"}
      /\ m.mode = "Paused" => m.resume # "Inactive"
      /\ m.movie.frames \in Seq(Inputs) /\ Rows(m) = Len(m.movie.frames) /\ Rows(m) \in Nat
      /\ m.points \in Maps(Histories) /\ m.movie.start \in Histories
      /\ Take(m.movie.frames, Rows(m)) = m.movie.frames
      /\ EffectiveMode(m) = IF m.mode = "Paused" THEN m.resume ELSE m.mode
  BY ManagerFields, AllRows DEF Loaded, Ready, EffectiveMode
<1>1. CASE EffectiveMode(m) = "Inactive"
  <2>1. x.row = {live} /\ x.tas = m
    BY <1>1 DEF InputForFrame
  <2> HIDE DEF x
  <2>2. Taken(m, x.tas, x.row)
    BY <2>1, <1>0, <1>1 DEF Taken
  <2> QED BY <2>2 DEF x
<1>2. CASE EffectiveMode(m) = "Recording"
  <2> DEFINE v == Record(m.movie, c, live)
             y == [m EXCEPT !.movie = v]
             w == [m EXCEPT !.movie = v, !.cursor = c + 1]
  <2>1. x.row = {live} /\ x.tas = [m EXCEPT !.movie = Record(@, m.cursor, live), !.cursor = @ + 1]
    BY <1>2 DEF InputForFrame
  <2>2. x.tas = w
    <3>1. [m EXCEPT !.movie = Record(@, m.cursor, live), !.cursor = @ + 1]
            = [m EXCEPT !.movie = v, !.cursor = @ + 1]
      OBVIOUS
    <3>2. y.cursor = c
      BY <1>0 DEF Managers
    <3>3. [y EXCEPT !.cursor = @ + 1] = [y EXCEPT !.cursor = c + 1]
      <4> HIDE DEF y
      <4> QED BY <3>2, Zenon
    <3>4. [m EXCEPT !.movie = v, !.cursor = @ + 1] = [y EXCEPT !.cursor = @ + 1]
          /\ w = [y EXCEPT !.cursor = c + 1]
      OBVIOUS
    <3> HIDE DEF w, y
    <3> QED BY <2>1, <3>1, <3>3, <3>4
  <2>3. /\ v \in Movies /\ v.start = m.movie.start /\ v.frames \in Seq(Inputs)
        /\ DOMAIN v.sums \subseteq DOMAIN m.movie.sums
        /\ Wrap > 1 => \/ Take(v.frames, Rows(m)) = m.movie.frames
                       \/ v.rerecords # m.movie.rerecords
        /\ c <= Rows(m) =>
             /\ Len(v.frames) = c + 1 /\ v.frames[c + 1] = live
             /\ \A g \in Nat : g <= c => Replay(v, g) = Replay(m.movie, g)
             /\ \A g \in DOMAIN v.sums : SumsOf(m) => g <= c
             /\ \A g \in DOMAIN v.sums : v.sums[g] = m.movie.sums[g]
    BY RecordKeeps
  <2> HIDE DEF v, x
  <2>4. Holds(m, y, v) /\ Ready(y)
    BY <2>3, <1>0, MovieHeld
  <2>5. Moves(y, w, m.mode, m.resume, c + 1)
    <3>1. y \in Managers /\ y.mode = m.mode /\ y.resume = m.resume
      BY <2>4 DEF Holds
    <3>2. w = [y EXCEPT !.mode = m.mode, !.resume = m.resume, !.cursor = c + 1]
      BY <1>0 DEF Managers
    <3>3. c + 1 \in Nat
      BY <1>0
    <3> HIDE DEF w, y
    <3> QED BY <3>1, <3>2, <3>3, <1>0, MovesFields
  <2> HIDE DEF y, w
  <2>6. /\ Same(y, w) /\ Ready(w) /\ EffectiveMode(w) = EffectiveMode(m)
        /\ w.cursor = c + 1 /\ w.movie = v /\ w.points = m.points
    <3>1. y \in Managers /\ y.points = m.points /\ y.movie = v
      BY <2>4 DEF Holds
    <3>2. DOMAIN y.points # {}
      BY <3>1, <1>2
    <3> QED BY <3>1, <3>2, <2>4, <2>5, <1>0, MovesKeep DEF Moves
  <2>7. Branched(w)
    <3>1. \A g \in DOMAIN m.points : g <= c
      BY <1>0, <1>2 DEF Branched, RecordingContext
    <3> QED BY <3>1, <2>6, <1>0, MapsAre DEF Branched
  <2>8. ASSUME NEW n \in Histories, AtCursor(m, n), PointsOf(m)
        PROVE  AtCursor(w, Append(n, live)) /\ PointsOf(w) /\ (SumsOf(m) => SumsOf(w))
    <3>1. c <= Rows(m) /\ n = Replay(m.movie, c)
      BY <2>8 DEF AtCursor
    <3>2. /\ Len(v.frames) = c + 1 /\ v.frames[c + 1] = live
          /\ \A g \in Nat : g <= c => Replay(v, g) = Replay(m.movie, g)
          /\ \A g \in DOMAIN v.sums : SumsOf(m) => g <= c
          /\ \A g \in DOMAIN v.sums : v.sums[g] = m.movie.sums[g]
      BY <2>3, <3>1
    <3>3. Rows(w) = c + 1
      BY <3>2, <2>6 DEF Rows
    <3>4. Append(n, live) = Replay(v, c + 1)
      <4>1. c < Len(v.frames) /\ v.start \in Histories
        BY <3>2, <2>3, <1>0
      <4>2. Append(Replay(v, c), v.frames[c + 1]) = Replay(v, c + 1)
        BY <4>1, <2>3, <1>0, ReplayNext
      <4> QED BY <4>2, <3>1, <3>2, <1>0
    <3>5. PointsOf(w)
      <4>1. \A g \in DOMAIN m.points : g \in Nat /\ g <= c /\ m.points[g] = Replay(m.movie, g)
        BY <2>8, <1>0, <1>2, MapsAre DEF Branched, RecordingContext, PointsOf
      <4> QED BY <4>1, <3>2, <3>3, <2>6, <1>0 DEF PointsOf
    <3>6. SumsOf(m) => SumsOf(w)
      <4>1. \A g \in DOMAIN v.sums : g \in Nat
        BY <2>3, MovieFields, MapsAre
      <4> QED BY <4>1, <3>2, <3>3, <2>3, <2>6, <1>0 DEF SumsOf
    <3>7. AtCursor(w, Append(n, live))
      BY <3>3, <3>4, <2>6, <1>0 DEF AtCursor
    <3> QED BY <3>5, <3>6, <3>7
  <2>9. Taken(m, w, {live})
    BY <2>3, <2>6, <2>7, <2>8, <1>2 DEF Taken, Loaded, ReadOnly
  <2> QED BY <2>1, <2>2, <2>9 DEF x, w, y
<1>3. CASE EffectiveMode(m) \notin {"Inactive", "Recording"}
  <2>1. CASE ~ (c < Rows(m))
    <3>1. x.row = {} /\ x.tas = m
      BY <1>3, <2>1 DEF InputForFrame
    <3> HIDE DEF x
    <3>2. Taken(m, x.tas, x.row)
      BY <3>1, <1>0 DEF Taken
    <3> QED BY <3>2 DEF x
  <2>2. CASE c < Rows(m)
    <3> DEFINE w == [m EXCEPT !.cursor = c + 1]
               row == m.movie.frames[c + 1]
    <3>1. x.row = {row} /\ x.tas = w
      <4>1. x = [row |-> {m.movie.frames[m.cursor + 1]}, tas |-> [m EXCEPT !.cursor = @ + 1]]
        BY <1>3, <2>2 DEF InputForFrame
      <4>2. [m EXCEPT !.cursor = @ + 1] = w
        BY Zenon
      <4> HIDE DEF x, w
      <4> QED BY <4>1, <4>2
    <3>2. row \in Inputs
      BY <1>0, <2>2
    <3>3. Moves(m, w, m.mode, m.resume, c + 1)
      <4>1. w = [m EXCEPT !.mode = m.mode, !.resume = m.resume, !.cursor = c + 1]
        BY <1>0 DEF Managers
      <4>2. c + 1 \in Nat
        BY <1>0
      <4> HIDE DEF w
      <4> QED BY <4>1, <4>2, <1>0, MovesFields
    <3> HIDE DEF w, x
    <3>4. /\ Same(m, w) /\ Ready(w) /\ EffectiveMode(w) = EffectiveMode(m)
          /\ w.cursor = c + 1
      BY <3>3, <1>0, <1>3, MovesKeep DEF Moves
    <3>5. Branched(w)
      BY <3>4, <1>3 DEF Branched, RecordingContext
    <3>6. ASSUME NEW n \in Histories, AtCursor(m, n)
          PROVE  AtCursor(w, Append(n, row))
      <4>1. Append(Replay(m.movie, c), m.movie.frames[c + 1]) = Replay(m.movie, c + 1)
        BY <2>2, <1>0, ReplayNext
      <4>2. n = Replay(m.movie, c)
        BY <3>6 DEF AtCursor
      <4> QED BY <4>1, <4>2, <3>4, <2>2, <1>0 DEF AtCursor, Same
    <3> HIDE DEF row
    <3>7. Taken(m, w, {row})
      <4>1. w.movie = m.movie
        BY <3>4 DEF Same
      <4> QED BY <4>1, <3>2, <3>4, <3>5, <3>6, <1>0 DEF Taken, Loaded, Same
    <3> QED BY <3>1, <3>7 DEF x
  <2> QED BY <2>1, <2>2
<1> QED BY <1>1, <1>2, <1>3

\* The check before a frame.
Looked(m, n) == IF m.mode = "Inactive"
                THEN [tas |-> m, nes |-> n, verdict |-> "Unchecked"]
                ELSE CheckFrame(m, n, m.cursor)

\* The frame of a session: w and h are the manager and the console after it.
Ran(m, n, live, w, h) ==
    LET check == Looked(m, n)
        step == InputForFrame(check.tas, live)
    IN  \/ check.verdict = "Unrecoverable" /\ w = Pause(check.tas) /\ h = check.nes
        \/ /\ check.verdict # "Unrecoverable" /\ step.row = {}
           /\ w = Stop(step.tas) /\ h = check.nes
        \/ /\ check.verdict # "Unrecoverable" /\ step.row # {} /\ w = step.tas
           /\ \E row \in step.row : h = Append(check.nes, row)

\* run_one_frame is a frame of the session in the sense of Ran.
LEMMA RunOneFrameRan ==
    ASSUME NEW m, NEW live, NEW wasPaused \in BOOLEAN, RunOneFrame(m, live, wasPaused)
    PROVE  Ran(m, nes, live, tas', nes') /\ paused' \in BOOLEAN
<1> DEFINE check == Looked(m, nes)
           step == InputForFrame(check.tas, live)
<1>1. IF check.verdict = "Unrecoverable"
       THEN /\ tas' = Pause(check.tas)
            /\ nes' = check.nes
            /\ paused' = TRUE
       ELSE IF step.row = {}
       THEN /\ tas' = Stop(step.tas)
            /\ nes' = check.nes
            /\ \E pauseWhenPlaybackEnds \in BOOLEAN :
                   paused' = (wasPaused \/ pauseWhenPlaybackEnds)
       ELSE /\ tas' = step.tas
            /\ \E row \in step.row : nes' = Append(check.nes, row)
            /\ paused' = wasPaused
  BY DEF RunOneFrame, Looked
<1> HIDE DEF check, step
<1>2. paused' \in BOOLEAN
  BY <1>1
<1>3. \/ check.verdict = "Unrecoverable" /\ tas' = Pause(check.tas) /\ nes' = check.nes
      \/ /\ check.verdict # "Unrecoverable" /\ step.row = {}
         /\ tas' = Stop(step.tas) /\ nes' = check.nes
      \/ /\ check.verdict # "Unrecoverable" /\ step.row # {} /\ tas' = step.tas
         /\ \E row \in step.row : nes' = Append(check.nes, row)
  BY <1>1
<1>4. Ran(m, nes, live, tas', nes')
  BY <1>3 DEF Ran, check, step
<1> QED BY <1>2, <1>4

\* The check of a frame leaves the rows, the mode and the cursor; it adds what is true,
\* and puts back a console when it meets the hash for the first time.
LEMMA LookedKeeps ==
    ASSUME NEW m, Loaded(m), NEW n \in Histories, NEW r, r = Looked(m, n)
    PROVE  /\ Loaded(r.tas) /\ r.nes \in Histories
           /\ EffectiveMode(r.tas) = EffectiveMode(m) /\ r.tas.cursor = m.cursor
           /\ r.tas.mode = m.mode
           /\ Rows(r.tas) = Rows(m) /\ r.tas.movie.frames = m.movie.frames
           /\ r.tas.movie.marks = m.movie.marks /\ r.tas.movie.rerecords = m.movie.rerecords
           /\ EffectiveMode(r.tas) # "Inactive" => DOMAIN r.tas.points # {}
           /\ \A k : Replay(r.tas.movie, k) = Replay(m.movie, k)
           /\ AtCursor(m, n) /\ PointsOf(m) =>
                /\ AtCursor(r.tas, r.nes) /\ PointsOf(r.tas)
                /\ SumsOf(m) => SumsOf(r.tas)
           /\ /\ m.mode # "Inactive" /\ EffectiveMode(m) # "Recording"
              /\ m.cursor \in DOMAIN m.movie.sums \ DOMAIN m.points
              /\ PointsOf(m) /\ SumsOf(m) /\ r.verdict # "Unrecoverable"
              => AtCursor(r.tas, r.nes) /\ PointsOf(r.tas)
<1>0. /\ Ready(m) /\ Branched(m) /\ m \in Managers /\ m.cursor \in Nat
      /\ m.mode = "Paused" => m.resume # "Inactive"
      /\ DOMAIN m.points = {} => m.cursor = 0
      /\ m.interval \in Nat \ {0} /\ m.points \in Maps(Histories)
  BY ManagerFields DEF Loaded, Ready, Anchored
<1>1. CASE m.mode = "Inactive"
  <2>1. r.tas = m /\ r.nes = n
    BY <1>1 DEF Looked
  <2>2. EffectiveMode(m) = "Inactive"
    BY <1>1 DEF EffectiveMode
  <2> QED BY <2>1, <2>2, <1>1
<1>2. CASE m.mode # "Inactive"
  <2>0. r = CheckFrame(m, n, m.cursor)
    BY <1>2 DEF Looked
  <2>1. PICK s, p : Checked(m, m.cursor, r, s, p)
    BY <2>0, <1>0, CheckFrameIs
  <2>2. Differs(m, r.tas, s, p)
    <3>1. Differs(m, With(m, s, p), s, p)
      BY <2>1, <1>0, WithDiffers DEF Checked
    <3> QED BY <3>1, <2>1 DEF Checked
  <2>3. 0 \in DOMAIN p
    <3>1. CASE DOMAIN m.points = {}
      <4>1. m.cursor = 0 /\ m.cursor % m.interval = 0
        BY <3>1, <1>0
      <4> QED BY <4>1, <2>1 DEF Checked
    <3>2. CASE DOMAIN m.points # {}
      BY <3>2, <2>1, <1>0 DEF Checked, Ready, Anchored
    <3> QED BY <3>1, <3>2
  <2>4. Ready(r.tas)
    <3>1. \A g \in DOMAIN s : g % m.interval = 0
      BY <2>1, <1>0 DEF Checked, Ready, OnGrid
    <3>2. Ready(With(m, s, p))
      BY <3>1, <2>1, <2>3, <1>0, ReadyWith DEF Checked
    <3> QED BY <3>2, <2>1 DEF Checked
  <2>5. /\ EffectiveMode(r.tas) = EffectiveMode(m) /\ r.tas.cursor = m.cursor
        /\ r.tas.mode = m.mode /\ r.tas.points = p
        /\ Rows(r.tas) = Rows(m) /\ r.tas.movie.frames = m.movie.frames
        /\ r.tas.movie.marks = m.movie.marks /\ r.tas.movie.rerecords = m.movie.rerecords
        /\ \A k : Replay(r.tas.movie, k) = Replay(m.movie, k)
    BY <2>2 DEF Differs
  <2>6. Branched(r.tas)
    <3>1. \A g \in DOMAIN p : g \in DOMAIN m.points \/ g = m.cursor
      BY <2>1 DEF Checked
    <3> QED BY <3>1, <2>5, <1>0 DEF Branched, RecordingContext
  <2>7. AtCursor(m, n) /\ PointsOf(m) =>
                /\ AtCursor(r.tas, r.nes) /\ PointsOf(r.tas)
                /\ SumsOf(m) => SumsOf(r.tas)
    <3> SUFFICES ASSUME AtCursor(m, n), PointsOf(m)
                 PROVE  /\ AtCursor(r.tas, r.nes) /\ PointsOf(r.tas)
                        /\ SumsOf(m) => SumsOf(r.tas)
      OBVIOUS
    <3>1. m.cursor <= Rows(m) /\ n = Replay(m.movie, m.cursor)
      BY DEF AtCursor
    <3>2. r.nes = n /\ PointsOf(r.tas) /\ (SumsOf(m) => SumsOf(r.tas))
      BY <3>1, <2>0, <1>0, CheckTrue
    <3>3. AtCursor(r.tas, r.nes)
      BY <3>1, <3>2, <2>5 DEF AtCursor
    <3> QED BY <3>2, <3>3
  <2>8. /\ m.mode # "Inactive" /\ EffectiveMode(m) # "Recording"
        /\ m.cursor \in DOMAIN m.movie.sums \ DOMAIN m.points
        /\ PointsOf(m) /\ SumsOf(m) /\ r.verdict # "Unrecoverable"
        => AtCursor(r.tas, r.nes) /\ PointsOf(r.tas)
    <3> SUFFICES ASSUME EffectiveMode(m) # "Recording",
                        m.cursor \in DOMAIN m.movie.sums \ DOMAIN m.points,
                        PointsOf(m), SumsOf(m), r.verdict # "Unrecoverable"
                 PROVE  AtCursor(r.tas, r.nes) /\ PointsOf(r.tas)
      OBVIOUS
    <3>1. r.nes = Replay(m.movie, m.cursor) /\ PointsOf(r.tas)
      BY <2>0, <1>0, CheckRecovers
    <3>2. m.cursor <= Rows(m)
      BY DEF SumsOf
    <3> QED BY <3>1, <3>2, <2>5 DEF AtCursor
  <2>9. r.nes \in Histories /\ Loaded(r.tas)
    BY <2>1, <2>4, <2>6 DEF Checked, Loaded
  <2> QED BY <2>3, <2>5, <2>7, <2>8, <2>9
<1> QED BY <1>1, <1>2

\* One frame of a session with a movie.
FrameRan(m, n, w, h) ==
    /\ Loaded(w) /\ h \in Histories
    /\ EffectiveMode(w) = EffectiveMode(m) \/ EffectiveMode(w) = "Inactive"
    /\ AtCursor(m, n) /\ PointsOf(m) /\ m.mode # "Inactive" =>
        /\ AtCursor(w, h) /\ PointsOf(w)
        /\ SumsOf(m) => SumsOf(w)
    /\ /\ EffectiveMode(m) \in {"Playback", "ReadOnly"}
       /\ m.cursor \in DOMAIN m.movie.sums \ DOMAIN m.points
       /\ PointsOf(m) /\ SumsOf(m) /\ w.cursor = m.cursor + 1
       => AtCursor(w, h) /\ PointsOf(w)
    /\ ReadOnly(m) => /\ w.movie.frames = m.movie.frames /\ w.movie.marks = m.movie.marks
                      /\ ReadOnly(w) \/ w.mode = "Inactive"
    /\ Wrap > 1 => \/ Take(w.movie.frames, Rows(m)) = m.movie.frames
                   \/ w.movie.rerecords # m.movie.rerecords

\* A frame of a session keeps types, agreement and rows.
LEMMA FrameRuns ==
    ASSUME NEW m, Loaded(m), NEW n \in Histories, NEW live \in Inputs,
           NEW w, NEW h, Ran(m, n, live, w, h)
    PROVE  FrameRan(m, n, w, h)
<1> DEFINE r == Looked(m, n)
           step == InputForFrame(r.tas, live)
<1>1. \/ r.verdict = "Unrecoverable" /\ w = Pause(r.tas) /\ h = r.nes
      \/ /\ r.verdict # "Unrecoverable" /\ step.row = {}
         /\ w = Stop(step.tas) /\ h = r.nes
      \/ /\ r.verdict # "Unrecoverable" /\ step.row # {} /\ w = step.tas
         /\ \E row \in step.row : h = Append(r.nes, row)
  BY DEF Ran
<1> HIDE DEF r
<1>2.      /\ Loaded(r.tas) /\ r.nes \in Histories
           /\ EffectiveMode(r.tas) = EffectiveMode(m) /\ r.tas.cursor = m.cursor
           /\ r.tas.mode = m.mode
           /\ Rows(r.tas) = Rows(m) /\ r.tas.movie.frames = m.movie.frames
           /\ r.tas.movie.marks = m.movie.marks /\ r.tas.movie.rerecords = m.movie.rerecords
           /\ EffectiveMode(r.tas) # "Inactive" => DOMAIN r.tas.points # {}
           /\ AtCursor(m, n) /\ PointsOf(m) =>
                /\ AtCursor(r.tas, r.nes) /\ PointsOf(r.tas)
                /\ SumsOf(m) => SumsOf(r.tas)
           /\ /\ m.mode # "Inactive" /\ EffectiveMode(m) # "Recording"
              /\ m.cursor \in DOMAIN m.movie.sums \ DOMAIN m.points
              /\ PointsOf(m) /\ SumsOf(m) /\ r.verdict # "Unrecoverable"
              => AtCursor(r.tas, r.nes) /\ PointsOf(r.tas)
  BY LookedKeeps DEF r
<1>3. Taken(r.tas, step.tas, step.row)
  BY <1>2, InputTaken
<1> HIDE DEF step
<1>4. /\ m.cursor \in Nat /\ r.tas \in Managers /\ m \in Managers
      /\ m.mode # "Inactive" => EffectiveMode(m) # "Inactive"
      /\ EffectiveMode(m) \in {"Playback", "ReadOnly"} => m.mode # "Inactive"
      /\ Ready(r.tas) /\ Branched(r.tas)
  BY <1>2, ModesOf DEF Loaded, Ready, EffectiveMode
<1>5. Take(r.tas.movie.frames, Rows(m)) = m.movie.frames
  BY <1>2, <1>4, AllRows
<1>6. CASE r.verdict = "Unrecoverable" /\ w = Pause(r.tas) /\ h = r.nes
  <2>1. /\ Ready(w) /\ Same(r.tas, w) /\ w.cursor = m.cursor
        /\ EffectiveMode(w) = EffectiveMode(m) /\ Branched(w)
    BY <1>2, <1>4, <1>6, PauseKeeps
  <2>2. w.movie = r.tas.movie
    BY <2>1 DEF Same
  <2>3. AtCursor(m, n) /\ PointsOf(m) =>
           AtCursor(w, h) /\ PointsOf(w) /\ (SumsOf(m) => SumsOf(w))
    BY <2>1, <1>2, <1>6 DEF Same
  <2>4. w.cursor # m.cursor + 1
    BY <2>1, <1>4
  <2> QED BY <2>1, <2>2, <2>3, <2>4, <1>2, <1>5, <1>6 DEF FrameRan, Loaded, ReadOnly
<1>7. CASE step.row = {} /\ w = Stop(step.tas) /\ h = r.nes
  <2>1. step.tas = r.tas
    BY <1>3, <1>7 DEF Taken
  <2>2. /\ Loaded(w) /\ Same(r.tas, w) /\ w.cursor = m.cursor /\ w.mode = "Inactive"
    BY <2>1, <1>2, <1>4, <1>7, StopKeeps
  <2>3. w.movie = r.tas.movie
    BY <2>2 DEF Same
  <2>4. AtCursor(m, n) /\ PointsOf(m) =>
           AtCursor(w, h) /\ PointsOf(w) /\ (SumsOf(m) => SumsOf(w))
    BY <2>2, <1>2, <1>7 DEF Same
  <2>5. w.cursor # m.cursor + 1 /\ EffectiveMode(w) = "Inactive"
    BY <2>2, <1>4 DEF EffectiveMode
  <2> QED BY <2>2, <2>3, <2>4, <2>5, <1>2, <1>5, <1>7 DEF FrameRan
<1>8. CASE /\ r.verdict # "Unrecoverable" /\ w = step.tas
           /\ \E row \in step.row : h = Append(r.nes, row)
  <2>1. PICK row \in step.row : h = Append(r.nes, row)
    BY <1>8
  <2>2. Loaded(w) /\ EffectiveMode(w) = EffectiveMode(m) /\ row \in Inputs
    BY <1>2, <1>3, <1>8 DEF Taken
  <2>3. h \in Histories
    BY <2>1, <2>2, <1>2, HistoryGrows
  <2>4. EffectiveMode(m) # "Inactive" /\ AtCursor(r.tas, r.nes) /\ PointsOf(r.tas) =>
           AtCursor(w, h) /\ PointsOf(w) /\ (SumsOf(r.tas) => SumsOf(w))
    BY <2>1, <1>2, <1>3, <1>8 DEF Taken
  <2>5. ReadOnly(m) => w.movie.frames = m.movie.frames /\ w.movie.marks = m.movie.marks
                       /\ ReadOnly(w)
    BY <2>2, <1>2, <1>3, <1>8 DEF Taken, ReadOnly
  <2>6. Wrap > 1 => \/ Take(w.movie.frames, Rows(m)) = m.movie.frames
                    \/ w.movie.rerecords # m.movie.rerecords
    BY <1>2, <1>3, <1>8 DEF Taken
  <2>7. AtCursor(m, n) /\ PointsOf(m) /\ m.mode # "Inactive" =>
        /\ AtCursor(w, h) /\ PointsOf(w)
        /\ SumsOf(m) => SumsOf(w)
    BY <2>4, <1>2, <1>4
  <2>8. /\ EffectiveMode(m) \in {"Playback", "ReadOnly"}
        /\ m.cursor \in DOMAIN m.movie.sums \ DOMAIN m.points
        /\ PointsOf(m) /\ SumsOf(m)
        => AtCursor(w, h) /\ PointsOf(w)
    BY <2>4, <1>2, <1>4, <1>8
  <2> QED BY <2>2, <2>3, <2>5, <2>6, <2>7, <2>8 DEF FrameRan
<1> QED BY <1>1, <1>6, <1>7, <1>8

\* Without a movie the frame only runs.
LEMMA FrameWithout ==
    ASSUME NEW m, Unloaded(m), NEW n \in Histories, NEW live \in Inputs,
           NEW w, NEW h, Ran(m, n, live, w, h)
    PROVE  w = m /\ h \in Histories
<1> DEFINE r == Looked(m, n)
           step == InputForFrame(r.tas, live)
<1>0. m.mode = "Inactive" /\ EffectiveMode(m) = "Inactive"
  BY UnloadedHasNone
<1>1. r.tas = m /\ r.nes = n /\ r.verdict = "Unchecked"
  BY <1>0 DEF Looked
<1>2. step.row = {live} /\ step.tas = m
  BY <1>0, <1>1 DEF InputForFrame
<1>3. \/ r.verdict = "Unrecoverable" /\ w = Pause(r.tas) /\ h = r.nes
      \/ /\ r.verdict # "Unrecoverable" /\ step.row = {}
         /\ w = Stop(step.tas) /\ h = r.nes
      \/ /\ r.verdict # "Unrecoverable" /\ step.row # {} /\ w = step.tas
         /\ \E row \in step.row : h = Append(r.nes, row)
  BY DEF Ran
<1> HIDE DEF r, step
<1>4. w = m /\ h = Append(n, live)
  BY <1>1, <1>2, <1>3
<1> QED BY <1>4, HistoryGrows

\* A frame advance previews the rows there are, and records at the end.
LEMMA PrepareKeeps ==
    ASSUME NEW m, Loaded(m), NEW x, x = PrepareFrameAdvance(m)
    PROVE  /\ Loaded(x.tas) /\ x.go \in BOOLEAN
           /\ x.go => x.tas.mode # "Inactive"
           /\ x.tas.cursor = m.cursor /\ Rows(x.tas) = Rows(m)
           /\ x.tas.movie.frames = m.movie.frames /\ x.tas.movie.marks = m.movie.marks
           /\ x.tas.movie.rerecords = m.movie.rerecords
           /\ ReadOnly(m) => ReadOnly(x.tas)
           /\ \A n : AtCursor(m, n) => AtCursor(x.tas, n)
           /\ PointsOf(m) => PointsOf(x.tas)
           /\ SumsOf(m) => SumsOf(x.tas)
           /\ EffectiveMode(m) \in {"Playback", "ReadOnly"} =>
                x.tas = m \/ EffectiveMode(x.tas) = "Recording"
<1>0. /\ Ready(m) /\ Branched(m) /\ m \in Managers /\ m.cursor \in Nat /\ Rows(m) \in Nat
      /\ HasMovie(m) /\ (m.mode = "Inactive" => EffectiveMode(m) = "Inactive")
      /\ (DOMAIN m.points = {} => m.cursor = 0)
  BY ManagerFields, ReadyHasMovie, ModesOf DEF Loaded, Ready, EffectiveMode
<1>1. CASE m.cursor < Rows(m) /\ m.mode = "Inactive"
  <2>1. x.tas = PausedForPreview(m, m.cursor) /\ x.go = TRUE
    BY <1>0, <1>1 DEF PrepareFrameAdvance
  <2>2. /\ Loaded(x.tas) /\ Same(m, x.tas) /\ x.tas.cursor = m.cursor
        /\ x.tas.mode = "Paused"
    BY <2>1, <1>0, PreviewKeeps
  <2> QED BY <2>1, <2>2, <1>0, <1>1 DEF Same, ReadOnly
<1>2. CASE m.cursor < Rows(m) /\ m.mode # "Inactive"
  <2>1. x.tas = m /\ x.go = TRUE
    BY <1>0, <1>2 DEF PrepareFrameAdvance
  <2>2. x.go \in BOOLEAN
    BY <2>1
  <2>3. x.tas = m
    BY <2>1
  <2> QED BY <2>2, <2>3, <1>2
<1>3. CASE ~(m.cursor < Rows(m)) /\ ReadOnly(m)
  <2>1. x.tas = m /\ x.go = FALSE
    BY <1>0, <1>3 DEF PrepareFrameAdvance
  <2> QED BY <2>1
<1>4. CASE ~(m.cursor < Rows(m)) /\ ~ ReadOnly(m) /\ RecordingContext(m)
  <2>1. x.tas = m /\ x.go = TRUE
    BY <1>0, <1>4 DEF PrepareFrameAdvance
  <2>2. m.mode # "Inactive"
    BY <1>0, <1>4 DEF RecordingContext
  <2>3. x.go \in BOOLEAN
    BY <2>1
  <2>4. x.tas = m
    BY <2>1
  <2> QED BY <2>2, <2>3, <2>4
<1>5. CASE ~(m.cursor < Rows(m)) /\ ~ ReadOnly(m) /\ ~ RecordingContext(m) /\ CanRerecord(m)
  <2>1. x.tas = ResumeRecording(m) /\ x.go = TRUE
    BY <1>0, <1>5 DEF PrepareFrameAdvance
  <2>2. /\ Loaded(x.tas) /\ x.tas.cursor = m.cursor /\ x.tas.mode = "Recording"
        /\ EffectiveMode(x.tas) = "Recording"
        /\ Rows(x.tas) = Rows(m) /\ x.tas.movie.frames = m.movie.frames
        /\ x.tas.movie.marks = m.movie.marks /\ x.tas.movie.rerecords = m.movie.rerecords
        /\ \A n : AtCursor(m, n) <=> AtCursor(x.tas, n)
        /\ PointsOf(m) => PointsOf(x.tas)
        /\ SumsOf(m) => SumsOf(x.tas)
    BY <2>1, <1>0, ResumeRecordingKeeps
  <2> QED BY <2>1, <2>2, <1>5
<1>6. CASE ~(m.cursor < Rows(m)) /\ ~ ReadOnly(m) /\ ~ RecordingContext(m) /\ ~ CanRerecord(m)
  <2>1. x.tas = m /\ x.go = FALSE
    BY <1>0, <1>6 DEF PrepareFrameAdvance
  <2> QED BY <2>1
<1> QED BY <1>1, <1>2, <1>3, <1>4, <1>5, <1>6

---------------------------------------------------------------------------
(* The steps of a session that has a movie. *)

\* The agreement of console and movie outlives the step.
Agrees(m, n, w, h) ==
    AtCursor(m, n) /\ PointsOf(m) =>
        /\ AtCursor(w, h) /\ PointsOf(w)
        /\ SumsOf(m) => SumsOf(w)

\* Rows outlive it.
Retains(m, w) ==
    /\ ReadOnly(m) => /\ w.movie.frames = m.movie.frames /\ w.movie.marks = m.movie.marks
                      /\ ReadOnly(w) \/ w.mode = "Inactive"
    /\ Wrap > 1 => \/ Take(w.movie.frames, Rows(m)) = m.movie.frames
                   \/ w.movie.rerecords # m.movie.rerecords

\* A step that touches neither rows nor marks loses none.
LEMMA RetainsSame ==
    ASSUME NEW m \in Managers, NEW w, w.movie.frames = m.movie.frames,
           w.movie.marks = m.movie.marks, ReadOnly(m) => ReadOnly(w) \/ w.mode = "Inactive"
    PROVE  Retains(m, w)
BY AllRows DEF Retains

\* What a step keeps of the types.
Stepped == Loaded(tas') /\ nes' \in Histories /\ paused' \in BOOLEAN

\* A frame of the movie, at the speed of the game.
LEMMA TickStep ==
    ASSUME Loaded(tas), nes \in Histories, Tick
    PROVE  /\ Stepped /\ Retains(tas, tas')
           /\ tas.mode # "Inactive" => Agrees(tas, nes, tas', nes')
           /\ FrameRan(tas, nes, tas', nes')
<1>1. PICK live \in Inputs : RunOneFrame(tas, live, FALSE)
  BY DEF Tick
<1>2. FALSE \in BOOLEAN
  OBVIOUS
<1>3. Ran(tas, nes, live, tas', nes') /\ paused' \in BOOLEAN
  BY <1>1, <1>2, RunOneFrameRan
<1>4. FrameRan(tas, nes, tas', nes')
  BY <1>3, FrameRuns
<1> QED BY <1>3, <1>4 DEF FrameRan, Stepped, Agrees, Retains

\* ... and one at a time.
LEMMA FrameAdvanceStep ==
    ASSUME Loaded(tas), nes \in Histories, FrameAdvance
    PROVE  /\ Stepped /\ Retains(tas, tas') /\ Agrees(tas, nes, tas', nes')
           /\ /\ EffectiveMode(tas) \in {"Playback", "ReadOnly"}
              /\ EffectiveMode(tas') = EffectiveMode(tas)
              /\ tas.cursor \in DOMAIN Movie.sums \ DOMAIN tas.points
              /\ PointsOf(tas) /\ SumsOf(tas) /\ tas'.cursor = tas.cursor + 1
              => AtCursor(tas', nes') /\ PointsOf(tas')
<1> DEFINE x == PrepareFrameAdvance(tas)
           m == Pause(x.tas)
<1>1.      /\ Loaded(x.tas) /\ x.go \in BOOLEAN
           /\ x.go => x.tas.mode # "Inactive"
           /\ x.tas.cursor = tas.cursor /\ Rows(x.tas) = Rows(tas)
           /\ x.tas.movie.frames = tas.movie.frames /\ x.tas.movie.marks = tas.movie.marks
           /\ x.tas.movie.rerecords = tas.movie.rerecords
           /\ ReadOnly(tas) => ReadOnly(x.tas)
           /\ \A n : AtCursor(tas, n) => AtCursor(x.tas, n)
           /\ PointsOf(tas) => PointsOf(x.tas)
           /\ SumsOf(tas) => SumsOf(x.tas)
           /\ EffectiveMode(tas) \in {"Playback", "ReadOnly"} =>
                x.tas = tas \/ EffectiveMode(x.tas) = "Recording"
  BY PrepareKeeps
<1>2. IF x.go THEN \E live \in Inputs : RunOneFrame(m, live, TRUE)
      ELSE paused' = TRUE /\ UNCHANGED <<tas, nes>>
  BY DEF FrameAdvance
<1>0. tas \in Managers /\ tas.cursor \in Nat
  BY ManagerFields DEF Loaded, Ready
<1> HIDE DEF x
<1>3. CASE ~ x.go
  <2>1. tas' = tas /\ nes' = nes /\ paused' = TRUE
    BY <1>2, <1>3
  <2>2. Retains(tas, tas')
    BY <2>1, <1>0, RetainsSame
  <2>3. tas'.cursor # tas.cursor + 1
    BY <2>1, <1>0
  <2> QED BY <2>1, <2>2, <2>3 DEF Stepped, Agrees
<1>4. CASE x.go
  <2>1. /\ Loaded(m) /\ Same(x.tas, m) /\ m.cursor = x.tas.cursor
        /\ EffectiveMode(m) = EffectiveMode(x.tas) /\ m.mode # "Inactive"
    BY <1>1, <1>4, PauseKeeps DEF Loaded
  <2>2. PICK live \in Inputs : RunOneFrame(m, live, TRUE)
    BY <1>2, <1>4
  <2>3. TRUE \in BOOLEAN
    OBVIOUS
  <2> HIDE DEF m
  <2>4. Ran(m, nes, live, tas', nes') /\ paused' \in BOOLEAN
    BY <2>2, <2>3, RunOneFrameRan
  <2>5. FrameRan(m, nes, tas', nes')
    BY <2>1, <2>4, FrameRuns
  <2>6. m.movie = x.tas.movie /\ m.points = x.tas.points /\ Rows(m) = Rows(tas)
        /\ (PointsOf(tas) => PointsOf(m)) /\ (SumsOf(tas) => SumsOf(m))
        /\ (AtCursor(tas, nes) => AtCursor(m, nes))
    BY <2>1, <1>1 DEF Same
  <2>7. Retains(tas, tas')
    BY <2>1, <2>5, <2>6, <1>1 DEF FrameRan, Retains, ReadOnly
  <2>8. Agrees(tas, nes, tas', nes')
    BY <2>1, <2>5, <2>6 DEF FrameRan, Agrees
  <2>9. ASSUME EffectiveMode(tas) \in {"Playback", "ReadOnly"},
               EffectiveMode(tas') = EffectiveMode(tas),
               tas.cursor \in DOMAIN Movie.sums \ DOMAIN tas.points,
               PointsOf(tas), SumsOf(tas), tas'.cursor = tas.cursor + 1
        PROVE  AtCursor(tas', nes') /\ PointsOf(tas')
    <3>1. x.tas = tas
      BY <2>1, <2>5, <2>9, <1>1 DEF FrameRan
    <3>2. /\ EffectiveMode(m) \in {"Playback", "ReadOnly"} /\ m.cursor = tas.cursor
          /\ m.movie = tas.movie /\ m.points = tas.points /\ PointsOf(m) /\ SumsOf(m)
      BY <3>1, <2>1, <2>6, <2>9
    <3> QED BY <3>2, <2>5, <2>9 DEF FrameRan, Movie
  <2> QED BY <2>4, <2>5, <2>7, <2>8, <2>9 DEF Stepped, FrameRan
<1> QED BY <1>1, <1>3, <1>4

\* Pausing keeps types, rows and agreement.
LEMMA TogglePauseStep ==
    ASSUME Loaded(tas), nes \in Histories, TogglePause
    PROVE  Stepped /\ Retains(tas, tas') /\ Agrees(tas, nes, tas', nes')
<1>0. Ready(tas) /\ Branched(tas) /\ tas \in Managers
  BY DEF Loaded, Ready
<1>1. PICK w : /\ w \in {Resume(tas), Pause(tas)} /\ tas' = w
               /\ nes' = nes /\ paused' = (~ paused)
  BY DEF TogglePause
<1>2. /\ Ready(w) /\ Same(tas, w) /\ w.cursor = tas.cursor
      /\ EffectiveMode(w) = EffectiveMode(tas) /\ Branched(w)
  BY <1>0, <1>1, PauseKeeps, ResumeKeeps
<1>3. Retains(tas, tas')
  BY <1>0, <1>1, <1>2, RetainsSame DEF Same, ReadOnly
<1>4. (~ paused) \in BOOLEAN
  OBVIOUS
<1>5. paused' \in BOOLEAN
  BY <1>1, <1>4, Zenon
<1> QED BY <1>1, <1>2, <1>3, <1>5 DEF Stepped, Agrees, Same, Loaded

\* Stopping keeps types, rows and agreement.
LEMMA StopStep ==
    ASSUME Loaded(tas), nes \in Histories, paused \in BOOLEAN, StopTas
    PROVE  Stepped /\ Retains(tas, tas') /\ Agrees(tas, nes, tas', nes')
<1>0. Ready(tas) /\ tas \in Managers
  BY DEF Loaded, Ready
<1>1. tas' = Stop(tas) /\ nes' = nes /\ paused' = paused
  BY DEF StopTas
<1>2. Loaded(tas') /\ Same(tas, tas') /\ tas'.cursor = tas.cursor /\ tas'.mode = "Inactive"
  BY <1>0, <1>1, StopKeeps
<1>3. Retains(tas, tas')
  BY <1>0, <1>2, RetainsSame DEF Same
<1> QED BY <1>1, <1>2, <1>3 DEF Stepped, Agrees, Same

\* Holding the buttons of the cursor row keeps types, rows and agreement.
LEMMA HoldStep ==
    ASSUME Loaded(tas), nes \in Histories, HoldInput
    PROVE  Stepped /\ Retains(tas, tas') /\ Agrees(tas, nes, tas', nes')
<1>0. Ready(tas) /\ Branched(tas) /\ tas \in Managers
  BY DEF Loaded, Ready
<1>1. tas' = Pause(tas) /\ nes' = nes /\ paused' = TRUE
  BY DEF HoldInput
<1>2. /\ Ready(tas') /\ Same(tas, tas') /\ tas'.cursor = tas.cursor
      /\ EffectiveMode(tas') = EffectiveMode(tas) /\ Branched(tas')
  BY <1>0, <1>1, PauseKeeps
<1>3. Retains(tas, tas')
  BY <1>0, <1>2, RetainsSame DEF Same, ReadOnly
<1> QED BY <1>1, <1>2, <1>3 DEF Stepped, Agrees, Same, Loaded

\* Marking a row keeps types, rows and agreement.
LEMMA MarkStep ==
    ASSUME Loaded(tas), nes \in Histories, paused \in BOOLEAN, ToggleMark
    PROVE  Stepped /\ Retains(tas, tas') /\ Agrees(tas, nes, tas', nes')
<1>0. Ready(tas) /\ Branched(tas) /\ tas \in Managers /\ tas.movie \in Movies
      /\ tas.movie.marks \in SUBSET Nat /\ Rows(tas) \in Nat
  BY ManagerFields, MovieFields DEF Loaded, Ready
<1>1. PICK frame \in 0 .. Rows(tas) :
         tas' = [tas EXCEPT !.movie.marks =
                      IF frame \in @ THEN @ \ {frame} ELSE @ \cup {frame}]
  BY DEF ToggleMark
<1>2. nes' = nes /\ paused' = paused /\ ~ ReadOnly(tas)
  BY DEF ToggleMark
<1> DEFINE k == IF frame \in tas.movie.marks THEN tas.movie.marks \ {frame}
                ELSE tas.movie.marks \cup {frame}
           v == [tas.movie EXCEPT !.marks = k]
<1>3. k \in SUBSET Nat
  BY <1>0
<1>4. tas' = [tas EXCEPT !.movie = v]
  BY <1>1, Zenon
<1> HIDE DEF k
<1>5. /\ v \in Movies /\ v.frames = tas.movie.frames /\ v.sums = tas.movie.sums
      /\ v.start = tas.movie.start /\ v.rerecords = tas.movie.rerecords
  BY <1>0, <1>3 DEF Movies
<1> HIDE DEF v
<1>6. Holds(tas, tas', v) /\ Ready(tas') /\ Branched(tas')
  BY <1>0, <1>4, <1>5, MovieHeld
<1>7. /\ Rows(tas') = Rows(tas) /\ \A n : Replay(tas'.movie, n) = Replay(tas.movie, n)
  BY <1>5, <1>6 DEF Holds, Rows, Replay
<1>8. Agrees(tas, nes, tas', nes')
  BY <1>2, <1>5, <1>6, <1>7 DEF Agrees, Holds, AtCursor, PointsOf, SumsOf
<1>9. Retains(tas, tas')
  BY <1>0, <1>2, <1>5, <1>6, AllRows DEF Retains, Holds
<1> QED BY <1>2, <1>6, <1>8, <1>9 DEF Stepped, Loaded

\* A seek, whatever the console was at.
LEMMA SeekCommandStep ==
    ASSUME Loaded(tas), nes \in Histories, Seek
    PROVE  /\ Stepped /\ Retains(tas, tas') /\ Agrees(tas, nes, tas', nes')
           /\ PointsOf(tas) => AtCursor(tas', nes') /\ PointsOf(tas')
<1>0. Ready(tas) /\ tas \in Managers /\ Rows(tas) \in Nat
  BY ManagerFields DEF Loaded, Ready
<1>1. PICK target \in 0 .. Rows(tas) :
         tas' = SeekTo(tas, target).tas /\ nes' = SeekTo(tas, target).nes
  BY DEF Seek
<1>2. paused' = TRUE
  BY DEF Seek
<1>3. SeekEnds(tas, Lesser(target, Rows(tas)), SeekTo(tas, target))
  BY <1>0, SeekToEnds
<1>4. Retains(tas, tas')
  BY <1>0, <1>1, <1>3, RetainsSame DEF SeekEnds
<1> QED BY <1>1, <1>2, <1>3, <1>4 DEF SeekEnds, Stepped, Agrees

\* Rerecording from a row keeps types, rows and agreement.
LEMMA RerecordStep ==
    ASSUME Loaded(tas), nes \in Histories, Rerecord
    PROVE  Stepped /\ Retains(tas, tas') /\ Agrees(tas, nes, tas', nes')
<1>0. Ready(tas) /\ tas \in Managers
  BY DEF Loaded, Ready
<1>1. tas' = ResumeRecording(tas) /\ nes' = nes /\ paused' = FALSE /\ ~ ReadOnly(tas)
  BY DEF Rerecord, CanRerecord
<1>2.      /\ Loaded(tas') /\ tas'.cursor = tas.cursor
           /\ tas'.movie.frames = tas.movie.frames
           /\ tas'.movie.marks = tas.movie.marks
           /\ \A n : AtCursor(tas, n) <=> AtCursor(tas', n)
           /\ PointsOf(tas) => PointsOf(tas')
           /\ SumsOf(tas) => SumsOf(tas')
  BY <1>0, <1>1, ResumeRecordingKeeps
<1>3. Retains(tas, tas')
  BY <1>0, <1>1, <1>2, RetainsSame
<1> QED BY <1>1, <1>2, <1>3 DEF Stepped, Agrees

\* A recording rewound over a row records on from before it.
LEMMA RewindStep ==
    ASSUME Loaded(tas), nes \in Histories, paused \in BOOLEAN, Rewind
    PROVE  Stepped /\ Retains(tas, tas') /\ Agrees(tas, nes, tas', nes')
<1> DEFINE target == tas.cursor - 1
           x == SeekTo(tas, target)
           at == Lesser(target, Rows(tas))
           u == ResumeRecording(x.tas)
<1>0. Ready(tas) /\ tas \in Managers /\ Rows(tas) \in Nat /\ tas.cursor \in Nat
  BY ManagerFields DEF Loaded, Ready
<1>1. /\ nes' = x.nes /\ paused' \in {TRUE, paused} /\ tas.cursor > 0
      /\ tas' = IF x.arrived /\ RecordingContext(tas) /\ CanRerecord(x.tas)
                THEN TruncateRecordingAt(u, target)
                ELSE x.tas
  BY DEF Rewind
<1>2. target \in Nat /\ at \in Nat /\ at <= Rows(tas)
  BY <1>0, <1>1 DEF Lesser
<1>3. SeekEnds(tas, at, x)
  BY <1>0, <1>2, SeekToEnds
<1> HIDE DEF x
<1>4. paused' \in BOOLEAN
  BY <1>1
<1>5. CASE ~(x.arrived /\ RecordingContext(tas) /\ CanRerecord(x.tas))
  <2>1. tas' = x.tas
    BY <1>1, <1>5
  <2>2. Retains(tas, tas')
    BY <2>1, <1>0, <1>3, RetainsSame DEF SeekEnds
  <2> QED BY <2>1, <2>2, <1>1, <1>3, <1>4 DEF SeekEnds, Stepped, Agrees
<1>6. CASE x.arrived /\ RecordingContext(tas) /\ CanRerecord(x.tas)
  <2>1. tas' = TruncateRecordingAt(u, target)
    BY <1>1, <1>6
  <2>2. /\ Loaded(x.tas) /\ Ready(x.tas) /\ x.tas.cursor = at /\ Rows(x.tas) = Rows(tas)
        /\ x.tas.movie.frames = tas.movie.frames
        /\ x.tas.movie.rerecords = tas.movie.rerecords
        /\ DOMAIN x.tas.points # {} /\ x.nes \in Histories
    BY <1>3, <1>6 DEF SeekEnds, Loaded
  <2>3.      /\ Loaded(u) /\ u.cursor = at /\ RecordingContext(u)
             /\ Rows(u) = Rows(tas) /\ u.movie.frames = tas.movie.frames
             /\ u.movie.rerecords = tas.movie.rerecords
             /\ \A n : AtCursor(x.tas, n) <=> AtCursor(u, n)
             /\ PointsOf(x.tas) => PointsOf(u)
             /\ SumsOf(x.tas) => SumsOf(u)
             /\ DOMAIN u.points # {}
    BY <2>2, ResumeRecordingKeeps DEF RecordingContext
  <2> HIDE DEF u
  <2>4. at = Lesser(target, Rows(u))
    BY <2>3
  <2> HIDE DEF target, at
  <2>5.    /\ Loaded(tas')
           /\ Wrap > 1 => \/ tas'.movie.frames = u.movie.frames
                          \/ tas'.movie.rerecords # u.movie.rerecords
           /\ \A n : AtCursor(u, n) => AtCursor(tas', n)
           /\ PointsOf(u) => PointsOf(tas')
           /\ SumsOf(u) => SumsOf(tas')
    BY <2>1, <2>3, <2>4, <1>2, TruncateKeeps
  <2>6. ~ ReadOnly(tas)
    BY <1>6 DEF RecordingContext, ReadOnly
  <2>7. Retains(tas, tas')
    BY <2>3, <2>5, <2>6, <1>0, AllRows DEF Retains
  <2>8. Agrees(tas, nes, tas', nes')
    BY <2>3, <2>5, <1>1, <1>3 DEF SeekEnds, Agrees
  <2> QED BY <2>2, <2>5, <2>7, <2>8, <1>1, <1>4 DEF Stepped
<1> QED BY <1>5, <1>6

\* A row written: what is cached after it is dropped and the console is taken there.
LEMMA EditRowStep ==
    ASSUME Loaded(tas), nes \in Histories, EditRow
    PROVE  Stepped /\ Retains(tas, tas') /\ Agrees(tas, nes, tas', nes')
<1>0. /\ Ready(tas) /\ Branched(tas) /\ tas \in Managers /\ Rows(tas) \in Nat /\ tas.cursor \in Nat
      /\ tas.movie \in Movies /\ tas.movie.frames \in Seq(Inputs)
      /\ Rows(tas) = Len(tas.movie.frames) /\ tas.movie.sums \in Maps(Hashes)
      /\ tas.points \in Maps(Histories) /\ DOMAIN tas.movie.sums \subseteq Nat
      /\ DOMAIN tas.points \subseteq Nat /\ (DOMAIN tas.points = {} => tas.cursor = 0)
  BY ManagerFields, MovieFields, MapsAre DEF Loaded, Ready, Hashes, Anchored
<1>1. PICK frame \in 0 .. Rows(tas) - 1, input \in Inputs :
         LET written == Pause([tas EXCEPT !.movie = SetFrame(@, frame, input)])
             here == tas.cursor = frame
             shown == IF here THEN PausedForPreview(written, frame) ELSE written
             edited == InvalidateAfter(shown, frame)
             sought == SeekTo(edited, frame)
         IN /\ tas' = IF here THEN edited ELSE sought.tas
            /\ nes' = IF here THEN nes ELSE sought.nes
  BY DEF EditRow
<1>2. paused' = TRUE /\ ~ ReadOnly(tas)
  BY DEF EditRow
<1> DEFINE v == SetFrame(tas.movie, frame, input)
           y == [tas EXCEPT !.movie = v]
           written == Pause(y)
           here == tas.cursor = frame
           shown == IF here THEN PausedForPreview(written, frame) ELSE written
           edited == InvalidateAfter(shown, frame)
           sought == SeekTo(edited, frame)
           rows == [tas.movie.frames EXCEPT ![frame + 1] = input]
<1>3. /\ tas' = IF here THEN edited ELSE sought.tas
      /\ nes' = IF here THEN nes ELSE sought.nes
  <2>1. [tas EXCEPT !.movie = SetFrame(@, frame, input)] = y
    BY Zenon
  <2> QED BY <1>1, <2>1
<1>4. frame \in Nat /\ frame < Rows(tas)
  BY <1>0
<1>5. /\ rows \in Seq(Inputs) /\ Len(rows) = Rows(tas)
      /\ \A i \in 1 .. frame : rows[i] = tas.movie.frames[i]
  BY <1>0, <1>4
<1>6. Rewrites(tas.movie, v, rows, tas.movie.marks, frame)
  <2>1. [tas.movie EXCEPT !.frames[frame + 1] = input] = [tas.movie EXCEPT !.frames = rows]
    OBVIOUS
  <2>2. v = ChangedFrom([tas.movie EXCEPT !.frames = rows], frame)
    <3> HIDE DEF rows
    <3> QED BY <2>1 DEF SetFrame
  <2>3. {} \in SUBSET Nat
    OBVIOUS
  <2> HIDE DEF v, rows
  <2> QED BY <2>2, <2>3, <1>0, <1>5, ChangedFromRewrites
<1> HIDE DEF v, rows
<1>7. /\ v \in Movies /\ v.start = tas.movie.start /\ v.frames = rows
      /\ v.sums = UpTo(tas.movie.sums, frame)
      /\ Wrap > 1 => v.rerecords # tas.movie.rerecords
  BY <1>6 DEF Rewrites
<1>8. \A g \in Nat : g <= frame => Replay(v, g) = Replay(tas.movie, g)
  <2> TAKE g \in Nat
  <2> HAVE g <= frame
  <2>1. frame <= Len(v.frames) /\ frame <= Len(tas.movie.frames)
        /\ \A i \in 1 .. frame : v.frames[i] = tas.movie.frames[i]
    BY <1>0, <1>4, <1>5, <1>7
  <2> QED BY <2>1, <1>0, <1>4, <1>7, AgreeingReplay
<1>9. Holds(tas, y, v) /\ Ready(y) /\ Branched(y)
  BY <1>0, <1>6, RewrittenHeld
<1> HIDE DEF y
<1>10. /\ Ready(written) /\ Same(y, written) /\ written.cursor = y.cursor /\ Branched(written)
       /\ EffectiveMode(written) = EffectiveMode(y)
  BY <1>9, PauseKeeps
<1> HIDE DEF written
<1>11. /\ Ready(shown) /\ Branched(shown) /\ shown.movie = v /\ shown.points = tas.points
       /\ shown.cursor = tas.cursor
  <2>1. written.movie = v /\ written.points = tas.points /\ written.cursor = tas.cursor
    BY <1>9, <1>10 DEF Same, Holds
  <2>2. CASE here
    <3>1. DOMAIN written.points = {} => frame = 0
      BY <2>1, <2>2, <1>0
    <3>2. /\ Loaded(shown) /\ Same(written, shown) /\ shown.cursor = frame
      BY <3>1, <2>2, <1>4, <1>10, PreviewKeeps
    <3> HIDE DEF shown
    <3> QED BY <3>2, <2>1, <2>2 DEF Same, Loaded
  <2>3. CASE ~ here
    <3>1. shown = written
      BY <2>3
    <3> HIDE DEF shown
    <3> QED BY <3>1, <2>1, <1>10
  <2> QED BY <2>2, <2>3
<1> HIDE DEF shown
<1>12. /\ Ready(edited) /\ Branched(edited)
       /\ Differs(shown, edited, UpTo(shown.movie.sums, frame), UpTo(shown.points, frame))
  BY <1>4, <1>11, InvalidateKeeps
<1> HIDE DEF edited
<1>13. /\ Rows(edited) = Rows(tas) /\ edited.cursor = tas.cursor
       /\ edited.movie.rerecords = v.rerecords
       /\ edited.points = UpTo(tas.points, frame)
       /\ edited.movie.sums = UpTo(v.sums, frame)
       /\ \A k : Replay(edited.movie, k) = Replay(v, k)
  <2>1. Rows(shown) = Rows(tas)
    BY <1>5, <1>7, <1>11 DEF Rows
  <2> QED BY <2>1, <1>11, <1>12 DEF Differs
<1>14. PointsOf(tas) => PointsOf(edited)
  BY <1>0, <1>4, <1>8, <1>13 DEF PointsOf, UpTo
<1>15. SumsOf(tas) => SumsOf(edited)
  BY <1>0, <1>4, <1>7, <1>8, <1>13 DEF SumsOf, UpTo
<1>16. CASE here
  <2>1. tas' = edited /\ nes' = nes
    BY <1>3, <1>16
  <2>2. AtCursor(tas, nes) => AtCursor(tas', nes')
    BY <2>1, <1>4, <1>8, <1>13, <1>16 DEF AtCursor
  <2>3. Retains(tas, tas')
    BY <2>1, <1>2, <1>7, <1>13 DEF Retains
  <2> QED BY <2>1, <2>2, <2>3, <1>2, <1>12, <1>14, <1>15 DEF Stepped, Agrees, Loaded
<1>17. CASE ~ here
  <2>1. tas' = sought.tas /\ nes' = sought.nes
    BY <1>3, <1>17
  <2>2. SeekEnds(edited, Lesser(frame, Rows(edited)), sought)
    BY <1>4, <1>12, SeekToEnds
  <2> HIDE DEF sought
  <2>3. Retains(tas, tas')
    BY <2>1, <2>2, <1>2, <1>7, <1>13 DEF Retains, SeekEnds
  <2> QED BY <2>1, <2>2, <2>3, <1>2, <1>14, <1>15 DEF Stepped, Agrees, SeekEnds
<1> QED BY <1>16, <1>17

---------------------------------------------------------------------------
(* Editing the timeline. *)

\* Rows rewritten from row f on and the rerecord counted: the rows before it stay.
Rewritten(v, w, f) ==
    /\ \E rows, marks : Rewrites(v, w, rows, marks, f)
    /\ f \in Nat /\ f <= Len(v.frames) /\ f <= Len(w.frames)
    /\ \A i \in 1 .. f : w.frames[i] = v.frames[i]

\* What is put together from the first rows of a movie begins with them.
LEMMA HeadStays ==
    ASSUME NEW S, NEW s \in Seq(S), NEW n \in Nat, n <= Len(s), NEW t \in Seq(S)
    PROVE  /\ Take(s, n) \o t \in Seq(S) /\ n <= Len(Take(s, n) \o t)
           /\ \A i \in 1 .. n : (Take(s, n) \o t)[i] = s[i]
<1>1. Lesser(n, Len(s)) = n
  BY DEF Lesser
<1>2. /\ Take(s, n) \in Seq(S) /\ Len(Take(s, n)) = n
      /\ \A i \in 1 .. n : Take(s, n)[i] = s[i]
  BY <1>1, TakeTyped
<1> DEFINE h == Take(s, n)
<1>3. h \in Seq(S) /\ Len(h) = n /\ \A i \in 1 .. n : h[i] = s[i]
  BY <1>2
<1> HIDE DEF h
<1>4. /\ h \o t \in Seq(S) /\ n <= Len(h \o t)
      /\ \A i \in 1 .. n : (h \o t)[i] = s[i]
  BY <1>3
<1> QED BY <1>4 DEF h

\* Inserting rows rewrites the movie from the row they go in at.
LEMMA InsertRewrites ==
    ASSUME NEW v \in Movies, NEW a \in Nat, a <= Len(v.frames), NEW rows \in Seq(Inputs)
    PROVE  Rewritten(v, Insert(v, a, rows), a)
<1> DEFINE r == Take(v.frames, a) \o rows \o Drop(v.frames, a)
           k == {IF i >= a THEN i + Len(rows) ELSE i : i \in v.marks}
<1>1. v.frames \in Seq(Inputs) /\ v.marks \subseteq Nat
  BY MovieFields
<1>2. r \in Seq(Inputs) /\ a <= Len(r) /\ \A i \in 1 .. a : r[i] = v.frames[i]
  <2>1. Take(v.frames, a) \in Seq(Inputs) /\ Drop(v.frames, a) \in Seq(Inputs)
    BY <1>1, TakeTyped, DropTyped
  <2> DEFINE t == rows \o Drop(v.frames, a)
  <2>2. t \in Seq(Inputs) /\ r = Take(v.frames, a) \o t
    BY <2>1, ConcatAssociates
  <2> HIDE DEF r, t
  <2> QED BY <2>2, <1>1, HeadStays
<1>3. k \in SUBSET Nat
  BY <1>1
<1>4. Insert(v, a, rows) = ChangedFrom([v EXCEPT !.frames = r, !.marks = k], a)
  <2>1. [v EXCEPT !.frames = Take(@, a) \o rows \o Drop(@, a),
                  !.marks = {IF i >= a THEN i + Len(rows) ELSE i : i \in @}]
          = [v EXCEPT !.frames = r, !.marks = k]
    BY DEF Movies
  <2> HIDE DEF r, k
  <2> QED BY <2>1 DEF Insert
<1> HIDE DEF r, k
<1>5. Rewrites(v, Insert(v, a, rows), r, k, a)
  BY <1>2, <1>3, <1>4, ChangedFromRewrites
<1>6. Insert(v, a, rows).frames = r
  BY <1>5 DEF Rewrites
<1> QED BY <1>2, <1>5, <1>6 DEF Rewritten

\* The rows a selection stands for.
LEMMA SelectionIsRows ==
    ASSUME NEW v \in Movies, Len(v.frames) > 0, NEW a \in Nat, NEW b \in Nat
    PROVE  /\ FirstRow(v, a, b) \in 0 .. Len(v.frames) - 1
           /\ LastRow(v, a, b) \in 0 .. Len(v.frames) - 1
           /\ FirstRow(v, a, b) <= LastRow(v, a, b)
<1>1. Len(v.frames) \in Nat
  BY MovieFields
<1> QED BY <1>1 DEF FirstRow, LastRow, Clamp, Lesser, Greater

\* Deleting rows rewrites the movie from the first of them.
LEMMA DeleteRewrites ==
    ASSUME NEW v \in Movies, Len(v.frames) > 0, NEW a \in Nat, NEW b \in Nat
    PROVE  Rewritten(v, Delete(v, a, b), FirstRow(v, a, b))
<1> DEFINE first == FirstRow(v, a, b)
           last == LastRow(v, a, b)
           r == Take(v.frames, first) \o Drop(v.frames, last + 1)
           k == {IF i > last THEN i - (last - first + 1) ELSE i : i \in v.marks \ (first .. last)}
<1>1. v.frames \in Seq(Inputs) /\ v.marks \subseteq Nat
  BY MovieFields
<1>2. first \in Nat /\ last \in Nat /\ first <= last /\ first <= Len(v.frames)
  <2>1. /\ first \in 0 .. Len(v.frames) - 1 /\ last \in 0 .. Len(v.frames) - 1
        /\ first <= last
    BY SelectionIsRows
  <2> HIDE DEF first, last
  <2> QED BY <2>1, <1>1
<1>3. Delete(v, a, b) = ChangedFrom([v EXCEPT !.frames = r, !.marks = k], first)
  <2>1. Delete(v, a, b) = ChangedFrom(
           [v EXCEPT
               !.frames = Take(@, first) \o Drop(@, last + 1),
               !.marks = {IF i > last THEN i - (last - first + 1) ELSE i :
                              i \in @ \ (first .. last)}],
           first)
    BY DEF Delete
  <2> HIDE DEF first, last
  <2>2. [v EXCEPT
               !.frames = Take(@, first) \o Drop(@, last + 1),
               !.marks = {IF i > last THEN i - (last - first + 1) ELSE i :
                              i \in @ \ (first .. last)}]
          = [v EXCEPT !.frames = r, !.marks = k]
    BY DEF Movies
  <2> HIDE DEF r, k
  <2> QED BY <2>1, <2>2
<1> HIDE DEF first, last
<1>4. r \in Seq(Inputs) /\ first <= Len(r) /\ \A i \in 1 .. first : r[i] = v.frames[i]
  <2>1. Drop(v.frames, last + 1) \in Seq(Inputs)
    <3>1. last + 1 \in Nat
      BY <1>2
    <3> QED BY <3>1, <1>1, DropTyped
  <2> QED BY <2>1, <1>1, <1>2, HeadStays
<1>5. k \in SUBSET Nat
  BY <1>1, <1>2
<1> HIDE DEF r, k
<1>6. Rewrites(v, Delete(v, a, b), r, k, first)
  BY <1>3, <1>4, <1>5, ChangedFromRewrites
<1>7. Delete(v, a, b).frames = r
  BY <1>6 DEF Rewrites
<1> QED BY <1>2, <1>4, <1>6, <1>7 DEF Rewritten, first

\* Filling rows rewrites the movie from the first of them.
LEMMA FillRewrites ==
    ASSUME NEW v \in Movies, Len(v.frames) > 0, NEW a \in Nat, NEW b \in Nat, NEW input \in Inputs
    PROVE  Rewritten(v, Fill(v, a, b, input), FirstRow(v, a, b))
<1> DEFINE first == FirstRow(v, a, b)
           last == LastRow(v, a, b)
           fr == v.frames
           r == [i \in DOMAIN fr |-> IF i - 1 \in first .. last THEN input ELSE fr[i]]
<1>1. fr \in Seq(Inputs) /\ first \in Nat /\ first <= Len(fr)
  <2>1. first \in 0 .. Len(v.frames) - 1 /\ fr \in Seq(Inputs)
    BY MovieFields, SelectionIsRows
  <2> HIDE DEF first
  <2> QED BY <2>1
<1>2. Fill(v, a, b, input) = ChangedFrom([v EXCEPT !.frames = r], first)
  <2>1. Fill(v, a, b, input) = ChangedFrom(
           [v EXCEPT !.frames =
               [i \in DOMAIN @ |-> IF i - 1 \in first .. last THEN input ELSE @[i]]],
           first)
    BY DEF Fill
  <2> HIDE DEF first, last
  <2>2. [v EXCEPT !.frames =
               [i \in DOMAIN @ |-> IF i - 1 \in first .. last THEN input ELSE @[i]]]
          = [v EXCEPT !.frames = r]
    OBVIOUS
  <2> HIDE DEF r
  <2> QED BY <2>1, <2>2
<1> HIDE DEF first, last
<1>3. r \in Seq(Inputs) /\ first <= Len(r) /\ \A i \in 1 .. first : r[i] = fr[i]
  <2> HIDE DEF fr
  <2>1. r \in [1 .. Len(fr) -> Inputs]
    BY <1>1
  <2>2. \A i \in 1 .. first : r[i] = fr[i]
    <3> TAKE i \in 1 .. first
    <3>1. i \in DOMAIN fr /\ ~ (i - 1 \in first .. last)
      BY <1>1
    <3> QED BY <3>1
  <2> HIDE DEF r
  <2>3. r \in Seq(Inputs) /\ Len(r) = Len(fr)
    BY <2>1, <1>1
  <2> QED BY <2>2, <2>3, <1>1
<1> HIDE DEF r
<1>4. Rewrites(v, Fill(v, a, b, input), r, v.marks, first)
  <2>1. {} \in SUBSET Nat
    OBVIOUS
  <2> QED BY <2>1, <1>2, <1>3, ChangedFromRewrites
<1>5. Fill(v, a, b, input).frames = r
  BY <1>4 DEF Rewrites
<1> QED BY <1>1, <1>3, <1>4, <1>5 DEF Rewritten, first

\* Pasting rows rewrites the movie from the row they are pasted at.
LEMMA PasteRewrites ==
    ASSUME NEW v \in Movies, NEW a \in Nat, a <= Len(v.frames), NEW rows \in Seq(Inputs)
    PROVE  Rewritten(v, PasteOverwrite(v, a, rows), a)
<1> DEFINE tail == IF Len(v.frames) > a + Len(rows) THEN Drop(v.frames, a + Len(rows)) ELSE <<>>
           r == Take(v.frames, a) \o rows \o tail
<1>1. v.frames \in Seq(Inputs) /\ Len(rows) \in Nat
  BY MovieFields
<1>2. r \in Seq(Inputs) /\ a <= Len(r) /\ \A i \in 1 .. a : r[i] = v.frames[i]
  <2>1. a + Len(rows) \in Nat
    BY <1>1
  <2>2. Take(v.frames, a) \in Seq(Inputs) /\ Drop(v.frames, a + Len(rows)) \in Seq(Inputs)
    BY <2>1, <1>1, TakeTyped, DropTyped
  <2>3. tail \in Seq(Inputs)
    BY <2>2
  <2> HIDE DEF tail
  <2> DEFINE t == rows \o tail
  <2>4. t \in Seq(Inputs) /\ r = Take(v.frames, a) \o t
    BY <2>2, <2>3, ConcatAssociates
  <2> HIDE DEF r, t
  <2> QED BY <2>4, <1>1, HeadStays
<1>3. PasteOverwrite(v, a, rows) = ChangedFrom([v EXCEPT !.frames = r], a)
  <2>1. [v EXCEPT !.frames =
            Take(@, a) \o rows
                \o (IF Len(@) > a + Len(rows)
                    THEN Drop(@, a + Len(rows)) ELSE <<>>)]
          = [v EXCEPT !.frames = r]
    OBVIOUS
  <2> HIDE DEF r
  <2> QED BY <2>1 DEF PasteOverwrite
<1> HIDE DEF r
<1>4. Rewrites(v, PasteOverwrite(v, a, rows), r, v.marks, a)
  <2>1. {} \in SUBSET Nat
    OBVIOUS
  <2> QED BY <2>1, <1>2, <1>3, ChangedFromRewrites
<1>5. PasteOverwrite(v, a, rows).frames = r
  BY <1>4 DEF Rewrites
<1> QED BY <1>2, <1>4, <1>5 DEF Rewritten

\* What an edit that rewrites from row f on and invalidates after row g leaves true:
\* the hashes; the checkpoints, if no row before g changed; and the place of the
\* console, if no row it has executed changed.
EditAgrees(f, g) ==
    /\ SumsOf(tas) => SumsOf(tas')
    /\ g <= f /\ PointsOf(tas) => PointsOf(tas')
    /\ tas.cursor <= f /\ AtCursor(tas, nes) => AtCursor(tas', nes')

\* A changed timeline: checkpoints go, the console stays.
LEMMA EditedStep ==
    ASSUME Loaded(tas), nes \in Histories, ~ ReadOnly(tas), NEW v, NEW f,
           Rewritten(tas.movie, v, f), NEW g \in Nat, Edited(v, g)
    PROVE  Stepped /\ Retains(tas, tas') /\ EditAgrees(f, g)
<1> DEFINE y == [tas EXCEPT !.movie = v]
           z == InvalidateAfter(y, g)
<1>0. /\ Ready(tas) /\ Branched(tas) /\ tas \in Managers /\ tas.movie \in Movies
      /\ tas.cursor \in Nat /\ f \in Nat
      /\ DOMAIN tas.movie.sums \subseteq Nat /\ DOMAIN tas.points \subseteq Nat
  BY ManagerFields, MovieFields, MapsAre DEF Loaded, Ready, Rewritten
<1>1. tas' = Pause(z) /\ nes' = nes /\ paused' = TRUE
  BY DEF Edited
<1>2. PICK rows, marks : Rewrites(tas.movie, v, rows, marks, f)
  BY DEF Rewritten
<1>3. Holds(tas, y, v) /\ Ready(y) /\ Branched(y)
  BY <1>0, <1>2, RewrittenHeld
<1> HIDE DEF y
<1>4. /\ Ready(z) /\ Branched(z) /\ Differs(y, z, UpTo(y.movie.sums, g), UpTo(y.points, g))
  BY <1>3, InvalidateKeeps
<1> HIDE DEF z
<1>5. Ready(tas') /\ Branched(tas') /\ Same(z, tas') /\ tas'.cursor = z.cursor
  BY <1>1, <1>4, PauseKeeps
<1>6. tas'.movie.rerecords = v.rerecords
  BY <1>3, <1>4, <1>5 DEF Same, Differs, Holds
<1>7. Wrap > 1 => tas'.movie.rerecords # tas.movie.rerecords
  BY <1>2, <1>6 DEF Rewrites
<1>8. Stepped /\ Retains(tas, tas')
  BY <1>1, <1>5, <1>7 DEF Stepped, Loaded, Retains
<1>9. /\ v.sums = UpTo(tas.movie.sums, f)
      /\ \A h \in Nat : h <= f => Replay(v, h) = Replay(tas.movie, h)
  <2>1. v \in Movies /\ v.start = tas.movie.start /\ v.sums = UpTo(tas.movie.sums, f)
    BY <1>2 DEF Rewrites
  <2> QED BY <2>1, <1>0, AgreeingReplay DEF Rewritten
<1>10. f <= Len(v.frames)
  BY DEF Rewritten
<1>11. /\ tas'.cursor = tas.cursor /\ Rows(tas') = Len(v.frames)
       /\ tas'.points = UpTo(tas.points, g) /\ tas'.movie.sums = UpTo(v.sums, g)
       /\ \A k : Replay(tas'.movie, k) = Replay(v, k)
  <2>1. Rows(y) = Len(v.frames) /\ y.points = tas.points /\ y.movie = v /\ y.cursor = tas.cursor
    BY <1>3 DEF Holds, Rows
  <2>2. /\ z.cursor = tas.cursor /\ Rows(z) = Len(v.frames)
        /\ z.points = UpTo(tas.points, g) /\ z.movie.sums = UpTo(v.sums, g)
        /\ \A k : Replay(z.movie, k) = Replay(v, k)
    BY <2>1, <1>4 DEF Differs
  <2> QED BY <2>2, <1>5 DEF Same, Rows
<1>12. Len(v.frames) \in Nat
  <2>1. v \in Movies
    BY <1>2 DEF Rewrites
  <2> QED BY <2>1, MovieFields
<1>13. SumsOf(tas) => SumsOf(tas')
  BY <1>0, <1>9, <1>10, <1>11, <1>12 DEF SumsOf, UpTo
<1>14. g <= f /\ PointsOf(tas) => PointsOf(tas')
  BY <1>0, <1>9, <1>10, <1>11, <1>12 DEF PointsOf, UpTo
<1>15. tas.cursor <= f /\ AtCursor(tas, nes) => AtCursor(tas', nes')
  BY <1>0, <1>1, <1>9, <1>10, <1>11, <1>12 DEF AtCursor
<1> QED BY <1>8, <1>13, <1>14, <1>15 DEF EditAgrees

\* What an edit of the timeline leaves true.
EditKeeps ==
    /\ SumsOf(tas) => SumsOf(tas')
    /\ PointsOf(tas) => PointsOf(tas') \/ EditAtEnd
    /\ AtCursor(tas, nes) => AtCursor(tas', nes') \/ EditBehind \/ EditAtEnd

\* A selection names its first row, unless all of it is the line after the last row.
LEMMA SelectionStarts ==
    ASSUME NEW v \in Movies, Len(v.frames) > 0,
           NEW a \in 0 .. Len(v.frames), NEW b \in 0 .. Len(v.frames)
    PROVE  Lesser(a, b) <= FirstRow(v, a, b) \/ (a = Len(v.frames) /\ b = Len(v.frames))
<1>1. Len(v.frames) \in Nat
  BY MovieFields
<1> QED BY <1>1 DEF FirstRow, Clamp, Lesser

\* An edit of the timeline keeps the types, counts the rerecord it is, and leaves what
\* lies before the selection true.
LEMMA EditTimelineStep ==
    ASSUME Loaded(tas), nes \in Histories, EditTimeline
    PROVE  Stepped /\ Retains(tas, tas') /\ EditKeeps
<1>0. /\ tas.movie \in Movies /\ tas.movie.frames \in Seq(Inputs) /\ Rows(tas) \in Nat
      /\ Rows(tas) = Len(tas.movie.frames) /\ Blank \in Inputs /\ tas.cursor \in Nat
      /\ \A s \in Clips : s \in Seq(Inputs)
  BY ManagerFields, TasParameters, SessionParameters DEF Loaded, Ready
<1>1. PICK a \in 0 .. Rows(tas), b \in 0 .. Rows(tas) : Timeline(a, b)
  BY DEF EditTimeline
<1>2. HasMovie(tas) /\ ~ ReadOnly(tas)
  BY DEF EditTimeline
<1>3. /\ a \in Nat /\ b \in Nat /\ Lesser(a, b) \in Nat /\ Lesser(a, b) <= a
      /\ a <= Len(tas.movie.frames) /\ (a = b => Lesser(a, b) = a)
  BY <1>0 DEF Lesser
<1>4. ASSUME NEW w, NEW f, Rewritten(tas.movie, w, f), Edited(w, Lesser(a, b)),
             Lesser(a, b) <= f \/ EditAtEnd
      PROVE  Stepped /\ Retains(tas, tas') /\ EditKeeps
  <2>1. Stepped /\ Retains(tas, tas') /\ EditAgrees(f, Lesser(a, b))
    BY <1>2, <1>3, <1>4, EditedStep
  <2>2. f \in Nat
    BY <1>4 DEF Rewritten
  <2>3. EditBehind \/ tas.cursor <= Lesser(a, b)
    BY <1>0, <1>1, <1>2, <1>3 DEF EditBehind
  <2>4. EditBehind \/ EditAtEnd \/ tas.cursor <= f
    BY <2>2, <2>3, <1>0, <1>3, <1>4
  <2> QED BY <2>1, <2>4, <1>4 DEF EditAgrees, EditKeeps
<1>5. CASE InsertBlank(a, b)
  <2>1. Rewritten(tas.movie, Insert(tas.movie, a, <<Blank>>), a)
    <3>1. <<Blank>> \in Seq(Inputs)
      BY <1>0
    <3> QED BY <3>1, <1>0, <1>3, InsertRewrites
  <2>2. Edited(Insert(tas.movie, a, <<Blank>>), Lesser(a, b))
    BY <1>5 DEF InsertBlank, Movie
  <2> QED BY <2>1, <2>2, <1>3, <1>4
<1>6. CASE Duplicate(a, b)
  <2> DEFINE rows == <<tas.movie.frames[a + 1]>>
  <2>1. rows \in Seq(Inputs)
    <3>1. tas.movie.frames[a + 1] \in Inputs
      BY <1>0, <1>3, <1>6 DEF Duplicate
    <3> QED BY <3>1
  <2>2. Edited(Insert(tas.movie, a + 1, rows), Lesser(a, b))
    BY <1>6 DEF Duplicate, Movie
  <2> HIDE DEF rows
  <2>3. Rewritten(tas.movie, Insert(tas.movie, a + 1, rows), a + 1)
    <3>1. a + 1 \in Nat /\ a + 1 <= Len(tas.movie.frames)
      BY <1>0, <1>3, <1>6 DEF Duplicate
    <3> QED BY <2>1, <3>1, <1>0, InsertRewrites
  <2>4. Lesser(a, b) <= a + 1
    BY <1>3
  <2> QED BY <2>2, <2>3, <2>4, <1>4
<1>7. CASE DeleteRange(a, b)
  <2> DEFINE first == FirstRow(tas.movie, a, b)
  <2>1. Len(tas.movie.frames) > 0
    BY <1>0, <1>7 DEF DeleteRange
  <2>2. Rewritten(tas.movie, Delete(tas.movie, a, b), first)
    BY <2>1, <1>0, <1>3, DeleteRewrites
  <2>3. Edited(Delete(tas.movie, a, b), Lesser(a, b))
    BY <1>7 DEF DeleteRange, Movie
  <2>4. Lesser(a, b) <= first \/ EditAtEnd
    <3>1. Lesser(a, b) <= first \/ (a = Rows(tas) /\ b = Rows(tas))
      BY <2>1, <1>0, SelectionStarts
    <3> QED BY <3>1, <1>2, <1>7 DEF EditAtEnd
  <2> HIDE DEF first
  <2> QED BY <2>2, <2>3, <2>4, <1>4
<1>8. CASE FillRange(a, b)
  <2> DEFINE row == tas.movie.frames[a + 1]
             first == FirstRow(tas.movie, a, b)
  <2>1. row \in Inputs /\ Len(tas.movie.frames) > 0
    BY <1>0, <1>3, <1>8 DEF FillRange
  <2>2. Edited(Fill(tas.movie, a, b, row), Lesser(a, b))
    BY <1>8 DEF FillRange, Movie
  <2> HIDE DEF row
  <2>3. Rewritten(tas.movie, Fill(tas.movie, a, b, row), first)
    BY <2>1, <1>0, <1>3, FillRewrites
  <2>4. Lesser(a, b) <= first
    <3>1. Lesser(a, b) <= first \/ (a = Rows(tas) /\ b = Rows(tas))
      BY <2>1, <1>0, SelectionStarts
    <3>2. a < Rows(tas)
      BY <1>8 DEF FillRange
    <3> QED BY <3>1, <3>2, <1>0, <1>3
  <2> HIDE DEF first
  <2> QED BY <2>2, <2>3, <2>4, <1>4
<1>9. CASE ClearRange(a, b)
  <2> DEFINE first == FirstRow(tas.movie, a, b)
  <2>1. Len(tas.movie.frames) > 0
    BY <1>0, <1>9 DEF ClearRange
  <2>2. Rewritten(tas.movie, Fill(tas.movie, a, b, Blank), first)
    BY <2>1, <1>0, <1>3, FillRewrites
  <2>3. Edited(Fill(tas.movie, a, b, Blank), Lesser(a, b))
    BY <1>9 DEF ClearRange, Movie
  <2>4. Lesser(a, b) <= first \/ EditAtEnd
    <3>1. Lesser(a, b) <= first \/ (a = Rows(tas) /\ b = Rows(tas))
      BY <2>1, <1>0, SelectionStarts
    <3> QED BY <3>1, <1>2, <1>9 DEF EditAtEnd
  <2> HIDE DEF first
  <2> QED BY <2>2, <2>3, <2>4, <1>4
<1>10. CASE a = b /\ PasteAt(a)
  <2>1. PICK rows \in Clips : \/ Edited(Insert(tas.movie, a, rows), a)
                              \/ Edited(PasteOverwrite(tas.movie, a, rows), a)
    BY <1>10 DEF PasteAt, Movie
  <2>2. rows \in Seq(Inputs)
    BY <1>0
  <2>3. /\ Rewritten(tas.movie, Insert(tas.movie, a, rows), a)
        /\ Rewritten(tas.movie, PasteOverwrite(tas.movie, a, rows), a)
    BY <2>2, <1>0, <1>3, InsertRewrites, PasteRewrites
  <2>4. Lesser(a, b) = a
    BY <1>3, <1>10
  <2> QED BY <2>1, <2>3, <2>4, <1>3, <1>4
<1> QED BY <1>1, <1>5, <1>6, <1>7, <1>8, <1>9, <1>10 DEF Timeline

---------------------------------------------------------------------------
(* Starting and replacing movies. *)

LEMMA NoMovieTyped == NoMovie \in Movies /\ EmptyMap \in Maps(Histories)
<1>1. EmptyMap \in Maps(Histories \cup {StaleHash}) /\ EmptyMap \in Maps(Histories)
  BY EmptyMapTyped
<1>2. 0 \in 0 .. Wrap - 1
  BY TasParameters
<1>3. <<>> \in Seq(Inputs)
  OBVIOUS
<1> QED BY <1>1, <1>2, <1>3 DEF NoMovie, Movies

\* The manager of a console without a movie is a manager.
LEMMA NoManagerTyped ==
    ASSUME NEW i \in Intervals PROVE NoManager(i) \in Managers
<1>1. "Inactive" \in Modes /\ "Inactive" \in Modes \ {"Paused"}
  BY DEF Modes
<1> QED BY <1>1, NoMovieTyped DEF NoManager, Managers

\* A manager without a movie is a manager.
LEMMA UnloadedIsManager ==
    ASSUME NEW m, Unloaded(m) PROVE m \in Managers /\ m.interval \in Intervals
BY NoManagerTyped, ManagerFields DEF Unloaded

\* A movie begun at any state of the console agrees with it.
LEMMA NewMovieStep ==
    ASSUME tas \in Managers, nes \in Histories, NewMovie
    PROVE  Stepped /\ AtCursor(tas', nes') /\ PointsOf(tas') /\ SumsOf(tas')
<1>1. PICK start \in {<<>>, Append(nes, Event), nes} :
         nes' = start /\ tas' = StartNewMovie(tas, start)
  BY DEF NewMovie
<1>2. paused' = FALSE
  BY DEF NewMovie
<1>3. start \in Histories
  <2>1. <<>> \in Histories /\ Append(nes, Event) \in Histories
    BY HistoryGrows DEF Histories
  <2> QED BY <2>1
<1> DEFINE s == WithEntry(EmptyMap, 0, start)
           v == [NoMovie EXCEPT !.start = start, !.sums = s]
           w == [tas EXCEPT !.mode = "Recording", !.resume = "Recording",
                            !.movie = v, !.cursor = 0, !.points = s]
<1>4. s \in Maps(Histories) /\ s \in Maps(Histories \cup {StaleHash})
  BY <1>3, EmptyMapTyped, WithEntryTyped
<1>5. DOMAIN s = {0} /\ s[0] = start
  BY DEF WithEntry, EmptyMap
<1>6. tas' = w
  BY <1>1 DEF StartNewMovie
<1> HIDE DEF s
<1>7. v \in Movies /\ v.frames = <<>> /\ v.start = start /\ v.sums = s
  <2>1. NoMovie \in Movies /\ NoMovie.frames = <<>>
    BY NoMovieTyped DEF NoMovie
  <2> QED BY <2>1, <1>3, <1>4 DEF Movies
<1> HIDE DEF v
<1>8. /\ w \in Managers /\ w.mode = "Recording" /\ w.movie = v /\ w.cursor = 0 /\ w.points = s
      /\ w.interval = tas.interval
  <2>1. "Recording" \in Modes /\ "Recording" \in Modes \ {"Paused"}
    BY DEF Modes
  <2> QED BY <2>1, <1>4, <1>7 DEF Managers
<1> HIDE DEF w
<1>9. Loaded(w)
  <2>1. 0 % w.interval = 0
    BY <1>8, ManagerFields
  <2> QED BY <2>1, <1>3, <1>5, <1>7, <1>8 DEF Loaded, Ready, Branched, Anchored, OnGrid
<1>10. Replay(v, 0) = start /\ Rows(w) = 0
  <2>1. Replay(v, 0) = v.start
    BY <1>3, <1>7, ReplayNothing, MovieFields
  <2> QED BY <2>1, <1>7, <1>8 DEF Rows
<1>11. AtCursor(w, start) /\ PointsOf(w) /\ SumsOf(w)
  BY <1>5, <1>7, <1>8, <1>10 DEF AtCursor, PointsOf, SumsOf
<1> QED BY <1>1, <1>2, <1>3, <1>6, <1>9, <1>11 DEF Stepped

\* Playing from the start agrees whatever happened before.
LEMMA PlayStep ==
    ASSUME Loaded(tas), nes \in Histories, PlayFromStart
    PROVE  /\ Stepped /\ AtCursor(tas', nes') /\ PointsOf(tas')
           /\ SumsOf(tas) => SumsOf(tas')
           /\ tas'.movie.frames = tas.movie.frames /\ tas'.movie.marks = tas.movie.marks
<1>0. /\ Ready(tas) /\ tas \in Managers /\ tas.movie.start \in Histories
      /\ tas.movie.sums \in Maps(Hashes) /\ tas.movie.frames \in Seq(Inputs) /\ Rows(tas) \in Nat
  BY ManagerFields, MovieFields DEF Loaded, Ready, Hashes
<1> DEFINE start == tas.movie.start
           p == WithEntry(EmptyMap, 0, start)
<1>1. PICK readOnly \in BOOLEAN :
           LET playing == [StartPlayback(tas, readOnly) EXCEPT !.points = p]
           IN tas' = IF Mismatch(playing, 0, start)
                     THEN [playing EXCEPT !.movie.sums = WithEntry(@, 0, start)]
                     ELSE playing
  BY DEF PlayFromStart, Movie
<1>2. nes' = start /\ paused' = FALSE
  BY DEF PlayFromStart, Movie
<1> DEFINE m == StartPlayback(tas, readOnly)
           playing == [m EXCEPT !.points = p]
           s == WithEntry(tas.movie.sums, 0, start)
<1>3. /\ Loaded(m) /\ Same(tas, m) /\ m.cursor = 0
      /\ EffectiveMode(m) # "Recording"
  BY <1>0, StartKeeps
<1>4. p \in Maps(Histories) /\ DOMAIN p = {0} /\ p[0] = start
  <2>1. p \in Maps(Histories)
    BY <1>0, EmptyMapTyped, WithEntryTyped
  <2>2. DOMAIN p = {0} /\ p[0] = start
    BY DEF WithEntry, EmptyMap
  <2> QED BY <2>1, <2>2
<1> HIDE DEF p, m
<1>5. m \in Managers /\ m.movie = tas.movie /\ Ready(m) /\ m.interval = tas.interval
      /\ Rows(m) = Rows(tas)
  BY <1>3 DEF Loaded, Ready, Same
<1>6. playing = With(m, tas.movie.sums, p)
  BY <1>5, PointsAssigned
<1>7. \E t \in Maps(Hashes) :
         /\ tas' = With(m, t, p) /\ \A g \in DOMAIN t : g \in DOMAIN tas.movie.sums \/ g = 0
         /\ t = tas.movie.sums \/ t = s
  <2>1. tas' = IF Mismatch(playing, 0, start)
                     THEN [playing EXCEPT !.movie.sums = WithEntry(@, 0, start)]
                     ELSE playing
    BY <1>1 DEF m
  <2>2. CASE ~ Mismatch(playing, 0, start)
    BY <2>1, <2>2, <1>0, <1>6
  <2>3. CASE Mismatch(playing, 0, start)
    <3>1. Differs(m, playing, tas.movie.sums, p)
      <4>1. Differs(m, With(m, tas.movie.sums, p), tas.movie.sums, p)
        BY <1>0, <1>4, <1>5, WithDiffers
      <4> QED BY <4>1, <1>6
    <3> HIDE DEF playing
    <3>2. playing \in Managers /\ playing.movie.sums = tas.movie.sums /\ playing.points = p
      BY <3>1 DEF Differs
    <3>3. [playing EXCEPT !.movie.sums = WithEntry(@, 0, start)]
            = [playing EXCEPT !.movie.sums = s]
      <4>1. [playing EXCEPT !.movie.sums = WithEntry(@, 0, start)]
            = [playing EXCEPT !.movie.sums = WithEntry(playing.movie.sums, 0, start)]
        BY Zenon
      <4> QED BY <4>1, <3>2
    <3>4. s \in Maps(Hashes) /\ \A g \in DOMAIN s : g \in DOMAIN tas.movie.sums \/ g = 0
      <4>1. start \in Hashes
        BY <1>0 DEF Hashes
      <4>2. s \in Maps(Hashes)
        <5> HIDE DEF start
        <5> QED BY <4>1, <1>0, WithEntryTyped
      <4> QED BY <4>2 DEF WithEntry
    <3> HIDE DEF s
    <3>5. tas' = With(playing, s, p)
      BY <2>1, <2>3, <3>2, <3>3, SumsAssigned
    <3>6. tas' = With(m, s, p)
      BY <3>5, <1>5, <1>6, WithTwice
    <3> QED BY <3>4, <3>6
  <2> QED BY <2>2, <2>3
<1>8. PICK t \in Maps(Hashes) :
         /\ tas' = With(m, t, p) /\ \A g \in DOMAIN t : g \in DOMAIN tas.movie.sums \/ g = 0
         /\ t = tas.movie.sums \/ t = s
  BY <1>7
<1>9. Differs(m, tas', t, p)
  BY <1>4, <1>5, <1>8, WithDiffers
<1>10. Ready(tas')
  <2>1. 0 % m.interval = 0
    BY <1>5, ManagerFields
  <2>2. \A g \in DOMAIN t : g % m.interval = 0
    BY <2>1, <1>0, <1>5, <1>8 DEF Ready, OnGrid
  <2> QED BY <2>2, <1>4, <1>5, <1>8, ReadyWith
<1>11. /\ EffectiveMode(tas') # "Recording" /\ tas'.points = p /\ tas'.cursor = 0
       /\ Rows(tas') = Rows(tas) /\ tas'.movie.frames = tas.movie.frames
       /\ tas'.movie.marks = tas.movie.marks /\ tas'.movie.sums = t
       /\ \A k : Replay(tas'.movie, k) = Replay(tas.movie, k)
  BY <1>3, <1>5, <1>9 DEF Differs
<1>12. Replay(tas.movie, 0) = start
  BY <1>0, ReplayNothing
<1>13. SumsOf(tas) => SumsOf(tas')
  <2> SUFFICES ASSUME SumsOf(tas), NEW g \in DOMAIN t
               PROVE  g <= Rows(tas) /\ t[g] = Replay(tas.movie, g)
    BY <1>11 DEF SumsOf
  <2>1. g \in DOMAIN tas.movie.sums => /\ g <= Rows(tas)
                                       /\ tas.movie.sums[g] = Replay(tas.movie, g)
    BY DEF SumsOf
  <2>2. CASE t = tas.movie.sums
    BY <2>1, <2>2
  <2>3. CASE t = s
    <3>1. t[g] = IF g = 0 THEN start ELSE tas.movie.sums[g]
      BY <2>3 DEF WithEntry
    <3>2. g = 0 => g <= Rows(tas)
      BY <1>0
    <3> HIDE DEF start
    <3> QED BY <2>1, <3>1, <3>2, <1>8, <1>12 DEF start
  <2>4. t = tas.movie.sums \/ t = s
    <3> HIDE DEF s
    <3> QED BY <1>8
  <2> HIDE DEF s
  <2> QED BY <2>2, <2>3, <2>4
<1>14. Loaded(tas')
  BY <1>10, <1>11 DEF Loaded, Branched, RecordingContext
<1>15. AtCursor(tas', nes')
  <2>1. nes' = Replay(tas'.movie, tas'.cursor)
    BY <1>2, <1>11, <1>12
  <2> QED BY <2>1, <1>0, <1>11 DEF AtCursor
<1>16. PointsOf(tas')
  BY <1>0, <1>4, <1>11, <1>12 DEF PointsOf
<1>17. nes' \in Histories /\ paused' \in BOOLEAN
  BY <1>0, <1>2
<1> QED BY <1>11, <1>13, <1>14, <1>15, <1>16, <1>17 DEF Stepped

\* A movie imported comes without checkpoints, before its first row.
LEMMA ImportStep ==
    ASSUME tas \in Managers, nes \in Histories, paused \in BOOLEAN, Import
    PROVE  Stepped
<1>0. tas.interval \in Intervals /\ tas.interval \in Nat \ {0}
  BY ManagerFields
<1>1. PICK rows \in UNION {[1 .. n -> Inputs] : n \in 0 .. MaxRows} :
        LET movie == [NoMovie EXCEPT !.start = <<>>, !.frames = rows]
            checked == {f \in 0 .. Len(rows) : f % tas.interval = 0}
        IN /\ \E sums \in {EmptyMap,
                           [f \in checked |-> Replay(movie, f)],
                           [f \in checked |-> StaleHash]} :
                  tas' = InstallMovie(tas, [movie EXCEPT !.sums = sums])
           /\ UNCHANGED <<nes, paused>>
  BY DEF Import
<1> DEFINE u == [NoMovie EXCEPT !.start = <<>>, !.frames = rows]
           checked == {f \in 0 .. Len(rows) : f % tas.interval = 0}
<1>2. PICK sums \in {EmptyMap, [f \in checked |-> Replay(u, f)], [f \in checked |-> StaleHash]} :
        tas' = InstallMovie(tas, [u EXCEPT !.sums = sums])
  BY <1>1
<1>3. nes' = nes /\ paused' = paused
  BY <1>1
<1>4. rows \in Seq(Inputs)
  BY SessionParameters
<1>5. u \in Movies /\ u.start = <<>> /\ u.frames = rows /\ <<>> \in Histories
  <2>1. <<>> \in Histories
    BY DEF Histories
  <2> QED BY <2>1, <1>4, NoMovieTyped DEF Movies
<1> HIDE DEF u
<1>6. checked \subseteq Nat /\ \A f \in checked : f % tas.interval = 0
  BY <1>4
<1>7. sums \in Maps(Hashes) /\ DOMAIN sums \subseteq checked
  <2>1. CASE sums = EmptyMap
    BY <2>1, EmptyMapTyped
  <2>2. CASE sums = [f \in checked |-> Replay(u, f)]
    <3>1. \A f \in checked : Replay(u, f) \in Hashes
      BY <1>4, <1>5, <1>6, ReplayTyped DEF Hashes
    <3> HIDE DEF checked
    <3> QED BY <3>1, <2>2, <1>6 DEF Maps
  <2>3. CASE sums = [f \in checked |-> StaleHash]
    <3> HIDE DEF checked
    <3> QED BY <2>3, <1>6 DEF Maps, Hashes
  <2> QED BY <1>2, <2>1, <2>2, <2>3
<1> HIDE DEF checked
<1> DEFINE v == [u EXCEPT !.sums = sums]
           n == NoManager(tas.interval)
<1>8. v \in Movies /\ v.start = <<>> /\ v.sums = sums
  BY <1>5, <1>7 DEF Movies, Hashes
<1>9. tas' = [n EXCEPT !.movie = v]
  BY <1>2 DEF InstallMovie
<1>10. /\ n \in Managers /\ n.mode = "Inactive" /\ n.cursor = 0 /\ n.interval = tas.interval
       /\ n.points = EmptyMap
  BY <1>0, NoManagerTyped DEF NoManager
<1> HIDE DEF n, v
<1>11. /\ tas' \in Managers /\ tas'.mode = "Inactive" /\ tas'.cursor = 0
       /\ tas'.interval = tas.interval /\ tas'.points = EmptyMap /\ tas'.movie = v
  BY <1>8, <1>9, <1>10 DEF Managers
<1>12. DOMAIN EmptyMap = {}
  BY DEF EmptyMap
<1> QED BY <1>3, <1>5, <1>6, <1>7, <1>8, <1>11, <1>12
        DEF Stepped, Loaded, Ready, Branched, RecordingContext, EffectiveMode, Anchored, OnGrid

---------------------------------------------------------------------------
(* What comes from outside the movie. *)

LEMMA ReplaceStep ==
    ASSUME Loaded(tas), nes \in Histories, ReplaceConsole
    PROVE  Stepped /\ Retains(tas, tas')
<1>0. Ready(tas) /\ tas \in Managers
  BY DEF Loaded, Ready
<1>1. tas' = Stop(tas) /\ paused' \in BOOLEAN /\ nes' \in {Append(nes, Event), <<Event>>}
  BY DEF ReplaceConsole
<1>2. Loaded(tas') /\ Same(tas, tas') /\ tas'.mode = "Inactive"
  BY <1>0, <1>1, StopKeeps
<1>3. nes' \in Histories
  <2>1. Append(nes, Event) \in Histories
    BY HistoryGrows
  <2>2. <<Event>> \in Histories
    BY DEF Histories
  <2> QED BY <2>1, <2>2, <1>1
<1>4. Retains(tas, tas')
  BY <1>0, <1>2, RetainsSame DEF Same
<1> QED BY <1>1, <1>2, <1>3, <1>4 DEF Stepped

\* Poking memory keeps the types and the rows.
LEMMA PokeStep ==
    ASSUME Loaded(tas), nes \in Histories, paused \in BOOLEAN, PokeMemory
    PROVE  Stepped /\ Retains(tas, tas')
<1>1. tas' = tas /\ paused' = paused /\ nes' = Append(nes, Event)
  BY DEF PokeMemory
<1>2. nes' \in Histories
  BY <1>1, HistoryGrows
<1>3. Retains(tas, tas')
  BY <1>1, RetainsSame DEF Loaded, Ready
<1> QED BY <1>1, <1>2, <1>3 DEF Stepped

\* Without a movie only a new or an imported one changes the manager.
LEMMA UnloadedStep ==
    ASSUME Unloaded(tas), nes \in Histories, paused \in BOOLEAN, Next
    PROVE  NewMovie \/ Import \/ (tas' = tas /\ nes' \in Histories /\ paused' \in BOOLEAN)
<1>0. /\ ~ HasMovie(tas) /\ tas.mode = "Inactive" /\ tas.resume = "Inactive"
      /\ Pause(tas) = tas /\ Resume(tas) = tas
  BY UnloadedHasNone DEF Pause, Resume
<1>1. Stop(tas) = tas
  <2>1. tas \in Managers
    BY UnloadedIsManager
  <2>2. Stop(tas) = [tas EXCEPT !.mode = tas.mode, !.resume = tas.resume]
    BY <1>0 DEF Stop
  <2> QED BY <2>1, <2>2 DEF Managers
<1>2. ASSUME NEW live \in Inputs, NEW wasPaused \in BOOLEAN, RunOneFrame(tas, live, wasPaused)
      PROVE  tas' = tas /\ nes' \in Histories /\ paused' \in BOOLEAN
  <2>1. Ran(tas, nes, live, tas', nes') /\ paused' \in BOOLEAN
    BY <1>2, RunOneFrameRan
  <2> QED BY <2>1, FrameWithout
<1>3. CASE Tick
  <2>1. PICK live \in Inputs : RunOneFrame(tas, live, FALSE)
    BY <1>3 DEF Tick
  <2>2. FALSE \in BOOLEAN
    OBVIOUS
  <2> QED BY <2>1, <2>2, <1>2
<1>4. CASE FrameAdvance
  <2>1. PrepareFrameAdvance(tas).tas = tas /\ PrepareFrameAdvance(tas).go
    BY <1>0 DEF PrepareFrameAdvance
  <2>2. PICK live \in Inputs : RunOneFrame(tas, live, TRUE)
    BY <1>0, <1>4, <2>1 DEF FrameAdvance
  <2>3. TRUE \in BOOLEAN
    OBVIOUS
  <2> QED BY <2>2, <2>3, <1>2
<1>5. CASE TogglePause
  <2>1. tas' = tas /\ nes' = nes /\ paused' = (~ paused)
    BY <1>0, <1>5 DEF TogglePause
  <2>2. (~ paused) \in BOOLEAN
    OBVIOUS
  <2>3. paused' \in BOOLEAN
    BY <2>1, <2>2, Zenon
  <2> QED BY <2>1, <2>3
<1>6. CASE ReplaceConsole
  <2>1. tas' = tas /\ paused' \in BOOLEAN /\ nes' \in {Append(nes, Event), <<Event>>}
    BY <1>1, <1>6 DEF ReplaceConsole
  <2>2. Append(nes, Event) \in Histories
    BY HistoryGrows
  <2>3. <<Event>> \in Histories
    BY DEF Histories
  <2> QED BY <2>1, <2>2, <2>3
<1>7. CASE PokeMemory
  <2>1. Append(nes, Event) \in Histories
    BY HistoryGrows
  <2> QED BY <2>1, <1>7 DEF PokeMemory
<1>8. ~ StopTas /\ ~ PlayFromStart /\ ~ Seek /\ ~ Rewind /\ ~ Rerecord /\ ~ EditRow
      /\ ~ HoldInput /\ ~ ToggleMark /\ ~ EditTimeline
  BY <1>0 DEF StopTas, PlayFromStart, Seek, Rewind, Rerecord, CanRerecord, EditRow, HoldInput,
              ToggleMark, EditTimeline
<1> QED BY <1>3, <1>4, <1>5, <1>6, <1>7, <1>8 DEF Next, Outside

---------------------------------------------------------------------------
(* The invariant. *)

\* The session starts without a movie.
LEMMA SessionStarts == Init => SessionInv
<1> SUFFICES ASSUME Init PROVE SessionInv
  OBVIOUS
<1>1. Unloaded(tas)
  BY DEF Init, Unloaded
<1>2. nes \in Histories
  BY DEF Init, Histories
<1>3. drifts \in 0 .. MaxDrifts
  BY SessionParameters DEF Init
<1>4. paused \in BOOLEAN
  BY DEF Init
<1> QED BY <1>1, <1>2, <1>3, <1>4 DEF SessionInv

\* Every command leaves a session that has a movie one that has a movie, and its rows
\* behind unless the movie is replaced.
LEMMA LoadedStep ==
    ASSUME Loaded(tas), nes \in Histories, paused \in BOOLEAN, Next
    PROVE  /\ Stepped
           /\ NewMovie \/ Import \/ PlayFromStart \/ Retains(tas, tas')
<1>1. tas \in Managers
  BY DEF Loaded, Ready
<1> USE <1>1
<1>2. CASE Tick
  BY <1>2, TickStep
<1>3. CASE FrameAdvance
  BY <1>3, FrameAdvanceStep
<1>4. CASE TogglePause
  BY <1>4, TogglePauseStep
<1>5. CASE NewMovie
  BY <1>5, NewMovieStep
<1>6. CASE PlayFromStart
  BY <1>6, PlayStep
<1>7. CASE StopTas
  BY <1>7, StopStep
<1>8. CASE Seek
  BY <1>8, SeekCommandStep
<1>9. CASE Rewind
  BY <1>9, RewindStep
<1>10. CASE Rerecord
  BY <1>10, RerecordStep
<1>11. CASE EditRow
  BY <1>11, EditRowStep
<1>12. CASE HoldInput
  BY <1>12, HoldStep
<1>13. CASE ToggleMark
  BY <1>13, MarkStep
<1>14. CASE Import
  BY <1>14, ImportStep
<1>15. CASE EditTimeline
  BY <1>15, EditTimelineStep
<1>16. CASE ReplaceConsole
  BY <1>16, ReplaceStep
<1>17. CASE PokeMemory
  BY <1>17, PokeStep
<1> QED BY <1>2, <1>3, <1>4, <1>5, <1>6, <1>7, <1>8, <1>9, <1>10, <1>11, <1>12, <1>13,
           <1>14, <1>15, <1>16, <1>17 DEF Next, Outside

\* The invariant is inductive: every step of the application keeps it.
LEMMA SessionKept == SessionInv /\ [Next]_vars => SessionInv'
<1> SUFFICES ASSUME SessionInv, [Next]_vars PROVE SessionInv'
  OBVIOUS
<1>1. CASE UNCHANGED vars
  BY <1>1 DEF vars, SessionInv
<1>2. CASE Next
  <2>1. drifts' \in 0 .. MaxDrifts
    BY <1>2, SessionParameters DEF Next, SessionInv
  <2>2. nes \in Histories /\ paused \in BOOLEAN
    BY DEF SessionInv
  <2>3. CASE Loaded(tas)
    <3>1. Stepped
      BY <1>2, <2>2, <2>3, LoadedStep
    <3> QED BY <3>1, <2>1 DEF Stepped, SessionInv
  <2>4. CASE Unloaded(tas)
    <3>1. NewMovie \/ Import => Stepped
      BY <2>2, <2>4, UnloadedIsManager, NewMovieStep, ImportStep
    <3>2. Stepped \/ (tas' = tas /\ nes' \in Histories /\ paused' \in BOOLEAN)
      BY <3>1, <1>2, <2>2, <2>4, UnloadedStep
    <3> QED BY <3>2, <2>1, <2>4 DEF Stepped, SessionInv
  <2> QED BY <2>3, <2>4 DEF SessionInv
<1> QED BY <1>1, <1>2

\* The state of a session has the types the code gives it, and a manager that is paused
\* always has a mode to resume.
THEOREM SessionIsTyped == Spec => []TypeOK
<1>1. SessionInv => TypeOK
  <2> SUFFICES ASSUME SessionInv PROVE TypeOK
    OBVIOUS
  <2>1. tas \in Managers /\ (tas.mode = "Paused" => tas.resume # "Inactive")
    BY UnloadedIsManager, UnloadedHasNone DEF SessionInv, Loaded, Ready
  <2>2. /\ tas.mode \in Modes /\ tas.resume \in Modes \ {"Paused"} /\ tas.cursor \in Nat
        /\ tas.interval \in Intervals /\ tas.points \in Maps(Histories) /\ tas.movie \in Movies
    BY <2>1, ManagerFields
  <2>3. /\ tas.movie.frames \in Seq(Inputs) /\ tas.movie.marks \subseteq Nat
        /\ tas.movie.sums \in Maps(Histories \cup {StaleHash})
        /\ tas.movie.start \in Histories \cup {StaleHash} /\ tas.movie.rerecords \in 0 .. Wrap - 1
    BY <2>2, MovieFields
  <2>4. IsMap(tas.points, Histories) /\ IsMap(tas.movie.sums, Histories \cup {StaleHash})
    BY <2>2, <2>3, MapsAre DEF IsMap
  <2> QED BY <2>1, <2>2, <2>3, <2>4 DEF TypeOK, SessionInv, Movie
<1> QED BY <1>1, SessionStarts, SessionKept, PTL DEF Spec

---------------------------------------------------------------------------
(* Theorems. *)

\* A session without a movie contradicts nothing.
LEMMA UnloadedIsSound ==
    ASSUME Unloaded(tas') PROVE Sound' /\ SumsTrue'
<1>1. ~ HasMovie(tas') /\ tas'.points = EmptyMap /\ tas'.movie = NoMovie
  BY UnloadedHasNone
<1>2. DOMAIN EmptyMap = {} /\ NoMovie.sums = EmptyMap
  BY DEF EmptyMap, NoMovie
<1> QED BY <1>1, <1>2 DEF Sound, InStep, PointsTrue, SumsTrue, Movie

\* The properties of the session are those of its manager.
LEMMA SoundIs ==
    ASSUME Loaded(tas)
    PROVE  /\ Sound => AtCursor(tas, nes) /\ PointsOf(tas)
           /\ SumsTrue => SumsOf(tas)
           /\ PointsTrue => PointsOf(tas)
<1>1. HasMovie(tas)
  BY ReadyHasMovie DEF Loaded
<1> QED BY <1>1 DEF Sound, InStep, PointsTrue, SumsTrue, AtCursor, PointsOf, SumsOf, Movie

\* The properties of the session after a step are those of its manager.
LEMMA SoundNextIs ==
    /\ AtCursor(tas', nes') /\ PointsOf(tas') => Sound'
    /\ SumsOf(tas') => SumsTrue'
    /\ PointsOf(tas') => PointsTrue'
BY DEF Sound, InStep, PointsTrue, SumsTrue, AtCursor, PointsOf, SumsOf, Movie

\* One step of what KeepsAgreement claims of an edit of the timeline.
LEMMA EditKept ==
    ASSUME SessionInv, EditTimeline
    PROVE  /\ Sound => Sound' \/ EditBehind \/ EditAtEnd
           /\ PointsTrue => PointsTrue' \/ EditAtEnd
           /\ SumsTrue => SumsTrue'
<1>1. Loaded(tas) /\ nes \in Histories
  BY UnloadedHasNone DEF SessionInv, EditTimeline
<1>2. EditKeeps
  BY <1>1, EditTimelineStep
<1> QED BY <1>1, <1>2, SoundIs, SoundNextIs DEF EditKeeps

\* One step of what it claims of every command.
LEMMA AgreementKept ==
    ASSUME SessionInv, Next
    PROVE  /\ Sound => Sound' \/ Drift
           /\ Sound /\ SumsTrue => SumsTrue' \/ Drift
           /\ PointsTrue => PointsTrue' \/ ~ EditTimeline \/ EditAtEnd
           /\ SumsTrue => SumsTrue' \/ ~ EditTimeline
<1>0. nes \in Histories /\ paused \in BOOLEAN
  BY DEF SessionInv
<1>1. CASE EditTimeline
  BY <1>1, EditKept DEF Drift
<1>2. CASE ~ EditTimeline
  <2>1. /\ Sound => Sound' \/ Drift
        /\ Sound /\ SumsTrue => SumsTrue' \/ Drift
    <3>1. CASE Drift
      BY <3>1
    <3>2. CASE NewMovie
      <4>1. tas \in Managers
        BY UnloadedIsManager DEF SessionInv, Loaded, Ready
      <4> QED BY <4>1, <1>0, <3>2, NewMovieStep, SoundNextIs
    <3>3. CASE ~ Drift /\ ~ NewMovie /\ Unloaded(tas)
      <4>1. tas' = tas
        BY <1>0, <3>3, UnloadedStep DEF Drift
      <4>2. Unloaded(tas')
        BY <4>1, <3>3
      <4> QED BY <4>2, UnloadedIsSound
    <3>4. CASE ~ Drift /\ ~ NewMovie /\ Loaded(tas)
      <4>1. HasMovie(tas) /\ tas \in Managers
        BY <3>4, ReadyHasMovie DEF Loaded, Ready
      <4>2. Agrees(tas, nes, tas', nes')
        <5> USE <1>0, <3>4
        <5>1. CASE Tick
          <6>1. tas.mode # "Inactive"
            BY <5>1 DEF Drift
          <6> QED BY <6>1, <5>1, TickStep
        <5>2. CASE FrameAdvance
          BY <5>2, FrameAdvanceStep
        <5>3. CASE TogglePause
          BY <5>3, TogglePauseStep
        <5>4. CASE PlayFromStart
          BY <5>4, PlayStep DEF Agrees
        <5>5. CASE StopTas
          BY <5>5, StopStep
        <5>6. CASE Seek
          BY <5>6, SeekCommandStep
        <5>7. CASE Rewind
          BY <5>7, RewindStep
        <5>8. CASE Rerecord
          BY <5>8, RerecordStep
        <5>9. CASE EditRow
          BY <5>9, EditRowStep
        <5>10. CASE HoldInput
          BY <5>10, HoldStep
        <5>11. CASE ToggleMark
          BY <5>11, MarkStep
        <5>12. ~ Outside
          BY <1>2 DEF Drift, Outside
        <5> QED BY <5>1, <5>2, <5>3, <5>4, <5>5, <5>6, <5>7, <5>8, <5>9, <5>10, <5>11, <5>12
                DEF Next
      <4>3. /\ Sound => AtCursor(tas, nes) /\ PointsOf(tas)
            /\ SumsTrue => SumsOf(tas)
        BY <3>4, SoundIs
      <4> QED BY <4>2, <4>3, SoundNextIs DEF Agrees
    <3> QED BY <3>1, <3>2, <3>3, <3>4 DEF SessionInv
  <2> QED BY <2>1, <1>2
<1> QED BY <1>1, <1>2

\* A console, checkpoints and hashes that agree with the rows go on agreeing whatever the
\* user records, plays, seeks, rewinds, rerecords or edits at or after the console's row.
\* An edit behind it parts only the console from them; the checkpoints and hashes it keeps
\* are those the new rows lead to. Excepted are an imported movie, play outside the movie,
\* a replaced or poked console, and a deletion or clearing of the line after the last row.
THEOREM AgreementLasts == Spec => KeepsAgreement
<1>1. SessionInv /\ [Next]_vars =>
        [/\ Sound => Sound' \/ Drift
         /\ Sound /\ SumsTrue => SumsTrue' \/ Drift
         /\ PointsTrue => PointsTrue' \/ ~ EditTimeline \/ EditAtEnd
         /\ SumsTrue => SumsTrue' \/ ~ EditTimeline]_vars
  BY AgreementKept
<1> QED BY <1>1, SessionStarts, SessionKept, PTL DEF Spec, KeepsAgreement

\* A console that left its movie comes back: played from the start, whatever happened to
\* it; by a seek over true checkpoints; and at the first check of a true hash.
THEOREM DesyncsRecover == Spec => Recovers
<1>1. ASSUME SessionInv, Next
      PROVE  /\ Sound' \/ ~ PlayFromStart
             /\ PointsTrue => Sound' \/ ~ Seek
             /\ FirstVisitRecovers
  <2>0. nes \in Histories /\ paused \in BOOLEAN
    BY <1>1 DEF SessionInv
  <2>1. Sound' \/ ~ PlayFromStart
    <3>1. ASSUME PlayFromStart PROVE Loaded(tas)
      BY <1>1, <3>1, UnloadedHasNone DEF SessionInv, PlayFromStart
    <3> QED BY <3>1, <2>0, PlayStep, SoundNextIs
  <2>2. PointsTrue => Sound' \/ ~ Seek
    <3>1. ASSUME Seek PROVE Loaded(tas)
      BY <1>1, <3>1, UnloadedHasNone DEF SessionInv, Seek
    <3> QED BY <3>1, <2>0, SeekCommandStep, SoundIs, SoundNextIs
  <2>3. FirstVisitRecovers
    <3> SUFFICES ASSUME EffectiveMode(tas) \in {"Playback", "ReadOnly"},
                        EffectiveMode(tas') = EffectiveMode(tas),
                        tas.cursor \in DOMAIN Movie.sums \ DOMAIN tas.points,
                        PointsTrue, SumsTrue,
                        tas'.cursor = tas.cursor + 1,
                        Tick \/ FrameAdvance
                 PROVE  Sound'
      BY DEF FirstVisitRecovers
    <3>1. Loaded(tas)
      BY <1>1, UnloadedHasNone DEF SessionInv
    <3>2. PointsOf(tas) /\ SumsOf(tas)
      BY <3>1, SoundIs
    <3>3. CASE Tick
      <4>1. FrameRan(tas, nes, tas', nes')
        BY <3>1, <3>3, <2>0, TickStep
      <4> QED BY <4>1, <3>2, SoundNextIs DEF FrameRan, Movie
    <3>4. CASE FrameAdvance
      <4>1. AtCursor(tas', nes') /\ PointsOf(tas')
        BY <3>1, <3>2, <3>4, <2>0, FrameAdvanceStep
      <4> QED BY <4>1, SoundNextIs
    <3> QED BY <3>3, <3>4
  <2> QED BY <2>1, <2>2, <2>3
<1>2. SessionInv /\ [Next]_vars =>
        [/\ Sound' \/ ~ PlayFromStart
         /\ PointsTrue => Sound' \/ ~ Seek
         /\ FirstVisitRecovers]_vars
  BY <1>1
<1> QED BY <1>2, SessionStarts, SessionKept, PTL DEF Spec, Recovers

\* No recorded row is lost without a rerecord being counted, and read-only playback
\* changes none; the counter must have room to differ.
THEOREM RowsOutliveSteps == Wrap > 1 => (Spec => RowsAreKept)
<1> SUFFICES ASSUME Wrap > 1 PROVE Spec => RowsAreKept
  OBVIOUS
<1> DEFINE Kept ==
         \/ /\ ReadOnly(tas) =>
                 /\ Movie'.frames = Movie.frames
                 /\ Movie'.marks = Movie.marks
                 /\ ReadOnly(tas') \/ tas'.mode = "Inactive" \/ PlayFromStart
            /\ HasMovie(tas) =>
                 \/ Take(Movie'.frames, Rows(tas)) = Movie.frames
                 \/ Movie'.rerecords # Movie.rerecords
         \/ Replaced
<1>1. ASSUME SessionInv, Next PROVE Kept
  <2>0. nes \in Histories /\ paused \in BOOLEAN
    BY <1>1 DEF SessionInv
  <2>1. CASE Unloaded(tas)
    <3>1. ~ HasMovie(tas) /\ EffectiveMode(tas) = "Inactive"
      BY <2>1, UnloadedHasNone
    <3> QED BY <3>1 DEF ReadOnly
  <2>2. CASE Loaded(tas)
    <3>1. CASE NewMovie \/ Import
      BY <3>1 DEF Replaced
    <3>2. CASE Retains(tas, tas')
      BY <3>2 DEF Retains, Movie
    <3>3. CASE PlayFromStart
      <4>1. /\ tas'.movie.frames = tas.movie.frames /\ tas'.movie.marks = tas.movie.marks
        BY <2>0, <2>2, <3>3, PlayStep
      <4>2. Take(tas.movie.frames, Rows(tas)) = tas.movie.frames
        BY <2>2, AllRows DEF Loaded, Ready
      <4> QED BY <4>1, <4>2, <3>3 DEF Movie
    <3> QED BY <1>1, <2>0, <2>2, <3>1, <3>2, <3>3, LoadedStep
  <2> QED BY <1>1, <2>1, <2>2 DEF SessionInv
<1>2. SessionInv /\ [Next]_vars => [Kept]_vars
  BY <1>1
<1> QED BY <1>2, SessionStarts, SessionKept, PTL DEF Spec, RowsAreKept
=============================================================================
