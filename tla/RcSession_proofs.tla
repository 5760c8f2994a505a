-------------------------- MODULE RcSession_proofs --------------------------
(* Proofs about RcSession for all users, hashes and numbers of calls.        *)
EXTENDS RcSession, SequenceTheorems, TLAPS

-----------------------------------------------------------------------------
(* Types.                                                                    *)

Names == Users \cup {Nobody}

Progresses == {"none", "await_login", "identifying", "starting_session", "aborted", "done"}

Results == {"ok", "error", "aborted", "login_required", "no_game_loaded", "not_found",
            "already_requested"}

Loads == [hash : Hashes, progress : Progresses, outstanding : Nat, aborted : BOOLEAN,
          callback : BOOLEAN, game : BOOLEAN, as : Names, called : Nat, freed : Nat]

Games == [hash : Hashes \cup {"none"}, identified : BOOLEAN, as : Names, from : Nat]

Requests == [kind : {"login", "sets", "session"}, of : Nat, as : Names]

Clients == [user : {"none", "requested", "loggedin"}, name : Names, game : Games, load : Nat,
            loads : Seq(Loads), hashes : [Hashes -> {"unknown", "game", "none"}],
            pings : [Hashes -> Nat], flight : SUBSET Requests, logins : Nat,
            dropped : SUBSET Nat, told : Seq({"login", "load"} \X Results)]

-----------------------------------------------------------------------------
(* The induction hypothesis. It speaks of one load at a time: what of it is  *)
(* still on its way, and whether the client still has it.                    *)

\* The requests of load l that have no answer yet.
RequestsOf(c, l) == {r \in c.flight : r.kind # "login" /\ r.of = l}

Typed(c) ==
  /\ c \in Clients
  /\ c.load \in 0 .. Len(c.loads)
  /\ \A r \in c.flight : r.kind # "login" => r.of \in DOMAIN c.loads

\* A load has one request on its way or none. With one, it is not released, and
\* the answer goes to the current load or finds an aborted one; without one, the
\* current load waits for a sign-in. The host has heard of no load that is
\* current.
LoadOk(c, l) ==
  /\ c.loads[l].called <= 1
  /\ c.loads[l].freed <= 1
  /\ RequestsOf(c, l) # {} =>
        /\ c.loads[l].freed = 0
        /\ c.loads[l].outstanding = 1
        /\ c.load = l \/ c.loads[l].aborted
        /\ c.loads[l].progress # "await_login"
  /\ c.load = l =>
        /\ c.loads[l].called = 0
        /\ c.loads[l].freed = 0
        /\ RequestsOf(c, l) = {} =>
              c.loads[l].progress = "await_login" /\ c.loads[l].outstanding = 0
  /\ \A r, s \in RequestsOf(c, l) : r = s

Ending(c) == \A l \in DOMAIN c.loads : LoadOk(c, l)

\* A ping is scheduled for the game there is, and for no other.
Pinged(c) ==
  \A h \in Hashes : c.pings[h] = IF c.game.identified /\ c.game.hash = h THEN 1 ELSE 0

\* The current load is the newest, and there is no game while there is one.
Played(c) ==
  /\ c.load # 0 => c.load = Len(c.loads) /\ c.game = NoGame
  /\ c.game # NoGame => c.game.from = Len(c.loads)
  /\ Pinged(c)

-----------------------------------------------------------------------------
(* What the helpers do to one load.                                          *)

\* d differs from c in load l, in the current load and in what the host is told.
LoadChanged(c, d, l) ==
  /\ d \in Clients
  /\ Len(d.loads) = Len(c.loads)
  /\ \A k \in DOMAIN c.loads : k # l => d.loads[k] = c.loads[k]
  /\ d.user = c.user
  /\ d.name = c.name
  /\ d.game = c.game
  /\ d.hashes = c.hashes
  /\ d.pings = c.pings
  /\ d.flight = c.flight
  /\ d.logins = c.logins
  /\ d.dropped = c.dropped

\* Whose load it is, of what, and whether it is aborted stays.
SameLoad(c, d, l) ==
  /\ d.loads[l].hash = c.loads[l].hash
  /\ d.loads[l].as = c.loads[l].as
  /\ d.loads[l].aborted = c.loads[l].aborted

\* A load of the client is a load.
LEMMA LoadType ==
  ASSUME NEW c \in Clients, NEW l \in DOMAIN c.loads
  PROVE  c.loads[l] \in Loads
BY DEF Clients

\* Two changes of one load are a change of it.
LEMMA ChangedTransitive ==
  ASSUME NEW c, NEW d, NEW e, NEW l \in DOMAIN c.loads,
         c \in Clients, LoadChanged(c, d, l), LoadChanged(d, e, l)
  PROVE  LoadChanged(c, e, l)
<1>1. DOMAIN d.loads = DOMAIN c.loads
  BY DEF LoadChanged, Clients
<1>2. QED
  BY <1>1 DEF LoadChanged

\* The three edits a helper is made of.
LEMMA EditLoad ==
  ASSUME NEW c \in Clients, NEW l \in DOMAIN c.loads, NEW v \in Loads,
         NEW d, d = [c EXCEPT !.loads = [c.loads EXCEPT ![l] = v]]
  PROVE  LoadChanged(c, d, l) /\ d.loads[l] = v /\ d.load = c.load
<1> DEFINE s == [c.loads EXCEPT ![l] = v]
<1>1. c.loads \in Seq(Loads)
  BY DEF Clients
<1>2. /\ s \in Seq(Loads) /\ Len(s) = Len(c.loads) /\ s[l] = v
      /\ \A k \in DOMAIN c.loads : k # l => s[k] = c.loads[k]
  BY <1>1, ExceptSeq
<1> HIDE DEF s
<1>3. d = [c EXCEPT !.loads = s]
  BY DEF s
<1>4. d \in Clients /\ d.loads = s
  BY <1>2, <1>3 DEF Clients
<1>5. QED
  BY <1>2, <1>3, <1>4 DEF LoadChanged, Clients

\* Another current load changes no load.
LEMMA EditCurrent ==
  ASSUME NEW c \in Clients, NEW l \in DOMAIN c.loads, NEW n \in Nat
  PROVE  LET d == [c EXCEPT !.load = n]
         IN  LoadChanged(c, d, l) /\ d.loads = c.loads /\ d.load = n
BY DEF LoadChanged, Clients

\* What the host is told changes no load.
LEMMA EditTold ==
  ASSUME NEW c \in Clients, NEW l \in DOMAIN c.loads, NEW what \in {"login", "load"},
         NEW result \in Results
  PROVE  LET d == Tell(c, what, result)
         IN  LoadChanged(c, d, l) /\ d.loads = c.loads /\ d.load = c.load
<1> DEFINE t == Append(c.told, <<what, result>>)
<1>1. t \in Seq({"login", "load"} \X Results)
  BY DEF Clients
<1> HIDE DEF t
<1>2. LET d == [c EXCEPT !.told = t]
      IN  LoadChanged(c, d, l) /\ d.loads = c.loads /\ d.load = c.load
  BY <1>1 DEF LoadChanged, Clients
<1>3. QED
  BY <1>2 DEF Tell, t

\* A load with some of its fields replaced is a load.
LEMMA LoadFields ==
  ASSUME NEW x \in Loads
  PROVE  /\ \A p \in Progresses : [x EXCEPT !.progress = p] \in Loads
         /\ \A n \in Nat : [x EXCEPT !.outstanding = n] \in Loads
         /\ \A p \in Progresses, n \in Nat : [x EXCEPT !.progress = p, !.outstanding = n] \in Loads
         /\ \A b \in BOOLEAN : [x EXCEPT !.aborted = b] \in Loads
         /\ \A b \in BOOLEAN : [x EXCEPT !.callback = b] \in Loads
         /\ \A b \in BOOLEAN : [x EXCEPT !.game = b] \in Loads
         /\ \A u \in Names : [x EXCEPT !.as = u] \in Loads
         /\ \A n \in Nat : [x EXCEPT !.called = n] \in Loads
         /\ \A n \in Nat, b \in BOOLEAN : [x EXCEPT !.freed = n, !.game = b] \in Loads
<1>1. \A p \in Progresses : [x EXCEPT !.progress = p] \in Loads
  BY DEF Loads
<1>2. \A n \in Nat : [x EXCEPT !.outstanding = n] \in Loads
  BY DEF Loads
<1>3. \A p \in Progresses, n \in Nat : [x EXCEPT !.progress = p, !.outstanding = n] \in Loads
  BY DEF Loads
<1>4. /\ \A b \in BOOLEAN : [x EXCEPT !.aborted = b] \in Loads
      /\ \A b \in BOOLEAN : [x EXCEPT !.callback = b] \in Loads
      /\ \A b \in BOOLEAN : [x EXCEPT !.game = b] \in Loads
  BY DEF Loads
<1>5. \A u \in Names : [x EXCEPT !.as = u] \in Loads
  BY DEF Loads
<1>6. \A n \in Nat : [x EXCEPT !.called = n] \in Loads
  BY DEF Loads
<1>7. \A n \in Nat, b \in BOOLEAN : [x EXCEPT !.freed = n, !.game = b] \in Loads
  BY DEF Loads
<1>8. QED
  BY <1>1, <1>2, <1>3, <1>4, <1>5, <1>6, <1>7, Zenon

\* Calling the host back counts the call and changes nothing else of the load.
LEMMA CallBackChanges ==
  ASSUME NEW c \in Clients, NEW l \in DOMAIN c.loads, NEW result \in Results
  PROVE  LET d == CallBack(c, l, result)
         IN  /\ LoadChanged(c, d, l)
             /\ SameLoad(c, d, l)
             /\ d.load = c.load
             /\ d.loads[l].progress = c.loads[l].progress
             /\ d.loads[l].outstanding = c.loads[l].outstanding
             /\ d.loads[l].callback = c.loads[l].callback
             /\ d.loads[l].freed = c.loads[l].freed
             /\ d.loads[l].called = IF c.loads[l].callback THEN c.loads[l].called + 1
                                    ELSE c.loads[l].called
<1>0. c.loads[l] \in Loads
  BY LoadType
<1>1. CASE c.loads[l].callback
  <2> DEFINE v == [c.loads[l] EXCEPT !.called = @ + 1]
             e == [c EXCEPT !.loads = [c.loads EXCEPT ![l] = v]]
             d == Tell(e, "load", result)
  <2>1. v \in Loads
    <3>1. c.loads[l].called + 1 \in Nat
      BY <1>0 DEF Loads
    <3>2. QED
      BY <1>0, <3>1, LoadFields
  <2>2. CallBack(c, l, result) = d
    BY <1>1, Zenon DEF CallBack
  <2>3. LoadChanged(c, e, l) /\ e.loads[l] = v /\ e.load = c.load
    <3> HIDE DEF v
    <3> QED BY <2>1, EditLoad
  <2>4. e \in Clients /\ l \in DOMAIN e.loads /\ "load" \in {"login", "load"}
    BY <2>3 DEF LoadChanged, Clients
  <2>5. LoadChanged(e, d, l) /\ d.loads = e.loads /\ d.load = e.load
    <3> HIDE DEF e
    <3> QED BY <2>4, EditTold, Zenon
  <2>6. LoadChanged(c, d, l) /\ d.load = c.load /\ d.loads[l] = v
    <3> HIDE DEF e, d, v
    <3> QED BY <2>3, <2>5, ChangedTransitive
  <2>7. v.called = c.loads[l].called + 1 /\ v.progress = c.loads[l].progress
        /\ v.outstanding = c.loads[l].outstanding /\ v.callback = c.loads[l].callback
        /\ v.freed = c.loads[l].freed /\ v.hash = c.loads[l].hash /\ v.as = c.loads[l].as
        /\ v.aborted = c.loads[l].aborted
    BY <1>0 DEF Loads
  <2> HIDE DEF e, d, v
  <2>8. QED
    BY <1>1, <2>2, <2>6, <2>7 DEF SameLoad
<1>2. CASE ~c.loads[l].callback
  BY <1>2 DEF CallBack, LoadChanged, SameLoad
<1>3. QED
  BY <1>1, <1>2

\* Releasing a load counts the release and drops its game.
LEMMA FreeLoadChanges ==
  ASSUME NEW c \in Clients, NEW l \in DOMAIN c.loads
  PROVE  LET d == FreeLoad(c, l)
         IN  /\ LoadChanged(c, d, l)
             /\ SameLoad(c, d, l)
             /\ d.load = c.load
             /\ d.loads[l].progress = c.loads[l].progress
             /\ d.loads[l].outstanding = c.loads[l].outstanding
             /\ d.loads[l].callback = c.loads[l].callback
             /\ d.loads[l].freed = c.loads[l].freed + 1
             /\ d.loads[l].called = c.loads[l].called
<1> DEFINE v == [c.loads[l] EXCEPT !.freed = @ + 1, !.game = FALSE]
<1>0. c.loads[l] \in Loads
  BY LoadType
<1>1. v \in Loads
  <2>1. c.loads[l].freed + 1 \in Nat /\ FALSE \in BOOLEAN
    BY <1>0 DEF Loads
  <2>2. QED
    BY <1>0, <2>1, LoadFields, Zenon
<1>2. v.called = c.loads[l].called /\ v.progress = c.loads[l].progress
      /\ v.outstanding = c.loads[l].outstanding /\ v.callback = c.loads[l].callback
      /\ v.freed = c.loads[l].freed + 1 /\ v.hash = c.loads[l].hash /\ v.as = c.loads[l].as
      /\ v.aborted = c.loads[l].aborted
  BY <1>0 DEF Loads
<1>3. FreeLoad(c, l) = [c EXCEPT !.loads = [c.loads EXCEPT ![l] = v]]
  BY Zenon DEF FreeLoad
<1> HIDE DEF v
<1>4. LoadChanged(c, FreeLoad(c, l), l) /\ FreeLoad(c, l).loads[l] = v
      /\ FreeLoad(c, l).load = c.load
  BY <1>1, <1>3, EditLoad
<1>5. QED
  BY <1>2, <1>4 DEF SameLoad

\* Beginning a state adds a request to the load.
LEMMA BeginLoadStateChanges ==
  ASSUME NEW c \in Clients, NEW l \in DOMAIN c.loads, NEW state \in Progresses
  PROVE  LET d == BeginLoadState(c, l, state)
         IN  /\ LoadChanged(c, d, l)
             /\ SameLoad(c, d, l)
             /\ d.load = c.load
             /\ d.loads[l].progress = state
             /\ d.loads[l].outstanding = c.loads[l].outstanding + 1
             /\ d.loads[l].callback = c.loads[l].callback
             /\ d.loads[l].freed = c.loads[l].freed
             /\ d.loads[l].called = c.loads[l].called
<1> DEFINE v == [c.loads[l] EXCEPT !.progress = state, !.outstanding = @ + 1]
<1>0. c.loads[l] \in Loads
  BY LoadType
<1>1. v \in Loads
  <2>1. c.loads[l].outstanding + 1 \in Nat
    BY <1>0 DEF Loads
  <2>2. QED
    BY <1>0, <2>1, LoadFields, Zenon
<1>2. v.called = c.loads[l].called /\ v.progress = state
      /\ v.outstanding = c.loads[l].outstanding + 1 /\ v.callback = c.loads[l].callback
      /\ v.freed = c.loads[l].freed /\ v.hash = c.loads[l].hash /\ v.as = c.loads[l].as
      /\ v.aborted = c.loads[l].aborted
  BY <1>0 DEF Loads
<1>3. BeginLoadState(c, l, state) = [c EXCEPT !.loads = [c.loads EXCEPT ![l] = v]]
  BY Zenon DEF BeginLoadState
<1> HIDE DEF v
<1>4. LoadChanged(c, BeginLoadState(c, l, state), l) /\ BeginLoadState(c, l, state).loads[l] = v
      /\ BeginLoadState(c, l, state).load = c.load
  BY <1>1, <1>3, EditLoad
<1>5. QED
  BY <1>2, <1>4 DEF SameLoad

\* A request of a load is counted; the last one of a load the client gave up
\* releases it.
LEMMA EndLoadStateChanges ==
  ASSUME NEW c \in Clients, NEW l \in DOMAIN c.loads
  PROVE  LET e == EndLoadState(c, l)
             d == e.c
             left == IF c.loads[l].outstanding > 0 THEN c.loads[l].outstanding - 1 ELSE 0
         IN  /\ LoadChanged(c, d, l)
             /\ SameLoad(c, d, l)
             /\ d.load = c.load
             /\ e.current <=> c.load = l
             /\ e.left = left
             /\ d.loads[l].progress = c.loads[l].progress
             /\ d.loads[l].outstanding = left
             /\ d.loads[l].callback = c.loads[l].callback
             /\ c.load = l \/ left # 0 => /\ d.loads[l].freed = c.loads[l].freed
                                          /\ d.loads[l].called = c.loads[l].called
             /\ c.load # l /\ left = 0 /\ c.loads[l].progress = "aborted" =>
                  /\ d.loads[l].freed = c.loads[l].freed + 1
                  /\ d.loads[l].called = c.loads[l].called
<1> DEFINE left == IF c.loads[l].outstanding > 0 THEN c.loads[l].outstanding - 1 ELSE 0
           v == [c.loads[l] EXCEPT !.outstanding = left]
           d == [c EXCEPT !.loads = [c.loads EXCEPT ![l] = v]]
           told == IF c.loads[l].progress = "aborted" THEN d ELSE CallBack(d, l, "aborted")
<1>0. c.loads[l] \in Loads
  BY LoadType
<1>1. left \in Nat
  BY <1>0 DEF Loads
<1>2. EndLoadState(c, l) =
        IF c.load = l THEN [c |-> d, current |-> TRUE, left |-> left]
        ELSE [c |-> IF left = 0 THEN FreeLoad(told, l) ELSE d, current |-> FALSE, left |-> left]
  BY Zenon DEF EndLoadState
<1> HIDE DEF left
<1>3. v \in Loads
  BY <1>0, <1>1, LoadFields
<1>4. v.called = c.loads[l].called /\ v.progress = c.loads[l].progress
      /\ v.outstanding = left /\ v.callback = c.loads[l].callback
      /\ v.freed = c.loads[l].freed /\ v.hash = c.loads[l].hash /\ v.as = c.loads[l].as
      /\ v.aborted = c.loads[l].aborted
  BY <1>0 DEF Loads
<1> HIDE DEF v
<1>5. LoadChanged(c, d, l) /\ d.loads[l] = v /\ d.load = c.load
  BY <1>3, EditLoad
<1>6. d \in Clients /\ l \in DOMAIN d.loads
  BY <1>5 DEF LoadChanged, Clients
<1> HIDE DEF d
<1>7. /\ LoadChanged(d, told, l) /\ SameLoad(d, told, l) /\ told.load = d.load
      /\ told.loads[l].progress = v.progress
      /\ told.loads[l].outstanding = v.outstanding
      /\ told.loads[l].callback = v.callback
      /\ told.loads[l].freed = v.freed
      /\ c.loads[l].progress = "aborted" => told.loads[l].called = v.called
  <2>1. CASE c.loads[l].progress = "aborted"
    BY <1>5, <1>6, <2>1 DEF LoadChanged, SameLoad
  <2>2. CASE c.loads[l].progress # "aborted"
    <3>1. "aborted" \in Results
      BY DEF Results
    <3>2. told = CallBack(d, l, "aborted")
      BY <2>2
    <3> HIDE DEF told
    <3>3. QED
      BY <1>5, <1>6, <2>2, <3>1, <3>2, CallBackChanges
  <2>3. QED
    BY <2>1, <2>2
<1> HIDE DEF told
<1>8. told \in Clients /\ l \in DOMAIN told.loads
  BY <1>6, <1>7 DEF LoadChanged, Clients
<1> DEFINE f == FreeLoad(told, l)
<1>9. /\ LoadChanged(told, f, l) /\ SameLoad(told, f, l) /\ f.load = told.load
      /\ f.loads[l].progress = told.loads[l].progress
      /\ f.loads[l].outstanding = told.loads[l].outstanding
      /\ f.loads[l].callback = told.loads[l].callback
      /\ f.loads[l].freed = told.loads[l].freed + 1
      /\ f.loads[l].called = told.loads[l].called
  BY <1>8, FreeLoadChanges
<1> HIDE DEF f
<1>10. LoadChanged(c, told, l)
  BY <1>5, <1>6, <1>7, ChangedTransitive
<1>11. LoadChanged(c, f, l)
  BY <1>9, <1>10, ChangedTransitive
<1>12. EndLoadState(c, l) =
        IF c.load = l THEN [c |-> d, current |-> TRUE, left |-> left]
        ELSE [c |-> IF left = 0 THEN f ELSE d, current |-> FALSE, left |-> left]
  BY <1>2 DEF f
<1>13. CASE c.load = l
  <2>1. EndLoadState(c, l).c = d /\ EndLoadState(c, l).current /\ EndLoadState(c, l).left = left
    BY <1>12, <1>13
  <2>2. QED
    BY <1>4, <1>5, <1>13, <2>1 DEF SameLoad, left
<1>14. CASE c.load # l /\ left # 0
  <2>1. EndLoadState(c, l).c = d /\ ~EndLoadState(c, l).current /\ EndLoadState(c, l).left = left
    BY <1>12, <1>14
  <2>2. QED
    BY <1>4, <1>5, <1>14, <2>1 DEF SameLoad, left
<1>15. CASE c.load # l /\ left = 0
  <2>1. EndLoadState(c, l).c = f /\ ~EndLoadState(c, l).current /\ EndLoadState(c, l).left = left
    BY <1>12, <1>15
  <2>2. QED
    BY <1>4, <1>5, <1>7, <1>9, <1>11, <1>15, <2>1 DEF SameLoad, left
<1>16. QED
  BY <1>13, <1>14, <1>15

\* A load that failed is the current one no more, the host is told, and without a
\* request on its way it is released.
LEMMA LoadErrorChanges ==
  ASSUME NEW c \in Clients, NEW l \in DOMAIN c.loads, NEW result \in Results
  PROVE  LET d == LoadError(c, l, result)
         IN  /\ LoadChanged(c, d, l)
             /\ SameLoad(c, d, l)
             /\ d.load = IF c.load = l THEN 0 ELSE c.load
             /\ d.loads[l].progress = "aborted"
             /\ d.loads[l].outstanding = c.loads[l].outstanding
             /\ d.loads[l].callback = c.loads[l].callback
             /\ d.loads[l].freed = IF c.loads[l].outstanding = 0 THEN c.loads[l].freed + 1
                                   ELSE c.loads[l].freed
             /\ d.loads[l].called = IF c.loads[l].callback THEN c.loads[l].called + 1
                                    ELSE c.loads[l].called
<1> DEFINE v == [c.loads[l] EXCEPT !.progress = "aborted"]
           a == [c EXCEPT !.loads = [c.loads EXCEPT ![l] = v]]
           b == [a EXCEPT !.load = IF c.load = l THEN 0 ELSE c.load]
           told == CallBack(b, l, result)
           d == LoadError(c, l, result)
<1>1. c.loads[l] \in Loads
  BY LoadType
<1>2. v \in Loads
  BY <1>1, LoadFields DEF Progresses
<1>3. v.called = c.loads[l].called /\ v.progress = "aborted"
      /\ v.outstanding = c.loads[l].outstanding /\ v.callback = c.loads[l].callback
      /\ v.freed = c.loads[l].freed /\ v.hash = c.loads[l].hash /\ v.as = c.loads[l].as
      /\ v.aborted = c.loads[l].aborted
  BY <1>1 DEF Loads
<1>4. d = IF told.loads[l].outstanding = 0 THEN FreeLoad(told, l) ELSE told
  <2>1. b = [c EXCEPT !.loads[l].progress = "aborted", !.load = IF @ = l THEN 0 ELSE @]
    BY Zenon DEF Clients
  <2>2. QED
    BY <2>1, Zenon DEF LoadError
<1> HIDE DEF v, d
<1>5. LoadChanged(c, a, l) /\ a.loads[l] = v /\ a.load = c.load
  BY <1>2, EditLoad
<1>6. a \in Clients /\ l \in DOMAIN a.loads
  BY <1>5 DEF LoadChanged, Clients
<1> HIDE DEF a
<1>7. /\ LoadChanged(a, b, l) /\ b.loads = a.loads
      /\ b.load = IF c.load = l THEN 0 ELSE c.load
  <2>1. (IF c.load = l THEN 0 ELSE c.load) \in Nat
    BY DEF Clients
  <2>2. QED
    BY <1>6, <2>1, EditCurrent
<1>8. b \in Clients /\ l \in DOMAIN b.loads
  BY <1>6, <1>7 DEF LoadChanged
<1> HIDE DEF b
<1>9. /\ LoadChanged(b, told, l) /\ SameLoad(b, told, l) /\ told.load = b.load
      /\ told.loads[l].progress = "aborted"
      /\ told.loads[l].outstanding = v.outstanding
      /\ told.loads[l].callback = v.callback
      /\ told.loads[l].freed = v.freed
      /\ told.loads[l].called = IF v.callback THEN v.called + 1 ELSE v.called
  BY <1>3, <1>5, <1>7, <1>8, CallBackChanges
<1>10. told \in Clients /\ l \in DOMAIN told.loads
  BY <1>8, <1>9 DEF LoadChanged, Clients
<1> HIDE DEF told
<1>11. LoadChanged(c, told, l)
  BY <1>5, <1>7, <1>6, <1>8, <1>9, ChangedTransitive
<1>12. SameLoad(c, told, l)
  BY <1>3, <1>5, <1>7, <1>9 DEF SameLoad
<1>13. CASE c.loads[l].outstanding = 0
  <2>1. d = FreeLoad(told, l)
    BY <1>3, <1>4, <1>9, <1>13
  <2>2. /\ LoadChanged(told, d, l) /\ SameLoad(told, d, l) /\ d.load = told.load
        /\ d.loads[l].progress = told.loads[l].progress
        /\ d.loads[l].outstanding = told.loads[l].outstanding
        /\ d.loads[l].callback = told.loads[l].callback
        /\ d.loads[l].freed = told.loads[l].freed + 1
        /\ d.loads[l].called = told.loads[l].called
    BY <1>10, <2>1, FreeLoadChanges
  <2>3. LoadChanged(c, d, l)
    BY <1>11, <2>2, ChangedTransitive
  <2>4. QED
    BY <1>3, <1>7, <1>9, <1>12, <1>13, <2>2, <2>3 DEF SameLoad, d
<1>14. CASE c.loads[l].outstanding # 0
  <2>1. d = told
    BY <1>3, <1>4, <1>9, <1>14
  <2>2. QED
    BY <1>3, <1>7, <1>9, <1>11, <1>12, <1>14, <2>1 DEF d
<1>15. QED
  BY <1>13, <1>14

\* The answer to an aborted load's request releases it without a word.
LEMMA LoadAbortedChanges ==
  ASSUME NEW c \in Clients, NEW l \in DOMAIN c.loads
  PROVE  LET d == LoadAborted(c, l)
         IN  /\ LoadChanged(c, d, l)
             /\ SameLoad(c, d, l)
             /\ d.load = IF c.load = l THEN 0 ELSE c.load
             /\ d.loads[l].progress = "aborted"
             /\ c.loads[l].outstanding = 1 =>
                  /\ d.loads[l].outstanding = 0
                  /\ d.loads[l].freed = c.loads[l].freed + 1
                  /\ d.loads[l].called = c.loads[l].called
<1> DEFINE v == [c.loads[l] EXCEPT !.callback = FALSE]
           a == [c EXCEPT !.loads = [c.loads EXCEPT ![l] = v]]
           b == LoadError(a, l, "aborted")
           d == EndLoadState(b, l).c
<1>1. c.loads[l] \in Loads
  BY LoadType
<1>2. v \in Loads
  BY <1>1, LoadFields, FALSE \in BOOLEAN, Zenon
<1>3. v.called = c.loads[l].called /\ v.progress = c.loads[l].progress
      /\ v.outstanding = c.loads[l].outstanding /\ ~v.callback
      /\ v.freed = c.loads[l].freed /\ v.hash = c.loads[l].hash /\ v.as = c.loads[l].as
      /\ v.aborted = c.loads[l].aborted
  BY <1>1 DEF Loads
<1>4. LoadAborted(c, l) = d
  BY Zenon DEF LoadAborted
<1> HIDE DEF v
<1>5. LoadChanged(c, a, l) /\ a.loads[l] = v /\ a.load = c.load
  BY <1>2, EditLoad
<1>6. a \in Clients /\ l \in DOMAIN a.loads /\ "aborted" \in Results
  BY <1>5 DEF LoadChanged, Clients, Results
<1> HIDE DEF a
<1>7. /\ LoadChanged(a, b, l) /\ SameLoad(a, b, l)
      /\ b.load = IF c.load = l THEN 0 ELSE c.load
      /\ b.loads[l].progress = "aborted"
      /\ b.loads[l].outstanding = c.loads[l].outstanding
      /\ c.loads[l].outstanding = 1 => b.loads[l].freed = c.loads[l].freed
      /\ b.loads[l].called = c.loads[l].called
  <2>1. /\ a.loads[l].outstanding = c.loads[l].outstanding /\ ~a.loads[l].callback
        /\ a.loads[l].called = c.loads[l].called
        /\ a.loads[l].freed = c.loads[l].freed
    BY <1>3, <1>5
  <2>2. QED
    BY <1>5, <1>6, <2>1, LoadErrorChanges
<1>8. b \in Clients /\ l \in DOMAIN b.loads /\ b.load # l /\ l # 0
  BY <1>6, <1>7 DEF LoadChanged, Clients
<1> HIDE DEF b
<1>9. /\ LoadChanged(b, d, l) /\ SameLoad(b, d, l) /\ d.load = b.load
      /\ d.loads[l].progress = "aborted"
      /\ c.loads[l].outstanding = 1 => /\ d.loads[l].outstanding = 0
                                       /\ d.loads[l].freed = b.loads[l].freed + 1
                                       /\ d.loads[l].called = b.loads[l].called
  BY <1>7, <1>8, EndLoadStateChanges
<1> HIDE DEF d
<1>10. LoadChanged(c, d, l)
  BY <1>5, <1>6, <1>7, <1>8, <1>9, ChangedTransitive
<1>11. SameLoad(c, d, l)
  BY <1>3, <1>5, <1>7, <1>9 DEF SameLoad
<1>12. QED
  BY <1>4, <1>7, <1>9, <1>10, <1>11

-----------------------------------------------------------------------------
(* What the induction hypothesis needs of a step that is about one load.     *)

Sound(c) == Typed(c) /\ Played(c)

OthersOk(c, l) == \A k \in DOMAIN c.loads : k # l => LoadOk(c, k)

\* An answer for load l is being looked at: it has no other request.
InHand(c, l) ==
  /\ OthersOk(c, l)
  /\ RequestsOf(c, l) = {}
  /\ c.loads[l].outstanding = 1
  /\ c.loads[l].freed = 0
  /\ c.loads[l].called <= 1
  /\ c.load = l \/ c.loads[l].aborted
  /\ c.load = l => c.loads[l].called = 0

\* Load l is the current one and its next request is to be made.
Ready(c, l) ==
  /\ OthersOk(c, l)
  /\ RequestsOf(c, l) = {}
  /\ c.loads[l].outstanding = 0
  /\ c.loads[l].freed = 0
  /\ c.loads[l].called = 0

\* A change of one load that puts no other in its place keeps the newest current.
LEMMA SoundKept ==
  ASSUME NEW c, NEW d, NEW l \in DOMAIN c.loads,
         Sound(c), LoadChanged(c, d, l), d.load \in {c.load, 0}
  PROVE  Sound(d)
<1>1. c \in Clients /\ d \in Clients /\ Len(d.loads) = Len(c.loads)
  BY DEF Sound, Typed, LoadChanged
<1>2. DOMAIN d.loads = DOMAIN c.loads
  BY <1>1 DEF Clients
<1>3. Typed(d)
  BY <1>1, <1>2 DEF Sound, Typed, LoadChanged, Clients
<1>4. Played(d)
  BY <1>1 DEF Sound, Played, Pinged, LoadChanged
<1>5. QED
  BY <1>3, <1>4 DEF Sound

\* A load that is not touched is as good as before.
LEMMA LoadOkKept ==
  ASSUME NEW c, NEW d, NEW k,
         LoadOk(c, k), d.loads[k] = c.loads[k], RequestsOf(d, k) = RequestsOf(c, k),
         d.load = k <=> c.load = k
  PROVE  LoadOk(d, k)
BY DEF LoadOk

\* A change of one load is judged by that load.
LEMMA EndingKept ==
  ASSUME NEW c, NEW d, NEW l \in DOMAIN c.loads,
         c \in Clients, LoadChanged(c, d, l), d.load = c.load \/ (c.load = l /\ d.load = 0),
         OthersOk(c, l), LoadOk(d, l)
  PROVE  Ending(d)
<1>1. DOMAIN d.loads = DOMAIN c.loads
  BY DEF LoadChanged, Clients
<1>2. ASSUME NEW k \in DOMAIN c.loads, k # l
      PROVE  LoadOk(d, k)
  <2>1. k # 0
    BY DEF Clients
  <2>2. RequestsOf(d, k) = RequestsOf(c, k)
    BY DEF RequestsOf, LoadChanged
  <2>3. d.load = k <=> c.load = k
    BY <1>2, <2>1
  <2>4. LoadOk(c, k) /\ d.loads[k] = c.loads[k]
    BY <1>2 DEF OthersOk, LoadChanged
  <2>5. QED
    BY <2>2, <2>3, <2>4, LoadOkKept
<1>3. QED
  BY <1>1, <1>2 DEF Ending

\* A change of a load makes no request.
LEMMA SameRequests ==
  ASSUME NEW c, NEW d, NEW l, LoadChanged(c, d, l)
  PROVE  \A k : RequestsOf(d, k) = RequestsOf(c, k)
BY DEF LoadChanged, RequestsOf

\* A load that failed without a request on its way has ended.
LEMMA LoadErrorEnds ==
  ASSUME NEW c, NEW l \in DOMAIN c.loads, NEW result \in Results, Sound(c)
  PROVE  /\ Sound(LoadError(c, l, result))
         /\ Ready(c, l) => Ending(LoadError(c, l, result))
<1> DEFINE d == LoadError(c, l, result)
<1>1. c \in Clients
  BY DEF Sound, Typed
<1>2. /\ LoadChanged(c, d, l)
      /\ d.load = IF c.load = l THEN 0 ELSE c.load
      /\ d.loads[l].freed = IF c.loads[l].outstanding = 0 THEN c.loads[l].freed + 1
                            ELSE c.loads[l].freed
      /\ d.loads[l].called = IF c.loads[l].callback THEN c.loads[l].called + 1
                             ELSE c.loads[l].called
  BY <1>1, LoadErrorChanges
<1> HIDE DEF d
<1>3. Sound(d)
  BY <1>2, SoundKept
<1>4. ASSUME Ready(c, l) PROVE Ending(d)
  <2>1. RequestsOf(d, l) = {}
    BY <1>2, <1>4, SameRequests DEF Ready
  <2>2. l # 0 /\ d.load # l /\ d.loads[l].freed = 1 /\ d.loads[l].called \in {0, 1}
    BY <1>1, <1>2, <1>4 DEF Ready, Clients
  <2>3. LoadOk(d, l)
    BY <2>1, <2>2 DEF LoadOk
  <2>4. d.load = c.load \/ (c.load = l /\ d.load = 0)
    BY <1>2
  <2>5. QED
    BY <1>1, <1>2, <1>4, <2>3, <2>4, EndingKept DEF Ready
<1>5. QED
  BY <1>3, <1>4 DEF d

\* An answer for an aborted load ends it: it is told and released once.
LEMMA LoadAbortedEnds ==
  ASSUME NEW c, NEW l \in DOMAIN c.loads, Sound(c)
  PROVE  /\ Sound(LoadAborted(c, l))
         /\ InHand(c, l) => Ending(LoadAborted(c, l))
<1> DEFINE d == LoadAborted(c, l)
<1>1. c \in Clients /\ l # 0
  BY DEF Sound, Typed, Clients
<1>2. /\ LoadChanged(c, d, l)
      /\ d.load = IF c.load = l THEN 0 ELSE c.load
      /\ c.loads[l].outstanding = 1 => /\ d.loads[l].freed = c.loads[l].freed + 1
                                       /\ d.loads[l].called = c.loads[l].called
  BY <1>1, LoadAbortedChanges
<1> HIDE DEF d
<1>3. Sound(d)
  BY <1>2, SoundKept
<1>4. ASSUME InHand(c, l) PROVE Ending(d)
  <2>1. RequestsOf(d, l) = {}
    BY <1>2, <1>4, SameRequests DEF InHand
  <2>2. LoadOk(d, l)
    BY <1>1, <1>2, <1>4, <2>1 DEF LoadOk, InHand
  <2>3. d.load = c.load \/ (c.load = l /\ d.load = 0)
    BY <1>2
  <2>4. OthersOk(c, l)
    BY <1>4 DEF InHand
  <2>5. QED
    BY <1>1, <1>2, <2>2, <2>3, <2>4, EndingKept
<1>5. QED
  BY <1>3, <1>4 DEF d

\* An answer to a current load leaves it ready for what comes next.
LEMMA EndLoadStateReady ==
  ASSUME NEW c, NEW l \in DOMAIN c.loads, Sound(c)
  PROVE  LET d == EndLoadState(c, l).c
         IN  /\ LoadChanged(c, d, l)
             /\ SameLoad(c, d, l)
             /\ d.load = c.load
             /\ EndLoadState(c, l).current <=> c.load = l
             /\ Sound(d)
             /\ InHand(c, l) /\ c.load = l => Ready(d, l) /\ EndLoadState(c, l).left = 0
<1> DEFINE d == EndLoadState(c, l).c
<1>1. c \in Clients
  BY DEF Sound, Typed
<1>2. /\ LoadChanged(c, d, l)
      /\ SameLoad(c, d, l)
      /\ d.load = c.load
      /\ EndLoadState(c, l).current <=> c.load = l
      /\ EndLoadState(c, l).left = IF c.loads[l].outstanding > 0 THEN c.loads[l].outstanding - 1 ELSE 0
      /\ d.loads[l].outstanding = IF c.loads[l].outstanding > 0 THEN c.loads[l].outstanding - 1 ELSE 0
      /\ c.load = l => /\ d.loads[l].freed = c.loads[l].freed
                       /\ d.loads[l].called = c.loads[l].called
  BY <1>1, EndLoadStateChanges
<1> HIDE DEF d
<1>3. Sound(d)
  BY <1>2, SoundKept
<1>4. ASSUME InHand(c, l), c.load = l PROVE Ready(d, l) /\ EndLoadState(c, l).left = 0
  <2>1. \A k : RequestsOf(d, k) = RequestsOf(c, k)
    BY <1>2, SameRequests
  <2>2. OthersOk(d, l)
    <3>1. DOMAIN d.loads = DOMAIN c.loads
      BY <1>1, <1>2 DEF LoadChanged, Clients
    <3>2. ASSUME NEW k \in DOMAIN c.loads, k # l PROVE LoadOk(d, k)
      <4>1. LoadOk(c, k) /\ d.loads[k] = c.loads[k] /\ (d.load = k <=> c.load = k)
        BY <1>2, <1>4, <3>2 DEF InHand, OthersOk, LoadChanged
      <4>2. QED
        BY <2>1, <4>1, LoadOkKept
    <3>3. QED
      BY <3>1, <3>2 DEF OthersOk
  <2>3. QED
    BY <1>2, <1>4, <2>1, <2>2 DEF InHand, Ready
<1>5. QED
  BY <1>2, <1>3, <1>4 DEF d

-----------------------------------------------------------------------------
(* Requests.                                                                 *)

\* A client that makes a request for load l.
LEMMA RequestMade ==
  ASSUME NEW c, NEW l \in DOMAIN c.loads, NEW kind \in {"sets", "session"}, NEW as \in Names,
         Sound(c)
  PROVE  LET d == [c EXCEPT !.flight = @ \cup {Request(kind, l, as)}]
         IN  /\ Sound(d)
             /\ d.loads = c.loads /\ d.load = c.load
             /\ RequestsOf(c, l) = {} => RequestsOf(d, l) = {Request(kind, l, as)}
             /\ \A k : k # l => RequestsOf(d, k) = RequestsOf(c, k)
<1> DEFINE r == Request(kind, l, as)
           d == [c EXCEPT !.flight = @ \cup {r}]
<1>1. c \in Clients /\ l \in Nat
  BY DEF Sound, Typed, Clients
<1>2. r \in Requests /\ r.kind # "login" /\ r.of = l
  BY <1>1 DEF Request, Requests
<1> HIDE DEF r
<1>3. c.flight \cup {r} \in SUBSET Requests
  BY <1>1, <1>2 DEF Clients
<1>4. d \in Clients /\ d.flight = c.flight \cup {r} /\ d.loads = c.loads /\ d.load = c.load
      /\ d.game = c.game /\ d.pings = c.pings
  BY <1>1, <1>3 DEF Clients
<1> HIDE DEF d
<1>5. Sound(d)
  BY <1>2, <1>4 DEF Sound, Typed, Played, Pinged
<1>6. RequestsOf(c, l) = {} => RequestsOf(d, l) = {r}
  BY <1>2, <1>4 DEF RequestsOf
<1>7. \A k : k # l => RequestsOf(d, k) = RequestsOf(c, k)
  BY <1>2, <1>4 DEF RequestsOf
<1>8. QED
  BY <1>4, <1>5, <1>6, <1>7 DEF d, r

\* A request without a load: a sign-in.
LEMMA OtherRequests ==
  ASSUME NEW c, NEW d, Sound(c), d \in Clients,
         d.loads = c.loads, d.load = c.load, d.game = c.game, d.pings = c.pings,
         \A k : RequestsOf(d, k) = RequestsOf(c, k)
  PROVE  Sound(d) /\ (Ending(c) => Ending(d))
<1>1. \A r \in d.flight : r.kind # "login" => r.of \in DOMAIN d.loads
  <2>1. ASSUME NEW r \in d.flight, r.kind # "login" PROVE r \in c.flight
    BY <2>1 DEF RequestsOf
  <2>2. QED
    BY <2>1 DEF Sound, Typed
<1>2. Sound(d)
  BY <1>1 DEF Sound, Typed, Played, Pinged
<1>3. Ending(c) => Ending(d)
  BY LoadOkKept DEF Ending
<1>4. QED
  BY <1>2, <1>3

\* The answer of a request is taken from those on their way.
LEMMA AnswerInHand ==
  ASSUME NEW c, NEW r \in c.flight, r.kind # "login", Sound(c)
  PROVE  LET d == Without(c, r)
         IN  /\ r.of \in DOMAIN c.loads
             /\ Sound(d)
             /\ d.loads = c.loads /\ d.load = c.load
             /\ Ending(c) => InHand(d, r.of)
<1> DEFINE d == Without(c, r)
           l == r.of
<1>1. c \in Clients /\ l \in DOMAIN c.loads
  BY DEF Sound, Typed
<1>2. c.flight \ {r} \in SUBSET Requests
  BY <1>1 DEF Clients
<1>3. d \in Clients /\ d.flight = c.flight \ {r} /\ d.loads = c.loads /\ d.load = c.load
      /\ d.game = c.game /\ d.pings = c.pings
  BY <1>1, <1>2 DEF Without, Clients
<1> HIDE DEF d
<1>4. Sound(d)
  BY <1>3 DEF Sound, Typed, Played, Pinged
<1>5. ASSUME Ending(c) PROVE InHand(d, l)
  <2>1. LoadOk(c, l) /\ r \in RequestsOf(c, l)
    BY <1>1, <1>5 DEF Ending, RequestsOf
  <2>2. RequestsOf(d, l) = {}
    <3>1. \A s \in RequestsOf(c, l) : s = r
      BY <2>1 DEF LoadOk
    <3>2. QED
      BY <1>3, <3>1 DEF RequestsOf
  <2>3. OthersOk(d, l)
    <3>1. ASSUME NEW k \in DOMAIN c.loads, k # l PROVE LoadOk(d, k)
      <4>1. RequestsOf(d, k) = RequestsOf(c, k)
        BY <1>3, <3>1 DEF RequestsOf
      <4>2. QED
        BY <1>3, <1>5, <4>1, LoadOkKept DEF Ending
    <3>2. QED
      BY <1>3, <3>1 DEF OthersOk
  <2>4. QED
    BY <1>3, <2>1, <2>2, <2>3 DEF LoadOk, InHand
<1>6. QED
  BY <1>1, <1>3, <1>4, <1>5 DEF d

\* A current load that makes its next request, or waits for the sign-in that will
\* make it, is in order.
LEMMA RequestEnds ==
  ASSUME NEW c, NEW d, NEW l \in DOMAIN c.loads, NEW r,
         c \in Clients, DOMAIN d.loads = DOMAIN c.loads, OthersOk(c, l), c.load = l, d.load = l,
         \A k \in DOMAIN c.loads : k # l =>
            d.loads[k] = c.loads[k] /\ RequestsOf(d, k) = RequestsOf(c, k),
         RequestsOf(d, l) = {r}, d.loads[l].outstanding = 1, d.loads[l].freed = 0,
         d.loads[l].called = 0, d.loads[l].progress # "await_login"
  PROVE  Ending(d)
<1>1. ASSUME NEW k \in DOMAIN c.loads, k # l PROVE LoadOk(d, k)
  BY <1>1, LoadOkKept DEF OthersOk
<1>2. LoadOk(d, l)
  BY DEF LoadOk
<1>3. QED
  BY <1>1, <1>2 DEF Ending

-----------------------------------------------------------------------------
(* Unloading.                                                                *)

\* Edits of a load outside the pattern of LoadChanged.
LEMMA AbortedSet ==
  ASSUME NEW c \in Clients, NEW l \in DOMAIN c.loads
  PROVE  LET d == [c EXCEPT !.loads[l].aborted = TRUE]
         IN  /\ LoadChanged(c, d, l)
             /\ d.load = c.load
             /\ d.loads[l].aborted
             /\ d.loads[l].hash = c.loads[l].hash
             /\ d.loads[l].as = c.loads[l].as
             /\ d.loads[l].progress = c.loads[l].progress
             /\ d.loads[l].outstanding = c.loads[l].outstanding
             /\ d.loads[l].callback = c.loads[l].callback
             /\ d.loads[l].freed = c.loads[l].freed
             /\ d.loads[l].called = c.loads[l].called
<1> DEFINE v == [c.loads[l] EXCEPT !.aborted = TRUE]
           d == [c EXCEPT !.loads = [c.loads EXCEPT ![l] = v]]
<1>1. c.loads[l] \in Loads
  BY LoadType
<1>2. v \in Loads
  BY <1>1, LoadFields, TRUE \in BOOLEAN, Zenon
<1>3. v.called = c.loads[l].called /\ v.progress = c.loads[l].progress
      /\ v.outstanding = c.loads[l].outstanding /\ v.callback = c.loads[l].callback
      /\ v.freed = c.loads[l].freed /\ v.hash = c.loads[l].hash /\ v.as = c.loads[l].as
      /\ v.aborted
  BY <1>1 DEF Loads
<1>4. [c EXCEPT !.loads[l].aborted = TRUE] = d
  BY Zenon
<1> HIDE DEF v
<1>5. LoadChanged(c, d, l) /\ d.loads[l] = v /\ d.load = c.load
  BY <1>2, EditLoad
<1> HIDE DEF d
<1>6. QED
  BY <1>3, <1>4, <1>5

\* The game goes with its ping, the current load is aborted.
LEMMA UnloadGameEnds ==
  ASSUME NEW c, Typed(c), Pinged(c)
  PROVE  LET d == UnloadGame(c)
         IN  /\ Sound(d)
             /\ d.load = 0 /\ d.game = NoGame
             /\ d.flight = c.flight /\ Len(d.loads) = Len(c.loads)
             /\ d.user = c.user /\ d.name = c.name /\ d.hashes = c.hashes
             /\ d.logins = c.logins /\ d.dropped = c.dropped /\ d.told = c.told
             /\ \A k \in DOMAIN c.loads : k # c.load => d.loads[k] = c.loads[k]
             /\ c.load # 0 => LET x == c.loads[c.load]
                                  y == d.loads[c.load]
                              IN  /\ y.hash = x.hash /\ y.as = x.as /\ y.aborted
                                  /\ y.outstanding = x.outstanding /\ y.progress = x.progress
                                  /\ y.freed = x.freed /\ y.called = x.called
             /\ Ending(c) => Ending(d)
<1> DEFINE s == [l \in DOMAIN c.loads |-> IF l = c.load THEN [c.loads[l] EXCEPT !.aborted = TRUE]
                                          ELSE c.loads[l]]
           p == [h \in Hashes |-> IF c.game.identified /\ c.game.hash = h THEN 0 ELSE c.pings[h]]
           d == UnloadGame(c)
<1>1. /\ c \in Clients /\ c.loads \in Seq(Loads)
      /\ DOMAIN c.loads = 1 .. Len(c.loads) /\ Len(c.loads) \in Nat
      /\ c.load \in 0 .. Len(c.loads)
  BY DEF Typed, Clients
<1>2. \A l \in DOMAIN c.loads : s[l] \in Loads
  <2>1. ASSUME NEW l \in DOMAIN c.loads PROVE s[l] \in Loads
    <3>1. c.loads[l] \in Loads
      BY <1>1
    <3>2. [c.loads[l] EXCEPT !.aborted = TRUE] \in Loads
      BY <3>1, LoadFields, TRUE \in BOOLEAN, Zenon
    <3>3. QED
      BY <3>1, <3>2
  <2>2. QED
    BY <2>1
<1>3. s \in Seq(Loads) /\ Len(s) = Len(c.loads) /\ DOMAIN s = DOMAIN c.loads
  <2>1. \A l \in 1 .. Len(c.loads) : s[l] \in Loads
    BY <1>1, <1>2
  <2>2. s \in [1 .. Len(c.loads) -> Loads]
    BY <1>1, <2>1
  <2> HIDE DEF s
  <2>3. s \in Seq(Loads) /\ DOMAIN s = 1 .. Len(c.loads)
    BY <1>1, <2>2, SeqDef
  <2>4. QED
    BY <1>1, <2>3, LenProperties
<1>4. p \in [Hashes -> Nat] /\ \A h \in Hashes : p[h] = 0
  BY <1>1 DEF Pinged, Clients
<1>5. d = [c EXCEPT !.game = NoGame, !.pings = p, !.loads = s, !.load = 0]
  BY Zenon DEF UnloadGame
<1>6. NoGame \in Games /\ ~NoGame.identified
  BY DEF NoGame, Games, Names
<1>7. \A k \in DOMAIN c.loads : k # c.load => s[k] = c.loads[k]
  OBVIOUS
<1>8. c.load # 0 => /\ s[c.load].hash = c.loads[c.load].hash
                    /\ s[c.load].as = c.loads[c.load].as
                    /\ s[c.load].aborted
                    /\ s[c.load].outstanding = c.loads[c.load].outstanding
                    /\ s[c.load].progress = c.loads[c.load].progress
                    /\ s[c.load].freed = c.loads[c.load].freed
                    /\ s[c.load].called = c.loads[c.load].called
  BY <1>1 DEF Loads
<1> HIDE DEF s, p, d
<1>9. d \in Clients /\ d.game = NoGame /\ d.pings = p /\ d.loads = s /\ d.load = 0
      /\ d.flight = c.flight /\ d.user = c.user /\ d.name = c.name /\ d.hashes = c.hashes
      /\ d.logins = c.logins /\ d.dropped = c.dropped /\ d.told = c.told
  BY <1>1, <1>3, <1>4, <1>5, <1>6 DEF Clients
<1>10. Sound(d)
  BY <1>1, <1>3, <1>4, <1>6, <1>9 DEF Sound, Typed, Played, Pinged
<1>11. ASSUME Ending(c) PROVE Ending(d)
  <2>1. ASSUME NEW k \in DOMAIN c.loads PROVE LoadOk(d, k)
    <3>1. RequestsOf(d, k) = RequestsOf(c, k) /\ k # 0 /\ LoadOk(c, k)
      BY <1>1, <1>9, <1>11 DEF RequestsOf, Ending
    <3>2. CASE k = c.load
      BY <1>8, <1>9, <3>1, <3>2 DEF LoadOk
    <3>3. CASE k # c.load
      BY <1>7, <1>9, <3>1, <3>3 DEF LoadOk
    <3>4. QED
      BY <3>2, <3>3
  <2>2. QED
    BY <1>3, <1>9, <2>1 DEF Ending
<1>12. QED
  BY <1>3, <1>7, <1>8, <1>9, <1>10, <1>11 DEF d

\* The host hears that the current load is aborted.
LEMMA AbortLoadInProgressEnds ==
  ASSUME NEW c, Sound(c)
  PROVE  LET d == AbortLoadInProgress(c)
         IN  /\ Sound(d)
             /\ d.load = 0 /\ Len(d.loads) = Len(c.loads) /\ d.flight = c.flight
             /\ d.user = c.user /\ d.name = c.name /\ d.hashes = c.hashes /\ d.game = c.game
             /\ Ending(c) => Ending(d)
<1>1. CASE c.load = 0
  BY <1>1 DEF AbortLoadInProgress
<1>2. CASE c.load # 0
  <2> DEFINE l == c.load
             a == [c EXCEPT !.loads[l].aborted = TRUE]
             b == [a EXCEPT !.load = 0]
             d == CallBack(b, l, "aborted")
  <2>1. c \in Clients /\ l \in DOMAIN c.loads /\ 0 \in Nat
    BY <1>2 DEF Sound, Typed, Clients
  <2>2. AbortLoadInProgress(c) = d
    BY <1>2, Zenon DEF AbortLoadInProgress
  <2>3. /\ LoadChanged(c, a, l)
        /\ a.load = c.load /\ a.loads[l].aborted
        /\ a.loads[l].progress = c.loads[l].progress
        /\ a.loads[l].outstanding = c.loads[l].outstanding
        /\ a.loads[l].freed = c.loads[l].freed
        /\ a.loads[l].called = c.loads[l].called
    BY <2>1, AbortedSet
  <2>4. a \in Clients /\ l \in DOMAIN a.loads
    BY <2>1, <2>3 DEF LoadChanged, Clients
  <2> HIDE DEF a, l
  <2>5. LoadChanged(a, b, l) /\ b.loads = a.loads /\ b.load = 0
    BY <2>1, <2>4, EditCurrent
  <2>6. b \in Clients /\ l \in DOMAIN b.loads /\ "aborted" \in Results
    BY <2>4, <2>5 DEF LoadChanged, Results
  <2> HIDE DEF b
  <2>7. /\ LoadChanged(b, d, l) /\ SameLoad(b, d, l) /\ d.load = b.load
        /\ d.loads[l].progress = b.loads[l].progress
        /\ d.loads[l].outstanding = b.loads[l].outstanding
        /\ d.loads[l].freed = b.loads[l].freed
        /\ d.loads[l].called = IF b.loads[l].callback THEN b.loads[l].called + 1 ELSE b.loads[l].called
    BY <2>6, CallBackChanges
  <2> HIDE DEF d
  <2>8. LoadChanged(c, d, l)
    BY <2>1, <2>3, <2>4, <2>5, <2>6, <2>7, ChangedTransitive
  <2>9. Sound(d)
    BY <2>1, <2>5, <2>7, <2>8, SoundKept
  <2>10. ASSUME Ending(c) PROVE Ending(d)
    <3>1. RequestsOf(d, l) = RequestsOf(c, l) /\ LoadOk(c, l) /\ c.load = l /\ l # 0
      BY <1>2, <2>1, <2>8, <2>10, SameRequests DEF Ending, l
    <3>2. LoadOk(d, l)
      BY <2>3, <2>5, <2>7, <3>1 DEF LoadOk, SameLoad
    <3>3. OthersOk(c, l) /\ d.load = 0
      BY <2>5, <2>7, <2>10 DEF Ending, OthersOk
    <3>4. QED
      BY <2>1, <2>8, <3>1, <3>2, <3>3, EndingKept
  <2>11. QED
    BY <2>2, <2>5, <2>7, <2>8, <2>9, <2>10 DEF LoadChanged
<1>3. QED
  BY <1>1, <1>2

-----------------------------------------------------------------------------
(* Loading.                                                                  *)

\* Whatever the sign-in says, the current load fails, waits or has a request.
LEMMA BeginFetchGameSetsEnds ==
  ASSUME NEW c, NEW l \in DOMAIN c.loads, Sound(c), c.load = l
  PROVE  LET d == BeginFetchGameSets(c, l)
         IN  Sound(d) /\ (Ready(c, l) => Ending(d))
<1> DEFINE d == BeginFetchGameSets(c, l)
<1>1. c \in Clients /\ c.user \in {"none", "requested", "loggedin"} /\ c.name \in Names /\ l # 0
  BY DEF Sound, Typed, Clients
<1>2. CASE c.user = "requested"
  <2> DEFINE v == [c.loads[l] EXCEPT !.progress = "await_login"]
             a == [c EXCEPT !.loads = [c.loads EXCEPT ![l] = v]]
  <2>1. c.loads[l] \in Loads
    BY <1>1, LoadType
  <2>2. v \in Loads
    BY <2>1, LoadFields DEF Progresses
  <2>3. v.called = c.loads[l].called /\ v.progress = "await_login"
        /\ v.outstanding = c.loads[l].outstanding /\ v.freed = c.loads[l].freed
    BY <2>1 DEF Loads
  <2>4. d = a
    BY <1>2, Zenon DEF BeginFetchGameSets
  <2> HIDE DEF v
  <2>5. LoadChanged(c, a, l) /\ a.loads[l] = v /\ a.load = c.load
    BY <1>1, <2>2, EditLoad
  <2> HIDE DEF a, d
  <2>6. Sound(d)
    BY <2>4, <2>5, SoundKept
  <2>7. ASSUME Ready(c, l) PROVE Ending(d)
    <3>1. RequestsOf(d, l) = {}
      BY <2>4, <2>5, <2>7, SameRequests DEF Ready
    <3>2. LoadOk(d, l)
      BY <2>3, <2>4, <2>5, <2>7, <3>1 DEF LoadOk, Ready
    <3>3. QED
      BY <1>1, <2>4, <2>5, <2>7, <3>2, EndingKept DEF Ready
  <2>8. QED
    BY <2>6, <2>7 DEF d
<1>3. CASE c.user = "none"
  <2>1. d = LoadError(c, l, "login_required") /\ "login_required" \in Results
    BY <1>3 DEF BeginFetchGameSets, Results
  <2>2. QED
    BY <2>1, LoadErrorEnds
<1>4. CASE c.user = "loggedin"
  <2> DEFINE b == BeginLoadState(c, l, "identifying")
  <2>1. d = [b EXCEPT !.flight = @ \cup {Request("sets", l, c.name)}]
    BY <1>4 DEF BeginFetchGameSets
  <2>2. /\ LoadChanged(c, b, l) /\ b.load = c.load
        /\ b.loads[l].progress = "identifying"
        /\ b.loads[l].outstanding = c.loads[l].outstanding + 1
        /\ b.loads[l].freed = c.loads[l].freed
        /\ b.loads[l].called = c.loads[l].called
    BY <1>1, BeginLoadStateChanges DEF Progresses
  <2> HIDE DEF b, d
  <2>3. Sound(b) /\ l \in DOMAIN b.loads
    <3>1. Sound(b)
      BY <2>2, SoundKept
    <3>2. l \in DOMAIN b.loads
      BY <1>1, <2>2 DEF LoadChanged, Clients
    <3>3. QED
      BY <3>1, <3>2
  <2>4. \A k : RequestsOf(b, k) = RequestsOf(c, k)
    BY <2>2, SameRequests
  <2>5. /\ Sound(d)
        /\ d.loads = b.loads /\ d.load = b.load
        /\ RequestsOf(b, l) = {} => RequestsOf(d, l) = {Request("sets", l, c.name)}
        /\ \A k : k # l => RequestsOf(d, k) = RequestsOf(b, k)
    BY <1>1, <2>1, <2>3, RequestMade
  <2>6. ASSUME Ready(c, l) PROVE Ending(d)
    <3>1. DOMAIN d.loads = DOMAIN c.loads
      BY <1>1, <2>2, <2>5 DEF LoadChanged, Clients
    <3>2. \A k \in DOMAIN c.loads : k # l =>
             d.loads[k] = c.loads[k] /\ RequestsOf(d, k) = RequestsOf(c, k)
      BY <2>2, <2>4, <2>5 DEF LoadChanged
    <3>3. RequestsOf(d, l) = {Request("sets", l, c.name)}
      BY <2>4, <2>5, <2>6 DEF Ready
    <3>4. d.loads[l].outstanding = 1 /\ d.loads[l].freed = 0 /\ d.loads[l].called = 0
          /\ d.loads[l].progress # "await_login" /\ d.load = l
      BY <2>2, <2>5, <2>6 DEF Ready
    <3>5. OthersOk(c, l)
      BY <2>6 DEF Ready
    <3>6. QED
      BY <1>1, <3>1, <3>2, <3>3, <3>4, <3>5, RequestEnds
  <2>7. QED
    BY <2>5, <2>6 DEF d
<1>5. QED
  BY <1>1, <1>2, <1>3, <1>4

\* The current load has ended and left its game, whose ping is scheduled if it is
\* identified.
LEMMA GameIsThere ==
  ASSUME NEW c, NEW e, NEW d, NEW l \in DOMAIN c.loads, Sound(c), c.load = l,
         e \in Clients, Len(e.loads) = Len(c.loads), e.flight = c.flight,
         \A k \in DOMAIN c.loads : k # l => e.loads[k] = c.loads[k],
         LoadChanged(e, d, l), d.load = 0,
         e.game.from = l,
         \A h \in Hashes : e.pings[h] = IF e.game.identified /\ e.game.hash = h THEN 1 ELSE 0,
         Ready(c, l) => d.loads[l].called <= 1 /\ d.loads[l].freed = 1
  PROVE  Sound(d) /\ (Ready(c, l) => Ending(d))
<1>1. c \in Clients /\ d \in Clients /\ Len(d.loads) = Len(c.loads) /\ l # 0
      /\ DOMAIN d.loads = DOMAIN c.loads /\ DOMAIN e.loads = DOMAIN c.loads
  BY DEF Sound, Typed, LoadChanged, Clients
<1>2. d.game = e.game /\ d.pings = e.pings /\ d.flight = c.flight
  BY DEF LoadChanged
<1>3. Typed(d)
  BY <1>1, <1>2 DEF Sound, Typed, Clients
<1>4. Played(d)
  <2>1. l = Len(c.loads)
    BY <1>1 DEF Sound, Played, Pinged
  <2>2. QED
    BY <1>1, <1>2, <2>1 DEF Played, Pinged
<1>5. ASSUME Ready(c, l) PROVE Ending(d)
  <2>1. \A k : RequestsOf(d, k) = RequestsOf(c, k)
    BY <1>2 DEF RequestsOf
  <2>2. LoadOk(d, l)
    BY <1>1, <1>5, <2>1 DEF LoadOk, Ready
  <2>3. ASSUME NEW k \in DOMAIN c.loads, k # l PROVE LoadOk(d, k)
    <3>1. d.loads[k] = c.loads[k] /\ d.load # k /\ c.load # k
      BY <1>1, <2>3 DEF LoadChanged, Clients
    <3>2. QED
      BY <1>5, <2>1, <2>3, <3>1, LoadOkKept DEF Ready, OthersOk
  <2>4. QED
    BY <1>1, <2>2, <2>3 DEF Ending
<1>6. QED
  BY <1>3, <1>4, <1>5 DEF Sound

\* A hash that no game is known for leaves an unidentified game.
LEMMA ProcessResolvedHashEnds ==
  ASSUME NEW c, NEW l \in DOMAIN c.loads, Sound(c), c.load = l
  PROVE  LET d == ProcessResolvedHash(c, l)
         IN  Sound(d) /\ (Ready(c, l) => Ending(d))
<1>1. CASE c.hashes[c.loads[l].hash] # "none"
  BY <1>1, BeginFetchGameSetsEnds DEF ProcessResolvedHash
<1>2. CASE c.hashes[c.loads[l].hash] = "none"
  <2> DEFINE g == [hash |-> c.loads[l].hash, identified |-> FALSE, as |-> Nobody, from |-> l]
             a == [c EXCEPT !.game = g]
             v == [c.loads[l] EXCEPT !.game = FALSE]
             e == [a EXCEPT !.loads = [a.loads EXCEPT ![l] = v]]
             d == LoadError(e, l, "no_game_loaded")
  <2>1. c \in Clients /\ l # 0 /\ l \in Nat /\ c.loads[l] \in Loads
    BY LoadType DEF Sound, Typed, Clients
  <2>2. g \in Games
    <3>1. FALSE \in BOOLEAN /\ Nobody \in Names /\ c.loads[l].hash \in Hashes
      BY <2>1 DEF Names, Loads
    <3>2. \A h \in Hashes, b \in BOOLEAN, u \in Names, n \in Nat :
             [hash |-> h, identified |-> b, as |-> u, from |-> n] \in Games
      BY DEF Games
    <3>3. QED
      BY <2>1, <3>1, <3>2, Zenon
  <2>3. v \in Loads /\ v.freed = c.loads[l].freed /\ v.called = c.loads[l].called
        /\ v.outstanding = c.loads[l].outstanding
    <3>1. v \in Loads
      BY <2>1, LoadFields, FALSE \in BOOLEAN, Zenon
    <3>2. QED
      BY <2>1, <3>1 DEF Loads
  <2>4. ProcessResolvedHash(c, l) = d
    <3>1. a.loads = c.loads
      BY <2>1 DEF Clients
    <3>2. e = [c EXCEPT !.game = g, !.loads[l].game = FALSE]
      BY <3>1, Zenon
    <3>3. QED
      BY <1>2, <3>2, Zenon DEF ProcessResolvedHash
  <2>5. g.from = l /\ ~g.identified
    OBVIOUS
  <2> HIDE DEF g, v
  <2>6. a \in Clients /\ a.loads = c.loads /\ a.game = g /\ a.flight = c.flight
        /\ a.load = c.load /\ a.pings = c.pings
    BY <2>1, <2>2 DEF Clients
  <2> HIDE DEF a
  <2>7. LoadChanged(a, e, l) /\ e.loads[l] = v /\ e.load = l
    BY <2>3, <2>6, EditLoad
  <2>8. e \in Clients /\ l \in DOMAIN e.loads /\ "no_game_loaded" \in Results
    BY <2>6, <2>7 DEF LoadChanged, Clients, Results
  <2> HIDE DEF e
  <2>9. /\ LoadChanged(e, d, l) /\ d.load = 0
        /\ d.loads[l].freed = IF v.outstanding = 0 THEN v.freed + 1 ELSE v.freed
        /\ d.loads[l].called = IF e.loads[l].callback THEN v.called + 1 ELSE v.called
    BY <2>7, <2>8, LoadErrorChanges
  <2> HIDE DEF d
  <2>10. Len(e.loads) = Len(c.loads) /\ e.flight = c.flight /\ e.game = g /\ e.pings = c.pings
         /\ \A k \in DOMAIN c.loads : k # l => e.loads[k] = c.loads[k]
    BY <2>6, <2>7 DEF LoadChanged
  <2>11. \A h \in Hashes : e.pings[h] = IF e.game.identified /\ e.game.hash = h THEN 1 ELSE 0
    <3>1. c.game = NoGame
      BY <2>1 DEF Sound, Played, Pinged
    <3>2. \A h \in Hashes : c.pings[h] = 0
      BY <3>1 DEF Sound, Played, Pinged, NoGame
    <3>3. QED
      BY <2>5, <2>10, <3>2
  <2>12. Ready(c, l) => d.loads[l].called <= 1 /\ d.loads[l].freed = 1
    BY <2>3, <2>9 DEF Ready
  <2>13. e.game.from = l
    BY <2>5, <2>10
  <2>14. Sound(d) /\ (Ready(c, l) => Ending(d))
    BY <2>8, <2>9, <2>10, <2>11, <2>12, <2>13, GameIsThere
  <2>15. QED
    BY <2>4, <2>14
<1>3. QED
  BY <1>1, <1>2

\* The game of the current load is played, its ping scheduled, and the host told.
LEMMA ActivateGameEnds ==
  ASSUME NEW c, NEW l \in DOMAIN c.loads, Sound(c), c.load = l
  PROVE  LET d == ActivateGame(c, l)
         IN  Sound(d) /\ (Ready(c, l) => Ending(d))
<1> DEFINE g == [hash |-> c.loads[l].hash, identified |-> TRUE, as |-> c.loads[l].as, from |-> l]
           p == [c.pings EXCEPT ![g.hash] = @ + 1]
           a == [c EXCEPT !.game = g, !.load = 0, !.pings = p]
           v == [c.loads[l] EXCEPT !.progress = "done", !.game = FALSE]
           e == [a EXCEPT !.loads = [a.loads EXCEPT ![l] = v]]
           f == CallBack(e, l, "ok")
           d == FreeLoad(f, l)
<1>1. c \in Clients /\ l # 0 /\ l \in Nat /\ c.loads[l] \in Loads
  BY LoadType DEF Sound, Typed, Clients
<1>2. g \in Games
  <2>1. TRUE \in BOOLEAN /\ c.loads[l].as \in Names /\ c.loads[l].hash \in Hashes
    BY <1>1 DEF Loads
  <2>2. \A h \in Hashes, b \in BOOLEAN, u \in Names, n \in Nat :
           [hash |-> h, identified |-> b, as |-> u, from |-> n] \in Games
    BY DEF Games
  <2>3. QED
    BY <1>1, <2>1, <2>2, Zenon
<1>3. v \in Loads /\ v.freed = c.loads[l].freed /\ v.called = c.loads[l].called
  <2>1. [c.loads[l] EXCEPT !.progress = "done"] \in Loads
    BY <1>1, LoadFields DEF Progresses
  <2>2. v \in Loads
    BY <2>1, LoadFields, FALSE \in BOOLEAN, Zenon
  <2>3. QED
    BY <1>1, <2>2 DEF Loads
<1>4. g.from = l /\ g.identified /\ g.hash \in Hashes
  BY <1>1 DEF Loads
<1>5. p \in [Hashes -> Nat] /\ \A h \in Hashes : p[h] = IF g.hash = h THEN 1 ELSE 0
  <2>1. c.game = NoGame
    BY <1>1 DEF Sound, Played, Pinged
  <2>2. \A h \in Hashes : c.pings[h] = 0
    BY <2>1 DEF Sound, Played, Pinged, NoGame
  <2>3. c.pings \in [Hashes -> Nat]
    BY <1>1 DEF Clients
  <2> HIDE DEF g
  <2>4. QED
    BY <1>4, <2>2, <2>3
<1>6. ActivateGame(c, l) = d
  <2>1. a.loads = c.loads
    BY <1>1 DEF Clients
  <2>2. e = [c EXCEPT !.game = g, !.load = 0, !.pings[g.hash] = @ + 1,
                      !.loads[l].progress = "done", !.loads[l].game = FALSE]
    BY <2>1, Zenon
  <2>3. QED
    BY <2>2, Zenon DEF ActivateGame
<1> HIDE DEF g, p, v
<1>7. a \in Clients /\ a.loads = c.loads /\ a.game = g /\ a.flight = c.flight
      /\ a.load = 0 /\ a.pings = p
  BY <1>1, <1>2, <1>5 DEF Clients
<1> HIDE DEF a
<1>8. LoadChanged(a, e, l) /\ e.loads[l] = v /\ e.load = 0
  BY <1>3, <1>7, EditLoad
<1>9. e \in Clients /\ l \in DOMAIN e.loads /\ "ok" \in Results
  BY <1>7, <1>8 DEF LoadChanged, Clients, Results
<1> HIDE DEF e
<1>10. /\ LoadChanged(e, f, l) /\ f.load = 0
       /\ f.loads[l].freed = v.freed
       /\ f.loads[l].called = IF e.loads[l].callback THEN v.called + 1 ELSE v.called
  BY <1>8, <1>9, CallBackChanges
<1>11. f \in Clients /\ l \in DOMAIN f.loads
  BY <1>9, <1>10 DEF LoadChanged, Clients
<1> HIDE DEF f
<1>12. /\ LoadChanged(f, d, l) /\ d.load = 0
       /\ d.loads[l].freed = v.freed + 1
       /\ d.loads[l].called = f.loads[l].called
  BY <1>10, <1>11, FreeLoadChanges
<1> HIDE DEF d
<1>13. LoadChanged(e, d, l)
  BY <1>9, <1>10, <1>12, ChangedTransitive
<1>14. Len(e.loads) = Len(c.loads) /\ e.flight = c.flight /\ e.game = g /\ e.pings = p
       /\ \A k \in DOMAIN c.loads : k # l => e.loads[k] = c.loads[k]
  BY <1>7, <1>8 DEF LoadChanged
<1>15. \A h \in Hashes : e.pings[h] = IF e.game.identified /\ e.game.hash = h THEN 1 ELSE 0
  BY <1>4, <1>5, <1>14
<1>16. Ready(c, l) => d.loads[l].called <= 1 /\ d.loads[l].freed = 1
  BY <1>3, <1>10, <1>12 DEF Ready
<1>17. e.game.from = l
  BY <1>4, <1>14
<1>18. Sound(d) /\ (Ready(c, l) => Ending(d))
  BY <1>9, <1>12, <1>13, <1>14, <1>15, <1>16, <1>17, GameIsThere
<1>19. QED
  BY <1>6, <1>18

\* A new load is the current one, nothing of it is on its way, and the game is gone.
LEMMA NewLoadAttached ==
  ASSUME NEW d, NEW h \in Hashes, Sound(d), d.load = 0
  PROVE  LET l == Len(d.loads) + 1
             a == [d EXCEPT !.loads = Append(@, NewLoad(h))]
             e == AttachLoadState(a, l)
         IN  /\ Sound(e) /\ e.load = l /\ Len(e.loads) = l /\ l \in DOMAIN e.loads
             /\ Ending(d) => Ready(e, l)
             /\ e.user = d.user /\ e.name = d.name /\ e.dropped = d.dropped
             /\ e.flight = d.flight /\ e.told = d.told /\ e.game = NoGame
             /\ e.loads[l].hash = h /\ e.loads[l].progress = "none"
             /\ LoadGame(a, l) = IF e.hashes[e.loads[l].hash] = "none" THEN ProcessResolvedHash(e, l)
                                 ELSE BeginFetchGameSets(e, l)
<1> DEFINE l == Len(d.loads) + 1
           a == [d EXCEPT !.loads = Append(@, NewLoad(h))]
           b == UnloadGame(a)
           v == [b.loads[l] EXCEPT !.game = TRUE]
           f == [b EXCEPT !.loads = [b.loads EXCEPT ![l] = v]]
           e == [f EXCEPT !.load = l]
<1>1. d \in Clients /\ d.loads \in Seq(Loads) /\ Len(d.loads) \in Nat /\ Typed(d) /\ Pinged(d)
  BY DEF Sound, Typed, Played, Clients
<1>2. NewLoad(h) \in Loads
  <2>1. TRUE \in BOOLEAN /\ FALSE \in BOOLEAN /\ Nobody \in Names /\ "none" \in Progresses
    BY DEF Names, Progresses
  <2>2. \A p \in Progresses, x, y, z \in BOOLEAN, u \in Names :
           [hash |-> h, progress |-> p, outstanding |-> 0, aborted |-> x, callback |-> y,
            game |-> z, as |-> u, called |-> 0, freed |-> 0] \in Loads
    BY DEF Loads
  <2>3. QED
    BY <2>1, <2>2, Zenon DEF NewLoad
<1>3. NewLoad(h).outstanding = 0 /\ NewLoad(h).called = 0 /\ NewLoad(h).freed = 0
      /\ NewLoad(h).hash = h /\ NewLoad(h).progress = "none"
  BY DEF NewLoad
<1> DEFINE q == Append(d.loads, NewLoad(h))
<1>4. /\ q \in Seq(Loads) /\ Len(q) = l /\ q[l] = NewLoad(h)
      /\ \A k \in DOMAIN d.loads : q[k] = d.loads[k]
      /\ DOMAIN q = DOMAIN d.loads \cup {l} /\ l \notin DOMAIN d.loads
      /\ l \in Nat \ {0}
  BY <1>1, <1>2
<1> HIDE DEF q
<1>5. a \in Clients /\ a.loads = q /\ a.load = 0 /\ a.flight = d.flight /\ a.game = d.game
      /\ a.pings = d.pings /\ a.user = d.user /\ a.name = d.name /\ a.dropped = d.dropped
      /\ a.told = d.told
  BY <1>1, <1>4 DEF Clients, q
<1> HIDE DEF a
<1>6. Typed(a) /\ Pinged(a)
  <2>1. Typed(a)
    BY <1>1, <1>4, <1>5 DEF Typed
  <2>2. Pinged(a)
    BY <1>1, <1>5 DEF Pinged
  <2>3. QED
    BY <2>1, <2>2
<1>7. RequestsOf(a, l) = {} /\ \A k : RequestsOf(a, k) = RequestsOf(d, k)
  BY <1>1, <1>4, <1>5 DEF RequestsOf, Typed
<1>8. Ending(d) => Ending(a)
  <2>1. LoadOk(a, l)
    BY <1>3, <1>4, <1>5, <1>7 DEF LoadOk
  <2>2. ASSUME Ending(d), NEW k \in DOMAIN d.loads PROVE LoadOk(a, k)
    BY <1>4, <1>5, <1>7, <2>2, LoadOkKept DEF Ending
  <2>3. QED
    BY <1>4, <1>5, <2>1, <2>2 DEF Ending
<1>9. /\ Sound(b) /\ b.load = 0 /\ b.game = NoGame /\ b.flight = a.flight
       /\ Len(b.loads) = l /\ b.loads[l] = NewLoad(h) /\ (Ending(a) => Ending(b))
       /\ b.user = a.user /\ b.name = a.name /\ b.dropped = a.dropped /\ b.told = a.told
  <2>1. \A k \in DOMAIN a.loads : k # a.load => b.loads[k] = a.loads[k]
    BY <1>6, UnloadGameEnds
  <2>2. /\ Sound(b) /\ b.load = 0 /\ b.game = NoGame /\ b.flight = a.flight
        /\ Len(b.loads) = Len(a.loads) /\ (Ending(a) => Ending(b))
        /\ b.user = a.user /\ b.name = a.name /\ b.dropped = a.dropped /\ b.told = a.told
    BY <1>6, UnloadGameEnds
  <2>3. l \in DOMAIN a.loads /\ l # a.load
    BY <1>4, <1>5
  <2>4. QED
    BY <1>4, <1>5, <2>1, <2>2, <2>3
<1>10. AttachLoadState(a, l) = e
  <2>1. e = [b EXCEPT !.loads[l].game = TRUE, !.load = l]
    BY Zenon
  <2>2. QED
    BY <1>5, <2>1, Zenon DEF AttachLoadState
<1> HIDE DEF b
<1>11. b \in Clients /\ l \in DOMAIN b.loads
  BY <1>4, <1>9 DEF Sound, Typed, Clients
<1>12. v \in Loads /\ v.outstanding = 0 /\ v.called = 0 /\ v.freed = 0 /\ v.hash = h
       /\ v.progress = "none"
  <2>1. v \in Loads
    BY <1>2, <1>9, LoadFields, TRUE \in BOOLEAN, Zenon
  <2>2. QED
    BY <1>2, <1>3, <1>9, <2>1 DEF Loads
<1> HIDE DEF v
<1>13. e.told = b.told
  BY <1>11 DEF Clients
<1>14. LoadChanged(b, f, l) /\ f.loads[l] = v
  BY <1>11, <1>12, EditLoad
<1>15. f \in Clients /\ l \in DOMAIN f.loads
  BY <1>11, <1>14 DEF LoadChanged, Clients
<1> HIDE DEF f
<1>16. LoadChanged(f, e, l) /\ e.loads = f.loads /\ e.load = l
  BY <1>4, <1>15, EditCurrent
<1> HIDE DEF e
<1>17. LoadChanged(b, e, l)
  BY <1>11, <1>14, <1>15, <1>16, ChangedTransitive
<1>18. /\ e \in Clients /\ Len(e.loads) = l /\ e.flight = b.flight
       /\ e.game = NoGame /\ e.pings = b.pings
       /\ e.user = b.user /\ e.name = b.name /\ e.dropped = b.dropped
       /\ DOMAIN e.loads = DOMAIN b.loads
       /\ \A k \in DOMAIN b.loads : k # l => e.loads[k] = b.loads[k]
  BY <1>9, <1>11, <1>17 DEF LoadChanged, Clients
<1>19. Sound(e)
  <2>1. Typed(e)
    BY <1>4, <1>9, <1>16, <1>18 DEF Typed, Sound
  <2>2. Played(e)
    BY <1>9, <1>16, <1>18 DEF Played, Pinged, Sound
  <2>3. QED
    BY <2>1, <2>2 DEF Sound
<1>20. ASSUME Ending(d) PROVE Ready(e, l)
  <2>1. \A k : RequestsOf(e, k) = RequestsOf(a, k) /\ RequestsOf(b, k) = RequestsOf(a, k)
    BY <1>9, <1>18 DEF RequestsOf
  <2>2. OthersOk(e, l)
    <3>1. ASSUME NEW k \in DOMAIN e.loads, k # l PROVE LoadOk(e, k)
      <4>1. LoadOk(b, k) /\ k # 0
        BY <1>8, <1>9, <1>11, <1>18, <1>20, <3>1 DEF Ending, Clients
      <4>2. QED
        BY <1>9, <1>16, <1>18, <2>1, <3>1, <4>1, LoadOkKept
    <3>2. QED
      BY <3>1 DEF OthersOk
  <2>3. QED
    BY <1>7, <1>12, <1>14, <1>16, <2>1, <2>2 DEF Ready
<1>21. LoadGame(a, l) = IF e.hashes[e.loads[l].hash] = "none" THEN ProcessResolvedHash(e, l)
                        ELSE BeginFetchGameSets(e, l)
  BY <1>10, <1>16 DEF LoadGame
<1>22. l \in DOMAIN e.loads
  BY <1>11, <1>18
<1>23. QED
  BY <1>5, <1>9, <1>10, <1>12, <1>14, <1>16, <1>18, <1>19, <1>20, <1>21, <1>22, <1>13 DEF a

\* A new load fails at once or has its first request on its way.
LEMMA BeginLoadGameEnds ==
  ASSUME NEW c, NEW h \in Hashes, Sound(c)
  PROVE  Sound(BeginLoadGame(c, h)) /\ (Ending(c) => Ending(BeginLoadGame(c, h)))
<1> DEFINE d == AbortLoadInProgress(c)
           l == Len(d.loads) + 1
           a == [d EXCEPT !.loads = Append(@, NewLoad(h))]
           e == AttachLoadState(a, l)
<1>1. Sound(d) /\ d.load = 0 /\ (Ending(c) => Ending(d))
  BY AbortLoadInProgressEnds
<1>2. BeginLoadGame(c, h) = LoadGame(a, l)
  BY Zenon DEF BeginLoadGame
<1> HIDE DEF d
<1>3. /\ Sound(e) /\ e.load = l /\ l \in DOMAIN e.loads /\ (Ending(d) => Ready(e, l))
      /\ LoadGame(a, l) = IF e.hashes[e.loads[l].hash] = "none" THEN ProcessResolvedHash(e, l)
                          ELSE BeginFetchGameSets(e, l)
  BY <1>1, NewLoadAttached
<1> HIDE DEF a, e, l
<1>4. QED
  BY <1>1, <1>2, <1>3, ProcessResolvedHashEnds, BeginFetchGameSetsEnds

\* A session is requested for the load, for the user who is signed in.
LEMMA BeginStartSessionChanges ==
  ASSUME NEW c, NEW l \in DOMAIN c.loads, Sound(c)
  PROVE  LET d == BeginStartSession(c, l)
             r == Request("session", l, c.name)
         IN  /\ Sound(d)
             /\ d.load = c.load /\ DOMAIN d.loads = DOMAIN c.loads
             /\ \A k \in DOMAIN c.loads : k # l =>
                  d.loads[k] = c.loads[k] /\ RequestsOf(d, k) = RequestsOf(c, k)
             /\ d.loads[l].progress = "starting_session"
             /\ d.loads[l].outstanding = c.loads[l].outstanding + 1
             /\ d.loads[l].freed = c.loads[l].freed
             /\ d.loads[l].called = c.loads[l].called
             /\ RequestsOf(c, l) = {} => RequestsOf(d, l) = {r}
<1> DEFINE r == Request("session", l, c.name)
           b == BeginLoadState(c, l, "starting_session")
           f == [b EXCEPT !.flight = @ \cup {r}]
           v == [f.loads[l] EXCEPT !.as = c.name]
           d == [f EXCEPT !.loads = [f.loads EXCEPT ![l] = v]]
<1>1. c \in Clients /\ c.name \in Names /\ "starting_session" \in Progresses
  BY DEF Sound, Typed, Clients, Progresses
<1>2. BeginStartSession(c, l) = d
  BY Zenon DEF BeginStartSession
<1>3. /\ LoadChanged(c, b, l) /\ b.load = c.load
      /\ b.loads[l].progress = "starting_session"
      /\ b.loads[l].outstanding = c.loads[l].outstanding + 1
      /\ b.loads[l].freed = c.loads[l].freed
      /\ b.loads[l].called = c.loads[l].called
  BY <1>1, BeginLoadStateChanges
<1> HIDE DEF b
<1>4. Sound(b)
  BY <1>3, SoundKept
<1>5. DOMAIN b.loads = DOMAIN c.loads /\ b \in Clients
  BY <1>1, <1>3 DEF LoadChanged, Clients
<1>6. \A k : RequestsOf(b, k) = RequestsOf(c, k)
  BY <1>3, SameRequests
<1>7. /\ Sound(f) /\ f.loads = b.loads /\ f.load = b.load
      /\ RequestsOf(b, l) = {} => RequestsOf(f, l) = {r}
      /\ \A k : k # l => RequestsOf(f, k) = RequestsOf(b, k)
  BY <1>1, <1>4, <1>5, RequestMade
<1> HIDE DEF f
<1>8. f \in Clients /\ l \in DOMAIN f.loads
  BY <1>5, <1>7 DEF Sound, Typed
<1>9. f.loads[l] \in Loads
  BY <1>8, LoadType
<1>10. v \in Loads
  BY <1>1, <1>9, LoadFields
<1>11. v.progress = f.loads[l].progress /\ v.outstanding = f.loads[l].outstanding
       /\ v.freed = f.loads[l].freed /\ v.called = f.loads[l].called
  BY <1>9 DEF Loads
<1> HIDE DEF v
<1>12. LoadChanged(f, d, l) /\ d.loads[l] = v /\ d.load = f.load
  BY <1>8, <1>10, EditLoad
<1> HIDE DEF d
<1>13. Sound(d)
  BY <1>7, <1>8, <1>12, SoundKept
<1>14. \A k : RequestsOf(d, k) = RequestsOf(f, k)
  BY <1>12, SameRequests
<1>15. DOMAIN d.loads = DOMAIN c.loads
  BY <1>5, <1>7, <1>8, <1>12 DEF LoadChanged, Clients
<1>16. \A k \in DOMAIN c.loads : k # l =>
          d.loads[k] = c.loads[k] /\ RequestsOf(d, k) = RequestsOf(c, k)
  BY <1>3, <1>6, <1>7, <1>12, <1>14 DEF LoadChanged
<1>17. RequestsOf(c, l) = {} => RequestsOf(d, l) = {r}
  BY <1>6, <1>7, <1>14
<1>18. QED
  BY <1>2, <1>3, <1>7, <1>11, <1>12, <1>13, <1>15, <1>16, <1>17 DEF r

\* The session of an identified game is on its way; a game without a set has
\* failed as well.
LEMMA IdentifiedGameEnds ==
  ASSUME NEW c, NEW l \in DOMAIN c.loads, NEW reply, Sound(c), c.load = l
  PROVE  LET d == IdentifiedGame(c, l, reply)
         IN  Sound(d) /\ (Ready(c, l) /\ reply # "empty" => Ending(d))
<1> DEFINE a == [c EXCEPT !.hashes[c.loads[l].hash] = "game"]
           b == BeginLoadState(a, l, "starting_session")
           s == BeginStartSession(b, l)
           f == IF reply = "empty" THEN LoadError(s, l, "not_found") ELSE s
           e == EndLoadState(f, l)
<1>1. c \in Clients /\ l # 0 /\ c.loads[l].hash \in Hashes /\ "starting_session" \in Progresses
      /\ "not_found" \in Results
  <2>1. c \in Clients /\ l # 0
    BY DEF Sound, Typed, Clients
  <2>2. c.loads[l].hash \in Hashes
    BY <2>1, LoadType DEF Loads
  <2>3. "starting_session" \in Progresses /\ "not_found" \in Results
    BY DEF Progresses, Results
  <2>4. QED
    BY <2>1, <2>2, <2>3
<1>2. /\ a \in Clients /\ a.loads = c.loads /\ a.load = c.load /\ a.flight = c.flight
      /\ a.game = c.game /\ a.pings = c.pings
  BY <1>1 DEF Clients
<1>3. IdentifiedGame(c, l, reply) = IF e.current /\ e.left = 0 THEN ActivateGame(e.c, l) ELSE e.c
  BY Zenon DEF IdentifiedGame
<1> HIDE DEF a
<1>4. \A k : RequestsOf(a, k) = RequestsOf(c, k)
  BY <1>2 DEF RequestsOf
<1>5. Sound(a)
  BY <1>2, <1>4, OtherRequests
<1>6. /\ LoadChanged(a, b, l) /\ b.load = c.load
      /\ b.loads[l].outstanding = c.loads[l].outstanding + 1
      /\ b.loads[l].freed = c.loads[l].freed
      /\ b.loads[l].called = c.loads[l].called
  BY <1>1, <1>2, BeginLoadStateChanges
<1> HIDE DEF b
<1>7. Sound(b) /\ \A k : RequestsOf(b, k) = RequestsOf(a, k)
  <2>1. Sound(b)
    BY <1>2, <1>5, <1>6, SoundKept
  <2>2. QED
    BY <1>6, <2>1, SameRequests
<1>8. DOMAIN b.loads = DOMAIN c.loads /\ b \in Clients
  BY <1>1, <1>2, <1>6 DEF LoadChanged, Clients
<1>9. /\ Sound(s)
      /\ s.load = l /\ DOMAIN s.loads = DOMAIN c.loads
      /\ \A k \in DOMAIN c.loads : k # l =>
           s.loads[k] = b.loads[k] /\ RequestsOf(s, k) = RequestsOf(b, k)
      /\ s.loads[l].progress = "starting_session"
      /\ s.loads[l].outstanding = c.loads[l].outstanding + 2
      /\ s.loads[l].freed = c.loads[l].freed
      /\ s.loads[l].called = c.loads[l].called
      /\ RequestsOf(b, l) = {} => RequestsOf(s, l) = {Request("session", l, b.name)}
  <2>1. c.loads[l].outstanding \in Nat
    BY <1>1, LoadType DEF Loads
  <2>2. s.loads[l].outstanding = b.loads[l].outstanding + 1
    BY <1>7, <1>8, BeginStartSessionChanges
  <2>3. QED
    BY <1>6, <1>7, <1>8, <2>1, <2>2, BeginStartSessionChanges
<1> HIDE DEF s
<1>10. Sound(f) /\ l \in DOMAIN f.loads /\ f.loads[l].outstanding = c.loads[l].outstanding + 2
       /\ (reply # "empty" => f = s)
  <2>1. CASE reply = "empty"
    <3>1. Sound(LoadError(s, l, "not_found"))
      BY <1>1, <1>9, LoadErrorEnds
    <3>2. s \in Clients
      BY <1>9 DEF Sound, Typed
    <3>3. /\ LoadChanged(s, LoadError(s, l, "not_found"), l)
          /\ LoadError(s, l, "not_found").loads[l].outstanding = s.loads[l].outstanding
      BY <1>1, <1>9, <3>2, LoadErrorChanges
    <3>4. f = LoadError(s, l, "not_found")
      BY <2>1
    <3> HIDE DEF f
    <3>5. QED
      BY <1>9, <2>1, <3>1, <3>2, <3>3, <3>4 DEF LoadChanged, Clients
  <2>2. CASE reply # "empty"
    BY <1>9, <2>2
  <2>3. QED
    BY <2>1, <2>2
<1> HIDE DEF f
<1>11. /\ LoadChanged(f, e.c, l) /\ e.c.load = f.load /\ Sound(e.c)
       /\ e.left # 0
       /\ e.c.loads[l].outstanding = f.loads[l].outstanding - 1
       /\ f.load = l => e.c.loads[l].freed = f.loads[l].freed /\ e.c.loads[l].called = f.loads[l].called
       /\ e.c.loads[l].progress = f.loads[l].progress
  <2>1. f \in Clients
    BY <1>10 DEF Sound, Typed
  <2>2. c.loads[l].outstanding \in Nat
    BY <1>1, LoadType DEF Loads
  <2>3. f.loads[l].outstanding > 0 /\ f.loads[l].outstanding - 1 # 0
    BY <1>10, <2>2
  <2>4. LoadChanged(f, e.c, l) /\ e.c.load = f.load /\ Sound(e.c)
    BY <1>10, <2>1, EndLoadStateReady
  <2>5. QED
    BY <1>10, <2>1, <2>3, <2>4, EndLoadStateChanges
<1> DEFINE d == e.c
<1>12. IdentifiedGame(c, l, reply) = d
  BY <1>3, <1>11
<1> HIDE DEF e
<1>13. ASSUME Ready(c, l), reply # "empty" PROVE Ending(d)
  <2>1. f = s
    BY <1>10, <1>13
  <2>2. d.loads[l].outstanding = 1 /\ d.loads[l].freed = 0 /\ d.loads[l].called = 0
        /\ d.loads[l].progress # "await_login" /\ d.load = l
    BY <1>9, <1>11, <1>13, <2>1 DEF Ready
  <2>3. \A k : RequestsOf(d, k) = RequestsOf(s, k)
    BY <1>11, <2>1, SameRequests
  <2>4. RequestsOf(d, l) = {Request("session", l, b.name)}
    BY <1>4, <1>7, <1>9, <1>13, <2>3 DEF Ready
  <2>5. DOMAIN d.loads = DOMAIN c.loads
    BY <1>9, <1>11, <2>1 DEF LoadChanged, Sound, Typed, Clients
  <2>6. \A k \in DOMAIN c.loads : k # l =>
           d.loads[k] = c.loads[k] /\ RequestsOf(d, k) = RequestsOf(c, k)
    BY <1>2, <1>4, <1>6, <1>7, <1>9, <1>11, <2>1, <2>3 DEF LoadChanged
  <2>7. QED
    BY <1>1, <1>13, <2>2, <2>4, <2>5, <2>6, RequestEnds DEF Ready
<1>14. QED
  BY <1>11, <1>12, <1>13

-----------------------------------------------------------------------------
(* The answers.                                                              *)

\* The answer to the request for the sets of a load keeps every load in order.
LEMMA FetchGameSetsCallbackEnds ==
  ASSUME NEW c, NEW r \in c.flight, r.kind = "sets", NEW reply, Sound(c)
  PROVE  LET d == FetchGameSetsCallback(c, r, reply)
         IN  Sound(d) /\ (Ending(c) /\ reply # "empty" => Ending(d))
<1> DEFINE l == r.of
           w == Without(c, r)
           e == EndLoadState(w, l)
           x == e.c
           n == [x EXCEPT !.hashes[c.loads[l].hash] = "none"]
           d == FetchGameSetsCallback(c, r, reply)
<1>1. /\ l \in DOMAIN c.loads /\ Sound(w) /\ w.loads = c.loads /\ w.load = c.load
      /\ Ending(c) => InHand(w, l)
  BY AnswerInHand
<1>2. d = IF c.loads[l].aborted THEN LoadAborted(w, l)
          ELSE IF reply = "error" THEN LoadError(x, l, "error")
          ELSE IF ~e.current THEN x
          ELSE IF reply = "none" THEN ProcessResolvedHash(n, l)
          ELSE IdentifiedGame(x, l, reply)
  BY Zenon DEF FetchGameSetsCallback
<1> HIDE DEF w, d
<1>3. /\ LoadChanged(w, x, l) /\ x.load = w.load /\ (e.current <=> w.load = l) /\ Sound(x)
      /\ InHand(w, l) /\ w.load = l => Ready(x, l)
  BY <1>1, EndLoadStateReady
<1>4. w \in Clients /\ x \in Clients /\ l \in DOMAIN x.loads /\ "error" \in Results /\ l # 0
  BY <1>1, <1>3 DEF Sound, Typed, LoadChanged, Clients, Results
<1> HIDE DEF x, e
\* An answer that is not aborted belongs to the current load.
<1>5. ASSUME Ending(c), ~c.loads[l].aborted PROVE w.load = l /\ Ready(x, l)
  BY <1>1, <1>3, <1>5 DEF InHand
<1>6. CASE c.loads[l].aborted
  BY <1>1, <1>2, <1>6, LoadAbortedEnds DEF d
<1>7. CASE ~c.loads[l].aborted /\ reply = "error"
  <2>1. d = LoadError(x, l, "error")
    BY <1>2, <1>7
  <2>2. Sound(d) /\ (Ready(x, l) => Ending(d))
    BY <1>3, <1>4, <2>1, LoadErrorEnds
  <2>3. QED
    BY <1>5, <1>7, <2>2 DEF d
<1>8. CASE ~c.loads[l].aborted /\ reply # "error" /\ ~e.current
  <2>1. d = x /\ w.load # l
    BY <1>2, <1>3, <1>8
  <2>2. QED
    BY <1>3, <1>5, <1>8, <2>1 DEF d
<1>9. CASE ~c.loads[l].aborted /\ reply = "none" /\ e.current
  <2>1. d = ProcessResolvedHash(n, l)
    BY <1>2, <1>9
  <2>2. c.loads[l].hash \in Hashes
    BY <1>1, LoadType DEF Sound, Typed, Loads, AnswerInHand
  <2>3. /\ n \in Clients /\ n.loads = x.loads /\ n.load = x.load /\ n.flight = x.flight
        /\ n.game = x.game /\ n.pings = x.pings
    BY <1>4, <2>2 DEF Clients
  <2> HIDE DEF n
  <2>4. \A k : RequestsOf(n, k) = RequestsOf(x, k)
    BY <2>3 DEF RequestsOf
  <2>5. Sound(n)
    BY <1>3, <2>3, <2>4, OtherRequests
  <2>6. Ready(x, l) => Ready(n, l)
    <3>1. ASSUME NEW k \in DOMAIN n.loads, LoadOk(x, k) PROVE LoadOk(n, k)
      BY <2>3, <2>4, <3>1, LoadOkKept
    <3>2. QED
      BY <2>3, <2>4, <3>1 DEF Ready, OthersOk
  <2>7. n.load = l /\ l \in DOMAIN n.loads
    BY <1>3, <1>4, <1>9, <2>3
  <2>8. QED
    BY <1>5, <1>9, <2>1, <2>5, <2>6, <2>7, ProcessResolvedHashEnds DEF d
<1>10. CASE ~c.loads[l].aborted /\ reply \notin {"error", "none"} /\ e.current
  <2>1. d = IdentifiedGame(x, l, reply) /\ x.load = l
    BY <1>2, <1>3, <1>10
  <2>2. Sound(d) /\ (Ready(x, l) /\ reply # "empty" => Ending(d))
    BY <1>3, <1>4, <2>1, IdentifiedGameEnds
  <2>3. QED
    BY <1>5, <1>10, <2>2 DEF d
<1>11. QED
  BY <1>6, <1>7, <1>8, <1>9, <1>10

\* The answer that starts the session puts the newest load into play, or ends an older one.
LEMMA StartSessionCallbackEnds ==
  ASSUME NEW c, NEW r \in c.flight, r.kind = "session", NEW reply, Sound(c)
  PROVE  LET d == StartSessionCallback(c, r, reply)
         IN  Sound(d) /\ (Ending(c) => Ending(d))
<1> DEFINE l == r.of
           w == Without(c, r)
           e == EndLoadState(w, l)
           x == e.c
           d == StartSessionCallback(c, r, reply)
<1>1. /\ l \in DOMAIN c.loads /\ Sound(w) /\ w.loads = c.loads /\ w.load = c.load
      /\ Ending(c) => InHand(w, l)
  BY AnswerInHand
<1>2. d = IF c.loads[l].aborted THEN LoadAborted(w, l)
          ELSE IF reply = "error" THEN LoadError(x, l, "error")
          ELSE IF e.current /\ e.left = 0 THEN ActivateGame(x, l)
          ELSE x
  BY Zenon DEF StartSessionCallback
<1> HIDE DEF w, d
<1>3. /\ LoadChanged(w, x, l) /\ x.load = w.load /\ (e.current <=> w.load = l) /\ Sound(x)
      /\ InHand(w, l) /\ w.load = l => Ready(x, l) /\ e.left = 0
  BY <1>1, EndLoadStateReady
<1>4. w \in Clients /\ x \in Clients /\ l \in DOMAIN x.loads /\ "error" \in Results /\ l # 0
  BY <1>1, <1>3 DEF Sound, Typed, LoadChanged, Clients, Results
<1> HIDE DEF x, e
<1>5. ASSUME Ending(c), ~c.loads[l].aborted PROVE w.load = l /\ Ready(x, l) /\ e.left = 0
  BY <1>1, <1>3, <1>5 DEF InHand
<1>6. CASE c.loads[l].aborted
  BY <1>1, <1>2, <1>6, LoadAbortedEnds DEF d
<1>7. CASE ~c.loads[l].aborted /\ reply = "error"
  <2>1. d = LoadError(x, l, "error")
    BY <1>2, <1>7
  <2>2. Sound(d) /\ (Ready(x, l) => Ending(d))
    BY <1>3, <1>4, <2>1, LoadErrorEnds
  <2>3. QED
    BY <1>5, <1>7, <2>2 DEF d
<1>8. CASE ~c.loads[l].aborted /\ reply # "error" /\ e.current /\ e.left = 0
  <2>1. d = ActivateGame(x, l) /\ x.load = l
    BY <1>2, <1>3, <1>8
  <2>2. Sound(d) /\ (Ready(x, l) => Ending(d))
    BY <1>3, <1>4, <2>1, ActivateGameEnds
  <2>3. QED
    BY <1>5, <1>8, <2>2 DEF d
<1>9. CASE ~c.loads[l].aborted /\ reply # "error" /\ ~(e.current /\ e.left = 0)
  <2>1. d = x
    BY <1>2, <1>9
  <2>2. QED
    BY <1>3, <1>5, <1>9, <2>1 DEF d
<1>10. QED
  BY <1>6, <1>7, <1>8, <1>9

-----------------------------------------------------------------------------
(* Signing in and out.                                                       *)

\* The host being told, or not, is nothing to a load.
LEMMA ToldKeeps ==
  ASSUME NEW c, NEW t \in Seq({"login", "load"} \X Results), Sound(c)
  PROVE  LET d == [c EXCEPT !.told = t]
         IN  Sound(d) /\ (Ending(c) => Ending(d))
<1> DEFINE d == [c EXCEPT !.told = t]
<1>1. c \in Clients
  BY DEF Sound, Typed
<1>2. /\ d \in Clients /\ d.loads = c.loads /\ d.load = c.load /\ d.game = c.game
      /\ d.pings = c.pings /\ d.flight = c.flight
  BY <1>1 DEF Clients
<1> HIDE DEF d
<1>3. \A k : RequestsOf(d, k) = RequestsOf(c, k)
  BY <1>2 DEF RequestsOf
<1>4. QED
  BY <1>2, <1>3, OtherRequests DEF d

\* Telling the host about a login keeps the loads.
LEMMA LoginTold ==
  ASSUME NEW c, NEW result \in Results, Sound(c)
  PROVE  LET d == Tell(c, "login", result)
         IN  Sound(d) /\ (Ending(c) => Ending(d))
<1> DEFINE t == Append(c.told, <<"login", result>>)
<1>1. c \in Clients
  BY DEF Sound, Typed
<1>2. t \in Seq({"login", "load"} \X Results)
  BY <1>1 DEF Clients
<1> HIDE DEF t
<1>3. Tell(c, "login", result) = [c EXCEPT !.told = t]
  BY Zenon DEF Tell, t
<1>4. QED
  BY <1>2, <1>3, ToldKeeps

\* A load that waits for a sign-in is ready for its first request.
LEMMA WaitingIsReady ==
  ASSUME NEW c, Sound(c), Waiting(c)
  PROVE  /\ c.load \in DOMAIN c.loads
         /\ Ending(c) => Ready(c, c.load)
<1>1. c.load \in DOMAIN c.loads
  BY DEF Sound, Typed, Waiting, Clients
<1>2. ASSUME Ending(c) PROVE Ready(c, c.load)
  <2>1. LoadOk(c, c.load) /\ OthersOk(c, c.load)
    BY <1>1, <1>2 DEF Ending, OthersOk
  <2>2. QED
    BY <2>1 DEF LoadOk, Ready, Waiting
<1>3. QED
  BY <1>1, <1>2

\* A login changes no load.
LEMMA BeginLoginEnds ==
  ASSUME NEW c, NEW who \in Users, Sound(c)
  PROVE  Sound(BeginLogin(c, who)) /\ (Ending(c) => Ending(BeginLogin(c, who)))
<1> DEFINE n == c.logins + 1
           r == Request("login", n, who)
<1>1. c \in Clients /\ n \in Nat
  BY DEF Sound, Typed, Clients
<1> HIDE DEF n
<1>2. CASE c.user = "requested"
  <2> DEFINE a == [c EXCEPT !.logins = n]
  <2>1. BeginLogin(c, who) = Tell(a, "login", "already_requested")
    BY <1>2, Zenon DEF BeginLogin, n
  <2>2. /\ a \in Clients /\ a.loads = c.loads /\ a.load = c.load /\ a.game = c.game
        /\ a.pings = c.pings /\ a.flight = c.flight
    BY <1>1 DEF Clients
  <2> HIDE DEF a
  <2>3. \A k : RequestsOf(a, k) = RequestsOf(c, k)
    BY <2>2 DEF RequestsOf
  <2>4. Sound(a) /\ (Ending(c) => Ending(a)) /\ "already_requested" \in Results
    BY <2>2, <2>3, OtherRequests DEF Results
  <2>5. QED
    BY <2>1, <2>4, LoginTold
<1>3. CASE c.user # "requested"
  <2> DEFINE a == [c EXCEPT !.user = "requested", !.logins = n, !.flight = @ \cup {r}]
  <2>1. BeginLogin(c, who) = a
    BY <1>3, Zenon DEF BeginLogin, n
  <2>2. r \in Requests /\ r.kind = "login"
    BY <1>1 DEF Request, Requests, Names
  <2> HIDE DEF r
  <2>3. c.flight \cup {r} \in SUBSET Requests
    BY <1>1, <2>2 DEF Clients
  <2>4. /\ a \in Clients /\ a.loads = c.loads /\ a.load = c.load /\ a.game = c.game
        /\ a.pings = c.pings /\ a.flight = c.flight \cup {r}
    BY <1>1, <2>3 DEF Clients
  <2> HIDE DEF a
  <2>5. \A k : RequestsOf(a, k) = RequestsOf(c, k)
    BY <2>2, <2>4 DEF RequestsOf
  <2>6. QED
    BY <2>1, <2>4, <2>5, OtherRequests
<1>4. QED
  BY <1>2, <1>3

\* The load that waited for the sign-in is not the current one any more, and ends.
LEMMA LogoutEnds ==
  ASSUME NEW c, Sound(c)
  PROVE  Sound(Logout(c)) /\ (Ending(c) => Ending(Logout(c)))
<1> DEFINE a == [c EXCEPT !.user = "none", !.name = Nobody]
           d == UnloadGame(a)
           l == c.load
<1>1. c \in Clients /\ Nobody \in Names
  BY DEF Sound, Typed, Names
<1>2. Logout(c) = IF Waiting(c) THEN LoadError(d, l, "aborted") ELSE d
  BY Zenon DEF Logout, Waiting
<1>3. /\ a \in Clients /\ a.loads = c.loads /\ a.load = c.load /\ a.game = c.game
      /\ a.pings = c.pings /\ a.flight = c.flight
  BY <1>1 DEF Clients
<1> HIDE DEF a
<1>4. \A k : RequestsOf(a, k) = RequestsOf(c, k)
  BY <1>3 DEF RequestsOf
<1>5. Sound(a) /\ (Ending(c) => Ending(a))
  BY <1>3, <1>4, OtherRequests
<1>6. Typed(a) /\ Pinged(a)
  BY <1>5 DEF Sound, Played
<1>7. /\ Sound(d) /\ d.load = 0 /\ d.flight = a.flight /\ Len(d.loads) = Len(a.loads)
      /\ Ending(a) => Ending(d)
  BY <1>6, UnloadGameEnds
<1>8. a.load # 0 => LET x == a.loads[a.load]
                        y == d.loads[a.load]
                    IN  /\ y.outstanding = x.outstanding
                        /\ y.freed = x.freed /\ y.called = x.called
  BY <1>6, UnloadGameEnds
<1> HIDE DEF d
<1>9. CASE Waiting(c)
  <2>1. l \in DOMAIN d.loads /\ "aborted" \in Results
    <3>1. l \in DOMAIN c.loads
      BY <1>9, WaitingIsReady
    <3>2. DOMAIN d.loads = DOMAIN c.loads
      BY <1>1, <1>3, <1>7 DEF Sound, Typed, Clients
    <3>3. QED
      BY <3>1, <3>2 DEF Results
  <2>2. ASSUME Ending(c) PROVE Ready(d, l)
    <3>1. Ready(c, l) /\ l # 0
      BY <1>9, <2>2, WaitingIsReady DEF Waiting
    <3>2. RequestsOf(d, l) = {}
      BY <1>3, <1>7, <3>1 DEF Ready, RequestsOf
    <3>3. OthersOk(d, l)
      BY <1>5, <1>7, <2>2 DEF Ending, OthersOk
    <3>4. QED
      BY <1>3, <1>8, <3>1, <3>2, <3>3 DEF Ready
  <2>3. QED
    BY <1>2, <1>7, <1>9, <2>1, <2>2, LoadErrorEnds
<1>10. CASE ~Waiting(c)
  BY <1>2, <1>5, <1>7, <1>10
<1>11. QED
  BY <1>9, <1>10

\* Whoever is signed in then, a load that waited goes on or fails.
LEMMA SignInEnds ==
  ASSUME NEW c, NEW user \in {"none", "loggedin"}, NEW name \in Names, Sound(c)
  PROVE  LET a == [c EXCEPT !.user = user, !.name = name]
             d == IF Waiting(a) THEN BeginFetchGameSets(a, a.load) ELSE a
         IN  Sound(d) /\ (Ending(c) => Ending(d))
<1> DEFINE a == [c EXCEPT !.user = user, !.name = name]
<1>1. c \in Clients
  BY DEF Sound, Typed
<1>2. /\ a \in Clients /\ a.loads = c.loads /\ a.load = c.load /\ a.game = c.game
      /\ a.pings = c.pings /\ a.flight = c.flight
  BY <1>1 DEF Clients
<1> HIDE DEF a
<1>3. \A k : RequestsOf(a, k) = RequestsOf(c, k)
  BY <1>2 DEF RequestsOf
<1>4. Sound(a) /\ (Ending(c) => Ending(a))
  BY <1>2, <1>3, OtherRequests
<1> DEFINE d == IF Waiting(a) THEN BeginFetchGameSets(a, a.load) ELSE a
<1>5. Sound(d) /\ (Ending(c) => Ending(d))
  BY <1>4, WaitingIsReady, BeginFetchGameSetsEnds
<1>6. QED
  BY <1>5 DEF a

\* The answer of a login lets the load that waits for it go on, or ends it.
LEMMA LoginCallbackEnds ==
  ASSUME NEW c, NEW r \in c.flight, r.kind = "login", NEW reply, Sound(c)
  PROVE  LET d == LoginCallback(c, r, reply)
         IN  Sound(d) /\ (Ending(c) => Ending(d))
<1> DEFINE w    == Without(c, r)
           in   == [w EXCEPT !.user = "loggedin", !.name = r.as]
           t    == [w EXCEPT !.user = "none"]
           none == Tell(t, "login", "error")
           on   == IF Waiting(in) THEN BeginFetchGameSets(in, in.load) ELSE in
           d    == LoginCallback(c, r, reply)
<1>1. c \in Clients /\ c.flight \ {r} \in SUBSET Requests /\ r \in Requests
  BY DEF Sound, Typed, Clients
<1>2. /\ w \in Clients /\ w.loads = c.loads /\ w.load = c.load /\ w.game = c.game
      /\ w.pings = c.pings /\ w.flight = c.flight \ {r} /\ w.name \in Names
  BY <1>1 DEF Without, Clients
<1>3. r.as \in Names /\ {"aborted", "error", "ok"} \subseteq Results
  BY <1>1 DEF Requests, Results
<1>4. d = IF r.of \in c.dropped THEN Logout(w)
          ELSE IF c.user = "none" THEN Tell(w, "login", "aborted")
          ELSE IF reply = "error" THEN IF Waiting(none) THEN BeginFetchGameSets(none, none.load)
                                       ELSE none
          ELSE Tell(on, "login", "ok")
  BY Zenon DEF LoginCallback
<1> HIDE DEF w, d
<1>5. \A k : RequestsOf(w, k) = RequestsOf(c, k)
  BY <1>2 DEF RequestsOf
<1>6. Sound(w) /\ (Ending(c) => Ending(w))
  BY <1>2, <1>5, OtherRequests
<1>7. Sound(on) /\ (Ending(c) => Ending(on))
  BY <1>3, <1>6, SignInEnds
<1>8. Sound(none) /\ (Ending(c) => Ending(none))
  <2>1. /\ t \in Clients /\ t.loads = w.loads /\ t.load = w.load /\ t.game = w.game
        /\ t.pings = w.pings /\ t.flight = w.flight
    BY <1>2 DEF Clients
  <2> HIDE DEF t
  <2>2. \A k : RequestsOf(t, k) = RequestsOf(w, k)
    BY <2>1 DEF RequestsOf
  <2>3. Sound(t) /\ (Ending(w) => Ending(t))
    BY <1>6, <2>1, <2>2, OtherRequests
  <2>4. QED
    BY <1>3, <1>6, <2>3, LoginTold
<1> HIDE DEF in, on, none
<1>9. CASE r.of \in c.dropped
  BY <1>4, <1>6, <1>9, LogoutEnds DEF d
<1>10. CASE r.of \notin c.dropped /\ c.user = "none"
  BY <1>3, <1>4, <1>6, <1>10, LoginTold DEF d
<1>11. CASE r.of \notin c.dropped /\ c.user # "none" /\ reply = "error"
  <2>1. CASE Waiting(none)
    <3>1. d = BeginFetchGameSets(none, none.load)
      BY <1>4, <1>11, <2>1
    <3>2. none.load \in DOMAIN none.loads /\ (Ending(none) => Ready(none, none.load))
      BY <1>8, <2>1, WaitingIsReady
    <3>3. QED
      BY <1>8, <3>1, <3>2, BeginFetchGameSetsEnds DEF d
  <2>2. CASE ~Waiting(none)
    BY <1>4, <1>8, <1>11, <2>2 DEF d
  <2>3. QED
    BY <2>1, <2>2
<1>12. CASE r.of \notin c.dropped /\ c.user # "none" /\ reply # "error"
  <2>1. d = Tell(on, "login", "ok")
    BY <1>4, <1>12
  <2>2. QED
    BY <1>3, <1>7, <2>1, LoginTold DEF d
<1>13. QED
  BY <1>9, <1>10, <1>11, <1>12

-----------------------------------------------------------------------------
(* The induction.                                                            *)

\* A set is never missing, or how a load ends is not looked at.
IInv == Sound(client) /\ (SetsMayBeMissing = FALSE => Ending(client))

\* An operation that keeps what is known of a client, whatever the host was told.
LEMMA QuietKeeps ==
  ASSUME Sound(client)
  PROVE  Sound(Quiet) /\ (Ending(client) => Ending(Quiet)) /\ Quiet.flight = client.flight
         /\ Quiet.load = client.load /\ Quiet.loads = client.loads
<1>1. <<>> \in Seq({"login", "load"} \X Results) /\ client \in Clients
  BY DEF Sound, Typed
<1>2. Quiet.flight = client.flight /\ Quiet.load = client.load /\ Quiet.loads = client.loads
  BY <1>1 DEF Quiet, Clients
<1>3. QED
  BY <1>1, <1>2, ToldKeeps DEF Quiet

\* The invariant holds in a new client.
LEMMA NewClientEnds ==
  Sound(NewClient) /\ Ending(NewClient) /\ NewClient \in Clients
<1> DEFINE x == [h \in Hashes |-> "unknown"]
           p == [h \in Hashes |-> 0]
<1>1. NoGame \in Games /\ Nobody \in Names
  BY DEF NoGame, Games, Names
<1>2. x \in [Hashes -> {"unknown", "game", "none"}] /\ p \in [Hashes -> Nat]
      /\ \A h \in Hashes : p[h] = 0
  OBVIOUS
<1>3. NewClient = [user |-> "none", name |-> Nobody, game |-> NoGame, load |-> 0, loads |-> <<>>,
                   hashes |-> x, pings |-> p, flight |-> {}, logins |-> 0, dropped |-> {}, told |-> <<>>]
  BY DEF NewClient
<1> HIDE DEF x, p
<1>4. NewClient \in Clients
  BY <1>1, <1>2, <1>3 DEF Clients
<1>5. Typed(NewClient)
  BY <1>3, <1>4 DEF Typed
<1>6. Played(NewClient)
  BY <1>2, <1>3 DEF Played, Pinged, NoGame
<1>7. Ending(NewClient)
  BY <1>3 DEF Ending
<1>8. QED
  BY <1>4, <1>5, <1>6, <1>7 DEF Sound

\* It is that of the specification.
LEMMA Begun ==
  ASSUME Init
  PROVE  IInv
BY NewClientEnds DEF Init, IInv

\* Every call of the host and every answer keeps the invariant.
LEMMA Inductive ==
  ASSUME IInv, [Next]_client
  PROVE  IInv'
<1>1. Sound(client) /\ (SetsMayBeMissing = FALSE => Ending(client))
  BY DEF IInv
<1>2. /\ Sound(Quiet) /\ (SetsMayBeMissing = FALSE => Ending(Quiet))
      /\ Quiet.flight = client.flight /\ Quiet.load = client.load /\ Quiet.loads = client.loads
  BY <1>1, QuietKeeps
<1>3. SUFFICES Sound(client') /\ (SetsMayBeMissing = FALSE => Ending(client'))
  BY <1>3 DEF IInv
<1>4. CASE CallLogin
  <2>1. PICK who \in Users : client' = BeginLogin(Quiet, who)
    BY <1>4 DEF CallLogin
  <2>2. QED
    BY <1>2, <2>1, BeginLoginEnds
<1>5. CASE CallLoad
  <2>1. PICK h \in Hashes : client' = BeginLoadGame(Quiet, h)
    BY <1>5 DEF CallLoad
  <2>2. QED
    BY <1>2, <2>1, BeginLoadGameEnds
<1>6. CASE CallUnload
  <2>1. client' = UnloadGame(Quiet) /\ Typed(Quiet) /\ Pinged(Quiet)
    BY <1>2, <1>6 DEF CallUnload, Sound, Played
  <2>2. QED
    BY <1>2, <2>1, UnloadGameEnds
<1>7. CASE CallLogout
  BY <1>2, <1>7, LogoutEnds DEF CallLogout
<1>8. CASE AbortLogin
  <2>1. PICK r \in client.flight : client' = [Quiet EXCEPT !.dropped = @ \cup {r.of}]
    BY <1>8 DEF AbortLogin
  <2> DEFINE q == Quiet
             a == [q EXCEPT !.dropped = @ \cup {r.of}]
  <2>2. q \in Clients /\ r \in q.flight
    BY <1>2 DEF Sound, Typed
  <2>3. q.dropped \cup {r.of} \in SUBSET Nat
    BY <2>2 DEF Clients, Requests
  <2>4. Sound(q) /\ (SetsMayBeMissing = FALSE => Ending(q))
    BY <1>2
  <2> HIDE DEF q
  <2>5. /\ a \in Clients /\ a.loads = q.loads /\ a.load = q.load /\ a.game = q.game
        /\ a.pings = q.pings /\ a.flight = q.flight
    BY <2>2, <2>3 DEF Clients
  <2> HIDE DEF a
  <2>6. \A k : RequestsOf(a, k) = RequestsOf(q, k)
    BY <2>5 DEF RequestsOf
  <2>7. QED
    BY <2>1, <2>4, <2>5, <2>6, OtherRequests DEF a, q
<1>9. CASE AbortLoad
  <2> DEFINE q == Quiet
             l == client.load
             a == [q EXCEPT !.loads[l].aborted = TRUE]
  <2>1. client' = a /\ l # 0
    BY <1>9, Zenon DEF AbortLoad
  <2>2. q \in Clients /\ l \in DOMAIN q.loads /\ q.load = l
    BY <1>2, <2>1 DEF Sound, Typed, Clients
  <2>3. Sound(q) /\ (SetsMayBeMissing = FALSE => Ending(q))
    BY <1>2
  <2> HIDE DEF q, l
  <2>4. /\ LoadChanged(q, a, l) /\ a.load = q.load /\ a.loads[l].aborted
        /\ a.loads[l].progress = q.loads[l].progress
        /\ a.loads[l].outstanding = q.loads[l].outstanding
        /\ a.loads[l].freed = q.loads[l].freed
        /\ a.loads[l].called = q.loads[l].called
    BY <2>2, AbortedSet
  <2> HIDE DEF a
  <2>5. Sound(a)
    BY <2>2, <2>3, <2>4, SoundKept
  <2>6. ASSUME Ending(q) PROVE Ending(a)
    <3>1. RequestsOf(a, l) = RequestsOf(q, l) /\ LoadOk(q, l) /\ OthersOk(q, l)
      BY <2>2, <2>4, <2>6, SameRequests DEF Ending, OthersOk
    <3>2. LoadOk(a, l)
      BY <2>4, <3>1 DEF LoadOk
    <3>3. QED
      BY <2>2, <2>4, <3>1, <3>2, EndingKept
  <2>7. QED
    BY <2>1, <2>3, <2>5, <2>6
<1>10. CASE AnswerLogin
  <2>1. PICK r \in Quiet.flight, reply \in {"ok", "error"} :
          r.kind = "login" /\ client' = LoginCallback(Quiet, r, reply)
    BY <1>2, <1>10 DEF AnswerLogin
  <2>2. QED
    BY <1>2, <2>1, LoginCallbackEnds
<1>11. CASE AnswerSets
  <2>1. PICK r \in Quiet.flight,
             reply \in {"game", "none", "error"} \cup (IF SetsMayBeMissing THEN {"empty"} ELSE {}) :
          r.kind = "sets" /\ client' = FetchGameSetsCallback(Quiet, r, reply)
    BY <1>2, <1>11 DEF AnswerSets
  <2>2. SetsMayBeMissing = FALSE => reply # "empty"
    BY <2>1
  <2>3. QED
    BY <1>2, <2>1, <2>2, FetchGameSetsCallbackEnds
<1>12. CASE AnswerSession
  <2>1. PICK r \in Quiet.flight, reply \in {"ok", "error"} :
          r.kind = "session" /\ client' = StartSessionCallback(Quiet, r, reply)
    BY <1>2, <1>12 DEF AnswerSession
  <2>2. QED
    BY <1>2, <2>1, StartSessionCallbackEnds
<1>13. CASE UNCHANGED client
  BY <1>1, <1>13
<1>14. QED
  BY <1>4, <1>5, <1>6, <1>7, <1>8, <1>9, <1>10, <1>11, <1>12, <1>13 DEF Next, Answer

\* The game that is played is the one that was asked for last, and its ping is
\* the only one scheduled: LatestIsPlayed is a part of Sound, in which the newest
\* load is the current one, or none is.
THEOREM NewestGameIsPlayed == Spec => []LatestIsPlayed
<1>1. IInv => LatestIsPlayed
  BY DEF IInv, Sound, Played, Pinged, LatestIsPlayed
<1>2. QED
  BY <1>1, Begun, Inductive, PTL DEF Spec

\* Every load ends once, as long as a game that is known comes with a set: without
\* one the load fails with its session request still on its way, and ends twice.
THEOREM LoadsEndOnce == SetsMayBeMissing = FALSE => (Spec => []EndsOnce)
<1>1. ASSUME IInv, SetsMayBeMissing = FALSE PROVE EndsOnce
  <2>1. Typed(client) /\ Ending(client)
    BY <1>1 DEF IInv, Sound
  <2>2. ASSUME NEW l \in DOMAIN client.loads
        PROVE  /\ client.loads[l].called <= 1 /\ client.loads[l].freed <= 1
               /\ client.loads[l].freed = 1 => /\ client.load # l
                                               /\ \A r \in client.flight : r.kind # "login" => r.of # l
    <3>1. LoadOk(client, l)
      BY <2>1 DEF Ending
    <3>2. QED
      BY <3>1 DEF LoadOk, RequestsOf
  <2>3. QED
    BY <2>2 DEF EndsOnce, ReleasedOnce
<1>2. SUFFICES ASSUME SetsMayBeMissing = FALSE PROVE Spec => []EndsOnce
  OBVIOUS
<1>3. IInv => EndsOnce
  BY <1>1, <1>2
<1>4. QED
  BY <1>3, Begun, Inductive, PTL DEF Spec

-----------------------------------------------------------------------------
(* What the host is told, and what becomes of the current load.              *)

Message == {"login", "load"} \X Results

\* The host is called back with an end of a load, if at all.
LEMMA CallBackTold ==
  ASSUME NEW c \in Clients, NEW l \in DOMAIN c.loads, NEW result
  PROVE  CallBack(c, l, result).told = IF c.loads[l].callback THEN Append(c.told, <<"load", result>>)
                                       ELSE c.told
BY DEF CallBack, Tell, Clients

\* Releasing a load tells nothing.
LEMMA FreeLoadTold ==
  ASSUME NEW c \in Clients, NEW l
  PROVE  FreeLoad(c, l).told = c.told
BY DEF FreeLoad, Clients

\* Nor does the beginning of a request.
LEMMA BeginLoadStateTold ==
  ASSUME NEW c \in Clients, NEW l, NEW state
  PROVE  BeginLoadState(c, l, state).told = c.told
BY DEF BeginLoadState, Clients

\* Nor does counting the answer of the current load or of one that is over.
LEMMA EndLoadStateTold ==
  ASSUME NEW c \in Clients, NEW l \in DOMAIN c.loads,
         c.load = l \/ c.loads[l].progress = "aborted"
  PROVE  EndLoadState(c, l).c.told = c.told
<1> DEFINE left == IF c.loads[l].outstanding > 0 THEN c.loads[l].outstanding - 1 ELSE 0
           d == [c EXCEPT !.loads[l].outstanding = left]
           told == IF c.loads[l].progress = "aborted" THEN d ELSE CallBack(d, l, "aborted")
           v == [c.loads[l] EXCEPT !.outstanding = left]
           a == [c EXCEPT !.loads = [c.loads EXCEPT ![l] = v]]
<1>1. c.loads[l] \in Loads
  BY LoadType
<1>2. left \in Nat
  BY <1>1 DEF Loads
<1>3. EndLoadState(c, l) =
        IF c.load = l THEN [c |-> d, current |-> TRUE, left |-> left]
        ELSE [c |-> IF left = 0 THEN FreeLoad(told, l) ELSE d, current |-> FALSE, left |-> left]
  BY Zenon DEF EndLoadState
<1>4. d = a
  BY Zenon
<1> HIDE DEF left
<1>5. v \in Loads
  BY <1>1, <1>2, LoadFields
<1> HIDE DEF v
<1>6. LoadChanged(c, a, l)
  BY <1>5, EditLoad
<1>7. d.told = c.told
  BY DEF Clients
<1>8. d \in Clients
  BY <1>4, <1>6 DEF LoadChanged
<1> HIDE DEF d, a
<1>9. CASE c.load = l
  <2>1. EndLoadState(c, l).c = d
    BY <1>3, <1>9
  <2>2. QED
    BY <1>7, <2>1
<1>10. CASE c.load # l /\ c.loads[l].progress = "aborted"
  <2>1. EndLoadState(c, l).c = IF left = 0 THEN FreeLoad(d, l) ELSE d
    BY <1>3, <1>10
  <2>2. QED
    BY <1>7, <1>8, <2>1, FreeLoadTold
<1>11. QED
  BY <1>9, <1>10

\* The host hears of a load that failed once, unless it has given up hearing of it.
LEMMA LoadErrorTold ==
  ASSUME NEW c \in Clients, NEW l \in DOMAIN c.loads, NEW result \in Results
  PROVE  LoadError(c, l, result).told = IF c.loads[l].callback THEN Append(c.told, <<"load", result>>)
                                        ELSE c.told
<1> DEFINE v == [c.loads[l] EXCEPT !.progress = "aborted"]
           a == [c EXCEPT !.loads = [c.loads EXCEPT ![l] = v]]
           n == IF c.load = l THEN 0 ELSE c.load
           b == [a EXCEPT !.load = n]
           t == CallBack(b, l, result)
           d == LoadError(c, l, result)
<1>1. c.loads[l] \in Loads
  BY LoadType
<1>2. v \in Loads /\ n \in Nat
  BY <1>1, LoadFields DEF Progresses, Clients
<1>3. v.callback = c.loads[l].callback
  BY <1>1 DEF Loads
<1>4. d = IF t.loads[l].outstanding = 0 THEN FreeLoad(t, l) ELSE t
  <2>1. b = [c EXCEPT !.loads[l].progress = "aborted", !.load = IF @ = l THEN 0 ELSE @]
    BY Zenon DEF Clients
  <2>2. QED
    BY <2>1, Zenon DEF LoadError
<1>5. a.told = c.told
  BY DEF Clients
<1> HIDE DEF v, d, n
<1>6. LoadChanged(c, a, l) /\ a.loads[l] = v
  BY <1>2, EditLoad
<1>7. a \in Clients /\ l \in DOMAIN a.loads
  BY <1>6 DEF LoadChanged, Clients
<1> HIDE DEF a
<1>8. b \in Clients /\ b.loads = a.loads /\ b.told = a.told
  BY <1>2, <1>7 DEF Clients
<1> HIDE DEF b
<1>9. t.told = IF v.callback THEN Append(c.told, <<"load", result>>) ELSE c.told
  BY <1>5, <1>6, <1>7, <1>8, CallBackTold
<1>10. t \in Clients
  BY <1>7, <1>8, CallBackChanges DEF LoadChanged
<1> HIDE DEF t
<1>11. d.told = t.told
  BY <1>4, <1>10, FreeLoadTold
<1>12. QED
  BY <1>3, <1>9, <1>11 DEF d

\* Nobody hears of a load that was aborted before its answer came.
LEMMA LoadAbortedTold ==
  ASSUME NEW c \in Clients, NEW l \in DOMAIN c.loads
  PROVE  LoadAborted(c, l).told = c.told
<1> DEFINE v == [c.loads[l] EXCEPT !.callback = FALSE]
           a == [c EXCEPT !.loads = [c.loads EXCEPT ![l] = v]]
           b == LoadError(a, l, "aborted")
<1>1. c.loads[l] \in Loads /\ "aborted" \in Results
  BY LoadType DEF Results
<1>2. v \in Loads
  BY <1>1, LoadFields, FALSE \in BOOLEAN, Zenon
<1>3. ~v.callback
  BY <1>1 DEF Loads
<1>4. LoadAborted(c, l) = EndLoadState(b, l).c
  <2>1. a = [c EXCEPT !.loads[l].callback = FALSE]
    BY Zenon
  <2>2. QED
    BY <2>1, Zenon DEF LoadAborted
<1>5. a.told = c.told
  BY DEF Clients
<1> HIDE DEF v
<1>6. LoadChanged(c, a, l) /\ a.loads[l] = v
  BY <1>2, EditLoad
<1>7. a \in Clients /\ l \in DOMAIN a.loads
  BY <1>6 DEF LoadChanged, Clients
<1> HIDE DEF a
<1>8. b.told = a.told
  BY <1>1, <1>3, <1>6, <1>7, LoadErrorTold
<1>9. LoadChanged(a, b, l) /\ b.loads[l].progress = "aborted"
  BY <1>1, <1>7, LoadErrorChanges
<1>10. b \in Clients /\ l \in DOMAIN b.loads
  BY <1>7, <1>9 DEF LoadChanged, Clients
<1> HIDE DEF b
<1>11. EndLoadState(b, l).c.told = b.told
  BY <1>9, <1>10, EndLoadStateTold
<1>12. QED
  BY <1>4, <1>5, <1>8, <1>11

-----------------------------------------------------------------------------
(* The client of a host that never asks for a game before a sign-in is over, *)
(* and never gives up a sign-in.                                             *)

LoginsOf(c) == {r \in c.flight : r.kind = "login"}

\* One sign-in at most is on its way, and nothing is played or loaded before it
\* is over; what is loaded or played counts for the user who is signed in.
Signed(c) ==
  /\ c.dropped = {}
  /\ LoginsOf(c) # {} => c.user = "requested"
  /\ \A r, s \in LoginsOf(c) : r = s
  /\ c.user # "loggedin" => c.load = 0 /\ c.game = NoGame
  /\ c.load # 0 => c.loads[c.load].progress # "await_login"
  /\ c.game.identified => c.game.as = c.name
  /\ \A r \in c.flight : r.kind = "session" /\ r.of = c.load => c.loads[r.of].as = c.name

\* d differs from c, apart from what the operations of load l are about, in
\* nothing that Signed or the host looks at.
Common(c, d, l) ==
  /\ d.user = c.user /\ d.name = c.name /\ d.dropped = c.dropped
  /\ Len(d.loads) = Len(c.loads)
  /\ \A k \in DOMAIN c.loads : k # l => d.loads[k] = c.loads[k]
  /\ d.loads[l].hash = c.loads[l].hash

Alike(c, d, l) ==
  /\ Common(c, d, l)
  /\ d.loads[l].as = c.loads[l].as
  /\ d.load = c.load /\ d.game = c.game /\ d.told = c.told /\ d.flight = c.flight

\* The load is over: with the game, with a game of no identity or without one.
Over(c, d, l) ==
  /\ c.load = l /\ d.load = 0 /\ d.flight = c.flight
  /\ d.told = c.told \/ \E t \in Results : d.told = Append(c.told, <<"load", t>>)
  /\ d.game = c.game \/ (d.game.hash = c.loads[l].hash /\ (d.game.identified => d.game.as = c.name))

\* The load goes on, with a request for the user who is signed in or without one.
Goes(c, d, l) ==
  /\ d.load = c.load /\ d.game = c.game /\ d.told = c.told
  /\ d.loads[l].as \in {c.loads[l].as, c.name}
  /\ c.load = l => d.loads[l].progress # "await_login"
  /\ \/ d.flight = c.flight
     \/ c.load = l /\ d.flight = c.flight \cup {Request("sets", l, c.name)}
     \/ /\ c.load = l /\ d.flight = c.flight \cup {Request("session", l, c.name)}
        /\ d.loads[l].as = c.name

Served(c, d, l) == Common(c, d, l) /\ (Over(c, d, l) \/ Goes(c, d, l))

\* An operation of a load keeps the client signed.
LEMMA ServedSigned ==
  ASSUME NEW c, NEW d, NEW l \in DOMAIN c.loads, Sound(c), Signed(c), Served(c, d, l)
  PROVE  Signed(d)
<1>1. c \in Clients /\ l # 0 /\ c.load \in 0 .. Len(c.loads)
  BY DEF Sound, Typed, Clients
<1>2. LoginsOf(d) = LoginsOf(c)
  BY DEF Served, Over, Goes, LoginsOf, Request
<1>3. d.user # "loggedin" => d.load = 0 /\ d.game = NoGame
  BY <1>1 DEF Served, Common, Over, Goes, Signed
<1>4. d.load # 0 => d.loads[d.load].progress # "await_login"
  <2>1. CASE c.load = l
    BY <1>1, <2>1 DEF Served, Common, Over, Goes, Signed
  <2>2. CASE c.load # l
    <3>1. d.load = c.load /\ (c.load # 0 => c.load \in DOMAIN c.loads)
      BY <1>1, <2>2 DEF Served, Over, Goes, Clients
    <3>2. QED
      BY <2>2, <3>1 DEF Served, Common, Signed
  <2>3. QED
    BY <2>1, <2>2
<1>5. d.game.identified => d.game.as = d.name
  BY DEF Served, Common, Over, Goes, Signed
<1>6. ASSUME NEW r \in d.flight, r.kind = "session", r.of = d.load
      PROVE  d.loads[r.of].as = d.name
  <2>1. CASE Over(c, d, l)
    <3>1. r \in c.flight /\ r.of = 0
      BY <1>6, <2>1 DEF Over
    <3>2. r.of \in DOMAIN c.loads
      BY <1>6, <3>1 DEF Sound, Typed
    <3>3. QED
      BY <1>1, <3>1, <3>2 DEF Clients
  <2>2. CASE Goes(c, d, l)
    <3>1. CASE r \in c.flight /\ c.load # l
      <4>1. r.of \in DOMAIN c.loads /\ r.of # l
        BY <1>6, <2>2, <3>1 DEF Sound, Typed, Goes
      <4>2. c.loads[r.of].as = c.name
        BY <1>6, <2>2, <3>1 DEF Goes, Signed
      <4>3. QED
        BY <4>1, <4>2 DEF Served, Common
    <3>2. CASE r \in c.flight /\ c.load = l
      <4>1. r.of = l /\ c.loads[l].as = c.name
        BY <1>6, <2>2, <3>2 DEF Goes, Signed
      <4>2. QED
        BY <2>2, <4>1 DEF Goes, Served, Common
    <3>3. CASE r \notin c.flight
      <4>1. d.loads[l].as = c.name /\ r.of = l
        BY <1>6, <2>2, <3>3 DEF Goes, Request
      <4>2. QED
        BY <4>1 DEF Served, Common
    <3>4. QED
      BY <3>1, <3>2, <3>3
  <2>3. QED
    BY <2>1, <2>2 DEF Served
<1>7. QED
  BY <1>2, <1>3, <1>4, <1>5, <1>6 DEF Signed, Served, Common

\* Counting an answer before a load is served changes nothing of that.
LEMMA AlikeServed ==
  ASSUME NEW c, NEW x, NEW d, NEW l \in DOMAIN c.loads, c \in Clients, x \in Clients,
         Alike(c, x, l), Served(x, d, l)
  PROVE  Served(c, d, l)
<1>1. DOMAIN x.loads = DOMAIN c.loads
  BY DEF Alike, Common, Clients
<1>2. Common(c, d, l)
  BY <1>1 DEF Alike, Served, Common
<1>3. ASSUME Over(x, d, l) PROVE Over(c, d, l)
  BY <1>3 DEF Alike, Common, Over
<1>4. ASSUME Goes(x, d, l) PROVE Goes(c, d, l)
  BY <1>4 DEF Alike, Common, Goes
<1>5. QED
  BY <1>2, <1>3, <1>4 DEF Served

\* What the helpers change keeps a client alike.
LEMMA ChangedAlike ==
  ASSUME NEW c, NEW d, NEW l, LoadChanged(c, d, l), SameLoad(c, d, l), d.load = c.load, d.told = c.told
  PROVE  Alike(c, d, l)
BY DEF LoadChanged, SameLoad, Alike, Common

\* Two changes that keep a client alike.
LEMMA AlikeTransitive ==
  ASSUME NEW c, NEW x, NEW d, NEW l \in DOMAIN c.loads, c \in Clients, x \in Clients,
         Alike(c, x, l), Alike(x, d, l)
  PROVE  Alike(c, d, l)
<1>1. DOMAIN x.loads = DOMAIN c.loads
  BY DEF Alike, Common, Clients
<1>2. QED
  BY <1>1 DEF Alike, Common

\* The current load fails.
LEMMA LoadErrorServed ==
  ASSUME NEW c \in Clients, NEW l \in DOMAIN c.loads, NEW result \in Results, c.load = l
  PROVE  Served(c, LoadError(c, l, result), l)
<1> DEFINE d == LoadError(c, l, result)
<1>1. LoadChanged(c, d, l) /\ SameLoad(c, d, l) /\ d.load = 0
  BY LoadErrorChanges
<1>2. d.told = IF c.loads[l].callback THEN Append(c.told, <<"load", result>>) ELSE c.told
  BY LoadErrorTold
<1> HIDE DEF d
<1>3. Over(c, d, l)
  BY <1>1, <1>2 DEF Over, LoadChanged
<1>4. Common(c, d, l)
  BY <1>1 DEF Common, LoadChanged, SameLoad
<1>5. QED
  BY <1>3, <1>4 DEF Served, d

\* An aborted load ends and nobody hears of it.
LEMMA LoadAbortedServed ==
  ASSUME NEW c \in Clients, NEW l \in DOMAIN c.loads
  PROVE  Served(c, LoadAborted(c, l), l)
<1> DEFINE d == LoadAborted(c, l)
<1>1. LoadChanged(c, d, l) /\ SameLoad(c, d, l) /\ d.load = IF c.load = l THEN 0 ELSE c.load
  BY LoadAbortedChanges
<1>2. d.told = c.told
  BY LoadAbortedTold
<1> HIDE DEF d
<1>3. Common(c, d, l)
  BY <1>1 DEF Common, LoadChanged, SameLoad
<1>4. CASE c.load = l
  BY <1>1, <1>2, <1>3, <1>4 DEF Served, Over, LoadChanged, d
<1>5. CASE c.load # l
  BY <1>1, <1>2, <1>3, <1>5 DEF Served, Goes, LoadChanged, SameLoad, d
<1>6. QED
  BY <1>4, <1>5

\* The sets of the current load are asked for.
LEMMA BeginFetchGameSetsServed ==
  ASSUME NEW c \in Clients, NEW l \in DOMAIN c.loads, c.load = l, c.user = "loggedin"
  PROVE  LET d == BeginFetchGameSets(c, l)
         IN  Served(c, d, l) /\ d.game = c.game
<1> DEFINE d == BeginFetchGameSets(c, l)
           b == BeginLoadState(c, l, "identifying")
<1>1. d = [b EXCEPT !.flight = @ \cup {Request("sets", l, c.name)}]
  BY DEF BeginFetchGameSets
<1>2. /\ LoadChanged(c, b, l) /\ SameLoad(c, b, l) /\ b.load = c.load
      /\ b.loads[l].progress = "identifying"
  BY BeginLoadStateChanges DEF Progresses
<1>3. b.told = c.told
  BY BeginLoadStateTold
<1> HIDE DEF b, d
<1>4. /\ d.user = b.user /\ d.name = b.name /\ d.dropped = b.dropped /\ d.loads = b.loads
      /\ d.load = b.load /\ d.game = b.game /\ d.told = b.told
      /\ d.flight = b.flight \cup {Request("sets", l, c.name)}
  BY <1>1, <1>2 DEF LoadChanged, Clients
<1>5. Common(c, d, l)
  BY <1>2, <1>4 DEF Common, LoadChanged, SameLoad
<1>6. Goes(c, d, l)
  BY <1>2, <1>3, <1>4 DEF Goes, LoadChanged, SameLoad
<1>7. QED
  BY <1>2, <1>4, <1>5, <1>6 DEF Served, LoadChanged, d

\* A hash no game is known for ends the load with a game of no identity.
LEMMA ProcessResolvedHashServed ==
  ASSUME NEW c \in Clients, NEW l \in DOMAIN c.loads, c.load = l, c.user = "loggedin"
  PROVE  LET d == ProcessResolvedHash(c, l)
         IN  Served(c, d, l) /\ (d.game = c.game \/ ~d.game.identified)
<1>1. CASE c.hashes[c.loads[l].hash] # "none"
  <2>1. ProcessResolvedHash(c, l) = BeginFetchGameSets(c, l)
    BY <1>1 DEF ProcessResolvedHash
  <2>2. QED
    BY <2>1, BeginFetchGameSetsServed
<1>2. CASE c.hashes[c.loads[l].hash] = "none"
  <2> DEFINE g == [hash |-> c.loads[l].hash, identified |-> FALSE, as |-> Nobody, from |-> l]
             a == [c EXCEPT !.game = g]
             v == [c.loads[l] EXCEPT !.game = FALSE]
             e == [a EXCEPT !.loads = [a.loads EXCEPT ![l] = v]]
             d == LoadError(e, l, "no_game_loaded")
  <2>1. l \in Nat /\ c.loads[l] \in Loads
    BY LoadType DEF Clients
  <2>2. g \in Games
    <3>1. FALSE \in BOOLEAN /\ Nobody \in Names /\ c.loads[l].hash \in Hashes
      BY <2>1 DEF Names, Loads
    <3>2. \A h \in Hashes, b \in BOOLEAN, u \in Names, n \in Nat :
             [hash |-> h, identified |-> b, as |-> u, from |-> n] \in Games
      BY DEF Games
    <3>3. QED
      BY <2>1, <3>1, <3>2, Zenon
  <2>3. v \in Loads
    BY <2>1, LoadFields, FALSE \in BOOLEAN, Zenon
  <2>4. v.hash = c.loads[l].hash /\ v.as = c.loads[l].as
    BY <2>1 DEF Loads
  <2>5. ProcessResolvedHash(c, l) = d
    <3>1. a.loads = c.loads
      BY DEF Clients
    <3>2. e = [c EXCEPT !.game = g, !.loads[l].game = FALSE]
      BY <3>1, Zenon
    <3>3. QED
      BY <1>2, <3>2, Zenon DEF ProcessResolvedHash
  <2>6. g.hash = c.loads[l].hash /\ ~g.identified
    OBVIOUS
  <2> HIDE DEF g, v
  <2>7. /\ a \in Clients /\ a.loads = c.loads /\ a.game = g /\ a.flight = c.flight
        /\ a.load = c.load /\ a.told = c.told /\ a.user = c.user /\ a.name = c.name
        /\ a.dropped = c.dropped
    BY <2>2 DEF Clients
  <2>8. e.told = c.told
    BY DEF Clients
  <2> HIDE DEF a
  <2>9. LoadChanged(a, e, l) /\ e.loads[l] = v /\ e.load = l
    BY <2>3, <2>7, EditLoad
  <2>10. e \in Clients /\ l \in DOMAIN e.loads /\ "no_game_loaded" \in Results
    BY <2>7, <2>9 DEF LoadChanged, Clients, Results
  <2> HIDE DEF e
  <2>11. LoadChanged(e, d, l) /\ SameLoad(e, d, l) /\ d.load = 0
    BY <2>9, <2>10, LoadErrorChanges
  <2>12. d.told = c.told \/ d.told = Append(c.told, <<"load", "no_game_loaded">>)
    <3>1. d.told = IF e.loads[l].callback THEN Append(e.told, <<"load", "no_game_loaded">>) ELSE e.told
      BY <2>10, LoadErrorTold
    <3> HIDE DEF d
    <3>2. QED
      BY <2>8, <3>1
  <2> HIDE DEF d
  <2>13. Common(c, d, l)
    <3>1. DOMAIN e.loads = DOMAIN c.loads
      BY <2>7, <2>9, <2>10 DEF LoadChanged, Clients
    <3>2. QED
      BY <2>4, <2>7, <2>9, <2>11, <3>1 DEF Common, LoadChanged, SameLoad
  <2>14. Over(c, d, l)
    BY <2>6, <2>7, <2>9, <2>10, <2>11, <2>12 DEF Over, LoadChanged
  <2>15. d.game = g
    BY <2>7, <2>9, <2>11 DEF LoadChanged
  <2>16. QED
    BY <2>5, <2>6, <2>13, <2>14, <2>15 DEF Served
<1>3. QED
  BY <1>1, <1>2

\* The session of the current load is asked for.
LEMMA BeginStartSessionServed ==
  ASSUME NEW c \in Clients, NEW l \in DOMAIN c.loads, c.load = l
  PROVE  Served(c, BeginStartSession(c, l), l) /\ BeginStartSession(c, l).load = l
<1> DEFINE r == Request("session", l, c.name)
           b == BeginLoadState(c, l, "starting_session")
           f == [b EXCEPT !.flight = @ \cup {r}]
           v == [f.loads[l] EXCEPT !.as = c.name]
           d == [f EXCEPT !.loads = [f.loads EXCEPT ![l] = v]]
<1>1. c.name \in Names /\ "starting_session" \in Progresses /\ r \in Requests
  BY DEF Clients, Progresses, Request, Requests
<1>2. BeginStartSession(c, l) = d
  BY Zenon DEF BeginStartSession
<1>3. /\ LoadChanged(c, b, l) /\ SameLoad(c, b, l) /\ b.load = c.load
      /\ b.loads[l].progress = "starting_session"
  BY <1>1, BeginLoadStateChanges
<1>4. b.told = c.told
  BY BeginLoadStateTold
<1> HIDE DEF b, r
<1>5. b \in Clients /\ l \in DOMAIN b.loads
  BY <1>3 DEF LoadChanged, Clients
<1>6. /\ f \in Clients /\ f.loads = b.loads /\ f.load = b.load /\ f.told = b.told
      /\ f.flight = b.flight \cup {r}
      /\ f.user = b.user /\ f.name = b.name /\ f.dropped = b.dropped /\ f.game = b.game
  BY <1>1, <1>5 DEF Clients
<1>7. d.told = f.told
  BY <1>6 DEF Clients
<1> HIDE DEF f
<1>8. f.loads[l] \in Loads
  BY <1>5, <1>6, LoadType
<1>9. v \in Loads
  BY <1>1, <1>8, LoadFields
<1>10. v.as = c.name /\ v.progress = f.loads[l].progress /\ v.hash = f.loads[l].hash
  BY <1>8 DEF Loads
<1> HIDE DEF v
<1>11. LoadChanged(f, d, l) /\ d.loads[l] = v /\ d.load = f.load
  BY <1>5, <1>6, <1>9, EditLoad
<1> HIDE DEF d
<1>12. Common(c, d, l)
  <2>1. DOMAIN f.loads = DOMAIN c.loads
    BY <1>3, <1>5, <1>6 DEF LoadChanged, Clients
  <2>2. QED
    BY <1>3, <1>6, <1>10, <1>11, <2>1 DEF Common, LoadChanged, SameLoad
<1>13. Goes(c, d, l)
  BY <1>3, <1>4, <1>6, <1>7, <1>10, <1>11 DEF Goes, LoadChanged, r
<1>14. QED
  BY <1>2, <1>3, <1>6, <1>11, <1>12, <1>13 DEF Served

\* The current load is answered with a game: its session is asked for.
LEMMA IdentifiedGameServed ==
  ASSUME NEW c, NEW l \in DOMAIN c.loads, NEW reply, Sound(c), c.load = l, reply # "empty"
  PROVE  Served(c, IdentifiedGame(c, l, reply), l)
<1> DEFINE a == [c EXCEPT !.hashes[c.loads[l].hash] = "game"]
           b == BeginLoadState(a, l, "starting_session")
           s == BeginStartSession(b, l)
           e == EndLoadState(s, l)
           d == e.c
<1>1. c \in Clients /\ l # 0 /\ c.loads[l] \in Loads /\ c.loads[l].hash \in Hashes
      /\ "starting_session" \in Progresses
  <2>1. c \in Clients /\ l # 0
    BY DEF Sound, Typed, Clients
  <2>2. c.loads[l] \in Loads
    BY <2>1, LoadType
  <2>3. QED
    BY <2>1, <2>2 DEF Loads, Progresses
<1>2. /\ a \in Clients /\ a.loads = c.loads /\ a.load = c.load /\ a.flight = c.flight
      /\ a.game = c.game /\ a.pings = c.pings /\ a.told = c.told
      /\ a.user = c.user /\ a.name = c.name /\ a.dropped = c.dropped
  BY <1>1 DEF Clients
<1>3. IdentifiedGame(c, l, reply) = IF e.current /\ e.left = 0 THEN ActivateGame(e.c, l) ELSE e.c
  <2>1. ~(reply = "empty")
    OBVIOUS
  <2>2. QED
    BY <2>1, Zenon DEF IdentifiedGame
<1> HIDE DEF a
<1>4. \A k : RequestsOf(a, k) = RequestsOf(c, k)
  BY <1>2 DEF RequestsOf
<1>5. Sound(a)
  BY <1>2, <1>4, OtherRequests
<1>6. /\ LoadChanged(a, b, l) /\ SameLoad(a, b, l) /\ b.load = a.load /\ b.told = a.told
      /\ b.loads[l].outstanding = c.loads[l].outstanding + 1
  BY <1>1, <1>2, BeginLoadStateChanges, BeginLoadStateTold
<1>7. Sound(b) /\ b \in Clients /\ l \in DOMAIN b.loads
  <2>1. Sound(b)
    BY <1>2, <1>5, <1>6, SoundKept
  <2>2. QED
    BY <1>1, <1>2, <1>6, <2>1 DEF LoadChanged, Clients
<1>8. Alike(c, b, l)
  <2>1. Alike(a, b, l)
    BY <1>6, ChangedAlike
  <2>2. Alike(c, a, l)
    BY <1>2 DEF Alike, Common
  <2>3. QED
    BY <1>1, <1>2, <2>1, <2>2, AlikeTransitive
<1> HIDE DEF b
<1>9. Served(b, s, l) /\ s.load = l
  BY <1>2, <1>6, <1>7, BeginStartSessionServed
<1>10. /\ Sound(s) /\ l \in DOMAIN s.loads
       /\ s.loads[l].progress = "starting_session"
       /\ s.loads[l].outstanding = b.loads[l].outstanding + 1
  BY <1>7, BeginStartSessionChanges
<1> HIDE DEF s
<1>11. Served(c, s, l)
  BY <1>1, <1>7, <1>8, <1>9, AlikeServed
<1>12. s \in Clients /\ s.loads[l].outstanding > 0 /\ s.loads[l].outstanding - 1 # 0
  BY <1>1, <1>6, <1>10 DEF Sound, Typed, Loads
<1>13. /\ LoadChanged(s, d, l) /\ SameLoad(s, d, l) /\ d.load = s.load
       /\ d.loads[l].progress = s.loads[l].progress /\ e.left # 0
  BY <1>10, <1>12, EndLoadStateChanges
<1>14. d.told = s.told
  BY <1>9, <1>10, <1>12, EndLoadStateTold
<1>15. IdentifiedGame(c, l, reply) = d
  BY <1>3, <1>13
<1> HIDE DEF e, d
<1>16. Common(c, d, l)
  <2>1. DOMAIN s.loads = DOMAIN c.loads
    BY <1>1, <1>11, <1>12 DEF Served, Common, Clients
  <2>2. QED
    BY <1>11, <1>13, <2>1 DEF Served, Common, LoadChanged, SameLoad
<1>17. Goes(c, d, l)
  <2>1. Goes(c, s, l)
    BY <1>1, <1>9, <1>11 DEF Served, Over
  <2>2. QED
    BY <1>10, <1>13, <1>14, <2>1 DEF Goes, LoadChanged, SameLoad
<1>18. QED
  BY <1>15, <1>16, <1>17 DEF Served

\* The current load becomes the game, for the user it was loaded for.
LEMMA ActivateGameServed ==
  ASSUME NEW c \in Clients, NEW l \in DOMAIN c.loads, c.load = l, c.loads[l].as = c.name
  PROVE  Served(c, ActivateGame(c, l), l)
<1> DEFINE g == [hash |-> c.loads[l].hash, identified |-> TRUE, as |-> c.loads[l].as, from |-> l]
           p == [c.pings EXCEPT ![g.hash] = @ + 1]
           a == [c EXCEPT !.game = g, !.load = 0, !.pings = p]
           v == [c.loads[l] EXCEPT !.progress = "done", !.game = FALSE]
           e == [a EXCEPT !.loads = [a.loads EXCEPT ![l] = v]]
           f == CallBack(e, l, "ok")
           d == FreeLoad(f, l)
<1>1. l \in Nat /\ c.loads[l] \in Loads
  BY LoadType DEF Clients
<1>2. g \in Games
  <2>1. TRUE \in BOOLEAN /\ c.loads[l].as \in Names /\ c.loads[l].hash \in Hashes
    BY <1>1 DEF Loads
  <2>2. \A h \in Hashes, b \in BOOLEAN, u \in Names, n \in Nat :
           [hash |-> h, identified |-> b, as |-> u, from |-> n] \in Games
    BY DEF Games
  <2>3. QED
    BY <1>1, <2>1, <2>2, Zenon
<1>3. v \in Loads
  <2>1. [c.loads[l] EXCEPT !.progress = "done"] \in Loads
    BY <1>1, LoadFields DEF Progresses
  <2>2. QED
    BY <2>1, LoadFields, FALSE \in BOOLEAN, Zenon
<1>4. v.hash = c.loads[l].hash
  BY <1>1 DEF Loads
<1>5. g.hash = c.loads[l].hash /\ g.as = c.name /\ g.hash \in Hashes
  BY <1>1 DEF Loads
<1>6. p \in [Hashes -> Nat]
  <2>1. c.pings \in [Hashes -> Nat]
    BY DEF Clients
  <2> HIDE DEF g
  <2>2. QED
    BY <1>5, <2>1
<1>7. ActivateGame(c, l) = d
  <2>1. a.loads = c.loads
    BY DEF Clients
  <2>2. e = [c EXCEPT !.game = g, !.load = 0, !.pings[g.hash] = @ + 1,
                      !.loads[l].progress = "done", !.loads[l].game = FALSE]
    BY <2>1, Zenon
  <2>3. QED
    BY <2>2, Zenon DEF ActivateGame
<1> HIDE DEF g, p, v
<1>8. /\ a \in Clients /\ a.loads = c.loads /\ a.game = g /\ a.flight = c.flight
      /\ a.load = 0 /\ a.told = c.told /\ a.user = c.user /\ a.name = c.name
      /\ a.dropped = c.dropped
  BY <1>1, <1>2, <1>6 DEF Clients
<1>9. e.told = c.told
  BY <1>8 DEF Clients
<1> HIDE DEF a
<1>10. LoadChanged(a, e, l) /\ e.loads[l] = v /\ e.load = 0
  BY <1>3, <1>8, EditLoad
<1>11. e \in Clients /\ l \in DOMAIN e.loads /\ "ok" \in Results
  BY <1>8, <1>10 DEF LoadChanged, Clients, Results
<1> HIDE DEF e
<1>12. LoadChanged(e, f, l) /\ SameLoad(e, f, l) /\ f.load = 0
  BY <1>10, <1>11, CallBackChanges
<1>13. f.told = c.told \/ f.told = Append(c.told, <<"load", "ok">>)
  <2>1. f.told = IF e.loads[l].callback THEN Append(e.told, <<"load", "ok">>) ELSE e.told
    BY <1>11, CallBackTold
  <2> HIDE DEF f
  <2>2. QED
    BY <1>9, <2>1
<1>14. f \in Clients /\ l \in DOMAIN f.loads
  BY <1>11, <1>12 DEF LoadChanged, Clients
<1> HIDE DEF f
<1>15. LoadChanged(f, d, l) /\ SameLoad(f, d, l) /\ d.load = 0 /\ d.told = f.told
  BY <1>12, <1>14, FreeLoadChanges, FreeLoadTold
<1> HIDE DEF d
<1>16. LoadChanged(e, d, l) /\ d.loads[l].hash = v.hash
  BY <1>10, <1>11, <1>12, <1>15, ChangedTransitive DEF SameLoad
<1>17. Common(c, d, l)
  <2>1. DOMAIN e.loads = DOMAIN c.loads
    BY <1>8, <1>10, <1>11 DEF LoadChanged, Clients
  <2>2. QED
    BY <1>4, <1>8, <1>10, <1>16, <2>1 DEF Common, LoadChanged
<1>18. Over(c, d, l)
  BY <1>5, <1>8, <1>10, <1>11, <1>13, <1>15, <1>16 DEF Over, LoadChanged
<1>19. QED
  BY <1>7, <1>17, <1>18 DEF Served

\* A client whose request was answered, with r no more on its way.
LEMMA WithoutSigned ==
  ASSUME NEW c \in Clients, NEW r \in c.flight, Signed(c)
  PROVE  LET w == Without(c, r)
         IN  /\ Signed(w)
             /\ w.user = c.user /\ w.name = c.name /\ w.dropped = c.dropped /\ w.loads = c.loads
             /\ w.load = c.load /\ w.game = c.game /\ w.told = c.told /\ w.flight = c.flight \ {r}
             /\ w.hashes = c.hashes
<1> DEFINE w == Without(c, r)
<1>1. /\ w.user = c.user /\ w.name = c.name /\ w.dropped = c.dropped /\ w.loads = c.loads
      /\ w.load = c.load /\ w.game = c.game /\ w.told = c.told /\ w.flight = c.flight \ {r}
      /\ w.hashes = c.hashes
  BY DEF Without, Clients
<1> HIDE DEF w
<1>2. Signed(w)
  BY <1>1 DEF Signed, LoginsOf
<1>3. QED
  BY <1>1, <1>2 DEF w

\* The answer to the request for the sets serves its load.
LEMMA FetchGameSetsCallbackServed ==
  ASSUME NEW c, NEW r \in c.flight, r.kind = "sets", NEW reply, reply # "empty",
         Sound(c), Ending(c), Signed(c)
  PROVE  LET d == FetchGameSetsCallback(c, r, reply)
         IN  Served(Without(c, r), d, r.of) /\ Signed(d)
<1> DEFINE l == r.of
           w == Without(c, r)
           e == EndLoadState(w, l)
           x == e.c
           n == [x EXCEPT !.hashes[c.loads[l].hash] = "none"]
           d == FetchGameSetsCallback(c, r, reply)
<1>1. /\ l \in DOMAIN c.loads /\ Sound(w) /\ w.loads = c.loads /\ w.load = c.load
      /\ InHand(w, l)
  BY AnswerInHand
<1>2. Signed(w)
  BY WithoutSigned DEF Sound, Typed
<1>3. d = IF c.loads[l].aborted THEN LoadAborted(w, l)
          ELSE IF reply = "error" THEN LoadError(x, l, "error")
          ELSE IF ~e.current THEN x
          ELSE IF reply = "none" THEN ProcessResolvedHash(n, l)
          ELSE IdentifiedGame(x, l, reply)
  BY Zenon DEF FetchGameSetsCallback
<1> HIDE DEF w, d
<1>4. w \in Clients /\ "error" \in Results /\ l # 0 /\ l \in DOMAIN w.loads
  BY <1>1 DEF Sound, Typed, Clients, Results
<1>5. ASSUME c.loads[l].aborted PROVE Served(w, d, l)
  BY <1>3, <1>4, <1>5, LoadAbortedServed
<1>6. ASSUME ~c.loads[l].aborted PROVE Served(w, d, l)
  <2>1. w.load = l
    BY <1>1, <1>6 DEF InHand
  <2>2. w.user = "loggedin"
    BY <1>2, <1>4, <2>1 DEF Signed
  <2>3. LoadChanged(w, x, l) /\ SameLoad(w, x, l) /\ x.load = w.load /\ e.current /\ Sound(x)
    BY <1>1, <2>1, EndLoadStateReady
  <2>4. x.told = w.told
    BY <1>4, <2>1, EndLoadStateTold
  <2> HIDE DEF x, e
  <2>5. Alike(w, x, l) /\ x \in Clients /\ l \in DOMAIN x.loads /\ x.user = "loggedin"
    <3>1. Alike(w, x, l)
      BY <2>3, <2>4, ChangedAlike
    <3>2. QED
      BY <1>4, <2>2, <2>3, <3>1 DEF LoadChanged, Clients
  <2>6. CASE reply = "error"
    <3>1. d = LoadError(x, l, "error")
      BY <1>3, <1>6, <2>6
    <3>2. Served(x, d, l)
      BY <1>4, <2>1, <2>3, <2>5, <3>1, LoadErrorServed
    <3>3. QED
      BY <1>4, <2>5, <3>2, AlikeServed
  <2>7. CASE reply = "none"
    <3>1. d = ProcessResolvedHash(n, l)
      BY <1>3, <1>6, <2>3, <2>7
    <3>2. c.loads[l].hash \in Hashes
      BY <1>1, <1>4, LoadType DEF Loads
    <3>3. /\ n \in Clients /\ n.loads = x.loads /\ n.load = x.load /\ n.flight = x.flight
          /\ n.game = x.game /\ n.told = x.told /\ n.user = x.user /\ n.name = x.name
          /\ n.dropped = x.dropped
      BY <2>5, <3>2 DEF Clients
    <3> HIDE DEF n
    <3>4. Alike(x, n, l)
      BY <3>3 DEF Alike, Common
    <3>5. Served(n, d, l)
      BY <2>1, <2>3, <2>5, <3>1, <3>3, ProcessResolvedHashServed
    <3>6. Served(x, d, l)
      BY <2>5, <3>3, <3>4, <3>5, AlikeServed
    <3>7. QED
      BY <1>4, <2>5, <3>6, AlikeServed
  <2>8. CASE reply \notin {"error", "none"}
    <3>1. d = IdentifiedGame(x, l, reply)
      BY <1>3, <1>6, <2>3, <2>8
    <3>2. Served(x, d, l)
      BY <2>1, <2>3, <2>5, <3>1, IdentifiedGameServed
    <3>3. QED
      BY <1>4, <2>5, <3>2, AlikeServed
  <2>9. QED
    BY <2>6, <2>7, <2>8
<1>7. Served(w, d, l)
  BY <1>5, <1>6
<1>8. Signed(d)
  BY <1>1, <1>2, <1>4, <1>7, ServedSigned
<1>9. QED
  BY <1>7, <1>8 DEF w, d

\* The answer to the request for the session serves its load.
LEMMA StartSessionCallbackServed ==
  ASSUME NEW c, NEW r \in c.flight, r.kind = "session", NEW reply,
         Sound(c), Ending(c), Signed(c)
  PROVE  LET d == StartSessionCallback(c, r, reply)
         IN  Served(Without(c, r), d, r.of) /\ Signed(d)
<1> DEFINE l == r.of
           w == Without(c, r)
           e == EndLoadState(w, l)
           x == e.c
           d == StartSessionCallback(c, r, reply)
<1>1. /\ l \in DOMAIN c.loads /\ Sound(w) /\ w.loads = c.loads /\ w.load = c.load
      /\ InHand(w, l)
  BY AnswerInHand
<1>2. Signed(w) /\ w.name = c.name
  BY WithoutSigned DEF Sound, Typed
<1>3. d = IF c.loads[l].aborted THEN LoadAborted(w, l)
          ELSE IF reply = "error" THEN LoadError(x, l, "error")
          ELSE IF e.current /\ e.left = 0 THEN ActivateGame(x, l)
          ELSE x
  BY Zenon DEF StartSessionCallback
<1> HIDE DEF w, d
<1>4. w \in Clients /\ "error" \in Results /\ l # 0 /\ l \in DOMAIN w.loads
  BY <1>1 DEF Sound, Typed, Clients, Results
<1>5. ASSUME c.loads[l].aborted PROVE Served(w, d, l)
  BY <1>3, <1>4, <1>5, LoadAbortedServed
<1>6. ASSUME ~c.loads[l].aborted PROVE Served(w, d, l)
  <2>1. w.load = l
    BY <1>1, <1>6 DEF InHand
  <2>2. c.loads[l].as = c.name
    BY <1>1, <2>1 DEF Signed
  <2>3. /\ LoadChanged(w, x, l) /\ SameLoad(w, x, l) /\ x.load = w.load /\ e.current
        /\ e.left = 0
    BY <1>1, <2>1, EndLoadStateReady
  <2>4. x.told = w.told
    BY <1>4, <2>1, EndLoadStateTold
  <2> HIDE DEF x, e
  <2>5. Alike(w, x, l) /\ x \in Clients /\ l \in DOMAIN x.loads
    <3>1. Alike(w, x, l)
      BY <2>3, <2>4, ChangedAlike
    <3>2. QED
      BY <1>4, <2>3, <3>1 DEF LoadChanged, Clients
  <2>6. CASE reply = "error"
    <3>1. d = LoadError(x, l, "error")
      BY <1>3, <1>6, <2>6
    <3>2. Served(x, d, l)
      BY <1>4, <2>1, <2>3, <2>5, <3>1, LoadErrorServed
    <3>3. QED
      BY <1>4, <2>5, <3>2, AlikeServed
  <2>7. CASE reply # "error"
    <3>1. d = ActivateGame(x, l)
      BY <1>3, <1>6, <2>3, <2>7
    <3>2. x.loads[l].as = x.name
      BY <1>1, <1>2, <2>2, <2>5 DEF Alike, Common
    <3>3. Served(x, d, l)
      BY <2>1, <2>3, <2>5, <3>1, <3>2, ActivateGameServed
    <3>4. QED
      BY <1>4, <2>5, <3>3, AlikeServed
  <2>8. QED
    BY <2>6, <2>7
<1>7. Served(w, d, l)
  BY <1>5, <1>6
<1>8. Signed(d)
  BY <1>1, <1>2, <1>4, <1>7, ServedSigned
<1>9. QED
  BY <1>7, <1>8 DEF w, d

-----------------------------------------------------------------------------
(* What an operation comes to for such a host.                               *)

Hosted(c) == Sound(c) /\ Ending(c) /\ Signed(c)

OnlyLoadsTold(d) == \A n \in DOMAIN d.told : d.told[n][1] = "load"

\* At most one request was made, and it is no sign-in.
Asking(flight, d) ==
  \/ d.flight = flight
  \/ \E q \in Requests : q.kind # "login" /\ d.flight = flight \cup {q}

\* A load of h was begun while there was none.
Loading(c, d, h) ==
  /\ d.user = c.user /\ d.name = c.name
  /\ d.load # 0 => d.load = Len(c.loads) + 1 /\ d.loads[d.load].hash = h /\ d.told = <<>>
  /\ d.game # NoGame => d.game.hash = h /\ ~d.game.identified
  /\ OnlyLoadsTold(d)
  /\ Asking(c.flight, d)
  /\ \A q \in d.flight \ c.flight : q.of = Len(c.loads) + 1

\* A request r of a load was answered.
Answered(c, d, r) ==
  /\ d.user = c.user /\ d.name = c.name
  /\ d.load # 0 => d.load = c.load /\ d.loads[d.load].hash = c.loads[d.load].hash /\ d.told = <<>>
  /\ d.game = c.game \/ (c.load # 0 /\ d.game.hash = c.loads[c.load].hash)
  /\ OnlyLoadsTold(d)
  /\ Asking(c.flight \ {r}, d)
  /\ c.load # r.of => d.game = c.game /\ d.load = c.load /\ d.told = <<>>

\* The host being told is nothing to a client.
LEMMA QuietHosted ==
  ASSUME NEW c, Hosted(c)
  PROVE  LET d == [c EXCEPT !.told = <<>>]
         IN  /\ Hosted(d) /\ d.told = <<>>
             /\ d.user = c.user /\ d.name = c.name /\ d.loads = c.loads /\ d.load = c.load
             /\ d.game = c.game /\ d.flight = c.flight /\ d \in Clients
<1> DEFINE d == [c EXCEPT !.told = <<>>]
<1>1. c \in Clients
  BY DEF Hosted, Sound, Typed
<1>2. Sound(d) /\ Ending(d)
  <2>1. <<>> \in Seq({"login", "load"} \X Results)
    OBVIOUS
  <2>2. QED
    BY <2>1, ToldKeeps DEF Hosted
<1>3. /\ d.user = c.user /\ d.name = c.name /\ d.loads = c.loads /\ d.load = c.load
      /\ d.game = c.game /\ d.flight = c.flight /\ d.dropped = c.dropped /\ d.told = <<>>
  BY <1>1 DEF Clients
<1> HIDE DEF d
<1>4. Signed(d)
  BY <1>3 DEF Hosted, Signed, LoginsOf
<1>5. QED
  BY <1>2, <1>3, <1>4 DEF Hosted, Sound, Typed, d

\* A game without a load that was begun.
LEMMA BeginLoadGameHosted ==
  ASSUME NEW c, NEW h \in Hashes, Hosted(c), c.user = "loggedin", c.load = 0, c.told = <<>>
  PROVE  LET d == BeginLoadGame(c, h)
         IN  Hosted(d) /\ Loading(c, d, h)
<1> DEFINE l == Len(c.loads) + 1
           a == [c EXCEPT !.loads = Append(@, NewLoad(h))]
           e == AttachLoadState(a, l)
           d == BeginLoadGame(c, h)
<1>1. Sound(d) /\ Ending(d)
  BY BeginLoadGameEnds DEF Hosted
<1>2. d = LoadGame(a, l)
  BY Zenon DEF BeginLoadGame, AbortLoadInProgress
<1>3. /\ Sound(e) /\ e.load = l /\ Len(e.loads) = l /\ l \in DOMAIN e.loads
      /\ Ready(e, l)
      /\ e.user = c.user /\ e.name = c.name /\ e.dropped = c.dropped
      /\ e.flight = c.flight /\ e.told = c.told /\ e.game = NoGame
      /\ e.loads[l].hash = h /\ e.loads[l].progress = "none"
      /\ LoadGame(a, l) = IF e.hashes[e.loads[l].hash] = "none" THEN ProcessResolvedHash(e, l)
                          ELSE BeginFetchGameSets(e, l)
  BY NewLoadAttached DEF Hosted
<1> HIDE DEF a, e, d
<1>4. e \in Clients /\ l # 0
  BY <1>3 DEF Sound, Typed, Clients
<1>5. Signed(e)
  <2>1. ~e.game.identified
    BY <1>3 DEF NoGame
  <2>2. ASSUME NEW r \in e.flight, r.kind = "session", r.of = e.load PROVE FALSE
    BY <1>3, <2>2 DEF Ready, RequestsOf
  <2>3. LoginsOf(e) = LoginsOf(c)
    BY <1>3 DEF LoginsOf
  <2>4. QED
    BY <1>3, <2>1, <2>2, <2>3 DEF Signed, Hosted
<1>6. Served(e, d, l) /\ (d.game = e.game \/ ~d.game.identified)
  BY <1>2, <1>3, <1>4, ProcessResolvedHashServed, BeginFetchGameSetsServed
<1>7. Signed(d)
  BY <1>3, <1>5, <1>6, ServedSigned
<1>8. Loading(c, d, h)
  <2>1. d.user = c.user /\ d.name = c.name
    BY <1>3, <1>6 DEF Served, Common
  <2>2. d.load # 0 => d.load = l /\ d.loads[d.load].hash = h /\ d.told = <<>>
    BY <1>3, <1>6 DEF Served, Common, Over, Goes
  <2>3. d.game # NoGame => d.game.hash = h /\ ~d.game.identified
    BY <1>3, <1>6 DEF Served, Over, Goes
  <2>4. OnlyLoadsTold(d)
    <3>1. d.told = <<>> \/ \E t \in Results : d.told = Append(<<>>, <<"load", t>>)
      BY <1>3, <1>6 DEF Served, Over, Goes
    <3>2. QED
      BY <3>1 DEF OnlyLoadsTold
  <2>5. d.flight = c.flight \/ \E k \in {"sets", "session"} : d.flight = c.flight \cup {Request(k, l, c.name)}
    BY <1>3, <1>6 DEF Served, Over, Goes
  <2>6. \A k \in {"sets", "session"} : /\ Request(k, l, c.name) \in Requests
                                       /\ Request(k, l, c.name).kind # "login"
                                       /\ Request(k, l, c.name).of = l
    BY <1>3, <1>4 DEF Request, Requests, Clients
  <2>7. Asking(c.flight, d) /\ \A q \in d.flight \ c.flight : q.of = l
    BY <2>5, <2>6 DEF Asking
  <2>8. QED
    BY <2>1, <2>2, <2>3, <2>4, <2>7 DEF Loading
<1>9. QED
  BY <1>1, <1>7, <1>8 DEF Hosted, d

\* What is left of a game and of a load is its aborted load.
LEMMA UnloadGameHosted ==
  ASSUME NEW c, Hosted(c)
  PROVE  LET d == UnloadGame(c)
         IN  /\ Hosted(d)
             /\ d.user = c.user /\ d.name = c.name /\ d.load = 0 /\ d.game = NoGame
             /\ d.flight = c.flight /\ d.told = c.told /\ Len(d.loads) = Len(c.loads)
<1> DEFINE d == UnloadGame(c)
<1>1. /\ Sound(d) /\ Ending(d) /\ d.load = 0 /\ d.game = NoGame
      /\ d.flight = c.flight /\ d.user = c.user /\ d.name = c.name
      /\ d.dropped = c.dropped /\ d.told = c.told /\ Len(d.loads) = Len(c.loads)
  BY UnloadGameEnds DEF Hosted, Sound, Played
<1> HIDE DEF d
<1>2. ~d.game.identified
  BY <1>1 DEF NoGame
<1>3. \A r \in d.flight : r.kind = "session" => r.of # d.load
  BY <1>1 DEF Sound, Typed, Clients
<1>4. Signed(d)
  BY <1>1, <1>2, <1>3 DEF Signed, LoginsOf, Hosted
<1>5. QED
  BY <1>1, <1>4 DEF Hosted, d

\* The answers of a load.
LEMMA ServedAnswered ==
  ASSUME NEW c, NEW r \in c.flight, r.kind # "login", NEW d, Hosted(c), c.told = <<>>,
         Served(Without(c, r), d, r.of)
  PROVE  Answered(c, d, r)
<1> DEFINE w == Without(c, r)
           l == r.of
<1>1. /\ w.user = c.user /\ w.name = c.name /\ w.loads = c.loads
      /\ w.load = c.load /\ w.game = c.game /\ w.told = <<>> /\ w.flight = c.flight \ {r}
  BY WithoutSigned DEF Hosted, Sound, Typed
<1>2. l \in DOMAIN c.loads /\ l # 0 /\ l \in Nat /\ c \in Clients /\ c.load \in 0 .. Len(c.loads)
      /\ c.name \in Names
  BY DEF Hosted, Sound, Typed, Clients
<1>3. Served(w, d, l)
  OBVIOUS
<1> HIDE DEF w
<1>4. d.user = c.user /\ d.name = c.name
  BY <1>1, <1>3 DEF Served, Common
<1>5. d.load # 0 => d.load = c.load /\ d.loads[d.load].hash = c.loads[c.load].hash /\ d.told = <<>>
  <2>1. d.load # 0 => d.load = c.load /\ d.told = <<>>
    BY <1>1, <1>3 DEF Served, Over, Goes
  <2>2. CASE d.load # 0 /\ d.load # l
    BY <1>1, <1>2, <1>3, <2>1, <2>2 DEF Served, Common, Clients
  <2>3. CASE d.load = l
    BY <1>1, <1>2, <1>3, <2>1, <2>3 DEF Served, Common
  <2>4. QED
    BY <2>1, <2>2, <2>3
<1>6. d.game = c.game \/ (c.load # 0 /\ d.game.hash = c.loads[c.load].hash)
  BY <1>1, <1>2, <1>3 DEF Served, Over, Goes
<1>7. OnlyLoadsTold(d)
  <2>1. d.told = <<>> \/ \E t \in Results : d.told = Append(<<>>, <<"load", t>>)
    BY <1>1, <1>3 DEF Served, Over, Goes
  <2>2. QED
    BY <2>1 DEF OnlyLoadsTold
<1>8. Asking(c.flight \ {r}, d)
  <2>1. d.flight = w.flight \/ \E k \in {"sets", "session"} : d.flight = w.flight \cup {Request(k, l, w.name)}
    BY <1>3 DEF Served, Over, Goes
  <2>2. \A k \in {"sets", "session"} : /\ Request(k, l, c.name) \in Requests
                                       /\ Request(k, l, c.name).kind # "login"
    BY <1>2 DEF Request, Requests
  <2>3. QED
    BY <1>1, <2>1, <2>2 DEF Asking
<1>9. c.load # l => d.game = c.game /\ d.load = c.load /\ d.told = <<>>
  BY <1>1, <1>3 DEF Served, Over, Goes
<1>10. QED
  BY <1>4, <1>5, <1>6, <1>7, <1>8, <1>9 DEF Answered

\* The sets of a game, or why there are none.
LEMMA FetchGameSetsCallbackHosted ==
  ASSUME NEW c, NEW r \in c.flight, r.kind = "sets", NEW reply, reply # "empty", Hosted(c),
         c.told = <<>>
  PROVE  LET d == FetchGameSetsCallback(c, r, reply)
         IN  Hosted(d) /\ Answered(c, d, r)
<1> DEFINE d == FetchGameSetsCallback(c, r, reply)
<1>1. Sound(d) /\ Ending(d)
  BY FetchGameSetsCallbackEnds DEF Hosted
<1>2. Served(Without(c, r), d, r.of) /\ Signed(d)
  BY FetchGameSetsCallbackServed DEF Hosted
<1> HIDE DEF d
<1>3. Answered(c, d, r)
  BY <1>2, ServedAnswered
<1>4. QED
  BY <1>1, <1>2, <1>3 DEF Hosted, d

\* The session of a game, or why there is none.
LEMMA StartSessionCallbackHosted ==
  ASSUME NEW c, NEW r \in c.flight, r.kind = "session", NEW reply, Hosted(c), c.told = <<>>
  PROVE  LET d == StartSessionCallback(c, r, reply)
         IN  Hosted(d) /\ Answered(c, d, r)
<1> DEFINE d == StartSessionCallback(c, r, reply)
<1>1. Sound(d) /\ Ending(d)
  BY StartSessionCallbackEnds DEF Hosted
<1>2. Served(Without(c, r), d, r.of) /\ Signed(d)
  BY StartSessionCallbackServed DEF Hosted
<1> HIDE DEF d
<1>3. Answered(c, d, r)
  BY <1>2, ServedAnswered
<1>4. QED
  BY <1>1, <1>2, <1>3 DEF Hosted, d

\* A sign-in that is on its way is only told of; otherwise it is requested.
LEMMA BeginLoginHosted ==
  ASSUME NEW c, NEW who \in Users, Hosted(c), c.user # "loggedin", c.told = <<>>
  PROVE  LET d == BeginLogin(c, who)
         IN  /\ Hosted(d)
             /\ d.user = "requested" /\ d.load = 0 /\ d.game = NoGame
             /\ \/ c.user = "requested" /\ d.flight = c.flight
                                        /\ d.told = << <<"login", "already_requested">> >>
                \/ /\ c.user = "none" /\ d.told = <<>>
                   /\ \E q \in Requests : d.flight = c.flight \cup {q}
<1> DEFINE d == BeginLogin(c, who)
           q == Request("login", c.logins + 1, who)
<1>1. Sound(d) /\ Ending(d)
  BY BeginLoginEnds DEF Hosted
<1>2. c \in Clients /\ c.user \in {"none", "requested"} /\ c.logins \in Nat
  BY DEF Hosted, Sound, Typed, Clients
<1>3. c.load = 0 /\ c.game = NoGame /\ c.dropped = {} /\ ~c.game.identified
  BY DEF Hosted, Signed, NoGame
<1>4. q \in Requests /\ q.kind = "login"
  BY <1>2 DEF Requests, Request, Names
<1>5. \A r \in c.flight : r.kind = "session" => r.of # 0
  BY <1>2 DEF Hosted, Sound, Typed, Clients
<1>6. CASE c.user = "requested"
  <2> DEFINE m == <<"login", "already_requested">>
  <2>1. d = Tell([c EXCEPT !.logins = c.logins + 1], "login", "already_requested")
    BY <1>6 DEF BeginLogin
  <2> HIDE DEF d, q
  <2>2. d.told = Append(c.told, m)
    BY <1>2, <2>1 DEF Tell, Clients
  <2>3. /\ d.user = c.user /\ d.load = 0 /\ d.game = NoGame /\ d.dropped = {} /\ d.flight = c.flight
        /\ d.told = << <<"login", "already_requested">> >>
    <3>1. /\ d.user = c.user /\ d.load = c.load /\ d.game = c.game /\ d.dropped = c.dropped
          /\ d.flight = c.flight
      BY <1>2, <2>1 DEF Tell, Clients
    <3>2. d.told = <<m>>
      <4> HIDE DEF m
      <4>1. QED
        BY <2>2
    <3>3. QED
      BY <1>3, <3>1, <3>2
  <2>4. Signed(d)
    BY <1>3, <1>5, <1>6, <2>3 DEF Signed, Hosted, LoginsOf
  <2>5. QED
    BY <1>1, <1>6, <2>3, <2>4 DEF Hosted, d
<1>7. CASE c.user = "none"
  <2>1. d = [c EXCEPT !.user = "requested", !.logins = c.logins + 1, !.flight = @ \cup {q}]
    BY <1>2, <1>7 DEF BeginLogin
  <2> HIDE DEF d, q
  <2>2. /\ d.user = "requested" /\ d.load = 0 /\ d.game = NoGame /\ d.dropped = {}
        /\ d.flight = c.flight \cup {q} /\ d.told = <<>>
    BY <1>2, <1>3, <2>1 DEF Clients
  <2>3. LoginsOf(c) = {}
    BY <1>7 DEF Hosted, Signed
  <2>4. LoginsOf(d) = {q}
    BY <1>4, <2>2, <2>3 DEF LoginsOf
  <2>5. Signed(d)
    BY <1>3, <1>4, <1>5, <2>2, <2>4 DEF Signed
  <2>6. QED
    BY <1>1, <1>4, <1>7, <2>2, <2>5 DEF Hosted, d
<1>8. QED
  BY <1>2, <1>6, <1>7

\* Nobody is signed in any more and nothing is played or loaded.
LEMMA LogoutHosted ==
  ASSUME NEW c, Hosted(c), c.user = "loggedin"
  PROVE  LET d == Logout(c)
         IN  /\ Hosted(d)
             /\ d.user = "none" /\ d.load = 0 /\ d.game = NoGame
             /\ d.flight = c.flight /\ d.told = c.told
<1> DEFINE a == [c EXCEPT !.user = "none", !.name = Nobody]
           d == Logout(c)
<1>1. Sound(d) /\ Ending(d)
  BY LogoutEnds DEF Hosted
<1>2. c \in Clients
  BY DEF Hosted, Sound, Typed
<1>3. d = UnloadGame(a)
  BY Zenon DEF Logout, Hosted, Signed
<1>4. /\ a.loads = c.loads /\ a.load = c.load /\ a.game = c.game /\ a.pings = c.pings
      /\ a.flight = c.flight /\ a.told = c.told /\ a.dropped = c.dropped /\ a.user = "none"
  BY <1>2 DEF Clients
<1>5. a \in Clients
  BY <1>2 DEF Clients, Names
<1> HIDE DEF a, d
<1>6. Typed(a) /\ Pinged(a)
  BY <1>4, <1>5 DEF Hosted, Sound, Typed, Played, Pinged
<1>7. /\ d.load = 0 /\ d.game = NoGame /\ d.flight = c.flight /\ d.user = "none"
      /\ d.dropped = c.dropped /\ d.told = c.told
  BY <1>3, <1>4, <1>6, UnloadGameEnds
<1>8. LoginsOf(c) = {}
  BY DEF Hosted, Signed
<1>9. \A r \in d.flight : r.kind = "session" => r.of # d.load
  BY <1>1, <1>7 DEF Sound, Typed, Clients
<1>10. Signed(d)
  BY <1>7, <1>8, <1>9 DEF Signed, LoginsOf, Hosted, NoGame
<1>11. QED
  BY <1>1, <1>7, <1>10 DEF Hosted, d

\* The answer of the sign-in, told once.
LEMMA LoginCallbackHosted ==
  ASSUME NEW c, NEW r \in c.flight, r.kind = "login", NEW reply, Hosted(c), c.told = <<>>
  PROVE  LET d == LoginCallback(c, r, reply)
         IN  /\ Hosted(d)
             /\ c.user = "requested"
             /\ d.load = c.load /\ d.game = c.game /\ d.flight = c.flight \ {r}
             /\ \/ d.user = "none" /\ d.told = << <<"login", "error">> >>
                \/ d.user = "loggedin" /\ d.told = << <<"login", "ok">> >>
<1> DEFINE w    == Without(c, r)
           in   == [w EXCEPT !.user = "loggedin", !.name = r.as]
           t    == [w EXCEPT !.user = "none"]
           none == Tell(t, "login", "error")
           d    == LoginCallback(c, r, reply)
<1>1. Sound(d) /\ Ending(d)
  BY LoginCallbackEnds DEF Hosted
<1>2. c \in Clients /\ c.user = "requested" /\ c.load = 0 /\ c.game = NoGame /\ c.dropped = {}
      /\ \A q \in LoginsOf(c) : q = r
  <2>1. r \in LoginsOf(c)
    BY DEF LoginsOf
  <2>2. QED
    BY <2>1 DEF Hosted, Signed, Sound, Typed
<1>3. w \in Clients /\ w.load = 0 /\ w.game = NoGame /\ w.dropped = {} /\ w.flight = c.flight \ {r}
      /\ w.told = <<>>
  BY <1>2 DEF Without, Clients
<1>4. d = IF reply = "error" THEN IF Waiting(none) THEN BeginFetchGameSets(none, none.load)
                                  ELSE none
          ELSE Tell(IF Waiting(in) THEN BeginFetchGameSets(in, in.load) ELSE in, "login", "ok")
  BY <1>2, Zenon DEF LoginCallback
<1> HIDE DEF w, d
<1>5. in.load = 0 /\ none.load = 0
  BY <1>3 DEF Tell, Clients
<1>6. ~Waiting(in) /\ ~Waiting(none)
  BY <1>5 DEF Waiting
<1>7. d = IF reply = "error" THEN none ELSE Tell(in, "login", "ok")
  BY <1>4, <1>6
<1>8. /\ d.load = 0 /\ d.game = NoGame /\ d.dropped = {} /\ d.flight = c.flight \ {r}
      /\ \/ d.user = "none" /\ d.told = << <<"login", "error">> >>
         \/ d.user = "loggedin" /\ d.told = << <<"login", "ok">> >>
  <2> DEFINE m == <<"login", IF reply = "error" THEN "error" ELSE "ok">>
  <2>1. /\ d.load = w.load /\ d.game = w.game /\ d.dropped = w.dropped /\ d.flight = w.flight
        /\ d.user = (IF reply = "error" THEN "none" ELSE "loggedin") /\ d.told = Append(w.told, m)
    <3>1. CASE reply = "error"
      BY <1>3, <1>7, <3>1 DEF Tell, Clients
    <3>2. CASE reply # "error"
      BY <1>3, <1>7, <3>2 DEF Tell, Clients
    <3>3. QED
      BY <3>1, <3>2
  <2>2. d.told = <<m>>
    <3> HIDE DEF m
    <3>1. QED
      BY <1>3, <2>1
  <2>3. QED
    BY <1>3, <2>1, <2>2
<1>9. LoginsOf(d) = {}
  BY <1>2, <1>8 DEF LoginsOf
<1>10. \A q \in d.flight : q.kind = "session" => q.of # d.load
  BY <1>1, <1>8 DEF Sound, Typed, Clients
<1>11. Signed(d)
  BY <1>8, <1>9, <1>10 DEF Signed, NoGame
<1>12. QED
  BY <1>1, <1>2, <1>8, <1>11 DEF Hosted, d

\* The client at the start.
LEMMA NewClientHosted ==
  /\ Hosted(NewClient) /\ NewClient \in Clients
  /\ NewClient.user = "none" /\ NewClient.load = 0 /\ NewClient.game = NoGame
  /\ NewClient.told = <<>> /\ NewClient.flight = {}
<1>1. /\ NewClient.user = "none" /\ NewClient.load = 0 /\ NewClient.game = NoGame
      /\ NewClient.told = <<>> /\ NewClient.flight = {} /\ NewClient.dropped = {}
  BY DEF NewClient
<1>2. Signed(NewClient)
  BY <1>1 DEF Signed, LoginsOf, NoGame
<1>3. QED
  BY <1>1, <1>2, NewClientEnds DEF Hosted

=============================================================================
