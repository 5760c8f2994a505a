----------------------- MODULE AchievementSession_proofs -----------------------
(* Proofs about AchievementSession for all users, ROMs and numbers of calls,  *)
(* and for a ring of any size. What the client does is taken from the lemmas  *)
(* at the end of RcSession_proofs, what a pump and the handling of its events *)
(* do is shown by induction on the answers and on the events.                 *)
EXTENDS AchievementSession, SequenceTheorems, FiniteSetTheorems, WellFoundedInduction, TLAPS

P == INSTANCE RcSession_proofs

-----------------------------------------------------------------------------
(* Types.                                                                    *)

Roms == Hashes \cup {NoRom}

Events == [kind : {"login", "load", "achievement"}, ok : BOOLEAN, of : Roms]

\* A login or a session is never answered with a game.
Answers == {a \in [request : P!Requests, reply : {"ok", "error", "game", "none"}] :
              a.request.kind # "sets" => a.reply \in {"ok", "error"}}

Bridges == [ring : Seq(Events), requests : Seq(P!Requests), buffer : Nat]

Nets == [threads : SUBSET P!Requests, results : Seq(Answers)]

Apps == [mode : {"standard", "achievement"}, rom : Roms, token : P!Names, known : SUBSET Roms,
         archive : SUBSET [game : Roms, of : Roms], earned : SUBSET (P!Names \X Roms)]

-----------------------------------------------------------------------------
(* The induction hypothesis. s is [client, bridge, net, app].                *)

Types(s) ==
  /\ s \in [client : P!Clients, bridge : Bridges, net : Nets, app : Apps]
  /\ s.client.told = <<>>

Client(s) == P!Hosted(s.client)

Asked(s)   == Range(s.bridge.requests)
Came(s, n) == {s.net.results[i].request : i \in n + 1 .. Len(s.net.results)}

\* Every request the manager has is in one place only: still to be taken, with a
\* thread, or with its answer. The first n answers are completed.
Apart(s, n) ==
  /\ Asked(s) \cap s.net.threads = {}
  /\ Asked(s) \cap Came(s, n) = {}
  /\ s.net.threads \cap Came(s, n) = {}
  /\ \A i, j \in n + 1 .. Len(s.net.results) :
       s.net.results[i].request = s.net.results[j].request => i = j

CarriedBy(s, n, flight) == Apart(s, n) /\ Asked(s) \cup s.net.threads \cup Came(s, n) \subseteq flight

\* The client waits for all of them.
Carried(s, n) == CarriedBy(s, n, s.client.flight)

\* What is played or loaded is the ROM there is, which the bridge holds for the
\* load; outside Achievement mode there is neither.
Rom(s) ==
  /\ s.client.game # Rc!NoGame => s.client.game.hash = s.app.rom
  /\ s.client.load # 0 => s.client.loads[s.client.load].hash = s.app.rom /\ s.bridge.buffer = s.client.load
  /\ s.app.mode = "standard" => s.client.game = Rc!NoGame /\ s.client.load = 0

\* The token is that of the user who is signed in.
Right(s) ==
  /\ s.client.user = "loggedin" => s.app.token = s.client.name
  /\ s.client.user = "none" => s.app.token = Rc!Nobody

\* Between two frames no answer of a sign-in is left to be handled.
Token(s) ==
  /\ \A e \in Range(s.bridge.ring) : e.kind = "login" => ~e.ok /\ s.client.user = "requested"
  /\ s.client.user = "loggedin" => s.app.token = s.client.name
  /\ s.app.mode = "achievement" /\ s.client.user = "none" => s.app.token = Rc!Nobody

\* Nothing that is still to be completed is a sign-in or of the current load.
Idle(s, n) == \A r \in s.net.threads \cup Came(s, n) : r.kind # "login" /\ r.of # s.client.load

\* What was earned and is not handled yet was earned in the game there is, or
\* that game has no identity; and no other takes its place at the next frame.
Unlocks(s, n) ==
  \A e \in Range(s.bridge.ring) : e.kind = "achievement" =>
    /\ Idle(s, n)
    /\ Playing(s) => s.client.game.hash = e.of

Archive(s) == \A u \in s.app.archive : u.game \in {u.of, NoRom}

Core(s, n) == Types(s) /\ Client(s) /\ Carried(s, n) /\ Rom(s) /\ Archive(s)

Inv(s) == Core(s, 0) /\ Token(s) /\ Unlocks(s, 0)

-----------------------------------------------------------------------------
(* The client of the host is the one RcSession_proofs speaks of: P and Rc    *)
(* name the same operators.                                                  *)

\* Nobody is the same in both.
LEMMA SameNobody == P!Nobody = Rc!Nobody
BY DEF P!Nobody, Rc!Nobody

\* NoGame is the same in both.
LEMMA SameNoGame == P!NoGame = Rc!NoGame
BY SameNobody DEF P!NoGame, Rc!NoGame

\* NewClient is the same in both.
LEMMA SameNewClient == P!NewClient = Rc!NewClient
BY SameNobody, SameNoGame DEF P!NewClient, Rc!NewClient

\* NewLoad is the same in both.
LEMMA SameNewLoad == ASSUME NEW h PROVE P!NewLoad(h) = Rc!NewLoad(h)
BY SameNobody DEF P!NewLoad, Rc!NewLoad

\* Tell is the same in both.
LEMMA SameTell == ASSUME NEW c, NEW x, NEW y PROVE P!Tell(c, x, y) = Rc!Tell(c, x, y)
BY DEF P!Tell, Rc!Tell

\* Request is the same in both.
LEMMA SameRequest == ASSUME NEW x, NEW y, NEW z PROVE P!Request(x, y, z) = Rc!Request(x, y, z)
BY DEF P!Request, Rc!Request

\* CallBack is the same in both.
LEMMA SameCallBack == ASSUME NEW c, NEW l, NEW x PROVE P!CallBack(c, l, x) = Rc!CallBack(c, l, x)
BY SameTell DEF P!CallBack, Rc!CallBack

\* FreeLoad is the same in both.
LEMMA SameFreeLoad == ASSUME NEW c, NEW l PROVE P!FreeLoad(c, l) = Rc!FreeLoad(c, l)
BY DEF P!FreeLoad, Rc!FreeLoad

\* BeginLoadState is the same in both.
LEMMA SameBeginLoadState ==
  ASSUME NEW c, NEW l, NEW x PROVE P!BeginLoadState(c, l, x) = Rc!BeginLoadState(c, l, x)
BY DEF P!BeginLoadState, Rc!BeginLoadState

\* EndLoadState is the same in both.
LEMMA SameEndLoadState == ASSUME NEW c, NEW l PROVE P!EndLoadState(c, l) = Rc!EndLoadState(c, l)
BY SameCallBack, SameFreeLoad DEF P!EndLoadState, Rc!EndLoadState

\* LoadError is the same in both.
LEMMA SameLoadError == ASSUME NEW c, NEW l, NEW x PROVE P!LoadError(c, l, x) = Rc!LoadError(c, l, x)
BY SameCallBack, SameFreeLoad DEF P!LoadError, Rc!LoadError

\* LoadAborted is the same in both.
LEMMA SameLoadAborted == ASSUME NEW c, NEW l PROVE P!LoadAborted(c, l) = Rc!LoadAborted(c, l)
BY SameLoadError, SameEndLoadState DEF P!LoadAborted, Rc!LoadAborted

\* UnloadGame is the same in both.
LEMMA SameUnloadGame == ASSUME NEW c PROVE P!UnloadGame(c) = Rc!UnloadGame(c)
BY SameNoGame DEF P!UnloadGame, Rc!UnloadGame

\* AbortLoadInProgress is the same in both.
LEMMA SameAbortLoadInProgress ==
  ASSUME NEW c PROVE P!AbortLoadInProgress(c) = Rc!AbortLoadInProgress(c)
BY SameCallBack DEF P!AbortLoadInProgress, Rc!AbortLoadInProgress

\* BeginFetchGameSets is the same in both.
LEMMA SameBeginFetchGameSets ==
  ASSUME NEW c, NEW l PROVE P!BeginFetchGameSets(c, l) = Rc!BeginFetchGameSets(c, l)
BY SameLoadError, SameBeginLoadState, SameRequest DEF P!BeginFetchGameSets, Rc!BeginFetchGameSets

\* ProcessResolvedHash is the same in both.
LEMMA SameProcessResolvedHash ==
  ASSUME NEW c, NEW l PROVE P!ProcessResolvedHash(c, l) = Rc!ProcessResolvedHash(c, l)
BY SameLoadError, SameBeginFetchGameSets, SameNobody DEF P!ProcessResolvedHash, Rc!ProcessResolvedHash

\* AttachLoadState is the same in both.
LEMMA SameAttachLoadState ==
  ASSUME NEW c, NEW l PROVE P!AttachLoadState(c, l) = Rc!AttachLoadState(c, l)
BY SameUnloadGame, SameCallBack, SameFreeLoad DEF P!AttachLoadState, Rc!AttachLoadState

\* LoadGame is the same in both.
LEMMA SameLoadGame == ASSUME NEW c, NEW l PROVE P!LoadGame(c, l) = Rc!LoadGame(c, l)
BY SameAttachLoadState, SameProcessResolvedHash, SameBeginFetchGameSets DEF P!LoadGame, Rc!LoadGame

\* BeginLoadGame is the same in both.
LEMMA SameBeginLoadGame == ASSUME NEW c, NEW h PROVE P!BeginLoadGame(c, h) = Rc!BeginLoadGame(c, h)
BY SameAbortLoadInProgress, SameLoadGame, SameNewLoad DEF P!BeginLoadGame, Rc!BeginLoadGame

\* ActivateGame is the same in both.
LEMMA SameActivateGame == ASSUME NEW c, NEW l PROVE P!ActivateGame(c, l) = Rc!ActivateGame(c, l)
BY SameCallBack, SameFreeLoad DEF P!ActivateGame, Rc!ActivateGame

\* BeginStartSession is the same in both.
LEMMA SameBeginStartSession ==
  ASSUME NEW c, NEW l PROVE P!BeginStartSession(c, l) = Rc!BeginStartSession(c, l)
BY SameBeginLoadState, SameRequest DEF P!BeginStartSession, Rc!BeginStartSession

\* Without is the same in both.
LEMMA SameWithout == ASSUME NEW c, NEW r PROVE P!Without(c, r) = Rc!Without(c, r)
BY DEF P!Without, Rc!Without

\* IdentifiedGame is the same in both.
LEMMA SameIdentifiedGame ==
  ASSUME NEW c, NEW l, NEW x PROVE P!IdentifiedGame(c, l, x) = Rc!IdentifiedGame(c, l, x)
BY SameBeginStartSession, SameBeginLoadState, SameLoadError, SameEndLoadState, SameActivateGame
   DEF P!IdentifiedGame, Rc!IdentifiedGame

\* FetchGameSetsCallback is the same in both.
LEMMA SameFetchGameSetsCallback ==
  ASSUME NEW c, NEW r, NEW x PROVE P!FetchGameSetsCallback(c, r, x) = Rc!FetchGameSetsCallback(c, r, x)
BY SameEndLoadState, SameWithout, SameLoadAborted, SameLoadError, SameProcessResolvedHash, SameIdentifiedGame
   DEF P!FetchGameSetsCallback, Rc!FetchGameSetsCallback

\* StartSessionCallback is the same in both.
LEMMA SameStartSessionCallback ==
  ASSUME NEW c, NEW r, NEW x PROVE P!StartSessionCallback(c, r, x) = Rc!StartSessionCallback(c, r, x)
BY SameEndLoadState, SameWithout, SameLoadAborted, SameLoadError, SameActivateGame
   DEF P!StartSessionCallback, Rc!StartSessionCallback

\* BeginLogin is the same in both.
LEMMA SameBeginLogin == ASSUME NEW c, NEW u PROVE P!BeginLogin(c, u) = Rc!BeginLogin(c, u)
BY SameTell, SameRequest DEF P!BeginLogin, Rc!BeginLogin

\* Logout is the same in both.
LEMMA SameLogout == ASSUME NEW c PROVE P!Logout(c) = Rc!Logout(c)
BY SameUnloadGame, SameLoadError, SameNobody DEF P!Logout, Rc!Logout

\* Waiting is the same in both.
LEMMA SameWaiting == ASSUME NEW c PROVE P!Waiting(c) = Rc!Waiting(c)
BY DEF P!Waiting, Rc!Waiting

\* LoginCallback is the same in both.
LEMMA SameLoginCallback ==
  ASSUME NEW c, NEW r, NEW x PROVE P!LoginCallback(c, r, x) = Rc!LoginCallback(c, r, x)
<1> DEFINE d    == P!Without(c, r)
           in   == [d EXCEPT !.user = "loggedin", !.name = r.as]
           none == P!Tell([d EXCEPT !.user = "none"], "login", "error")
           rd    == Rc!Without(c, r)
           rin   == [rd EXCEPT !.user = "loggedin", !.name = r.as]
           rnone == Rc!Tell([rd EXCEPT !.user = "none"], "login", "error")
<1>1. P!LoginCallback(c, r, x) =
        IF r.of \in c.dropped THEN P!Logout(d)
        ELSE IF c.user = "none" THEN P!Tell(d, "login", "aborted")
        ELSE IF x = "error" THEN IF P!Waiting(none) THEN P!BeginFetchGameSets(none, none.load) ELSE none
        ELSE P!Tell(IF P!Waiting(in) THEN P!BeginFetchGameSets(in, in.load) ELSE in, "login", "ok")
  BY Zenon DEF P!LoginCallback
<1>2. Rc!LoginCallback(c, r, x) =
        IF r.of \in c.dropped THEN Rc!Logout(rd)
        ELSE IF c.user = "none" THEN Rc!Tell(rd, "login", "aborted")
        ELSE IF x = "error" THEN IF Rc!Waiting(rnone) THEN Rc!BeginFetchGameSets(rnone, rnone.load)
                                 ELSE rnone
        ELSE Rc!Tell(IF Rc!Waiting(rin) THEN Rc!BeginFetchGameSets(rin, rin.load) ELSE rin, "login", "ok")
  BY Zenon DEF Rc!LoginCallback
<1>3. rd = d
  BY SameWithout
<1> HIDE DEF d, rd
<1>4. rin = in /\ rnone = none
  BY <1>3, SameTell
<1> HIDE DEF in, none, rin, rnone
<1>5. QED
  BY <1>1, <1>2, <1>3, <1>4, SameTell, SameLogout, SameWaiting, SameBeginFetchGameSets

-----------------------------------------------------------------------------
(* The bridge.                                                               *)

\* A set of numbers has a least one: the induction on the answers and events.
LEMMA LeastNumber ==
  ASSUME NEW T, T \subseteq Nat, T # {}
  PROVE  \E x \in T : \A y \in T : ~(y < x)
<1> DEFINE R == {p \in Nat \X Nat : p[1] < p[2]}
<1>1. IsWellFoundedOn(R, Nat)
  BY NatLessThanWellFounded DEF OpToRel, IsWellFoundedOn
<1>2. \E x \in T : \A y \in T : ~(<<y, x>> \in R)
  <2> HIDE DEF R
  <2> QED BY <1>1, WFMin
<1> QED BY <1>2

\* The elements of two sequences in a row.
LEMMA RangeConcat ==
  ASSUME NEW S, NEW s \in Seq(S), NEW t \in Seq(S)
  PROVE  s \o t \in Seq(S) /\ Range(s \o t) \subseteq Range(s) \cup Range(t)
<1>1. s \o t \in Seq(S) /\ Len(s \o t) = Len(s) + Len(t) /\ Len(s) \in Nat /\ Len(t) \in Nat
      /\ DOMAIN s = 1 .. Len(s) /\ DOMAIN t = 1 .. Len(t)
      /\ DOMAIN (s \o t) = 1 .. Len(s) + Len(t)
  OBVIOUS
<1>2. ASSUME NEW i \in 1 .. Len(s) + Len(t)
      PROVE  (s \o t)[i] \in Range(s) \cup Range(t)
  <2>1. CASE i <= Len(s)
    <3>1. (s \o t)[i] = s[i] /\ i \in DOMAIN s
      BY <1>1, <2>1
    <3>2. QED
      BY <3>1 DEF Range
  <2>2. CASE ~(i <= Len(s))
    <3>1. (s \o t)[i] = t[i - Len(s)] /\ i - Len(s) \in DOMAIN t
      BY <1>1, <2>2
    <3>2. QED
      BY <3>1 DEF Range
  <2>3. QED
    BY <2>1, <2>2
<1>3. QED
  BY <1>1, <1>2 DEF Range

\* What is left in the ring was there or is new, and the newest is the last.
LEMMA PushedIs ==
  ASSUME NEW ring \in Seq(Events), NEW events \in Seq(Events)
  PROVE  LET p == Pushed(ring, events)
         IN  /\ p \in Seq(Events)
             /\ Range(p) \subseteq Range(ring) \cup Range(events)
             /\ ring # <<>> /\ events = <<>> => p # <<>> /\ p[Len(p)] = ring[Len(ring)]
             /\ events # <<>> => p # <<>> /\ p[Len(p)] = events[Len(events)]
<1> DEFINE all == ring \o events
           first == IF Len(all) > RingSize THEN Len(all) - RingSize + 1 ELSE 1
           p == Pushed(ring, events)
<1>1. /\ all \in Seq(Events) /\ Len(all) \in Nat /\ DOMAIN all = 1 .. Len(all)
      /\ Range(all) \subseteq Range(ring) \cup Range(events)
      /\ Len(all) = Len(ring) + Len(events) /\ Len(ring) \in Nat /\ Len(events) \in Nat
  BY RangeConcat
<1>2. first \in 1 .. Len(all) + 1 /\ first \in Nat /\ (Len(all) # 0 => first <= Len(all))
  BY <1>1, RingSizeAssumption
<1>3. p = SubSeq(all, first, Len(all))
  BY DEF Pushed
<1>4. ring # <<>> /\ events = <<>> => Len(all) # 0 /\ all[Len(all)] = ring[Len(ring)]
  OBVIOUS
<1>5. events # <<>> => Len(all) # 0 /\ all[Len(all)] = events[Len(events)]
  OBVIOUS
<1> HIDE DEF all, first, p
<1>6. p \in Seq(Events) /\ Len(p) = Len(all) - first + 1 /\ DOMAIN p = 1 .. Len(p)
      /\ \A i \in 1 .. Len(p) : p[i] = all[first + i - 1]
  BY <1>1, <1>2, <1>3
<1>7. Range(p) \subseteq Range(all)
  <2>1. ASSUME NEW i \in DOMAIN p PROVE p[i] \in Range(all)
    <3>1. first + i - 1 \in DOMAIN all /\ p[i] = all[first + i - 1]
      BY <1>1, <1>2, <1>6
    <3>2. QED
      BY <3>1 DEF Range
  <2>2. QED
    BY <2>1 DEF Range
<1>8. Len(all) # 0 => p # <<>> /\ p[Len(p)] = all[Len(all)]
  BY <1>1, <1>2, <1>6
<1>9. QED
  BY <1>1, <1>4, <1>5, <1>6, <1>7, <1>8 DEF p

\* The events of what the client told.
LEMMA ToldIs ==
  ASSUME NEW c \in P!Clients
  PROVE  /\ Told(c) \in Seq(Events) /\ Len(Told(c)) = Len(c.told)
         /\ \A n \in DOMAIN c.told : /\ Told(c)[n].kind = c.told[n][1]
                                     /\ Told(c)[n].ok <=> c.told[n][2] = "ok"
         /\ c.told = <<>> => Told(c) = <<>>
         /\ \A e \in Range(Told(c)) : e.kind \in {"login", "load"}
<1>1. c.told \in Seq({"login", "load"} \X P!Results)
  BY DEF P!Clients
<1> DEFINE e(n) == [kind |-> c.told[n][1], ok |-> c.told[n][2] = "ok", of |-> NoRom]
<1>2. ASSUME NEW n \in DOMAIN c.told
      PROVE  e(n) \in Events /\ e(n).kind \in {"login", "load"}
  <2>1. c.told[n][1] \in {"login", "load"}
    BY <1>1
  <2>2. (c.told[n][2] = "ok") \in BOOLEAN
    OBVIOUS
  <2>3. NoRom \in Roms
    BY DEF Roms
  <2>4. \A k \in {"login", "load"}, b \in BOOLEAN, r \in Roms :
           [kind |-> k, ok |-> b, of |-> r] \in Events
    BY DEF Events
  <2>5. QED
    BY <2>1, <2>2, <2>3, <2>4, Zenon
<1>3. Told(c) = [n \in DOMAIN c.told |-> e(n)]
  BY DEF Told
<1>4. DOMAIN c.told = 1 .. Len(c.told) /\ Len(c.told) \in Nat
  BY <1>1
<1>5. \A n \in DOMAIN c.told : e(n).kind = c.told[n][1] /\ (e(n).ok <=> c.told[n][2] = "ok")
  OBVIOUS
<1> HIDE DEF e
<1>6. Told(c) \in Seq(Events) /\ Len(Told(c)) = Len(c.told)
  BY <1>2, <1>3, <1>4
<1>7. c.told = <<>> => Told(c) = <<>>
  BY <1>6
<1>8. \A x \in Range(Told(c)) : x.kind \in {"login", "load"}
  BY <1>2, <1>3 DEF Range
<1>9. QED
  BY <1>3, <1>5, <1>6, <1>7, <1>8

\* The sequence of a set that has one element at most.
LEMMA SequenceOf ==
  ASSUME NEW T, NEW S \in SUBSET T, NEW q, S \subseteq {q}
  PROVE  SetToSeq(S) \in Seq(T) /\ Range(SetToSeq(S)) \subseteq S
<1>1. IsFiniteSet(S)
  <2>1. IsFiniteSet({q})
    BY FS_Singleton
  <2>2. QED
    BY <2>1, FS_Subset
<1>2. Cardinality(S) \in Nat /\ ExistsBijection(1 .. Cardinality(S), S)
  BY <1>1, FS_CardinalityType
<1>3. PICK f \in [1 .. Cardinality(S) -> S] : IsInjective(f)
  BY <1>2 DEF ExistsBijection, Bijection, Injection, IsInjective
<1>4. SetToSeq(S) \in [1 .. Cardinality(S) -> S]
  BY <1>3 DEF SetToSeq
<1>5. SetToSeq(S) \in Seq(S)
  BY <1>2, <1>4
<1>6. QED
  BY <1>4, <1>5 DEF Range


\* A request that is completed is waited for by nobody any more.
LEMMA Completed ==
  ASSUME NEW s, NEW n \in Nat, Types(s), Carried(s, n), n < Len(s.net.results)
  PROVE  LET r == s.net.results[n + 1].request
         IN  r \in s.client.flight /\ CarriedBy(s, n + 1, s.client.flight \ {r})
<1> DEFINE r == s.net.results[n + 1].request
<1>1. s.net.results \in Seq(Answers) /\ Len(s.net.results) \in Nat
  BY DEF Types, Nets
<1>2. r \in Came(s, n)
  BY <1>1 DEF Came
<1>3. n + 1 + 1 .. Len(s.net.results) \subseteq n + 1 .. Len(s.net.results)
  BY <1>1
<1>4. Came(s, n + 1) \subseteq Came(s, n)
  BY <1>3 DEF Came
<1>5. r \notin Came(s, n + 1)
  <2>1. ASSUME NEW i \in n + 1 + 1 .. Len(s.net.results), s.net.results[i].request = r
        PROVE  FALSE
    <3>1. i \in n + 1 .. Len(s.net.results) /\ n + 1 \in n + 1 .. Len(s.net.results) /\ i # n + 1
      BY <1>1
    <3>2. QED
      BY <2>1, <3>1 DEF Carried, CarriedBy, Apart
  <2>2. QED
    BY <2>1 DEF Came
<1>6. Apart(s, n + 1)
  BY <1>3, <1>4 DEF Carried, CarriedBy, Apart
<1>7. r \notin Asked(s) /\ r \notin s.net.threads
  BY <1>2 DEF Carried, CarriedBy, Apart
<1>8. QED
  BY <1>2, <1>4, <1>5, <1>6, <1>7 DEF Carried, CarriedBy

\* a is s after a call of the client that left c: the client is quiet, the ring
\* has what was told and the request that was made is to be taken.
Heard(s, c, n, a) ==
  /\ Types(a) /\ Client(a) /\ Carried(a, n)
  /\ a.client.user = c.user /\ a.client.name = c.name /\ a.client.loads = c.loads
  /\ a.client.load = c.load /\ a.client.game = c.game /\ a.client.flight = c.flight
  /\ a.bridge.ring = Pushed(s.bridge.ring, Told(c))
  /\ Range(a.bridge.ring) \subseteq Range(s.bridge.ring) \cup Range(Told(c))
  /\ c.told = <<>> => a.bridge.buffer = s.bridge.buffer
  /\ a.net = s.net /\ a.app = s.app

\* What a call of the client comes to for the bridge.
LEMMA AfterIs ==
  ASSUME NEW s, NEW c, NEW n, NEW F, F \subseteq s.client.flight,
         Types(s), P!Hosted(c), CarriedBy(s, n, F),
         c.flight = F \/ \E q \in P!Requests : c.flight = F \cup {q}
  PROVE  Heard(s, c, n, After(s, c))
<1> DEFINE a    == After(s, c)
           q    == [c EXCEPT !.told = <<>>]
           made == c.flight \ s.client.flight
           b    == [ring     |-> Pushed(s.bridge.ring, Told(c)),
                    requests |-> s.bridge.requests \o SetToSeq(made),
                    buffer   |-> IF \E k \in DOMAIN c.told : c.told[k][1] = "load" THEN 0
                                 ELSE s.bridge.buffer]
<1>1. c \in P!Clients
  BY DEF P!Hosted, P!Sound, P!Typed
<1>2. /\ P!Hosted(q) /\ q.told = <<>> /\ q \in P!Clients
      /\ q.user = c.user /\ q.name = c.name /\ q.loads = c.loads /\ q.load = c.load
      /\ q.game = c.game /\ q.flight = c.flight
  BY P!QuietHosted
<1>3. s \in [client : P!Clients, bridge : Bridges, net : Nets, app : Apps]
  BY DEF Types
<1>4. /\ s.bridge.ring \in Seq(Events) /\ s.bridge.requests \in Seq(P!Requests)
      /\ s.bridge.buffer \in Nat
  BY <1>3 DEF Bridges
<1>5. a = [s EXCEPT !.client = q, !.bridge = b]
  BY DEF After
<1>6. /\ Told(c) \in Seq(Events)
  BY <1>1, ToldIs
<1>7. /\ Pushed(s.bridge.ring, Told(c)) \in Seq(Events)
      /\ Range(Pushed(s.bridge.ring, Told(c))) \subseteq Range(s.bridge.ring) \cup Range(Told(c))
  BY <1>4, <1>6, PushedIs
<1>8. PICK p : made \subseteq {p}
  OBVIOUS
<1>9. made \in SUBSET P!Requests
  <2>1. c.flight \in SUBSET P!Requests
    BY <1>1 DEF P!Clients
  <2>2. QED
    BY <2>1
<1>10. SetToSeq(made) \in Seq(P!Requests) /\ Range(SetToSeq(made)) \subseteq made
  <2> HIDE DEF made
  <2>1. QED
    BY <1>8, <1>9, SequenceOf
<1>11. b.requests \in Seq(P!Requests) /\ Range(b.requests) \subseteq Asked(s) \cup made
  <2> HIDE DEF made
  <2>1. QED
    BY <1>4, <1>10, RangeConcat DEF Asked
<1>12. b \in Bridges
  <2>1. b.buffer \in Nat
    BY <1>4
  <2>2. QED
    BY <1>7, <1>11, <2>1 DEF Bridges
<1>13. c.told = <<>> => b.buffer = s.bridge.buffer
  OBVIOUS
<1>14. b.ring = Pushed(s.bridge.ring, Told(c))
  OBVIOUS
<1> HIDE DEF a, q, b
<1>15. /\ a.client = q /\ a.bridge = b /\ a.net = s.net /\ a.app = s.app
       /\ a \in [client : P!Clients, bridge : Bridges, net : Nets, app : Apps]
  BY <1>2, <1>3, <1>5, <1>12
<1>16. Came(a, n) = Came(s, n)
  BY <1>15 DEF Came
<1>17. Asked(a) \subseteq Asked(s) \cup made
  BY <1>11, <1>15 DEF Asked
<1>18. Carried(a, n)
  <2>1. Asked(s) \cup s.net.threads \cup Came(s, n) \subseteq F
    BY DEF CarriedBy
  <2>2. made \cap F = {} /\ F \subseteq c.flight /\ made \subseteq c.flight
    OBVIOUS
  <2>3. Asked(a) \cup a.net.threads \cup Came(a, n) \subseteq a.client.flight
    BY <1>2, <1>15, <1>16, <1>17, <2>1, <2>2
  <2> HIDE DEF made
  <2>4. Apart(a, n)
    <3>1. Apart(s, n)
      BY DEF CarriedBy
    <3>2. Asked(a) \cap s.net.threads = {} /\ Asked(a) \cap Came(s, n) = {}
      BY <1>17, <2>1, <2>2, <3>1 DEF Apart
    <3>3. QED
      BY <1>15, <1>16, <3>1, <3>2 DEF Apart
  <2>5. QED
    BY <2>3, <2>4 DEF Carried, CarriedBy
<1>19. Types(a) /\ Client(a)
  BY <1>2, <1>15 DEF Types, Client
<1>20. QED
  BY <1>2, <1>7, <1>13, <1>14, <1>15, <1>18, <1>19 DEF a, Heard

\* The game goes, and nobody is told.
LEMMA UnloadedIs ==
  ASSUME NEW s, NEW n, Types(s), Client(s), Carried(s, n)
  PROVE  LET a == After(s, Rc!UnloadGame(s.client))
         IN  /\ Types(a) /\ Client(a) /\ Carried(a, n)
             /\ a.client.user = s.client.user /\ a.client.name = s.client.name
             /\ a.client.load = 0 /\ a.client.game = Rc!NoGame
             /\ a.client.flight = s.client.flight /\ Len(a.client.loads) = Len(s.client.loads)
             /\ Range(a.bridge.ring) \subseteq Range(s.bridge.ring)
             /\ a.net = s.net /\ a.app = s.app
<1> DEFINE c == P!UnloadGame(s.client)
           a == After(s, c)
<1>1. /\ P!Hosted(c) /\ c.user = s.client.user /\ c.name = s.client.name
      /\ c.load = 0 /\ c.game = P!NoGame /\ c.flight = s.client.flight /\ c.told = s.client.told
      /\ Len(c.loads) = Len(s.client.loads)
  BY P!UnloadGameHosted DEF Client
<1>2. c = Rc!UnloadGame(s.client) /\ P!NoGame = Rc!NoGame
  BY SameUnloadGame, SameNoGame
<1> HIDE DEF c
<1>3. c.told = <<>>
  BY <1>1 DEF Types
<1>4. Range(Told(c)) = {}
  <2>1. c \in P!Clients
    BY <1>1 DEF P!Hosted, P!Sound, P!Typed
  <2>2. Told(c) = <<>>
    BY <1>3, <2>1, ToldIs
  <2>3. QED
    BY <2>2 DEF Range
<1>5. CarriedBy(s, n, s.client.flight)
  BY DEF Carried
<1> HIDE DEF a
<1>heard. Heard(s, c, n, a)
  BY <1>1, <1>5, AfterIs DEF a
<1>6. /\ Types(a) /\ Client(a) /\ Carried(a, n)
      /\ a.client.user = c.user /\ a.client.name = c.name /\ a.client.loads = c.loads
      /\ a.client.load = c.load /\ a.client.game = c.game /\ a.client.flight = c.flight
      /\ Range(a.bridge.ring) \subseteq Range(s.bridge.ring) \cup Range(Told(c))
      /\ a.net = s.net /\ a.app = s.app
  BY <1>heard DEF Heard
<1>7. QED
  BY <1>1, <1>2, <1>4, <1>6 DEF a

\* What is still on its way is about no load that is not begun yet.
LEMMA OfAnEarlierLoad ==
  ASSUME NEW s, NEW n, Types(s), Client(s), Carried(s, n)
  PROVE  /\ Len(s.client.loads) \in Nat
         /\ \A r \in s.net.threads \cup Came(s, n) :
              r.kind # "login" => r.of \in 1 .. Len(s.client.loads)
<1>1. s.client \in P!Clients /\ \A r \in s.client.flight : r.kind # "login" => r.of \in DOMAIN s.client.loads
  BY DEF Client, P!Hosted, P!Sound, P!Typed
<1>2. DOMAIN s.client.loads = 1 .. Len(s.client.loads) /\ Len(s.client.loads) \in Nat
  BY <1>1 DEF P!Clients
<1>3. QED
  BY <1>1, <1>2 DEF Carried, CarriedBy

\* a is s with the game of h loaded, whatever was there before.
Loaded(s, n, h, a) ==
  /\ Types(a) /\ Client(a) /\ Carried(a, n)
  /\ a.client.user = "loggedin" /\ a.client.name = s.client.name
  /\ a.client.game # Rc!NoGame => a.client.game.hash = h
  /\ a.client.load # 0 => a.client.loads[a.client.load].hash = h
                          /\ a.bridge.buffer = a.client.load
  /\ ~Playing(a)
  /\ \A r \in a.net.threads \cup Came(a, n) : r.kind # "login" => r.of # a.client.load
  /\ \A e \in Range(a.bridge.ring) : e \in Range(s.bridge.ring) \/ e.kind = "load"
  /\ a.net = s.net /\ a.app = s.app

\* The game of the ROM is loaded, whatever was there before.
LEMMA LoadNesGameIs ==
  ASSUME NEW s, NEW n, NEW h \in Hashes, Types(s), Client(s), Carried(s, n),
         s.client.user = "loggedin"
  PROVE  Loaded(s, n, h, LoadNesGame(s, h))
<1> DEFINE gone == After(s, Rc!UnloadGame(s.client))
           l    == Len(gone.client.loads) + 1
           held == [gone EXCEPT !.bridge.buffer = l]
           c    == P!BeginLoadGame(held.client, h)
           a    == After(held, c)
<1>1. a = LoadNesGame(s, h)
  BY SameBeginLoadGame, Zenon DEF LoadNesGame
<1>2. /\ Types(gone) /\ Client(gone) /\ Carried(gone, n)
      /\ gone.client.user = "loggedin" /\ gone.client.name = s.client.name
      /\ gone.client.load = 0
      /\ Range(gone.bridge.ring) \subseteq Range(s.bridge.ring)
      /\ gone.net = s.net /\ gone.app = s.app
  BY UnloadedIs
<1> HIDE DEF gone
<1>3. gone \in [client : P!Clients, bridge : Bridges, net : Nets, app : Apps] /\ gone.client.told = <<>>
  BY <1>2 DEF Types
<1>4. l \in Nat /\ l # 0
  BY <1>2, OfAnEarlierLoad
<1>5. /\ held.client = gone.client /\ held.net = gone.net /\ held.app = gone.app
      /\ held.bridge.ring = gone.bridge.ring /\ held.bridge.requests = gone.bridge.requests
      /\ held.bridge.buffer = l
      /\ held \in [client : P!Clients, bridge : Bridges, net : Nets, app : Apps]
  BY <1>3, <1>4 DEF Bridges
<1> HIDE DEF held
<1>6. Types(held) /\ P!Hosted(held.client)
  BY <1>2, <1>3, <1>5 DEF Types, Client
<1>7. CarriedBy(held, n, held.client.flight)
  BY <1>2, <1>5 DEF Carried, CarriedBy, Apart, Asked, Came
<1>8. P!Hosted(c) /\ P!Loading(held.client, c, h)
  BY <1>2, <1>3, <1>5, <1>6, P!BeginLoadGameHosted
<1>9. Len(held.client.loads) + 1 = l
  BY <1>5
<1> HIDE DEF c, l
<1>10. /\ c.user = held.client.user /\ c.name = held.client.name
       /\ c.load # 0 => c.load = l /\ c.loads[c.load].hash = h /\ c.told = <<>>
       /\ c.game # P!NoGame => c.game.hash = h /\ ~c.game.identified
       /\ \A k \in DOMAIN c.told : c.told[k][1] = "load"
       /\ c.flight = held.client.flight \/ \E q \in P!Requests : c.flight = held.client.flight \cup {q}
  BY <1>8, <1>9 DEF P!Loading, P!OnlyLoadsTold, P!Asking
<1> HIDE DEF a
<1>heard. Heard(held, c, n, a)
  BY <1>6, <1>7, <1>8, <1>10, AfterIs DEF a
<1>11. /\ Types(a) /\ Client(a) /\ Carried(a, n)
       /\ a.client.user = c.user /\ a.client.name = c.name /\ a.client.loads = c.loads
       /\ a.client.load = c.load /\ a.client.game = c.game
       /\ Range(a.bridge.ring) \subseteq Range(held.bridge.ring) \cup Range(Told(c))
       /\ c.told = <<>> => a.bridge.buffer = held.bridge.buffer
       /\ a.net = held.net /\ a.app = held.app
  BY <1>heard DEF Heard
<1>12. \A e \in Range(Told(c)) : e.kind = "load"
  <2>1. c \in P!Clients
    BY <1>8 DEF P!Hosted, P!Sound, P!Typed
  <2>2. Told(c) \in Seq(Events) /\ Len(Told(c)) = Len(c.told) /\ c.told \in Seq({"login", "load"} \X P!Results)
    BY <2>1, ToldIs DEF P!Clients
  <2>3. \A k \in DOMAIN c.told : Told(c)[k].kind = "load"
    BY <1>10, <2>1, ToldIs
  <2>4. DOMAIN Told(c) = DOMAIN c.told
    BY <2>2
  <2>5. QED
    BY <2>3, <2>4 DEF Range
<1>13. ~Playing(a)
  BY <1>10, <1>11 DEF Playing, P!NoGame
<1>14. \A r \in a.net.threads \cup Came(a, n) : r.kind # "login" => r.of # a.client.load
  <2>1. /\ Len(gone.client.loads) \in Nat
        /\ \A r \in gone.net.threads \cup Came(gone, n) :
             r.kind # "login" => r.of \in 1 .. Len(gone.client.loads)
    BY <1>2, OfAnEarlierLoad
  <2>2. Came(a, n) = Came(gone, n) /\ a.net.threads = gone.net.threads
    BY <1>5, <1>11 DEF Came
  <2>3. a.client.load = 0 \/ a.client.load = Len(gone.client.loads) + 1
    BY <1>10, <1>11 DEF l
  <2>4. QED
    BY <2>1, <2>2, <2>3
<1>15. QED
  BY <1>1, <1>2, <1>5, <1>10, <1>11, <1>12, <1>13, <1>14, SameNoGame DEF Loaded

-----------------------------------------------------------------------------
(* The pump: n answers of s are completed and x is what there is.            *)

\* Who is told of a successful sign-in is signed in, and a sign-in that came to
\* an end during the pump is the last there is to tell; with an unlock in the
\* ring there is none.
Signing(x) ==
  LET ring == x.bridge.ring
  IN  /\ \A e \in Range(ring) : e.kind = "login" /\ e.ok => x.client.user = "loggedin"
      /\ x.client.user # "requested" =>
           \/ Right(x) /\ \A e \in Range(ring) : e.kind # "login"
           \/ /\ x.client.load = 0 /\ ring # <<>>
              /\ ring[Len(ring)].kind = "login"
              /\ ring[Len(ring)].ok <=> x.client.user = "loggedin"
      /\ \A e, f \in Range(ring) : e.kind = "achievement" /\ f.kind = "login" => ~f.ok

Pumping(x, n, s) ==
  Core(x, n) /\ x.net = s.net /\ x.app = s.app /\ Unlocks(x, n) /\ Signing(x)

\* The newest of a ring is in it.
LEMMA LastOf ==
  ASSUME NEW ring \in Seq(Events), ring # <<>>
  PROVE  ring[Len(ring)] \in Range(ring)
<1>1. Len(ring) \in DOMAIN ring
  OBVIOUS
<1>2. QED
  BY <1>1 DEF Range

\* What a client that is hosted says of its user.
LEMMA HostedUser ==
  ASSUME NEW c, P!Hosted(c)
  PROVE  /\ c \in P!Clients /\ c.user \in {"none", "requested", "loggedin"} /\ c.load \in Nat
         /\ c.user # "loggedin" => c.load = 0 /\ c.game = Rc!NoGame
         /\ \A r \in c.flight : r \in P!Requests
         /\ \A r \in c.flight : r.kind = "login" => c.user = "requested"
         /\ \A r \in c.flight : r.kind # "login" => r.of # 0
<1>1. c \in P!Clients /\ \A r \in c.flight : r.kind # "login" => r.of \in DOMAIN c.loads
  BY DEF P!Hosted, P!Sound, P!Typed
<1>2. DOMAIN c.loads = 1 .. Len(c.loads)
  BY <1>1 DEF P!Clients
<1>3. c.user # "loggedin" => c.load = 0 /\ c.game = P!NoGame
  BY DEF P!Hosted, P!Signed
<1>4. \A r \in c.flight : r.kind = "login" => c.user = "requested"
  BY DEF P!Hosted, P!Signed, P!LoginsOf
<1>5. /\ c.user \in {"none", "requested", "loggedin"} /\ c.load \in Nat
      /\ \A r \in c.flight : r \in P!Requests
  BY <1>1 DEF P!Clients
<1>6. QED
  BY <1>1, <1>2, <1>3, <1>4, <1>5, SameNoGame

\* The answer of a load is completed.
LEMMA LoadCompleted ==
  ASSUME NEW s, s.app.mode = "achievement", NEW x, NEW n \in Nat, Pumping(x, n, s),
         n < Len(x.net.results), NEW r, r = x.net.results[n + 1].request, r.kind # "login",
         NEW c, P!Hosted(c), P!Answered(x.client, c, r)
  PROVE  Pumping(After(x, c), n + 1, s)
<1> DEFINE a == After(x, c)
<1>1. Types(x) /\ Client(x) /\ Carried(x, n) /\ Rom(x) /\ Archive(x)
  BY DEF Pumping, Core
<1>2. r \in x.client.flight /\ CarriedBy(x, n + 1, x.client.flight \ {r})
  BY <1>1, Completed
<1>3. /\ c.user = x.client.user /\ c.name = x.client.name
      /\ c.load # 0 => c.load = x.client.load /\ c.told = <<>>
                       /\ c.loads[c.load].hash = x.client.loads[x.client.load].hash
      /\ c.game = x.client.game
         \/ (x.client.load # 0 /\ c.game.hash = x.client.loads[x.client.load].hash)
      /\ \A k \in DOMAIN c.told : c.told[k][1] = "load"
      /\ x.client.load # r.of => c.game = x.client.game /\ c.load = x.client.load /\ c.told = <<>>
      /\ \/ c.flight = x.client.flight \ {r}
         \/ \E q \in P!Requests : c.flight = (x.client.flight \ {r}) \cup {q}
  BY DEF P!Answered, P!OnlyLoadsTold, P!Asking
<1>heard. Heard(x, c, n + 1, a)
  <2>1. x.client.flight \ {r} \subseteq x.client.flight
    OBVIOUS
  <2>2. QED
    BY <1>1, <1>2, <1>3, <2>1, AfterIs
<1>4. c \in P!Clients /\ x.client \in P!Clients /\ r.of # 0
  BY <1>1, <1>2, HostedUser DEF Client
<1>5. \A e \in Range(Told(c)) : e.kind = "load"
  <2>1. Told(c) \in Seq(Events) /\ Len(Told(c)) = Len(c.told)
        /\ c.told \in Seq({"login", "load"} \X P!Results)
    BY <1>4, ToldIs DEF P!Clients
  <2>2. \A k \in DOMAIN c.told : Told(c)[k].kind = "load"
    BY <1>3, <1>4, ToldIs
  <2>3. DOMAIN Told(c) = DOMAIN c.told
    BY <2>1
  <2>4. QED
    BY <2>2, <2>3 DEF Range
<1> HIDE DEF a
<1>6. /\ Types(a) /\ Client(a) /\ Carried(a, n + 1)
      /\ a.client.user = c.user /\ a.client.name = c.name /\ a.client.loads = c.loads
      /\ a.client.load = c.load /\ a.client.game = c.game
      /\ a.bridge.ring = Pushed(x.bridge.ring, Told(c))
      /\ Range(a.bridge.ring) \subseteq Range(x.bridge.ring) \cup Range(Told(c))
      /\ c.told = <<>> => a.bridge.buffer = x.bridge.buffer
      /\ a.net = x.net /\ a.app = x.app
  BY <1>heard DEF Heard
<1>7. \A e \in Range(a.bridge.ring) : e \in Range(x.bridge.ring) \/ e.kind = "load"
  BY <1>5, <1>6
<1>8. Rom(a)
  BY <1>1, <1>3, <1>6 DEF Rom, Pumping
<1>9. Archive(a)
  BY <1>1, <1>6 DEF Archive
<1>10. Unlocks(a, n + 1)
  <2> SUFFICES ASSUME NEW e \in Range(a.bridge.ring), e.kind = "achievement"
               PROVE  Idle(a, n + 1) /\ (Playing(a) => a.client.game.hash = e.of)
    BY DEF Unlocks
  <2>1. e \in Range(x.bridge.ring)
    BY <1>7
  <2>2. Idle(x, n) /\ (Playing(x) => x.client.game.hash = e.of)
    BY <2>1 DEF Pumping, Unlocks
  <2>3. r \in Came(x, n)
    <3>1. x.net.results \in Seq(Answers)
      BY <1>1 DEF Types, Nets
    <3>2. n + 1 \in n + 1 .. Len(x.net.results)
      BY <3>1
    <3>3. QED
      BY <3>2 DEF Came
  <2>4. c.game = x.client.game /\ c.load = x.client.load
    BY <1>3, <2>2, <2>3 DEF Idle
  <2>5. Came(a, n + 1) \subseteq Came(x, n)
    <3>1. x.net.results \in Seq(Answers)
      BY <1>1 DEF Types, Nets
    <3>2. n + 1 + 1 .. Len(x.net.results) \subseteq n + 1 .. Len(x.net.results)
      BY <3>1
    <3>3. QED
      BY <1>6, <3>2 DEF Came
  <2>6. QED
    BY <1>6, <2>2, <2>4, <2>5 DEF Idle, Playing
<1>11. Signing(a)
  <2>1. \A e \in Range(a.bridge.ring) : e.kind = "login" /\ e.ok => a.client.user = "loggedin"
    BY <1>3, <1>6, <1>7 DEF Pumping, Signing
  <2>2. \A e, f \in Range(a.bridge.ring) : e.kind = "achievement" /\ f.kind = "login" => ~f.ok
    BY <1>7 DEF Pumping, Signing
  <2>3. ASSUME a.client.user # "requested", Right(x), \A e \in Range(x.bridge.ring) : e.kind # "login"
        PROVE  Right(a) /\ \A e \in Range(a.bridge.ring) : e.kind # "login"
    BY <1>3, <1>6, <1>7, <2>3 DEF Right
  <2> DEFINE Newest(y) == /\ y.client.load = 0 /\ y.bridge.ring # <<>>
                          /\ y.bridge.ring[Len(y.bridge.ring)].kind = "login"
                          /\ y.bridge.ring[Len(y.bridge.ring)].ok <=> y.client.user = "loggedin"
  <2>4. ASSUME Newest(x) PROVE Newest(a)
    <3>1. c.load = 0 /\ c.told = <<>>
      BY <1>3, <1>4, <2>4
    <3>2. Told(c) = <<>>
      BY <1>4, <3>1, ToldIs
    <3>3. x.bridge.ring \in Seq(Events) /\ <<>> \in Seq(Events)
      BY <1>1 DEF Types, Bridges
    <3>4. LET p == Pushed(x.bridge.ring, <<>>)
          IN  p # <<>> /\ p[Len(p)] = x.bridge.ring[Len(x.bridge.ring)]
      BY <2>4, <3>3, PushedIs
    <3>5. a.bridge.ring = Pushed(x.bridge.ring, <<>>)
      BY <1>6, <3>2
    <3>6. QED
      BY <1>3, <1>6, <2>4, <3>1, <3>4, <3>5
  <2>5. x.client.user # "requested" =>
           (Right(x) /\ \A e \in Range(x.bridge.ring) : e.kind # "login") \/ Newest(x)
    BY DEF Pumping, Signing
  <2>6. a.client.user # "requested" =>
           (Right(a) /\ \A e \in Range(a.bridge.ring) : e.kind # "login") \/ Newest(a)
    <3> HIDE DEF Newest
    <3>1. QED
      BY <1>3, <1>6, <2>3, <2>4, <2>5
  <2>7. QED
    BY <2>1, <2>2, <2>6 DEF Signing
<1>12. QED
  BY <1>6, <1>8, <1>9, <1>10, <1>11 DEF Pumping, Core, a

\* The answer of the sign-in is completed.
LEMMA LoginCompleted ==
  ASSUME NEW s, s.app.mode = "achievement", NEW x, NEW n \in Nat, Pumping(x, n, s),
         n < Len(x.net.results), NEW r, r = x.net.results[n + 1].request, r.kind = "login",
         NEW c, P!Hosted(c), x.client.user = "requested",
         c.load = x.client.load, c.game = x.client.game, c.flight = x.client.flight \ {r},
         \/ c.user = "none" /\ c.told = << <<"login", "error">> >>
         \/ c.user = "loggedin" /\ c.told = << <<"login", "ok">> >>
  PROVE  Pumping(After(x, c), n + 1, s)
<1> DEFINE a    == After(x, c)
           last == a.bridge.ring[Len(a.bridge.ring)]
<1>1. Types(x) /\ Client(x) /\ Carried(x, n) /\ Archive(x)
  BY DEF Pumping, Core
<1>2. r \in x.client.flight /\ CarriedBy(x, n + 1, x.client.flight \ {r})
  BY <1>1, Completed
<1>heard. Heard(x, c, n + 1, a)
  <2>1. x.client.flight \ {r} \subseteq x.client.flight
    OBVIOUS
  <2>2. QED
    BY <1>1, <1>2, <2>1, AfterIs
<1>3. c \in P!Clients /\ c.load = 0 /\ c.game = Rc!NoGame
  BY <1>1, HostedUser DEF Client
<1>4. /\ Told(c) \in Seq(Events) /\ Len(Told(c)) = 1
      /\ Told(c)[1].kind = "login" /\ (Told(c)[1].ok <=> c.user = "loggedin")
      /\ \A e \in Range(Told(c)) : e.kind = "login" /\ (e.ok <=> c.user = "loggedin")
  <2>1. Len(c.told) = 1 /\ DOMAIN c.told = {1} /\ c.told[1][1] = "login"
        /\ (c.told[1][2] = "ok" <=> c.user = "loggedin")
    <3>1. CASE c.user = "none" /\ c.told = << <<"login", "error">> >>
      BY <3>1
    <3>2. CASE c.user = "loggedin" /\ c.told = << <<"login", "ok">> >>
      BY <3>2
    <3>3. QED
      BY <3>1, <3>2
  <2>2. /\ Told(c) \in Seq(Events) /\ Len(Told(c)) = 1
        /\ Told(c)[1].kind = "login" /\ (Told(c)[1].ok <=> c.user = "loggedin")
    BY <1>3, <2>1, ToldIs
  <2>3. DOMAIN Told(c) = {1}
    BY <2>2
  <2>4. QED
    BY <2>2, <2>3 DEF Range
<1> HIDE DEF a
<1>5. /\ Types(a) /\ Client(a) /\ Carried(a, n + 1)
      /\ a.client.user = c.user /\ a.client.load = 0 /\ a.client.game = Rc!NoGame
      /\ a.bridge.ring = Pushed(x.bridge.ring, Told(c))
      /\ Range(a.bridge.ring) \subseteq Range(x.bridge.ring) \cup Range(Told(c))
      /\ a.net = x.net /\ a.app = x.app
  BY <1>3, <1>heard DEF Heard
<1>6. Rom(a) /\ Archive(a)
  BY <1>1, <1>5 DEF Rom, Archive
<1>7. r \in Came(x, n)
  <2>1. x.net.results \in Seq(Answers)
    BY <1>1 DEF Types, Nets
  <2>2. n + 1 \in n + 1 .. Len(x.net.results)
    BY <2>1
  <2>3. QED
    BY <2>2 DEF Came
<1>8. \A e \in Range(x.bridge.ring) : e.kind # "achievement"
  BY <1>7 DEF Pumping, Unlocks, Idle
<1>9. \A e \in Range(a.bridge.ring) : e.kind # "achievement"
  BY <1>4, <1>5, <1>8
<1>10. \A e \in Range(a.bridge.ring) : e.kind = "login" /\ e.ok => a.client.user = "loggedin"
  BY <1>4, <1>5 DEF Pumping, Signing
<1>11. a.bridge.ring # <<>> /\ last.kind = "login" /\ (last.ok <=> a.client.user = "loggedin")
  <2>1. x.bridge.ring \in Seq(Events)
    BY <1>1 DEF Types, Bridges
  <2>2. Told(c) # <<>>
    <3>1. Told(c) \in Seq(Events) /\ Len(Told(c)) = 1
      BY <1>4
    <3>2. Len(<<>>) = 0 /\ 0 # 1
      OBVIOUS
    <3>3. QED
      BY <3>1, <3>2, Zenon
  <2>3. LET p == Pushed(x.bridge.ring, Told(c))
        IN  p # <<>> /\ p[Len(p)] = Told(c)[Len(Told(c))]
    BY <1>4, <2>1, <2>2, PushedIs
  <2>4. QED
    BY <1>4, <1>5, <2>3
<1>12. Signing(a)
  BY <1>5, <1>9, <1>10, <1>11 DEF Signing
<1>13. Unlocks(a, n + 1)
  BY <1>9 DEF Unlocks
<1>14. QED
  BY <1>5, <1>6, <1>12, <1>13 DEF Pumping, Core, a

\* One answer is completed.
LEMMA CompleteKeeps ==
  ASSUME NEW s, s.app.mode = "achievement", NEW x, NEW n \in Nat, Pumping(x, n, s),
         n < Len(x.net.results)
  PROVE  Pumping(CompleteRequest(x, x.net.results[n + 1]), n + 1, s)
<1> DEFINE answer == x.net.results[n + 1]
           r      == answer.request
           login  == P!LoginCallback(x.client, r, answer.reply)
           sets   == P!FetchGameSetsCallback(x.client, r, answer.reply)
           begun  == P!StartSessionCallback(x.client, r, answer.reply)
<1>1. Types(x) /\ Client(x) /\ Carried(x, n)
  BY DEF Pumping, Core
<1>2. r \in x.client.flight
  BY <1>1, Completed
<1>3. r.kind \in {"login", "sets", "session"} /\ answer.reply # "empty"
  <2>1. x.net.results \in Seq(Answers)
    BY <1>1 DEF Types, Nets
  <2>2. answer \in Answers
    BY <2>1
  <2>3. QED
    BY <2>2 DEF Answers, P!Requests
<1>4. P!Hosted(x.client) /\ x.client.told = <<>>
  BY <1>1 DEF Types, Client
<1>5. CompleteRequest(x, answer) =
        CASE r.kind = "login" -> After(x, login)
          [] r.kind = "sets" -> After(x, sets)
          [] r.kind = "session" -> After(x, begun)
  BY SameLoginCallback, SameFetchGameSetsCallback, SameStartSessionCallback, Zenon DEF CompleteRequest
<1>6. ASSUME r.kind = "login" PROVE Pumping(After(x, login), n + 1, s)
  <2>1. /\ P!Hosted(login)
        /\ x.client.user = "requested"
        /\ login.load = x.client.load /\ login.game = x.client.game
        /\ login.flight = x.client.flight \ {r}
        /\ \/ login.user = "none" /\ login.told = << <<"login", "error">> >>
           \/ login.user = "loggedin" /\ login.told = << <<"login", "ok">> >>
    BY <1>2, <1>4, <1>6, P!LoginCallbackHosted
  <2> HIDE DEF login
  <2>2. QED
    BY <1>6, <2>1, LoginCompleted
<1>7. ASSUME r.kind = "sets" PROVE Pumping(After(x, sets), n + 1, s)
  <2>1. P!Hosted(sets) /\ P!Answered(x.client, sets, r)
    BY <1>2, <1>3, <1>4, <1>7, P!FetchGameSetsCallbackHosted
  <2>2. r.kind # "login"
    BY <1>7
  <2> HIDE DEF sets
  <2>3. QED
    BY <2>1, <2>2, LoadCompleted
<1>8. ASSUME r.kind = "session" PROVE Pumping(After(x, begun), n + 1, s)
  <2>1. P!Hosted(begun) /\ P!Answered(x.client, begun, r)
    BY <1>2, <1>4, <1>8, P!StartSessionCallbackHosted
  <2>2. r.kind # "login"
    BY <1>8
  <2> HIDE DEF begun
  <2>3. QED
    BY <2>1, <2>2, LoadCompleted
<1> HIDE DEF login, sets, begun
<1>9. CASE r.kind = "login"
  BY <1>5, <1>6, <1>9
<1>10. CASE r.kind = "sets"
  BY <1>5, <1>7, <1>10
<1>11. CASE r.kind = "session"
  BY <1>5, <1>8, <1>11
<1>12. QED
  BY <1>3, <1>9, <1>10, <1>11

-----------------------------------------------------------------------------
(* The recursions of the pump and of the handling of its events.             *)

Step(what, x, e) == IF what = "answer" THEN CompleteRequest(x, e) ELSE HandleEvent(x, e)

\* g is what there is after each of the first n steps.
Runs(g, what, start, list, n) ==
  g = [k \in 0 .. n |-> IF k = 0 THEN start ELSE Step(what, g[k - 1], list[k])]

\* However many steps there are, there is something after each of them.
LEMMA RunsExists ==
  ASSUME NEW what, NEW start, NEW list, NEW n \in Nat
  PROVE  \E g : Runs(g, what, start, list, n)
<1> DEFINE Bad == {i \in Nat : ~ \E g : Runs(g, what, start, list, i)}
<1> SUFFICES ASSUME Bad # {} PROVE FALSE
  OBVIOUS
<1>1. PICK i \in Bad : \A k \in Bad : ~(k < i)
  <2>1. Bad \subseteq Nat
    OBVIOUS
  <2> HIDE DEF Bad
  <2>2. QED
    BY <2>1, LeastNumber
<1>2. i \in Nat /\ ~ \E g : Runs(g, what, start, list, i)
  BY <1>1
<1>3. i # 0
  <2> SUFFICES ASSUME i = 0 PROVE FALSE
    OBVIOUS
  <2> DEFINE g == [k \in 0 .. 0 |-> start]
  <2>1. \A k \in 0 .. 0 : k = 0
    OBVIOUS
  <2>2. g = [k \in 0 .. 0 |-> IF k = 0 THEN start ELSE Step(what, g[k - 1], list[k])]
    BY <2>1
  <2>3. Runs(g, what, start, list, 0)
    <3> HIDE DEF g
    <3>1. QED
      BY <2>2 DEF Runs
  <2>4. QED
    BY <1>2, <2>3
<1>4. PICK g : Runs(g, what, start, list, i - 1)
  BY <1>1, <1>2, <1>3
<1>5. \A k \in 0 .. i - 1 : g[k] = IF k = 0 THEN start ELSE Step(what, g[k - 1], list[k])
  BY <1>4 DEF Runs
<1> DEFINE h == [k \in 0 .. i |-> IF k < i THEN g[k] ELSE Step(what, g[i - 1], list[i])]
<1>6. \A k \in 0 .. i : h[k] = IF k = 0 THEN start ELSE Step(what, h[k - 1], list[k])
  <2> TAKE k \in 0 .. i
  <2>1. CASE k = i
    <3>1. k - 1 \in 0 .. i /\ k - 1 < i /\ k # 0
      BY <1>2, <1>3, <2>1
    <3>2. h[k - 1] = g[i - 1] /\ h[k] = Step(what, g[i - 1], list[i])
      BY <2>1, <3>1
    <3> HIDE DEF h
    <3>3. QED
      BY <2>1, <3>1, <3>2
  <2>2. CASE k # i /\ k # 0
    <3>1. k - 1 \in 0 .. i /\ k - 1 < i /\ k \in 0 .. i - 1 /\ k < i
      BY <1>2, <1>3, <2>2
    <3>2. h[k - 1] = g[k - 1] /\ h[k] = g[k]
      BY <3>1
    <3> HIDE DEF h
    <3>3. QED
      BY <1>5, <2>2, <3>1, <3>2
  <2>3. CASE k # i /\ k = 0
    <3>1. h[k] = g[k] /\ k \in 0 .. i - 1
      BY <1>2, <1>3, <2>3
    <3> HIDE DEF h
    <3>2. QED
      BY <1>5, <2>3, <3>1
  <2>4. QED
    BY <2>1, <2>2, <2>3
<1>7. h = [k \in 0 .. i |-> h[k]]
  OBVIOUS
<1> HIDE DEF h
<1>8. Runs(h, what, start, list, i)
  BY <1>6, <1>7 DEF Runs
<1>9. QED
  BY <1>2, <1>8

\* What there is when a pump is done.
LEMMA PumpedRuns ==
  ASSUME NEW s, Len(s.net.results) \in Nat
  PROVE  \E g : /\ Runs(g, "answer", s, s.net.results, Len(s.net.results))
                /\ LET done == g[Len(s.net.results)]
                   IN  Pumped(s) = [done EXCEPT
                         !.net = [threads |-> @.threads \cup Range(done.bridge.requests), results |-> <<>>],
                         !.bridge.requests = <<>>]
<1> DEFINE answers == s.net.results
           f == CHOOSE g : g = [n \in 0 .. Len(answers) |->
                                  IF n = 0 THEN s ELSE CompleteRequest(g[n - 1], answers[n])]
           done == f[Len(answers)]
<1>1. PICK g : Runs(g, "answer", s, answers, Len(answers))
  BY RunsExists
<1>2. g = [n \in 0 .. Len(answers) |-> IF n = 0 THEN s ELSE CompleteRequest(g[n - 1], answers[n])]
  BY <1>1 DEF Runs, Step
<1>3. f = [n \in 0 .. Len(answers) |-> IF n = 0 THEN s ELSE CompleteRequest(f[n - 1], answers[n])]
  BY <1>2
<1>4. Pumped(s) = [done EXCEPT
                     !.net = [threads |-> @.threads \cup Range(done.bridge.requests), results |-> <<>>],
                     !.bridge.requests = <<>>]
  BY Zenon DEF Pumped
<1> HIDE DEF f
<1>5. Runs(f, "answer", s, answers, Len(answers))
  BY <1>3 DEF Runs, Step
<1>6. QED
  BY <1>4, <1>5

\* The answers of s are all completed when a pump is done.
LEMMA AllCompleted ==
  ASSUME NEW s, Inv(s), s.app.mode = "achievement", NEW g,
         Runs(g, "answer", s, s.net.results, Len(s.net.results))
  PROVE  Pumping(g[Len(s.net.results)], Len(s.net.results), s)
<1> DEFINE N   == Len(s.net.results)
           Bad == {i \in 0 .. N : ~ Pumping(g[i], i, s)}
<1>1. N \in Nat
  BY DEF Inv, Core, Types, Nets
<1>2. \A k \in 0 .. N : g[k] = IF k = 0 THEN s ELSE Step("answer", g[k - 1], s.net.results[k])
  BY DEF Runs
<1>3. Pumping(s, 0, s)
  <2>1. Signing(s)
    BY DEF Inv, Token, Signing, Right
  <2>2. QED
    BY <2>1 DEF Inv, Pumping
<1> SUFFICES ASSUME Bad # {} PROVE FALSE
  BY <1>1
<1>4. PICK i \in Bad : \A k \in Bad : ~(k < i)
  <2>1. Bad \subseteq Nat
    BY <1>1
  <2> HIDE DEF Bad
  <2>2. QED
    BY <2>1, LeastNumber
<1>5. i \in 0 .. N /\ ~ Pumping(g[i], i, s) /\ i # 0
  BY <1>1, <1>2, <1>3, <1>4
<1>6. i - 1 \in Nat /\ i - 1 < N /\ i - 1 \in 0 .. N /\ (i - 1) + 1 = i /\ i - 1 < i
  BY <1>1, <1>5
<1>7. Pumping(g[i - 1], i - 1, s)
  BY <1>4, <1>6
<1>8. g[i] = CompleteRequest(g[i - 1], s.net.results[i])
  BY <1>2, <1>5 DEF Step
<1>9. g[i - 1].net = s.net
  BY <1>7 DEF Pumping
<1>10. Pumping(CompleteRequest(g[i - 1], g[i - 1].net.results[(i - 1) + 1]), (i - 1) + 1, s)
  BY <1>6, <1>7, <1>9, CompleteKeeps
<1>11. QED
  BY <1>5, <1>6, <1>8, <1>9, <1>10

\* What a pump leaves to be handled.
LEMMA PumpedIs ==
  ASSUME NEW s, Inv(s), s.app.mode = "achievement"
  PROVE  LET t == Pumped(s)
         IN  /\ Core(t, 0) /\ Signing(t) /\ t.app = s.app
             /\ \A e \in Range(t.bridge.ring) :
                  e.kind = "achievement" => (Playing(t) => t.client.game.hash = e.of)
<1> DEFINE N == Len(s.net.results)
           t == Pumped(s)
<1>1. N \in Nat
  BY DEF Inv, Core, Types, Nets
<1>2. PICK g : /\ Runs(g, "answer", s, s.net.results, N)
               /\ t = [g[N] EXCEPT
                         !.net = [threads |-> @.threads \cup Range(g[N].bridge.requests), results |-> <<>>],
                         !.bridge.requests = <<>>]
  BY <1>1, PumpedRuns
<1> DEFINE x == g[N]
           v == [threads |-> x.net.threads \cup Asked(x), results |-> <<>>]
           b == [x.bridge EXCEPT !.requests = <<>>]
<1>3. Pumping(x, N, s)
  BY <1>2, AllCompleted
<1> HIDE DEF t
<1>4. x \in [client : P!Clients, bridge : Bridges, net : Nets, app : Apps]
  BY <1>3 DEF Pumping, Core, Types
<1>5. t = [x EXCEPT !.net = v, !.bridge = b]
  BY <1>2, <1>4 DEF Asked
<1>6. Asked(x) \subseteq P!Requests
  <2>1. x.bridge.requests \in Seq(P!Requests)
    BY <1>4 DEF Bridges
  <2>2. QED
    BY <2>1 DEF Asked, Range
<1>7. v \in Nets
  <2>1. x.net.threads \subseteq P!Requests /\ <<>> \in Seq(Answers)
    BY <1>4 DEF Nets
  <2>2. x.net.threads \cup Asked(x) \in SUBSET P!Requests
    BY <1>6, <2>1
  <2>3. \A a \in SUBSET P!Requests, q \in Seq(Answers) : [threads |-> a, results |-> q] \in Nets
    BY DEF Nets
  <2>4. QED
    BY <2>1, <2>2, <2>3, Zenon
<1>8. b \in Bridges /\ b.requests = <<>> /\ b.ring = x.bridge.ring /\ b.buffer = x.bridge.buffer
  <2>1. x.bridge \in Bridges /\ <<>> \in Seq(P!Requests)
    BY <1>4
  <2>2. \A y \in Bridges : /\ y.requests \in Seq(P!Requests)
                           /\ \A q \in Seq(P!Requests) :
                                /\ [y EXCEPT !.requests = q] \in Bridges
                                /\ [y EXCEPT !.requests = q].requests = q
                                /\ [y EXCEPT !.requests = q].ring = y.ring
                                /\ [y EXCEPT !.requests = q].buffer = y.buffer
    BY DEF Bridges
  <2> HIDE DEF x
  <2>3. QED
    BY <2>1, <2>2, Zenon
<1>9. v.threads = x.net.threads \cup Asked(x) /\ v.results = <<>>
  OBVIOUS
<1> HIDE DEF x, v, b, N
<1>10. /\ t.client = x.client /\ t.bridge = b /\ t.net = v /\ t.app = x.app
       /\ t \in [client : P!Clients, bridge : Bridges, net : Nets, app : Apps]
  BY <1>4, <1>5, <1>7, <1>8
<1>11. Types(t) /\ Client(t) /\ Rom(t) /\ Archive(t)
  BY <1>3, <1>8, <1>10 DEF Pumping, Core, Types, Client, Rom, Archive
<1>12. Carried(t, 0)
  <2>1. Asked(t) = {}
    BY <1>8, <1>10 DEF Asked, Range
  <2>2. Came(t, 0) = {} /\ 0 + 1 .. Len(t.net.results) = {}
    <3>1. Len(t.net.results) = 0
      BY <1>9, <1>10
    <3>2. QED
      BY <3>1 DEF Came
  <2>3. x.net.threads \cup Asked(x) \subseteq x.client.flight
    BY <1>3 DEF Pumping, Core, Carried, CarriedBy
  <2>4. t.net.threads \subseteq t.client.flight
    BY <1>9, <1>10, <2>3
  <2>5. QED
    BY <2>1, <2>2, <2>4 DEF Carried, CarriedBy, Apart
<1>13. Signing(t)
  BY <1>3, <1>8, <1>10 DEF Pumping, Signing, Right
<1>14. t.app = s.app
  BY <1>3, <1>10 DEF Pumping
<1>15. \A e \in Range(t.bridge.ring) : e.kind = "achievement" => (Playing(t) => t.client.game.hash = e.of)
  BY <1>3, <1>8, <1>10 DEF Pumping, Unlocks, Playing
<1>16. QED
  BY <1>11, <1>12, <1>13, <1>14, <1>15 DEF Core, t

-----------------------------------------------------------------------------
(* The handling of what a pump has left: n events of t are handled and x is  *)
(* what there is.                                                            *)

Handling(x, n, t) ==
  LET events == t.bridge.ring
  IN  /\ Core(x, 0)
      /\ x.app.mode = t.app.mode /\ x.app.rom = t.app.rom
      /\ x.client.user = t.client.user /\ x.client.name = t.client.name
      /\ \A e \in Range(x.bridge.ring) : e.kind = "load"
      /\ (\A i \in 1 .. n : events[i].kind # "login") => x.app.token = t.app.token
      /\ n # 0 /\ events[n].kind = "login" =>
           /\ events[n].ok /\ x.client.user = "loggedin" => x.app.token = x.client.name
           /\ ~events[n].ok => x.app.token = Rc!Nobody
      /\ (\A i \in 1 .. n : events[i].kind = "login" => ~events[i].ok) => x.client = t.client

\* What a pump leaves.
Left(t) ==
  /\ Core(t, 0) /\ Signing(t) /\ t.app.mode = "achievement"
  /\ \A e \in Range(t.bridge.ring) : e.kind = "achievement" => (Playing(t) => t.client.game.hash = e.of)

\* What the windows know apart from the ROM and the mode is their own.
LEMMA WindowsOnly ==
  ASSUME NEW x, NEW n, Types(x), Client(x), Carried(x, n), Rom(x), NEW w \in Apps,
         w.rom = x.app.rom, w.mode = x.app.mode, \A u \in w.archive : u.game \in {u.of, NoRom},
         NEW y, y = [x EXCEPT !.app = w]
  PROVE  Core(y, n) /\ y.app = w /\ y.client = x.client /\ y.bridge = x.bridge /\ y.net = x.net
<1>1. /\ y.client = x.client /\ y.bridge = x.bridge /\ y.net = x.net /\ y.app = w
      /\ y \in [client : P!Clients, bridge : Bridges, net : Nets, app : Apps]
  BY DEF Types
<1>2. Types(y) /\ Client(y) /\ Rom(y) /\ Archive(y)
  BY <1>1 DEF Types, Client, Rom, Archive
<1>3. Carried(y, n)
  BY <1>1 DEF Carried, CarriedBy, Apart, Asked, Came
<1>4. QED
  BY <1>1, <1>2, <1>3 DEF Core

\* A game that is loaded is that of the ROM, and takes the place of no unlock.
LEMMA LoadedCore ==
  ASSUME NEW x, NEW n, NEW y, Loaded(x, n, x.app.rom, y), Archive(x), x.app.mode = "achievement"
  PROVE  Core(y, n) /\ (Unlocks(x, n) => Unlocks(y, n))
<1>1. /\ Types(y) /\ Client(y) /\ Carried(y, n)
      /\ y.client.game # Rc!NoGame => y.client.game.hash = x.app.rom
      /\ y.client.load # 0 => y.client.loads[y.client.load].hash = x.app.rom
                              /\ y.bridge.buffer = y.client.load
      /\ ~Playing(y)
      /\ \A r \in y.net.threads \cup Came(y, n) : r.kind # "login" => r.of # y.client.load
      /\ \A e \in Range(y.bridge.ring) : e \in Range(x.bridge.ring) \/ e.kind = "load"
      /\ y.net = x.net /\ y.app = x.app
  BY DEF Loaded
<1>2. Rom(y) /\ Archive(y)
  BY <1>1 DEF Rom, Archive
<1>3. ASSUME Unlocks(x, n) PROVE Unlocks(y, n)
  <2>1. Came(y, n) = Came(x, n)
    BY <1>1 DEF Came
  <2>2. QED
    BY <1>1, <1>3, <2>1 DEF Unlocks, Idle
<1>4. QED
  BY <1>1, <1>2, <1>3 DEF Core

\* The current game is loaded for who is signed in.
LEMMA LoadCurrentGameIs ==
  ASSUME NEW x, NEW n, Core(x, n), x.app.mode = "achievement", x.client.user = "loggedin"
  PROVE  LET y == LoadCurrentGame(x)
         IN  /\ Core(y, n) /\ (Unlocks(x, n) => Unlocks(y, n))
             /\ y.client.user = "loggedin" /\ y.client.name = x.client.name
             /\ \A e \in Range(y.bridge.ring) : e \in Range(x.bridge.ring) \/ e.kind = "load"
             /\ y.app.mode = x.app.mode /\ y.app.rom = x.app.rom /\ y.app.token = x.app.token
<1> DEFINE w == [x.app EXCEPT !.known = {}]
           k == [x EXCEPT !.app = w]
           y == LoadNesGame(k, x.app.rom)
<1>1. x \in [client : P!Clients, bridge : Bridges, net : Nets, app : Apps]
  BY DEF Core, Types
<1>2. CASE x.app.rom = NoRom
  <2>1. LoadCurrentGame(x) = x
    BY <1>2 DEF LoadCurrentGame
  <2>2. QED
    BY <2>1
<1>3. CASE x.app.rom # NoRom
  <2>1. x.app \in Apps
    BY <1>1
  <2>2. w \in Apps /\ w.rom = x.app.rom /\ w.mode = x.app.mode /\ w.archive = x.app.archive
        /\ w.token = x.app.token
    BY <2>1 DEF Apps
  <2>3. LoadCurrentGame(x) = y
    <3>1. k = [x EXCEPT !.app.known = {}]
      BY <1>1
    <3>2. QED
      BY <1>3, <3>1 DEF LoadCurrentGame
  <2>4. x.app.rom \in Hashes
    BY <1>3, <2>1 DEF Apps, Roms
  <2> HIDE DEF w, k
  <2>5. Core(k, n) /\ k.app = w /\ k.client = x.client /\ k.bridge = x.bridge /\ k.net = x.net
    BY <2>2, WindowsOnly DEF Core, Archive, k
  <2> HIDE DEF y
  <2>loaded. Loaded(k, n, x.app.rom, y)
    BY <2>4, <2>5, LoadNesGameIs DEF Core, y
  <2>6. /\ y.client.user = "loggedin" /\ y.client.name = k.client.name
        /\ \A e \in Range(y.bridge.ring) : e \in Range(k.bridge.ring) \/ e.kind = "load"
        /\ y.app = k.app
    BY <2>5, <2>loaded DEF Loaded
  <2>7. Core(y, n) /\ (Unlocks(k, n) => Unlocks(y, n))
    BY <1>3, <2>2, <2>5, <2>loaded, LoadedCore DEF Core
  <2>8. Unlocks(x, n) => Unlocks(k, n)
    BY <2>5 DEF Unlocks, Idle, Came, Playing, k
  <2>9. QED
    BY <2>2, <2>3, <2>5, <2>6, <2>7, <2>8
<1>4. QED
  BY <1>2, <1>3

\* An event is handled if what it is about is.
LEMMA NextHandled ==
  ASSUME NEW t, NEW x, NEW n \in Nat, Handling(x, n, t), NEW y, NEW e, e = t.bridge.ring[n + 1],
         Core(y, 0), y.app.mode = x.app.mode, y.app.rom = x.app.rom,
         y.client.user = x.client.user, y.client.name = x.client.name,
         \A v \in Range(y.bridge.ring) : v.kind = "load",
         e.kind # "login" => y.app.token = x.app.token,
         e.kind = "login" /\ e.ok /\ y.client.user = "loggedin" => y.app.token = y.client.name,
         e.kind = "login" /\ ~e.ok => y.app.token = Rc!Nobody,
         (e.kind = "login" /\ e.ok) \/ y.client = x.client
  PROVE  Handling(y, n + 1, t)
<1> DEFINE events == t.bridge.ring
<1>1. 1 .. n \subseteq 1 .. n + 1 /\ n + 1 \in 1 .. n + 1 /\ n + 1 # 0
  OBVIOUS
<1>2. (\A i \in 1 .. n + 1 : events[i].kind # "login") => y.app.token = t.app.token
  BY <1>1 DEF Handling
<1>3. (\A i \in 1 .. n + 1 : events[i].kind = "login" => ~events[i].ok) => y.client = t.client
  BY <1>1, Zenon DEF Handling
<1>4. n + 1 # 0 /\ events[n + 1].kind = "login" =>
        /\ events[n + 1].ok /\ y.client.user = "loggedin" => y.app.token = y.client.name
        /\ ~events[n + 1].ok => y.app.token = Rc!Nobody
  OBVIOUS
<1>5. QED
  BY <1>2, <1>3, <1>4 DEF Handling

\* What Handling and Left say of the client and of what there is to be handled.
LEMMA HandlingIs ==
  ASSUME NEW t, Left(t), NEW x, NEW n \in Nat, Handling(x, n, t), n < Len(t.bridge.ring),
         NEW e, e = t.bridge.ring[n + 1]
  PROVE  /\ Core(x, 0) /\ x.app.mode = "achievement"
         /\ e \in Events /\ e \in Range(t.bridge.ring)
         /\ x.client \in P!Clients /\ x.app \in Apps
         /\ e.kind = "login" /\ e.ok => x.client.user = "loggedin"
         /\ e.kind = "achievement" => x.client = t.client
<1>1. t.bridge.ring \in Seq(Events)
  BY DEF Left, Core, Types, Bridges
<1>2. e \in Events /\ n + 1 \in DOMAIN t.bridge.ring
  BY <1>1
<1>3. e \in Range(t.bridge.ring)
  BY <1>2 DEF Range
<1>4. e.kind = "login" /\ e.ok => x.client.user = "loggedin"
  BY <1>3 DEF Left, Signing, Handling
<1>5. ASSUME e.kind = "achievement" PROVE x.client = t.client
  <2>1. \A f \in Range(t.bridge.ring) : f.kind = "login" => ~f.ok
    BY <1>3, <1>5 DEF Left, Signing
  <2>2. \A i \in 1 .. n : t.bridge.ring[i] \in Range(t.bridge.ring)
    BY <1>1 DEF Range
  <2>3. QED
    BY <2>1, <2>2 DEF Handling
<1>6. QED
  BY <1>2, <1>3, <1>4, <1>5 DEF Handling, Left, Core, Types

\* The events that only the windows see: x.app becomes w.
LEMMA SeenByWindows ==
  ASSUME NEW t, NEW x, NEW n \in Nat, Handling(x, n, t), NEW e, e = t.bridge.ring[n + 1],
         ~(e.kind = "login" /\ e.ok), NEW w \in Apps,
         w.rom = x.app.rom, w.mode = x.app.mode, \A u \in w.archive : u.game \in {u.of, NoRom},
         e.kind # "login" => w.token = x.app.token,
         e.kind = "login" => w.token = Rc!Nobody,
         NEW y, y = [x EXCEPT !.app = w]
  PROVE  Handling(y, n + 1, t)
<1>1. Core(x, 0) /\ \A v \in Range(x.bridge.ring) : v.kind = "load"
  BY DEF Handling
<1>2. Core(y, 0) /\ y.app = w /\ y.client = x.client /\ y.bridge = x.bridge
  BY <1>1, WindowsOnly DEF Core
<1>3. QED
  BY <1>1, <1>2, NextHandled

\* A sign-in that succeeded.
LEMMA SignInHandled ==
  ASSUME NEW t, Left(t), NEW x, NEW n \in Nat, Handling(x, n, t), n < Len(t.bridge.ring),
         NEW e, e = t.bridge.ring[n + 1], e.kind = "login", e.ok
  PROVE  Handling(HandleEvent(x, e), n + 1, t)
<1> DEFINE w == [x.app EXCEPT !.token = x.client.name]
           k == [x EXCEPT !.app = w]
           y == LoadCurrentGame(k)
<1>1. /\ Core(x, 0) /\ x.app.mode = "achievement" /\ x.client.user = "loggedin"
      /\ x.client \in P!Clients /\ x.app \in Apps
  BY HandlingIs
<1>2. HandleEvent(x, e) = y
  <2>1. HandleEvent(x, e) = LoadCurrentGame(IF UserIs(x) THEN [x EXCEPT !.app.token = x.client.name] ELSE x)
    BY DEF HandleEvent
  <2>2. UserIs(x)
    BY <1>1 DEF UserIs
  <2>3. QED
    BY <2>1, <2>2
<1>3. x.client.name \in P!Names
  BY <1>1 DEF P!Clients
<1>4. w \in Apps /\ w.rom = x.app.rom /\ w.mode = x.app.mode /\ w.archive = x.app.archive
      /\ w.token = x.client.name
  BY <1>1, <1>3 DEF Apps
<1> HIDE DEF w, k
<1>5. Core(k, 0) /\ k.app = w /\ k.client = x.client /\ k.bridge = x.bridge
  BY <1>1, <1>4, WindowsOnly DEF Core, Archive, k
<1> HIDE DEF y
<1>6. /\ Core(y, 0)
      /\ y.client.user = "loggedin" /\ y.client.name = k.client.name
      /\ \A v \in Range(y.bridge.ring) : v \in Range(k.bridge.ring) \/ v.kind = "load"
      /\ y.app.mode = k.app.mode /\ y.app.rom = k.app.rom /\ y.app.token = k.app.token
  BY <1>1, <1>4, <1>5, LoadCurrentGameIs DEF y
<1>7. \A v \in Range(y.bridge.ring) : v.kind = "load"
  BY <1>5, <1>6 DEF Handling
<1>8. Handling(y, n + 1, t)
  BY <1>1, <1>4, <1>5, <1>6, <1>7, NextHandled
<1>9. QED
  BY <1>2, <1>8

\* An unlock is filed under the game there is, if that has a name.
LEMMA UnlockHandled ==
  ASSUME NEW t, Left(t), NEW x, NEW n \in Nat, Handling(x, n, t), n < Len(t.bridge.ring),
         NEW e, e = t.bridge.ring[n + 1], e.kind = "achievement"
  PROVE  Handling(HandleEvent(x, e), n + 1, t)
<1> DEFINE filed == IF e.of \in x.app.known \/ x.client.game = Rc!NoGame THEN x.app.archive
                    ELSE x.app.archive \cup {[game |-> GameId(x), of |-> e.of]}
           w == [x.app EXCEPT !.known = @ \cup {e.of}, !.archive = filed]
<1>1. /\ Core(x, 0) /\ x.client = t.client /\ e \in Events /\ e \in Range(t.bridge.ring)
      /\ x.client \in P!Clients /\ x.app \in Apps
  BY HandlingIs
<1>2. HandleEvent(x, e) = [x EXCEPT !.app = w]
  <2>1. HandleEvent(x, e) = [x EXCEPT !.app.known = @ \cup {e.of}, !.app.archive = filed]
    BY Zenon DEF HandleEvent
  <2>2. x \in [client : P!Clients, bridge : Bridges, net : Nets, app : Apps]
    BY <1>1 DEF Core, Types
  <2> HIDE DEF filed
  <2>3. QED
    BY <1>1, <2>1, <2>2 DEF Apps
<1>3. e.of \in Roms /\ GameId(x) \in {e.of, NoRom} /\ GameId(x) \in Roms
  <2>1. Playing(x) => x.client.game.hash = e.of
    BY <1>1 DEF Left, Playing
  <2>2. e.of \in Roms /\ NoRom \in Roms
    BY <1>1 DEF Events, Roms
  <2>3. QED
    BY <2>1, <2>2 DEF GameId
<1>4. filed \in SUBSET [game : Roms, of : Roms] /\ \A u \in filed : u.game \in {u.of, NoRom}
  <2>1. [game |-> GameId(x), of |-> e.of] \in [game : Roms, of : Roms]
    BY <1>3
  <2>2. x.app.archive \in SUBSET [game : Roms, of : Roms]
    BY <1>1 DEF Apps
  <2>3. \A u \in x.app.archive : u.game \in {u.of, NoRom}
    BY <1>1 DEF Core, Archive
  <2>4. QED
    BY <1>3, <2>1, <2>2, <2>3
<1> HIDE DEF filed
<1>5. /\ w \in Apps /\ w.rom = x.app.rom /\ w.mode = x.app.mode /\ w.archive = filed
      /\ w.token = x.app.token
  BY <1>1, <1>3, <1>4 DEF Apps
<1> HIDE DEF w
<1>6. Handling([x EXCEPT !.app = w], n + 1, t)
  BY <1>4, <1>5, SeenByWindows
<1>7. QED
  BY <1>2, <1>6

\* One event is handled.
LEMMA HandleKeeps ==
  ASSUME NEW t, Left(t), NEW x, NEW n \in Nat, Handling(x, n, t), n < Len(t.bridge.ring)
  PROVE  Handling(HandleEvent(x, t.bridge.ring[n + 1]), n + 1, t)
<1> DEFINE e == t.bridge.ring[n + 1]
<1>1. /\ Core(x, 0) /\ e \in Events /\ x.client \in P!Clients /\ x.app \in Apps
  BY HandlingIs
<1>2. x \in [client : P!Clients, bridge : Bridges, net : Nets, app : Apps]
  BY <1>1 DEF Core, Types
<1>3. e.kind \in {"login", "load", "achievement"}
  BY <1>1 DEF Events
<1>4. \A u \in x.app.archive : u.game \in {u.of, NoRom}
  BY <1>1 DEF Core, Archive
<1>5. x.client.game.hash \in Roms
  BY <1>1 DEF P!Clients, P!Games, Roms, NoRom
<1>6. \A k \in SUBSET Roms : LET w == [x.app EXCEPT !.known = k]
                             IN  /\ w \in Apps /\ w.rom = x.app.rom /\ w.mode = x.app.mode
                                 /\ w.archive = x.app.archive /\ w.token = x.app.token
                                 /\ [x EXCEPT !.app.known = k] = [x EXCEPT !.app = w]
  BY <1>1, <1>2 DEF Apps
<1> HIDE DEF e
<1>7. ASSUME e.kind = "login", e.ok PROVE Handling(HandleEvent(x, e), n + 1, t)
  BY <1>7, SignInHandled DEF e
<1>8. ASSUME e.kind = "login", ~e.ok PROVE Handling(HandleEvent(x, e), n + 1, t)
  <2> DEFINE w == [x.app EXCEPT !.token = Rc!Nobody]
  <2>1. HandleEvent(x, e) = [x EXCEPT !.app.token = Rc!Nobody]
    BY <1>8, Zenon DEF HandleEvent
  <2>2. [x EXCEPT !.app.token = Rc!Nobody] = [x EXCEPT !.app = w]
    BY <1>2
  <2>3. Rc!Nobody \in P!Names
    BY SameNobody DEF P!Names
  <2>4. /\ w \in Apps /\ w.rom = x.app.rom /\ w.mode = x.app.mode /\ w.archive = x.app.archive
        /\ w.token = Rc!Nobody
    BY <1>1, <2>3 DEF Apps
  <2> HIDE DEF w
  <2>5. Handling([x EXCEPT !.app = w], n + 1, t)
    BY <1>4, <1>8, <2>4, SeenByWindows DEF e
  <2>6. QED
    BY <2>1, <2>2, <2>5
<1>9. ASSUME e.kind = "load" PROVE Handling(HandleEvent(x, e), n + 1, t)
  <2>1. ASSUME NEW k \in SUBSET Roms PROVE Handling([x EXCEPT !.app.known = k], n + 1, t)
    <3> DEFINE w == [x.app EXCEPT !.known = k]
    <3>1. /\ w \in Apps /\ w.rom = x.app.rom /\ w.mode = x.app.mode
          /\ w.archive = x.app.archive /\ w.token = x.app.token
          /\ [x EXCEPT !.app.known = k] = [x EXCEPT !.app = w]
      BY <1>6
    <3> HIDE DEF w
    <3>2. Handling([x EXCEPT !.app = w], n + 1, t)
      BY <1>4, <1>9, <3>1, SeenByWindows DEF e
    <3>3. QED
      BY <3>1, <3>2
  <2>2. Handling(x, n + 1, t)
    BY <1>1, <1>9, NextHandled DEF e, Handling
  <2>3. HandleEvent(x, e) = IF e.ok /\ Playing(x) /\ ~Locked(x)
                            THEN [x EXCEPT !.app.known = {x.client.game.hash}]
                            ELSE IF e.ok THEN [x EXCEPT !.app.known = {}] ELSE x
    BY <1>9, Zenon DEF HandleEvent
  <2>4. QED
    BY <1>5, <2>1, <2>2, <2>3
<1>10. ASSUME e.kind = "achievement" PROVE Handling(HandleEvent(x, e), n + 1, t)
  BY <1>10, UnlockHandled DEF e
<1>11. Handling(HandleEvent(x, e), n + 1, t)
  BY <1>3, <1>7, <1>8, <1>9, <1>10
<1>12. QED
  BY <1>11 DEF e

\* What there is when the events are handled.
LEMMA HandledRuns ==
  ASSUME NEW t, Len(t.bridge.ring) \in Nat
  PROVE  \E g : /\ Runs(g, "event", [t EXCEPT !.bridge.ring = <<>>], t.bridge.ring, Len(t.bridge.ring))
                /\ Handled(t) = g[Len(t.bridge.ring)]
<1> DEFINE events == t.bridge.ring
           u == [t EXCEPT !.bridge.ring = <<>>]
           f == CHOOSE g : g = [n \in 0 .. Len(events) |->
                                  IF n = 0 THEN u ELSE HandleEvent(g[n - 1], events[n])]
<1>1. PICK g : Runs(g, "event", u, events, Len(events))
  BY RunsExists
<1>2. g = [n \in 0 .. Len(events) |-> IF n = 0 THEN u ELSE HandleEvent(g[n - 1], events[n])]
  BY <1>1 DEF Runs, Step
<1>3. f = [n \in 0 .. Len(events) |-> IF n = 0 THEN u ELSE HandleEvent(f[n - 1], events[n])]
  BY <1>2
<1>4. Handled(t) = f[Len(events)]
  BY Zenon DEF Handled
<1> HIDE DEF f
<1>5. Runs(f, "event", u, events, Len(events))
  BY <1>3 DEF Runs, Step
<1>6. QED
  BY <1>4, <1>5

\* All the events there were are handled.
LEMMA AllHandled ==
  ASSUME NEW t, Left(t)
  PROVE  Handling(Handled(t), Len(t.bridge.ring), t)
<1> DEFINE N == Len(t.bridge.ring)
           b == [t.bridge EXCEPT !.ring = <<>>]
           u == [t EXCEPT !.bridge = b]
<1>1. t \in [client : P!Clients, bridge : Bridges, net : Nets, app : Apps] /\ N \in Nat
  BY DEF Left, Core, Types, Bridges
<1>2. PICK g : /\ Runs(g, "event", [t EXCEPT !.bridge.ring = <<>>], t.bridge.ring, N)
               /\ Handled(t) = g[N]
  BY <1>1, HandledRuns
<1>3. [t EXCEPT !.bridge.ring = <<>>] = u
  BY <1>1
<1>4. \A k \in 0 .. N : g[k] = IF k = 0 THEN u ELSE Step("event", g[k - 1], t.bridge.ring[k])
  BY <1>2, <1>3 DEF Runs
<1>5. b \in Bridges /\ b.requests = t.bridge.requests /\ b.ring = <<>> /\ b.buffer = t.bridge.buffer
  <2>1. t.bridge \in Bridges /\ <<>> \in Seq(Events)
    BY <1>1
  <2>2. \A y \in Bridges, q \in Seq(Events) : /\ [y EXCEPT !.ring = q] \in Bridges
                                              /\ [y EXCEPT !.ring = q].requests = y.requests
                                              /\ [y EXCEPT !.ring = q].ring = q
                                              /\ [y EXCEPT !.ring = q].buffer = y.buffer
    BY DEF Bridges
  <2>3. QED
    BY <2>1, <2>2, Zenon
<1> HIDE DEF b
<1>6. /\ u.client = t.client /\ u.bridge = b /\ u.net = t.net /\ u.app = t.app
      /\ u \in [client : P!Clients, bridge : Bridges, net : Nets, app : Apps]
  BY <1>1, <1>5
<1> HIDE DEF u
<1>7. Handling(u, 0, t)
  <2>1. Types(u) /\ Client(u) /\ Rom(u) /\ Archive(u)
    BY <1>5, <1>6 DEF Left, Core, Types, Client, Rom, Archive
  <2>2. Carried(u, 0)
    BY <1>5, <1>6 DEF Left, Core, Carried, CarriedBy, Apart, Asked, Came
  <2>3. Range(u.bridge.ring) = {}
    BY <1>5, <1>6 DEF Range
  <2>4. QED
    BY <1>6, <2>1, <2>2, <2>3 DEF Handling, Core
<1> DEFINE Bad == {i \in 0 .. N : ~ Handling(g[i], i, t)}
<1> SUFFICES ASSUME Bad # {} PROVE FALSE
  BY <1>1, <1>2
<1>8. PICK i \in Bad : \A k \in Bad : ~(k < i)
  <2>1. Bad \subseteq Nat
    BY <1>1
  <2> HIDE DEF Bad
  <2>2. QED
    BY <2>1, LeastNumber
<1>9. i \in 0 .. N /\ ~ Handling(g[i], i, t) /\ i # 0
  BY <1>1, <1>4, <1>7, <1>8
<1>10. i - 1 \in Nat /\ i - 1 < N /\ i - 1 \in 0 .. N /\ (i - 1) + 1 = i /\ i - 1 < i
  BY <1>1, <1>9
<1>11. Handling(g[i - 1], i - 1, t)
  BY <1>8, <1>10
<1>12. g[i] = HandleEvent(g[i - 1], t.bridge.ring[i])
  BY <1>4, <1>9 DEF Step
<1>13. Handling(HandleEvent(g[i - 1], t.bridge.ring[(i - 1) + 1]), (i - 1) + 1, t)
  BY <1>10, <1>11, HandleKeeps
<1>14. QED
  BY <1>9, <1>10, <1>12, <1>13

\* With every event handled the settings are those of the user.
LEMMA HandledIs ==
  ASSUME NEW t, Left(t)
  PROVE  LET h == Handled(t)
         IN  /\ Inv(h) /\ h.app.mode = "achievement"
             /\ \A e \in Range(h.bridge.ring) : e.kind = "load"
<1> DEFINE h == Handled(t)
           N == Len(t.bridge.ring)
           last == t.bridge.ring[N]
<1>1. Handling(h, N, t)
  BY AllHandled
<1>2. t.bridge.ring \in Seq(Events) /\ N \in Nat
  BY DEF Left, Core, Types, Bridges
<1> HIDE DEF h
<1>3. /\ Core(h, 0) /\ h.app.mode = "achievement"
      /\ h.client.user = t.client.user /\ h.client.name = t.client.name
      /\ \A e \in Range(h.bridge.ring) : e.kind = "load"
  BY <1>1 DEF Handling, Left
<1>4. Right(h) \/ h.client.user = "requested"
  <2> SUFFICES ASSUME h.client.user # "requested" PROVE Right(h)
    OBVIOUS
  <2>1. CASE Right(t) /\ \A e \in Range(t.bridge.ring) : e.kind # "login"
    <3>1. \A i \in 1 .. N : t.bridge.ring[i] \in Range(t.bridge.ring)
      BY <1>2 DEF Range
    <3>2. h.app.token = t.app.token
      BY <1>1, <2>1, <3>1 DEF Handling
    <3>3. QED
      BY <1>3, <2>1, <3>2 DEF Right
  <2>2. CASE t.bridge.ring # <<>> /\ last.kind = "login" /\ (last.ok <=> t.client.user = "loggedin")
    <3>1. N # 0
      BY <1>2, <2>2
    <3>2. /\ last.ok /\ h.client.user = "loggedin" => h.app.token = h.client.name
          /\ ~last.ok => h.app.token = Rc!Nobody
      BY <1>1, <2>2, <3>1 DEF Handling
    <3>3. QED
      BY <1>3, <2>2, <3>2 DEF Right
  <2>3. QED
    BY <1>3, <2>1, <2>2 DEF Left, Signing
<1>5. Token(h)
  <2>1. h.client.user = "requested" => h.client.user # "loggedin" /\ h.client.user # "none"
    OBVIOUS
  <2>2. QED
    BY <1>3, <1>4, <2>1 DEF Token, Right
<1>6. Unlocks(h, 0)
  BY <1>3 DEF Unlocks
<1>7. QED
  BY <1>3, <1>5, <1>6 DEF Inv, h

\* An unlock is in the ring while nothing can take the game away but the windows.
LEMMA EarnedIs ==
  ASSUME NEW s, Inv(s), s.app.mode = "achievement", \A e \in Range(s.bridge.ring) : e.kind = "load",
         Playing(s)
  PROVE  Inv(Earned(s))
<1> DEFINE hash   == s.client.game.hash
           unlock == [kind |-> "achievement", ok |-> TRUE, of |-> hash]
           ring   == Pushed(s.bridge.ring, <<unlock>>)
           b == [s.bridge EXCEPT !.ring = ring]
           w == [s.app EXCEPT !.earned = @ \cup {<<s.client.name, hash>>}]
           a == [s EXCEPT !.bridge = b, !.app = w]
<1>1. /\ s \in [client : P!Clients, bridge : Bridges, net : Nets, app : Apps]
      /\ Types(s) /\ Client(s) /\ Carried(s, 0) /\ Rom(s) /\ Archive(s) /\ Token(s)
  BY DEF Inv, Core, Types
<1>2. s.bridge \in Bridges /\ s.app \in Apps /\ s.client \in P!Clients
      /\ s.bridge.ring \in Seq(Events)
  BY <1>1 DEF Bridges
<1>3. Earned(s) = a
  <2> HIDE DEF ring
  <2>1. Earned(s) = [s EXCEPT !.bridge.ring = ring, !.app.earned = @ \cup {<<s.client.name, hash>>}]
    BY Zenon DEF Earned, ring
  <2>2. QED
    BY <1>1, <2>1
<1>4. hash \in Roms /\ s.client.name \in P!Names
  BY <1>2 DEF P!Clients, P!Games, Roms, NoRom
<1>5. unlock \in Events /\ unlock.kind = "achievement" /\ unlock.of = hash
  <2>1. \A k \in {"achievement"}, o \in BOOLEAN, f \in Roms : [kind |-> k, ok |-> o, of |-> f] \in Events
    BY DEF Events
  <2>2. TRUE \in BOOLEAN
    OBVIOUS
  <2>3. QED
    BY <1>4, <2>1, <2>2, Zenon
<1> HIDE DEF unlock
<1>6. <<unlock>> \in Seq(Events) /\ Range(<<unlock>>) = {unlock}
  <2>1. DOMAIN <<unlock>> = {1} /\ <<unlock>>[1] = unlock
    OBVIOUS
  <2>2. QED
    BY <1>5, <2>1 DEF Range
<1>7. ring \in Seq(Events) /\ \A e \in Range(ring) : e \in Range(s.bridge.ring) \/ e = unlock
  <2>1. LET p == Pushed(s.bridge.ring, <<unlock>>)
        IN  p \in Seq(Events) /\ Range(p) \subseteq Range(s.bridge.ring) \cup Range(<<unlock>>)
    BY <1>2, <1>6, PushedIs
  <2>2. QED
    BY <1>6, <2>1
<1> HIDE DEF ring
<1>8. b \in Bridges /\ b.ring = ring /\ b.requests = s.bridge.requests /\ b.buffer = s.bridge.buffer
  BY <1>2, <1>7 DEF Bridges
<1>9. /\ w \in Apps /\ w.mode = s.app.mode /\ w.rom = s.app.rom /\ w.token = s.app.token
      /\ w.archive = s.app.archive
  <2>1. <<s.client.name, hash>> \in P!Names \X Roms
    BY <1>4
  <2>2. s.app.earned \cup {<<s.client.name, hash>>} \in SUBSET (P!Names \X Roms)
    BY <1>2, <2>1 DEF Apps
  <2>3. \A y \in Apps, q \in SUBSET (P!Names \X Roms) :
           LET z == [y EXCEPT !.earned = q]
           IN  /\ z \in Apps /\ z.mode = y.mode /\ z.rom = y.rom /\ z.token = y.token
               /\ z.archive = y.archive
    BY DEF Apps
  <2>4. QED
    BY <1>2, <2>2, <2>3, Zenon
<1> HIDE DEF b, w
<1>10. /\ a.client = s.client /\ a.bridge = b /\ a.net = s.net /\ a.app = w
       /\ a \in [client : P!Clients, bridge : Bridges, net : Nets, app : Apps]
  BY <1>1, <1>8, <1>9
<1> HIDE DEF a
<1>11. Types(a) /\ Client(a) /\ Rom(a) /\ Archive(a)
  BY <1>1, <1>8, <1>9, <1>10 DEF Types, Client, Rom, Archive
<1>12. Carried(a, 0) /\ Came(a, 0) = Came(s, 0)
  BY <1>1, <1>8, <1>10 DEF Carried, CarriedBy, Apart, Asked, Came
<1>13. Token(a)
  BY <1>1, <1>5, <1>7, <1>8, <1>9, <1>10 DEF Token
<1>14. Idle(a, 0)
  <2>1. /\ s.client.load = 0 /\ s.client.user = "loggedin"
    <3>1. s.client.game # Rc!NoGame
      BY DEF Playing, Rc!NoGame
    <3>2. s.client.load # 0 => s.client.game = Rc!NoGame
      BY <1>1, SameNoGame DEF Client, P!Hosted, P!Sound, P!Played
    <3>3. QED
      BY <1>1, <3>1, <3>2, HostedUser DEF Client
  <2>2. \A r \in s.client.flight : r.kind # "login" /\ r.of # 0
    BY <1>1, <2>1, HostedUser DEF Client
  <2>3. s.net.threads \cup Came(s, 0) \subseteq s.client.flight
    BY <1>1 DEF Carried, CarriedBy
  <2>4. QED
    BY <1>10, <1>12, <2>1, <2>2, <2>3 DEF Idle
<1>15. Unlocks(a, 0)
  BY <1>5, <1>7, <1>8, <1>10, <1>14 DEF Unlocks, Playing
<1>16. QED
  BY <1>3, <1>11, <1>12, <1>13, <1>15 DEF Inv, Core

-----------------------------------------------------------------------------
(* The windows and the threads.                                              *)

\* Somebody who is not signed in yet asks to be.
LEMMA SignInIs ==
  ASSUME NEW x, Core(x, 0), Unlocks(x, 0), NEW who \in Users, x.client.user # "loggedin",
         \A e \in Range(x.bridge.ring) : e.kind = "login" => ~e.ok
  PROVE  Inv(After(x, Rc!BeginLogin(x.client, who)))
<1> DEFINE c == P!BeginLogin(x.client, who)
           a == After(x, c)
<1>1. Types(x) /\ Client(x) /\ Carried(x, 0) /\ Archive(x) /\ P!Hosted(x.client) /\ x.client.told = <<>>
  BY DEF Core, Types, Client
<1>2. /\ P!Hosted(c)
      /\ c.user = "requested" /\ c.load = 0 /\ c.game = P!NoGame
      /\ \/ x.client.user = "requested" /\ c.flight = x.client.flight
                                        /\ c.told = << <<"login", "already_requested">> >>
         \/ /\ x.client.user = "none" /\ c.told = <<>>
            /\ \E q \in P!Requests : c.flight = x.client.flight \cup {q}
  BY <1>1, P!BeginLoginHosted
<1>3. c = Rc!BeginLogin(x.client, who) /\ P!NoGame = Rc!NoGame
  BY SameBeginLogin, SameNoGame
<1> HIDE DEF c
<1>4. \A e \in Range(Told(c)) : e.kind = "login" /\ ~e.ok
  <2>1. c \in P!Clients
    BY <1>2, HostedUser
  <2>2. CASE c.told = << <<"login", "already_requested">> >>
    <3>1. Len(c.told) = 1 /\ DOMAIN c.told = {1} /\ c.told[1][1] = "login" /\ c.told[1][2] # "ok"
      BY <2>2
    <3>2. /\ Told(c) \in Seq(Events) /\ Len(Told(c)) = 1
          /\ Told(c)[1].kind = "login" /\ ~Told(c)[1].ok
      BY <2>1, <3>1, ToldIs
    <3>3. DOMAIN Told(c) = {1}
      BY <3>2
    <3>4. QED
      BY <3>2, <3>3 DEF Range
  <2>3. CASE c.told = <<>>
    <3>1. Told(c) = <<>>
      BY <2>1, <2>3, ToldIs
    <3>2. QED
      BY <3>1 DEF Range
  <2>4. QED
    BY <1>2, <2>2, <2>3
<1>heard. Heard(x, c, 0, a)
  <2>1. c.flight = x.client.flight \/ \E q \in P!Requests : c.flight = x.client.flight \cup {q}
    BY <1>2
  <2>2. CarriedBy(x, 0, x.client.flight) /\ x.client.flight \subseteq x.client.flight
    BY <1>1 DEF Carried
  <2>3. QED
    BY <1>1, <1>2, <2>1, <2>2, AfterIs
<1> HIDE DEF a
<1>5. /\ Types(a) /\ Client(a) /\ Carried(a, 0)
      /\ a.client.user = c.user /\ a.client.load = c.load /\ a.client.game = c.game
      /\ Range(a.bridge.ring) \subseteq Range(x.bridge.ring) \cup Range(Told(c))
      /\ a.net = x.net /\ a.app = x.app
  BY <1>heard DEF Heard
<1>6. Rom(a) /\ Archive(a)
  BY <1>1, <1>2, <1>3, <1>5 DEF Rom, Archive
<1>7. Token(a)
  <2>1. \A e \in Range(a.bridge.ring) : e.kind = "login" => ~e.ok
    BY <1>4, <1>5
  <2>2. a.client.user = "requested"
    BY <1>2, <1>5
  <2>3. QED
    BY <2>1, <2>2 DEF Token
<1>8. Unlocks(a, 0)
  <2>1. x.client.load = 0
    BY <1>1, HostedUser
  <2>2. Came(a, 0) = Came(x, 0)
    BY <1>5 DEF Came
  <2>3. ~Playing(a)
    BY <1>2, <1>3, <1>5 DEF Playing, Rc!NoGame
  <2>4. QED
    BY <1>2, <1>4, <1>5, <2>1, <2>2, <2>3 DEF Unlocks, Idle
<1>9. QED
  BY <1>3, <1>5, <1>6, <1>7, <1>8 DEF Inv, Core, a

\* Achievement mode begins with the user there is, or with the token of the last.
LEMMA StartSessionIs ==
  ASSUME NEW x, Core(x, 0), Unlocks(x, 0), x.app.mode = "achievement",
         \A e \in Range(x.bridge.ring) : e.kind = "login" => ~e.ok /\ x.client.user = "requested",
         x.client.user = "loggedin" => x.app.token = x.client.name
  PROVE  Inv(StartSession(x))
<1>1. x.app.token \in P!Names
  BY DEF Core, Types, Apps
<1>2. CASE UserIs(x)
  <2> DEFINE y == LoadCurrentGame(x)
  <2>1. StartSession(x) = y
    BY <1>2 DEF StartSession
  <2>2. x.client.user = "loggedin"
    BY <1>2 DEF UserIs
  <2> HIDE DEF y
  <2>3. /\ Core(y, 0) /\ (Unlocks(x, 0) => Unlocks(y, 0))
        /\ y.client.user = "loggedin" /\ y.client.name = x.client.name
        /\ \A e \in Range(y.bridge.ring) : e \in Range(x.bridge.ring) \/ e.kind = "load"
        /\ y.app.token = x.app.token
    BY <2>2, LoadCurrentGameIs DEF y
  <2>4. Token(y)
    BY <2>2, <2>3 DEF Token
  <2>5. QED
    BY <2>1, <2>3, <2>4 DEF Inv
<1>3. CASE ~UserIs(x) /\ x.app.token # Rc!Nobody
  <2>1. StartSession(x) = After(x, Rc!BeginLogin(x.client, x.app.token))
    BY <1>3 DEF StartSession
  <2>2. x.app.token \in Users
    BY <1>1, <1>3, SameNobody DEF P!Names
  <2>3. x.client.user # "loggedin"
    BY <1>3 DEF UserIs
  <2>4. QED
    BY <2>1, <2>2, <2>3, SignInIs
<1>4. CASE ~UserIs(x) /\ x.app.token = Rc!Nobody
  <2>1. StartSession(x) = x
    BY <1>4 DEF StartSession
  <2>2. Token(x)
    BY <1>4 DEF Token
  <2>3. QED
    BY <2>1, <2>2 DEF Inv
<1>5. QED
  BY <1>2, <1>3, <1>4

\* The emulator starts.
LEMMA StartIs ==
  ASSUME NEW mode \in {"standard", "achievement"}, NEW token \in Users \cup {Rc!Nobody}
  PROVE  Inv(Start(mode, token))
<1> DEFINE c == Rc!NewClient
           b == [ring |-> <<>>, requests |-> <<>>, buffer |-> 0]
           v == [threads |-> {}, results |-> <<>>]
           w == [mode |-> mode, rom |-> NoRom, token |-> token, known |-> {}, archive |-> {}, earned |-> {}]
           s == [client |-> c, bridge |-> b, net |-> v, app |-> w]
<1>1. Start(mode, token) = IF mode = "achievement" THEN StartSession(s) ELSE s
  BY DEF Start
<1>2. /\ P!Hosted(c) /\ c \in P!Clients /\ c.user = "none" /\ c.load = 0 /\ c.game = Rc!NoGame
      /\ c.told = <<>> /\ c.flight = {}
  BY P!NewClientHosted, SameNewClient, SameNoGame
<1>3. b \in Bridges /\ b.ring = <<>> /\ b.requests = <<>>
  BY DEF Bridges
<1>4. v \in Nets /\ v.threads = {} /\ v.results = <<>>
  BY DEF Nets
<1>5. w \in Apps /\ w.mode = mode /\ w.archive = {}
  <2>1. NoRom \in Roms /\ token \in P!Names
    BY SameNobody DEF Roms, P!Names
  <2>2. QED
    BY <2>1 DEF Apps
<1> HIDE DEF c, b, v, w
<1>6. s.client = c /\ s.bridge = b /\ s.net = v /\ s.app = w
      /\ s \in [client : P!Clients, bridge : Bridges, net : Nets, app : Apps]
  BY <1>2, <1>3, <1>4, <1>5
<1> HIDE DEF s
<1>7. Types(s) /\ Client(s) /\ Rom(s) /\ Archive(s)
  BY <1>2, <1>5, <1>6 DEF Types, Client, Rom, Archive
<1>8. Range(s.bridge.ring) = {}
  BY <1>3, <1>6 DEF Range
<1>9. Carried(s, 0)
  <2>1. Asked(s) = {}
    BY <1>3, <1>6 DEF Asked, Range
  <2>2. 0 + 1 .. Len(s.net.results) = {}
    <3>1. Len(s.net.results) = 0
      BY <1>4, <1>6
    <3>2. QED
      BY <3>1
  <2>3. Came(s, 0) = {}
    BY <2>2 DEF Came
  <2>4. QED
    BY <1>4, <1>6, <2>1, <2>2, <2>3 DEF Carried, CarriedBy, Apart
<1>10. Core(s, 0) /\ Unlocks(s, 0)
  BY <1>7, <1>8, <1>9 DEF Core, Unlocks
<1>11. CASE mode = "achievement"
  <2>1. Inv(StartSession(s))
    BY <1>2, <1>5, <1>6, <1>8, <1>10, <1>11, StartSessionIs
  <2>2. QED
    BY <1>1, <1>11, <2>1
<1>12. CASE mode = "standard"
  <2>1. Token(s)
    BY <1>2, <1>5, <1>6, <1>8, <1>12 DEF Token
  <2>2. QED
    BY <1>1, <1>10, <1>12, <2>1 DEF Inv
<1>13. QED
  BY <1>11, <1>12

\* A thread ends with an answer.
LEMMA AnsweredIs ==
  ASSUME NEW s, Inv(s), NEW r \in s.net.threads, NEW reply \in {"ok", "error", "game", "none"},
         r.kind # "sets" => reply \in {"ok", "error"}
  PROVE  LET v == [threads |-> s.net.threads \ {r},
                   results |-> Append(s.net.results, [request |-> r, reply |-> reply])]
         IN  Inv([s EXCEPT !.net = v])
<1> DEFINE e == [request |-> r, reply |-> reply]
           q == Append(s.net.results, e)
           v == [threads |-> s.net.threads \ {r}, results |-> q]
           a == [s EXCEPT !.net = v]
           N == Len(s.net.results)
<1>1. /\ s \in [client : P!Clients, bridge : Bridges, net : Nets, app : Apps]
      /\ Types(s) /\ Client(s) /\ Carried(s, 0) /\ Rom(s) /\ Archive(s) /\ Token(s) /\ Unlocks(s, 0)
  BY DEF Inv, Core, Types
<1>2. s.net.results \in Seq(Answers) /\ N \in Nat /\ s.net.threads \in SUBSET P!Requests
  BY <1>1 DEF Nets
<1>3. e \in Answers /\ e.request = r
  BY <1>2 DEF Answers
<1> HIDE DEF e
<1>4. q \in Seq(Answers) /\ Len(q) = N + 1 /\ q[N + 1] = e
      /\ \A i \in 1 .. N : q[i] = s.net.results[i]
  BY <1>2, <1>3
<1> HIDE DEF q
<1>5. v \in Nets /\ v.threads = s.net.threads \ {r} /\ v.results = q
  BY <1>2, <1>4 DEF Nets
<1> HIDE DEF v
<1>6. /\ a.client = s.client /\ a.bridge = s.bridge /\ a.net = v /\ a.app = s.app
      /\ a \in [client : P!Clients, bridge : Bridges, net : Nets, app : Apps]
  BY <1>1, <1>5
<1> HIDE DEF a
<1>7. \A i \in 1 .. N + 1 : i = N + 1 \/ i \in 1 .. N
  BY <1>2
<1>8. 0 + 1 = 1 /\ N + 1 \in 1 .. N + 1 /\ 1 .. N \subseteq 1 .. N + 1
  BY <1>2
<1>9. Came(s, 0) = {s.net.results[i].request : i \in 1 .. N}
  BY <1>8 DEF Came
<1>10. Came(a, 0) = {q[i].request : i \in 1 .. N + 1}
  BY <1>4, <1>5, <1>6, <1>8 DEF Came
<1>11. Came(a, 0) = Came(s, 0) \cup {r}
  BY <1>3, <1>4, <1>7, <1>8, <1>9, <1>10
<1>12. \A i, j \in 1 .. N + 1 : q[i].request = q[j].request => i = j
  <2> SUFFICES ASSUME NEW i \in 1 .. N + 1, NEW j \in 1 .. N + 1, q[i].request = q[j].request
               PROVE  i = j
    OBVIOUS
  <2>1. \A k, l \in 1 .. N : s.net.results[k].request = s.net.results[l].request => k = l
    BY <1>1, <1>8 DEF Carried, CarriedBy, Apart
  <2>2. \A k \in 1 .. N : q[k].request # r
    BY <1>1, <1>4, <1>9 DEF Carried, CarriedBy, Apart
  <2>3. QED
    BY <1>3, <1>4, <1>7, <2>1, <2>2
<1>13. Carried(a, 0)
  <2>1. Apart(s, 0) /\ Asked(s) \cup s.net.threads \cup Came(s, 0) \subseteq s.client.flight
    BY <1>1 DEF Carried, CarriedBy
  <2>2. Asked(a) = Asked(s)
    BY <1>6 DEF Asked
  <2>3. Apart(a, 0)
    BY <1>4, <1>5, <1>6, <1>8, <1>11, <1>12, <2>1, <2>2 DEF Apart
  <2>4. QED
    BY <1>5, <1>6, <1>11, <2>1, <2>2, <2>3 DEF Carried, CarriedBy
<1>14. Types(a) /\ Client(a) /\ Rom(a) /\ Archive(a) /\ Token(a)
  BY <1>1, <1>6 DEF Types, Client, Rom, Archive, Token
<1>15. Unlocks(a, 0)
  BY <1>1, <1>5, <1>6, <1>11 DEF Unlocks, Idle, Playing
<1>16. QED
  BY <1>13, <1>14, <1>15 DEF Inv, Core, a, v, q, e

\* Another ROM is opened: it is loaded, or there is nothing it takes the place of.
LEMMA OpenedIs ==
  ASSUME NEW s, Inv(s), NEW h \in Hashes
  PROVE  LET o == [s EXCEPT !.app.rom = h]
         IN  IF s.app.mode = "achievement" /\ UserIs(o)
             THEN Inv(LoadNesGame([o EXCEPT !.app.known = {}], h)) ELSE Inv(o)
<1> DEFINE w == [s.app EXCEPT !.rom = h]
           u == [w EXCEPT !.known = {}]
           o == [s EXCEPT !.app.rom = h]
           k == [o EXCEPT !.app.known = {}]
           y == LoadNesGame(k, h)
<1>1. /\ s \in [client : P!Clients, bridge : Bridges, net : Nets, app : Apps]
      /\ Types(s) /\ Client(s) /\ Carried(s, 0) /\ Rom(s) /\ Archive(s) /\ Token(s) /\ Unlocks(s, 0)
  BY DEF Inv, Core, Types
<1>2. s.app \in Apps /\ h \in Roms
  BY <1>1 DEF Roms
<1>3. /\ w \in Apps /\ w.mode = s.app.mode /\ w.rom = h /\ w.token = s.app.token
      /\ w.archive = s.app.archive
  BY <1>2 DEF Apps
<1>4. /\ u \in Apps /\ u.mode = s.app.mode /\ u.rom = h /\ u.token = s.app.token
      /\ u.archive = s.app.archive
  BY <1>2 DEF Apps
<1>5. o = [s EXCEPT !.app = w] /\ k = [s EXCEPT !.app = u]
  BY <1>1
<1> HIDE DEF w, u
<1>6. /\ o.client = s.client /\ o.bridge = s.bridge /\ o.net = s.net /\ o.app = w
      /\ o \in [client : P!Clients, bridge : Bridges, net : Nets, app : Apps]
  BY <1>1, <1>3, <1>5
<1>7. /\ k.client = s.client /\ k.bridge = s.bridge /\ k.net = s.net /\ k.app = u
      /\ k \in [client : P!Clients, bridge : Bridges, net : Nets, app : Apps]
  BY <1>1, <1>4, <1>5
<1> HIDE DEF o, k, y
<1>8. ASSUME s.client.user = "loggedin", s.app.mode = "achievement" PROVE Inv(y)
  <2>1. Types(k) /\ Client(k) /\ Archive(k)
    BY <1>1, <1>4, <1>7 DEF Types, Client, Archive
  <2>2. Carried(k, 0)
    BY <1>1, <1>7 DEF Carried, CarriedBy, Apart, Asked, Came
  <2>3. Unlocks(k, 0)
    BY <1>1, <1>7 DEF Unlocks, Idle, Came, Playing
  <2>4. Loaded(k, 0, h, y)
    BY <1>7, <1>8, <2>1, <2>2, LoadNesGameIs DEF y
  <2>5. k.app.rom = h /\ k.app.mode = "achievement"
    BY <1>4, <1>7, <1>8
  <2>6. Core(y, 0) /\ Unlocks(y, 0)
    BY <2>1, <2>3, <2>4, <2>5, LoadedCore
  <2>7. /\ y.client.user = "loggedin" /\ y.client.name = s.client.name /\ y.app.token = s.app.token
        /\ \A e \in Range(y.bridge.ring) : e \in Range(s.bridge.ring) \/ e.kind = "load"
    BY <1>4, <1>7, <2>4 DEF Loaded
  <2>8. Token(y)
    BY <1>1, <1>8, <2>7 DEF Token
  <2>9. QED
    BY <2>6, <2>8 DEF Inv
<1>9. ASSUME s.client.user # "loggedin" \/ s.app.mode = "standard" PROVE Inv(o)
  <2>1. s.client.load = 0 /\ s.client.game = Rc!NoGame
    BY <1>1, <1>9, HostedUser DEF Client, Rom
  <2>2. Types(o) /\ Client(o) /\ Rom(o) /\ Archive(o) /\ Token(o)
    BY <1>1, <1>3, <1>6, <2>1 DEF Types, Client, Rom, Archive, Token
  <2>3. Carried(o, 0)
    BY <1>1, <1>6 DEF Carried, CarriedBy, Apart, Asked, Came
  <2>4. Unlocks(o, 0)
    BY <1>1, <1>6 DEF Unlocks, Idle, Came, Playing
  <2>5. QED
    BY <2>2, <2>3, <2>4 DEF Inv, Core
<1>10. s.app.mode \in {"standard", "achievement"}
  BY <1>2 DEF Apps
<1>11. UserIs(o) <=> s.client.user = "loggedin"
  BY <1>6 DEF UserIs
<1>12. IF s.app.mode = "achievement" /\ UserIs(o) THEN Inv(y) ELSE Inv(o)
  BY <1>8, <1>9, <1>10, <1>11
<1>13. QED
  BY <1>12 DEF o, k, y

\* Achievement mode is left: its game goes.
LEMMA LeftModeIs ==
  ASSUME NEW s, Inv(s)
  PROVE  Inv([After(s, Rc!UnloadGame(s.client)) EXCEPT !.app.mode = "standard", !.app.known = {}])
<1> DEFINE g == After(s, Rc!UnloadGame(s.client))
           w == [s.app EXCEPT !.mode = "standard", !.known = {}]
           a == [g EXCEPT !.app = w]
<1>1. Types(s) /\ Client(s) /\ Carried(s, 0) /\ Archive(s) /\ Token(s) /\ Unlocks(s, 0) /\ s.app \in Apps
  BY DEF Inv, Core, Types
<1>2. /\ Types(g) /\ Client(g) /\ Carried(g, 0)
      /\ g.client.user = s.client.user /\ g.client.name = s.client.name
      /\ g.client.load = 0 /\ g.client.game = Rc!NoGame
      /\ g.client.flight = s.client.flight
      /\ Range(g.bridge.ring) \subseteq Range(s.bridge.ring)
      /\ g.net = s.net /\ g.app = s.app
  BY <1>1, UnloadedIs
<1> HIDE DEF g
<1>3. /\ w \in Apps /\ w.mode = "standard" /\ w.token = s.app.token /\ w.archive = s.app.archive
  BY <1>1 DEF Apps
<1>4. [g EXCEPT !.app.mode = "standard", !.app.known = {}] = a
  BY <1>1, <1>2 DEF Types, Apps
<1> HIDE DEF w
<1>5. /\ a.client = g.client /\ a.bridge = g.bridge /\ a.net = g.net /\ a.app = w
      /\ a \in [client : P!Clients, bridge : Bridges, net : Nets, app : Apps]
  BY <1>2, <1>3 DEF Types
<1> HIDE DEF a
<1>6. Types(a) /\ Client(a) /\ Rom(a) /\ Archive(a)
  BY <1>1, <1>2, <1>3, <1>5 DEF Types, Client, Rom, Archive
<1>7. Carried(a, 0)
  BY <1>2, <1>5 DEF Carried, CarriedBy, Apart, Asked, Came
<1>8. Token(a)
  BY <1>1, <1>2, <1>3, <1>5 DEF Token
<1>9. Unlocks(a, 0)
  <2> SUFFICES ASSUME NEW e \in Range(a.bridge.ring), e.kind = "achievement"
               PROVE  Idle(a, 0) /\ (Playing(a) => a.client.game.hash = e.of)
    BY DEF Unlocks
  <2>1. Idle(s, 0)
    BY <1>1, <1>2, <1>5 DEF Unlocks
  <2>2. \A r \in s.net.threads \cup Came(s, 0) : r.kind # "login" => r.of # 0
    BY <1>1, HostedUser DEF Client, Carried, CarriedBy
  <2>3. Came(a, 0) = Came(s, 0)
    BY <1>2, <1>5 DEF Came
  <2>4. ~Playing(a)
    BY <1>2, <1>5 DEF Playing, Rc!NoGame
  <2>5. QED
    BY <1>2, <1>5, <2>1, <2>2, <2>3, <2>4 DEF Idle
<1>10. Inv(a)
  BY <1>6, <1>7, <1>8, <1>9 DEF Inv, Core
<1>11. QED
  BY <1>4, <1>10 DEF g

\* Achievement mode is entered.
LEMMA EnteredModeIs ==
  ASSUME NEW s, Inv(s), s.app.mode = "standard"
  PROVE  Inv(StartSession([s EXCEPT !.app.mode = "achievement"]))
<1> DEFINE w == [s.app EXCEPT !.mode = "achievement"]
           x == [s EXCEPT !.app = w]
<1>1. /\ s \in [client : P!Clients, bridge : Bridges, net : Nets, app : Apps]
      /\ Types(s) /\ Client(s) /\ Carried(s, 0) /\ Rom(s) /\ Archive(s) /\ Token(s) /\ Unlocks(s, 0)
  BY DEF Inv, Core, Types
<1>2. /\ w \in Apps /\ w.mode = "achievement" /\ w.rom = s.app.rom /\ w.token = s.app.token
      /\ w.archive = s.app.archive
  BY <1>1 DEF Apps
<1>3. [s EXCEPT !.app.mode = "achievement"] = x
  BY <1>1
<1> HIDE DEF w
<1>4. /\ x.client = s.client /\ x.bridge = s.bridge /\ x.net = s.net /\ x.app = w
      /\ x \in [client : P!Clients, bridge : Bridges, net : Nets, app : Apps]
  BY <1>1, <1>2
<1> HIDE DEF x
<1>5. Types(x) /\ Client(x) /\ Rom(x) /\ Archive(x)
  BY <1>1, <1>2, <1>4 DEF Types, Client, Rom, Archive
<1>6. Carried(x, 0)
  BY <1>1, <1>4 DEF Carried, CarriedBy, Apart, Asked, Came
<1>7. Unlocks(x, 0)
  BY <1>1, <1>4 DEF Unlocks, Idle, Came, Playing
<1>8. /\ x.app.mode = "achievement"
      /\ \A e \in Range(x.bridge.ring) : e.kind = "login" => ~e.ok /\ x.client.user = "requested"
      /\ x.client.user = "loggedin" => x.app.token = x.client.name
  BY <1>1, <1>2, <1>4 DEF Token
<1>9. Inv(StartSession(x))
  BY <1>5, <1>6, <1>7, <1>8, StartSessionIs DEF Core
<1>10. QED
  BY <1>3, <1>9

\* Who is signed in signs out.
LEMMA SignedOutIs ==
  ASSUME NEW s, Inv(s), s.client.user = "loggedin"
  PROVE  LET out == After(s, Rc!Logout(s.client))
         IN  Inv([After(out, Rc!UnloadGame(out.client)) EXCEPT !.app.token = Rc!Nobody])
<1> DEFINE c   == P!Logout(s.client)
           out == After(s, c)
           g   == After(out, Rc!UnloadGame(out.client))
           w   == [s.app EXCEPT !.token = Rc!Nobody]
           a   == [g EXCEPT !.app = w]
<1>1. Types(s) /\ Client(s) /\ Carried(s, 0) /\ Archive(s) /\ Token(s) /\ Unlocks(s, 0) /\ s.app \in Apps
      /\ s.client.told = <<>>
  BY DEF Inv, Core, Types
<1>2. /\ P!Hosted(c) /\ c.user = "none" /\ c.load = 0 /\ c.game = P!NoGame
      /\ c.flight = s.client.flight /\ c.told = <<>> /\ c = Rc!Logout(s.client)
  BY <1>1, P!LogoutHosted, SameLogout DEF Client
<1> HIDE DEF c
<1>heard. Heard(s, c, 0, out)
  <2>1. CarriedBy(s, 0, s.client.flight) /\ s.client.flight \subseteq s.client.flight
    BY <1>1 DEF Carried
  <2>2. QED
    BY <1>1, <1>2, <2>1, AfterIs
<1>3. Range(Told(c)) = {}
  <2>1. c \in P!Clients
    BY <1>2, HostedUser
  <2>2. Told(c) = <<>>
    BY <1>2, <2>1, ToldIs
  <2>3. QED
    BY <2>2 DEF Range
<1> HIDE DEF out
<1>4. /\ Types(out) /\ Client(out) /\ Carried(out, 0)
      /\ out.client.user = "none" /\ out.client.flight = s.client.flight
      /\ Range(out.bridge.ring) \subseteq Range(s.bridge.ring)
      /\ out.net = s.net /\ out.app = s.app
  BY <1>2, <1>3, <1>heard DEF Heard
<1>5. /\ Types(g) /\ Client(g) /\ Carried(g, 0)
      /\ g.client.user = "none"
      /\ g.client.load = 0 /\ g.client.game = Rc!NoGame
      /\ g.client.flight = s.client.flight
      /\ Range(g.bridge.ring) \subseteq Range(s.bridge.ring)
      /\ g.net = s.net /\ g.app = s.app
  BY <1>4, UnloadedIs
<1> HIDE DEF g
<1>6. /\ w \in Apps /\ w.mode = s.app.mode /\ w.token = Rc!Nobody /\ w.archive = s.app.archive
  <2>1. Rc!Nobody \in P!Names
    BY SameNobody DEF P!Names
  <2>2. QED
    BY <1>1, <2>1 DEF Apps
<1>7. [g EXCEPT !.app.token = Rc!Nobody] = a
  BY <1>5 DEF Types
<1> HIDE DEF w
<1>8. /\ a.client = g.client /\ a.bridge = g.bridge /\ a.net = g.net /\ a.app = w
      /\ a \in [client : P!Clients, bridge : Bridges, net : Nets, app : Apps]
  BY <1>5, <1>6 DEF Types
<1> HIDE DEF a
<1>9. Types(a) /\ Client(a) /\ Rom(a) /\ Archive(a)
  BY <1>1, <1>5, <1>6, <1>8 DEF Types, Client, Rom, Archive
<1>10. Carried(a, 0)
  BY <1>5, <1>8 DEF Carried, CarriedBy, Apart, Asked, Came
<1>11. Token(a)
  <2>1. \A e \in Range(s.bridge.ring) : e.kind # "login"
    BY <1>1 DEF Token
  <2>2. QED
    BY <1>5, <1>6, <1>8, <2>1 DEF Token
<1>12. Unlocks(a, 0)
  <2>1. \A r \in s.client.flight : r.kind # "login" /\ r.of # 0
    BY <1>1, HostedUser DEF Client
  <2>2. Idle(a, 0)
    BY <1>5, <1>8, <1>10, <2>1 DEF Idle, Carried, CarriedBy
  <2>3. ~Playing(a)
    BY <1>5, <1>8 DEF Playing, Rc!NoGame
  <2>4. QED
    BY <2>2, <2>3 DEF Unlocks
<1>13. Inv(a)
  BY <1>9, <1>10, <1>11, <1>12 DEF Inv, Core
<1>14. QED
  BY <1>2, <1>7, <1>13 DEF out, g

-----------------------------------------------------------------------------
(* The specification.                                                        *)

\* What becomes of the variables is what the functions above are about.
LEMMA Becomes ==
  ASSUME NEW s, Inv(s), Become(s)
  PROVE  Inv(State)'
<1>1. s = [client |-> s.client, bridge |-> s.bridge, net |-> s.net, app |-> s.app]
  BY DEF Inv, Core, Types
<1>2. State' = s
  BY <1>1 DEF State, Become
<1>3. QED
  BY <1>2

\* The state is what the variables are.
LEMMA StateIs ==
  State.client = client /\ State.bridge = bridge /\ State.net = net /\ State.app = app
BY DEF State

\* The induction: every step of the windows, of the pump and of the threads.
LEMMA Inductive ==
  /\ Init => Inv(State)
  /\ Inv(State) /\ [Next]_vars => Inv(State)'
<1>1. Init => Inv(State)
  <2> SUFFICES ASSUME Init PROVE Inv(State)
    OBVIOUS
  <2>1. PICK mode \in {"standard", "achievement"}, token \in Users \cup {Rc!Nobody} :
          LET s == Start(mode, token)
          IN  client = s.client /\ bridge = s.bridge /\ net = s.net /\ app = s.app
    BY DEF Init
  <2>2. Inv(Start(mode, token))
    BY StartIs
  <2>3. Start(mode, token) = State
    <3> DEFINE s == Start(mode, token)
    <3> HIDE DEF s
    <3>1. s \in [client : P!Clients, bridge : Bridges, net : Nets, app : Apps]
      BY <2>2 DEF Inv, Core, Types, s
    <3>2. client = s.client /\ bridge = s.bridge /\ net = s.net /\ app = s.app
      BY <2>1 DEF s
    <3>3. s = State
      BY <3>1, <3>2 DEF State
    <3>4. QED
      BY <3>3 DEF s
  <2>4. QED
    BY <2>2, <2>3
<1>2. ASSUME Inv(State), [Next]_vars PROVE Inv(State)'
  <2>1. CASE Tick
    <3> DEFINE t == Pumped(State)
               h == Handled(t)
    <3>1. app.mode = "achievement" /\ (Become(h) \/ (Playing(h) /\ Become(Earned(h))))
      BY <2>1 DEF Tick
    <3>2. Left(t)
      BY <1>2, <3>1, PumpedIs, StateIs DEF Left
    <3> HIDE DEF t
    <3>3. Inv(h) /\ h.app.mode = "achievement" /\ \A e \in Range(h.bridge.ring) : e.kind = "load"
      BY <3>2, HandledIs
    <3> HIDE DEF h
    <3>4. ASSUME Playing(h) PROVE Inv(Earned(h))
      BY <3>3, <3>4, EarnedIs
    <3>5. QED
      BY <3>1, <3>3, <3>4, Becomes
  <2>2. CASE Answer
    <3>1. PICK r \in net.threads :
            /\ \E reply \in CASE r.kind = "sets" -> {"game", "none", "error"} [] OTHER -> {"ok", "error"} :
                 net' = [threads |-> net.threads \ {r},
                         results |-> Append(net.results, [request |-> r, reply |-> reply])]
            /\ UNCHANGED <<client, bridge, app>>
      BY <2>2 DEF Answer
    <3>2. PICK reply \in CASE r.kind = "sets" -> {"game", "none", "error"} [] OTHER -> {"ok", "error"} :
            net' = [threads |-> net.threads \ {r},
                    results |-> Append(net.results, [request |-> r, reply |-> reply])]
      BY <3>1
    <3>3. reply \in {"ok", "error", "game", "none"} /\ (r.kind # "sets" => reply \in {"ok", "error"})
      BY <3>2
    <3> DEFINE v == [threads |-> State.net.threads \ {r},
                     results |-> Append(State.net.results, [request |-> r, reply |-> reply])]
               a == [State EXCEPT !.net = v]
    <3>4. Inv(a)
      BY <1>2, <3>1, <3>3, AnsweredIs, StateIs
    <3>5. v = net'
      BY <3>2, StateIs
    <3> HIDE DEF v
    <3>6. a.client = client /\ a.bridge = bridge /\ a.net = v /\ a.app = app
      BY DEF State
    <3> HIDE DEF a
    <3>7. Become(a)
      BY <3>1, <3>5, <3>6 DEF Become
    <3>8. QED
      BY <3>4, <3>7, Becomes
  <2>3. CASE OpenRom
    <3>1. PICK h \in Hashes :
            LET s == [State EXCEPT !.app.rom = h]
            IN  IF app.mode = "achievement" /\ UserIs(s)
                THEN Become(LoadNesGame([s EXCEPT !.app.known = {}], h)) ELSE Become(s)
      BY <2>3, Zenon DEF OpenRom
    <3> DEFINE o == [State EXCEPT !.app.rom = h]
               y == LoadNesGame([o EXCEPT !.app.known = {}], h)
    <3>2. IF app.mode = "achievement" /\ UserIs(o) THEN Become(y) ELSE Become(o)
      BY <3>1, Zenon
    <3>3. IF app.mode = "achievement" /\ UserIs(o) THEN Inv(y) ELSE Inv(o)
      BY <1>2, OpenedIs, StateIs
    <3> HIDE DEF o, y
    <3>4. QED
      BY <3>2, <3>3, Becomes
  <2>4. CASE LeaveMode
    BY <1>2, <2>4, LeftModeIs, Becomes, StateIs DEF LeaveMode
  <2>5. CASE EnterMode
    <3>1. app.mode = "standard" /\ Become(StartSession([State EXCEPT !.app.mode = "achievement"]))
      BY <2>5 DEF EnterMode
    <3>2. Inv(StartSession([State EXCEPT !.app.mode = "achievement"]))
      BY <1>2, <3>1, EnteredModeIs, StateIs
    <3>3. QED
      BY <3>1, <3>2, Becomes
  <2>6. CASE SignIn
    <3>1. PICK who \in Users : ~UserIs(State) /\ Become(After(State, Rc!BeginLogin(client, who)))
      BY <2>6 DEF SignIn
    <3>2. State.client.user # "loggedin"
      BY <3>1 DEF UserIs
    <3>3. Inv(After(State, Rc!BeginLogin(State.client, who)))
      BY <1>2, <3>2, SignInIs DEF Inv, Token
    <3>4. QED
      BY <3>1, <3>3, Becomes, StateIs
  <2>7. CASE SignOut
    <3> DEFINE out == After(State, Rc!Logout(client))
               a   == [After(out, Rc!UnloadGame(out.client)) EXCEPT !.app.token = Rc!Nobody]
    <3>1. UserIs(State) /\ Become(a)
      BY <2>7 DEF SignOut
    <3>2. State.client.user = "loggedin"
      BY <3>1 DEF UserIs
    <3>3. Inv(a)
      BY <1>2, <3>2, SignedOutIs, StateIs
    <3> HIDE DEF a
    <3>4. QED
      BY <3>1, <3>3, Becomes
  <2>8. CASE UNCHANGED vars
    <3>1. Become(State)
      BY <2>8 DEF vars, Become, State
    <3>2. QED
      BY <1>2, <3>1, Becomes
  <2>9. QED
    BY <1>2, <2>1, <2>2, <2>3, <2>4, <2>5, <2>6, <2>7, <2>8 DEF Next
<1>3. QED
  BY <1>1, <1>2

\* Achievements are those of the ROM that is played and count for the user who is
\* signed in (LoadNesGame, the callbacks of the client and apply_play_mode),
\* however late answers come in and whatever the windows do meanwhile.
THEOREM GameIsTheRom == Spec => []PlaysTheRom
<1>1. Inv(State) => PlaysTheRom
  <2> SUFFICES ASSUME Inv(State) PROVE PlaysTheRom
    OBVIOUS
  <2>1. Rom(State) /\ P!Hosted(client)
    BY StateIs DEF Inv, Core, Client
  <2>2. client.game.identified => client.game.as = client.name
    BY <2>1 DEF P!Hosted, P!Signed
  <2>3. QED
    BY <2>1, <2>2, StateIs DEF PlaysTheRom, Rom, Playing
<1>2. QED
  BY <1>1, Inductive, PTL DEF Spec

\* The settings keep the token of the user who is signed in and none that was
\* rejected or given up (handle_achievement_events and the windows), in a ring
\* that may have dropped what it could not hold.
THEOREM TokenIsKept == Spec => []TokenIsTheUsers
<1>1. Inv(State) => TokenIsTheUsers
  <2> SUFFICES ASSUME Inv(State) PROVE TokenIsTheUsers
    OBVIOUS
  <2>1. Token(State) /\ P!Hosted(client)
    BY StateIs DEF Inv, Core, Client
  <2>2. client.user \in {"none", "requested", "loggedin"}
    BY <2>1, HostedUser
  <2>3. QED
    BY <2>1, <2>2, StateIs DEF TokenIsTheUsers, Token
<1>2. QED
  BY <1>1, Inductive, PTL DEF Spec

\* Every unlock in the archive is filed under the game it was earned in or under
\* no game (the achievement arm of handle_achievement_events).
THEOREM ArchiveNamesTheGame == Spec => []ArchiveIsTrue
<1>1. Inv(State) => ArchiveIsTrue
  BY StateIs DEF Inv, Core, Archive, ArchiveIsTrue
<1>2. QED
  BY <1>1, Inductive, PTL DEF Spec
====
