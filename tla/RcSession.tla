------------------------------ MODULE RcSession ------------------------------
(* Signing in and loading a game: the part of the achievement client that     *)
(* talks to the server. The host calls it and hands it the answers of the     *)
(* requests it made, in any order, on one thread; an answer never arrives     *)
(* inside the call that made its request. Memory is never short and the host  *)
(* does not spectate. Every operation is a function of the client, so that a  *)
(* host can be composed with it.                                              *)
EXTENDS Naturals, Sequences, FiniteSets, SequencesExt

CONSTANTS
  Users,        \* who may sign in
  Hashes,       \* the hashes of the games there are
  MaxLogins,    \* bound: calls of rc_client_begin_login
  MaxLoads,     \* bound: calls of rc_client_begin_load_game
  SetsMayBeMissing  \* whether the server may know a game and send no set for it

Nobody == "nobody"
NoGame == [hash |-> "none", identified |-> FALSE, as |-> Nobody, from |-> 0]

VARIABLE client

\* A load in progress. called and freed count what happened to it: how often
\* the host was called back and how often it was released.
NewLoad(h) == [hash |-> h, progress |-> "none", outstanding |-> 0, aborted |-> FALSE, callback |-> TRUE,
               game |-> FALSE, as |-> Nobody, called |-> 0, freed |-> 0]

\* The client after rc_client_create. told is what the host is called back with
\* in a step; flight are the requests without an answer.
NewClient == [user |-> "none", name |-> Nobody, game |-> NoGame, load |-> 0, loads |-> <<>>,
              hashes |-> [h \in Hashes |-> "unknown"], pings |-> [h \in Hashes |-> 0],
              flight |-> {}, logins |-> 0, dropped |-> {}, told |-> <<>>]

Tell(c, what, result) == [c EXCEPT !.told = Append(@, <<what, result>>)]

Request(kind, of, as) == [kind |-> kind, of |-> of, as |-> as]

-----------------------------------------------------------------------------
(* The load state                                                             *)

CallBack(c, l, result) ==
  IF c.loads[l].callback THEN Tell([c EXCEPT !.loads[l].called = @ + 1], "load", result) ELSE c

FreeLoad(c, l) == [c EXCEPT !.loads[l].freed = @ + 1, !.loads[l].game = FALSE]

BeginLoadState(c, l, state) == [c EXCEPT !.loads[l].progress = state, !.loads[l].outstanding = @ + 1]

\* The client after an answer was counted, and how many are left; -1 when the
\* load is not the current one any more.
EndLoadState(c, l) ==
  LET left == IF c.loads[l].outstanding > 0 THEN c.loads[l].outstanding - 1 ELSE 0
      d    == [c EXCEPT !.loads[l].outstanding = left]
      told == IF c.loads[l].progress = "aborted" THEN d ELSE CallBack(d, l, "aborted")
  IN  IF c.load = l THEN [c |-> d, current |-> TRUE, left |-> left]
      ELSE [c |-> IF left = 0 THEN FreeLoad(told, l) ELSE d, current |-> FALSE, left |-> left]

LoadError(c, l, result) ==
  LET d == CallBack([c EXCEPT !.loads[l].progress = "aborted", !.load = IF @ = l THEN 0 ELSE @], l, result)
  IN  IF d.loads[l].outstanding = 0 THEN FreeLoad(d, l) ELSE d

LoadAborted(c, l) == EndLoadState(LoadError([c EXCEPT !.loads[l].callback = FALSE], l, "aborted"), l).c

-----------------------------------------------------------------------------
(* Unloading                                                                  *)

\* Mutant of UnloadGame: the ping of the game stays scheduled.
UnloadKeepsPing(c) ==
  [c EXCEPT !.game = NoGame,
            !.loads = [l \in DOMAIN @ |-> IF l = c.load THEN [@[l] EXCEPT !.aborted = TRUE] ELSE @[l]],
            !.load = 0]

\* The game goes, with its ping; a load goes on until its answer arrives, which
\* finds it aborted.
UnloadGame(c) ==
  [c EXCEPT !.game = NoGame,
            !.pings = [h \in Hashes |-> IF c.game.identified /\ c.game.hash = h THEN 0 ELSE @[h]],
            !.loads = [l \in DOMAIN @ |-> IF l = c.load THEN [@[l] EXCEPT !.aborted = TRUE] ELSE @[l]],
            !.load = 0]

AbortLoadInProgress(c) ==
  IF c.load = 0 THEN c
  ELSE CallBack([c EXCEPT !.loads[c.load].aborted = TRUE, !.load = 0], c.load, "aborted")

-----------------------------------------------------------------------------
(* Loading                                                                    *)

\* Nothing to do while a sign-in is on its way: its answer calls again.
BeginFetchGameSets(c, l) ==
  CASE c.user = "requested" -> [c EXCEPT !.loads[l].progress = "await_login"]
    [] c.user = "none" -> LoadError(c, l, "login_required")
    [] c.user = "loggedin" -> [BeginLoadState(c, l, "identifying") EXCEPT
                                 !.flight = @ \cup {Request("sets", l, c.name)}]

\* A hash no game is known for: the game is there, but without identity.
ProcessResolvedHash(c, l) ==
  IF c.hashes[c.loads[l].hash] # "none" THEN BeginFetchGameSets(c, l)
  ELSE LoadError([c EXCEPT !.game = [hash |-> c.loads[l].hash, identified |-> FALSE, as |-> Nobody, from |-> l],
                           !.loads[l].game = FALSE], l, "no_game_loaded")

AttachLoadState(c, l) ==
  IF c.load = 0 THEN [UnloadGame(c) EXCEPT !.loads[l].game = TRUE, !.load = l]
  ELSE IF c.load = l THEN c
  ELSE FreeLoad(CallBack(c, l, "aborted"), l)

\* A hash that was looked up without success is not looked up again.
LoadGame(c, l) ==
  LET d == AttachLoadState(c, l)
  IN  IF d.load # l THEN d
      ELSE IF d.hashes[d.loads[l].hash] = "none" THEN ProcessResolvedHash(d, l)
      ELSE BeginFetchGameSets(d, l)

BeginLoadGame(c, h) ==
  LET d == AbortLoadInProgress(c)
  IN  LoadGame([d EXCEPT !.loads = Append(@, NewLoad(h))], Len(d.loads) + 1)

\* Everything is there: the game becomes the active one and its ping is
\* scheduled. The load is released without its game.
ActivateGame(c, l) ==
  LET g == [hash |-> c.loads[l].hash, identified |-> TRUE, as |-> c.loads[l].as, from |-> l]
  IN  IF c.load # l
      THEN FreeLoad(CallBack([c EXCEPT !.loads[l].progress = "aborted"], l, "aborted"), l)
      ELSE FreeLoad(CallBack([c EXCEPT !.game = g, !.load = 0, !.pings[g.hash] = @ + 1,
                                       !.loads[l].progress = "done", !.loads[l].game = FALSE], l, "ok"), l)

BeginStartSession(c, l) ==
  [BeginLoadState(c, l, "starting_session") EXCEPT
     !.flight = @ \cup {Request("session", l, c.name)}, !.loads[l].as = c.name]

-----------------------------------------------------------------------------
(* The answers                                                                *)

Without(c, r) == [c EXCEPT !.flight = @ \ {r}]

\* The session is started before the sets are read; the load counts as one of
\* its own requests meanwhile. Without any set the load fails, and the session
\* is still on its way.
IdentifiedGame(c, l, reply) ==
  LET d == BeginStartSession(BeginLoadState([c EXCEPT !.hashes[c.loads[l].hash] = "game"], l, "starting_session"), l)
      e == EndLoadState(IF reply = "empty" THEN LoadError(d, l, "not_found") ELSE d, l)
  IN  IF e.current /\ e.left = 0 THEN ActivateGame(e.c, l) ELSE e.c

\* reply: "game", "empty" (a game without any set), "none" (unknown), "error".
FetchGameSetsCallback(c, r, reply) ==
  LET l == r.of
      e == EndLoadState(Without(c, r), l)
  IN  IF c.loads[l].aborted THEN LoadAborted(Without(c, r), l)
      ELSE IF reply = "error" THEN LoadError(e.c, l, "error")
      ELSE IF ~e.current THEN e.c
      ELSE IF reply = "none" THEN ProcessResolvedHash([e.c EXCEPT !.hashes[c.loads[l].hash] = "none"], l)
      ELSE IdentifiedGame(e.c, l, reply)

\* Mutant of StartSessionCallback: an aborted load goes on.
SessionIgnoresAbort(c, r, reply) ==
  LET l == r.of
      e == EndLoadState(Without(c, r), l)
  IN  IF reply = "error" THEN LoadError(e.c, l, "error")
      ELSE IF e.current /\ e.left = 0 THEN ActivateGame(e.c, l)
      ELSE e.c

\* The error is looked at after the request was counted.
StartSessionCallback(c, r, reply) ==
  LET l == r.of
      e == EndLoadState(Without(c, r), l)
  IN  IF c.loads[l].aborted THEN LoadAborted(Without(c, r), l)
      ELSE IF reply = "error" THEN LoadError(e.c, l, "error")
      ELSE IF e.current /\ e.left = 0 THEN ActivateGame(e.c, l)
      ELSE e.c

-----------------------------------------------------------------------------
(* Signing in and out                                                         *)

BeginLogin(c, who) ==
  LET n == c.logins + 1
  IN  IF c.user = "requested" THEN Tell([c EXCEPT !.logins = n], "login", "already_requested")
      ELSE [c EXCEPT !.user = "requested", !.logins = n, !.flight = @ \cup {Request("login", n, who)}]

\* A load that waits for the sign-in is told that it is not coming.
Logout(c) ==
  LET d == UnloadGame([c EXCEPT !.user = "none", !.name = Nobody])
  IN  IF c.load # 0 /\ c.loads[c.load].progress = "await_login" THEN LoadError(d, c.load, "aborted") ELSE d

Waiting(c) == c.load # 0 /\ c.loads[c.load].progress = "await_login"

\* Mutant of LoginCallback: a failed sign-in leaves the load waiting.
FailedLoginLeavesLoad(c, r, reply) ==
  LET d    == Without(c, r)
      in   == [d EXCEPT !.user = "loggedin", !.name = r.as]
  IN  IF r.of \in c.dropped THEN Logout(d)
      ELSE IF c.user = "none" THEN Tell(d, "login", "aborted")
      ELSE IF reply = "error" THEN Tell([d EXCEPT !.user = "none"], "login", "error")
      ELSE Tell(IF Waiting(in) THEN BeginFetchGameSets(in, in.load) ELSE in, "login", "ok")

\* Signed in the waiting load goes on before the host is told; if that failed,
\* the host is told first. Signed out meanwhile, nobody waits.
LoginCallback(c, r, reply) ==
  LET d    == Without(c, r)
      in   == [d EXCEPT !.user = "loggedin", !.name = r.as]
      none == Tell([d EXCEPT !.user = "none"], "login", "error")
  IN  IF r.of \in c.dropped THEN Logout(d)
      ELSE IF c.user = "none" THEN Tell(d, "login", "aborted")
      ELSE IF reply = "error" THEN IF Waiting(none) THEN BeginFetchGameSets(none, none.load) ELSE none
      ELSE Tell(IF Waiting(in) THEN BeginFetchGameSets(in, in.load) ELSE in, "login", "ok")

-----------------------------------------------------------------------------
(* The specification: a host that may call anything at any time               *)

Quiet == [client EXCEPT !.told = <<>>]

Init == client = NewClient

CallLogin == \E who \in Users : client.logins < MaxLogins /\ client' = BeginLogin(Quiet, who)
CallLoad  == \E h \in Hashes : Len(client.loads) < MaxLoads /\ client' = BeginLoadGame(Quiet, h)
CallUnload == (client.game # NoGame \/ client.load # 0) /\ client' = UnloadGame(Quiet)
CallLogout == client.user # "none" /\ client' = Logout(Quiet)

\* The host gives up a sign-in or a load whose handle it still has.
AbortLogin == \E r \in client.flight : r.kind = "login" /\ client' = [Quiet EXCEPT !.dropped = @ \cup {r.of}]
AbortLoad  == client.load # 0 /\ client' = [Quiet EXCEPT !.loads[client.load].aborted = TRUE]

AnswerLogin == \E r \in client.flight, reply \in {"ok", "error"} :
  r.kind = "login" /\ client' = LoginCallback(Quiet, r, reply)
AnswerSets == \E r \in client.flight, reply \in {"game", "none", "error"} \cup (IF SetsMayBeMissing THEN {"empty"} ELSE {}) :
  r.kind = "sets" /\ client' = FetchGameSetsCallback(Quiet, r, reply)
AnswerSession == \E r \in client.flight, reply \in {"ok", "error"} :
  r.kind = "session" /\ client' = StartSessionCallback(Quiet, r, reply)

Answer == AnswerLogin \/ AnswerSets \/ AnswerSession

Next == CallLogin \/ CallLoad \/ CallUnload \/ CallLogout \/ AbortLogin \/ AbortLoad \/ Answer

\* Every request is answered: the host reports a transport error as an answer.
Spec == Init /\ [][Next]_client /\ WF_client(Answer)

-----------------------------------------------------------------------------
(* Properties                                                                 *)

\* A load is released once, and not while a request or the client still has it.
ReleasedOnce ==
  \A l \in DOMAIN client.loads :
    /\ client.loads[l].freed <= 1
    /\ client.loads[l].freed = 1 => /\ client.load # l
                                    /\ \A r \in client.flight : r.kind # "login" => r.of # l

\* However a load ends, it ends once: the host hears of it at most once, and
\* what belongs to it is released once and used no more.
EndsOnce == ReleasedOnce /\ \A l \in DOMAIN client.loads : client.loads[l].called <= 1

\* The game that is played is the one the host asked for last, and a ping is
\* scheduled for it and for no other, whatever was aborted or unloaded.
LatestIsPlayed ==
  /\ client.game # NoGame => client.game.from = Len(client.loads)
  /\ \A h \in Hashes : client.pings[h] = IF client.game.identified /\ client.game.hash = h THEN 1 ELSE 0

\* A load ends: it does not wait for an answer nobody is going to give.
LoadEnds == client.load # 0 ~> client.load = 0
=============================================================================
