------------------------- MODULE AchievementSession -------------------------
(* Achievement mode: the emulator's windows, the manager with its HTTP        *)
(* threads and the native bridge around the achievement client. The bridge    *)
(* queues the requests of the client and what it tells; once per frame of the *)
(* window, in Achievement mode only, the emulator hands it the answers that   *)
(* came in, starts a thread for every new request and acts on what was told.  *)
(*                                                                           *)
(* The client is that of RcSession. Every ROM has one achievement, named as   *)
(* the ROM is. A failed allocation is left out.                               *)
EXTENDS Naturals, Sequences, FiniteSets, SequencesExt

CONSTANTS
  Users, Hashes,        \* who may sign in, the ROMs there are
  MaxLogins, MaxLoads,  \* bounds: sign-ins, loads
  SetsMayBeMissing,     \* as in RcSession
  RingSize              \* what the bridge keeps of what it was told (64)

ASSUME RingSizeAssumption == RingSize \in Nat \ {0}

VARIABLES
  client,   \* the achievement client
  bridge,   \* [ring, requests, buffer]: buffer is the load whose ROM is held, 0 for none
  net,      \* [threads, results]: requests on their way, answers that came in
  app       \* [mode, rom, token, known, archive, earned]

vars == <<client, bridge, net, app>>

Rc == INSTANCE RcSession

NoRom == "none"

-----------------------------------------------------------------------------
(* The bridge. s is [client, bridge, net, app].                               *)

\* nes_ra_push_event: the oldest event goes when there is no room.
Pushed(ring, events) ==
  LET all == ring \o events
  IN  SubSeq(all, IF Len(all) > RingSize THEN Len(all) - RingSize + 1 ELSE 1, Len(all))

Told(c) == [n \in DOMAIN c.told |-> [kind |-> c.told[n][1], ok |-> c.told[n][2] = "ok", of |-> NoRom]]

\* nes_ra_async_callback and nes_ra_server_call, for all the client did in a
\* call: a load that is reported frees the ROM that is held.
After(s, c) ==
  [s EXCEPT !.client = [c EXCEPT !.told = <<>>],
            !.bridge = [ring     |-> Pushed(@.ring, Told(c)),
                        requests |-> @.requests \o SetToSeq(c.flight \ s.client.flight),
                        buffer   |-> IF \E n \in DOMAIN c.told : c.told[n][1] = "load" THEN 0 ELSE @.buffer]]

LoadNesGame(s, h) ==
  LET gone == After(s, Rc!UnloadGame(s.client))
      held == [gone EXCEPT !.bridge.buffer = Len(gone.client.loads) + 1]
  IN  After(held, Rc!BeginLoadGame(held.client, h))

UserIs(s) == s.client.user = "loggedin"

\* Mutant of CompleteRequest: a request that failed is only forgotten.
CompleteAnswered(s, answer) ==
  LET r == answer.request
  IN  CASE answer.reply = "error" -> s
        [] answer.reply # "error" /\ r.kind = "login" -> After(s, Rc!LoginCallback(s.client, r, answer.reply))
        [] answer.reply # "error" /\ r.kind = "sets" -> After(s, Rc!FetchGameSetsCallback(s.client, r, answer.reply))
        [] answer.reply # "error" /\ r.kind = "session" -> After(s, Rc!StartSessionCallback(s.client, r, answer.reply))

\* nes_ra_complete_request: the client is called back.
CompleteRequest(s, answer) ==
  LET r == answer.request
  IN  CASE r.kind = "login" -> After(s, Rc!LoginCallback(s.client, r, answer.reply))
        [] r.kind = "sets" -> After(s, Rc!FetchGameSetsCallback(s.client, r, answer.reply))
        [] r.kind = "session" -> After(s, Rc!StartSessionCallback(s.client, r, answer.reply))

\* nes_ra_do_frame: the achievement of the game may be earned, once a load.
\* The server has what was earned by the time the game is loaded again.
Playing(s) == s.client.game.identified
Locked(s)  == <<s.client.name, s.client.game.hash>> \notin s.app.earned
Earned(s)  ==
  [s EXCEPT !.bridge.ring = Pushed(@, <<[kind |-> "achievement", ok |-> TRUE, of |-> s.client.game.hash]>>),
            !.app.earned = @ \cup {<<s.client.name, s.client.game.hash>>}]

-----------------------------------------------------------------------------
(* The manager                                                                *)

\* Manager::pump up to the events: what came in is completed, every request
\* that was not taken yet gets a thread.
Pumped(s) ==
  LET answers == s.net.results
      after[n \in 0 .. Len(answers)] ==
        IF n = 0 THEN s ELSE CompleteRequest(after[n - 1], answers[n])
      done == after[Len(answers)]
  IN  [done EXCEPT !.net = [threads |-> @.threads \cup Range(done.bridge.requests), results |-> <<>>],
                   !.bridge.requests = <<>>]

-----------------------------------------------------------------------------
(* The windows                                                                *)

LoadCurrentGame(s) ==
  IF s.app.rom = NoRom THEN s ELSE LoadNesGame([s EXCEPT !.app.known = {}], s.app.rom)

\* start_achievement_session
StartSession(s) ==
  CASE UserIs(s) -> LoadCurrentGame(s)
    [] ~UserIs(s) /\ s.app.token # Rc!Nobody -> After(s, Rc!BeginLogin(s.client, s.app.token))
    [] OTHER -> s

\* Mutant of HandleEvent: an unlock is filed under the ROM.
HandleByRom(s, e) ==
  [s EXCEPT !.app.archive = IF e.kind = "achievement" THEN @ \cup {[game |-> s.app.rom, of |-> e.of]} ELSE @]

\* Mutant of HandleEvent: a rejected token is kept.
HandleKeepsToken(s, e) ==
  IF e.kind = "login" /\ e.ok
  THEN LoadCurrentGame(IF UserIs(s) THEN [s EXCEPT !.app.token = s.client.name] ELSE s)
  ELSE s

\* The id of the game there is: 0 for a ROM no game is known for.
GameId(s) == IF Playing(s) THEN s.client.game.hash ELSE NoRom

\* One event of handle_achievement_events. Only the first unlock since the game
\* was loaded is kept, and only while there is a game to name it after.
HandleEvent(s, e) ==
  CASE e.kind = "login" /\ e.ok ->
         LoadCurrentGame(IF UserIs(s) THEN [s EXCEPT !.app.token = s.client.name] ELSE s)
    [] e.kind = "login" /\ ~e.ok -> [s EXCEPT !.app.token = Rc!Nobody]
    [] e.kind = "load" -> IF e.ok /\ Playing(s) /\ ~Locked(s) THEN [s EXCEPT !.app.known = {s.client.game.hash}]
                          ELSE IF e.ok THEN [s EXCEPT !.app.known = {}] ELSE s
    [] e.kind = "achievement" ->
         [s EXCEPT !.app.known = @ \cup {e.of},
                   !.app.archive = IF e.of \in s.app.known \/ s.client.game = Rc!NoGame THEN @
                                   ELSE @ \cup {[game |-> GameId(s), of |-> e.of]}]

\* The events there are when the pump is done; what the handlers cause stays
\* for the next frame.
Handled(s) ==
  LET events == s.bridge.ring
      after[n \in 0 .. Len(events)] ==
        IF n = 0 THEN [s EXCEPT !.bridge.ring = <<>>] ELSE HandleEvent(after[n - 1], events[n])
  IN  after[Len(events)]

-----------------------------------------------------------------------------
(* The specification                                                          *)

State == [client |-> client, bridge |-> bridge, net |-> net, app |-> app]
Become(s) == client' = s.client /\ bridge' = s.bridge /\ net' = s.net /\ app' = s.app

Start(mode, token) ==
  LET s == [client |-> Rc!NewClient, bridge |-> [ring |-> <<>>, requests |-> <<>>, buffer |-> 0],
            net |-> [threads |-> {}, results |-> <<>>],
            app |-> [mode |-> mode, rom |-> NoRom, token |-> token, known |-> {}, archive |-> {}, earned |-> {}]]
  IN  IF mode = "achievement" THEN StartSession(s) ELSE s

\* The emulator starts with the settings of the last time.
Init == \E mode \in {"standard", "achievement"}, token \in Users \cup {Rc!Nobody} :
          LET s == Start(mode, token)
          IN  client = s.client /\ bridge = s.bridge /\ net = s.net /\ app = s.app

\* A sign-in that is on its way will load the game too.
MayLoad  == Len(client.loads) + (IF client.user = "requested" THEN 1 ELSE 0) < MaxLoads
MayLogin == client.logins < MaxLogins

\* emulate: a frame of the window, with the frames of the game it runs.
Tick ==
  /\ app.mode = "achievement"
  /\ LET s == Handled(Pumped(State))
     IN  \/ Become(s)
         \/ Playing(s) /\ Locked(s) /\ Become(Earned(s))

\* A thread of dispatch ends: with an answer, or with a transport error, which
\* a timeout is too.
Answer ==
  \E r \in net.threads :
    /\ \E reply \in CASE r.kind = "sets" -> {"game", "none", "error"} [] OTHER -> {"ok", "error"} :
         net' = [threads |-> net.threads \ {r}, results |-> Append(net.results, [request |-> r, reply |-> reply])]
    /\ UNCHANGED <<client, bridge, app>>

\* load_rom, with the set of the ROM when somebody is signed in.
OpenRom == \E h \in Hashes :
  LET s == [State EXCEPT !.app.rom = h]
  IN  IF app.mode = "achievement" /\ UserIs(s)
      THEN MayLoad /\ Become(LoadNesGame([s EXCEPT !.app.known = {}], h)) ELSE Become(s)

\* Mutant of LeaveMode: the game stays with the client.
LeaveModeLoaded == app.mode = "achievement" /\ Become([State EXCEPT !.app.mode = "standard", !.app.known = {}])

\* apply_play_mode
LeaveMode ==
  /\ app.mode = "achievement"
  /\ Become([After(State, Rc!UnloadGame(client)) EXCEPT !.app.mode = "standard", !.app.known = {}])
EnterMode ==
  /\ app.mode = "standard" /\ MayLoad /\ MayLogin
  /\ Become(StartSession([State EXCEPT !.app.mode = "achievement"]))

\* The buttons of the window: the first is there while nobody is signed in, the
\* second while somebody is.
SignIn == \E who \in Users :
  app.mode = "achievement" /\ ~UserIs(State) /\ MayLogin /\ MayLoad /\ Become(After(State, Rc!BeginLogin(client, who)))
SignOut ==
  /\ app.mode = "achievement" /\ UserIs(State)
  /\ LET out == After(State, Rc!Logout(client))
     IN  Become([After(out, Rc!UnloadGame(out.client)) EXCEPT !.app.token = Rc!Nobody])

Next == Tick \/ Answer \/ OpenRom \/ LeaveMode \/ EnterMode \/ SignIn \/ SignOut

\* The window is drawn again and again: WF_vars(Tick), with what there is to do
\* in place of ENABLED.
ToDo == app.mode = "achievement" /\ (net.results # <<>> \/ bridge.requests # <<>> \/ bridge.ring # <<>>)
FairTick == []<>~ToDo \/ []<><<Tick>>_vars

\* Every thread ends: requests time out after twenty seconds.
Spec == Init /\ [][Next]_vars /\ FairTick /\ WF_vars(Answer)

-----------------------------------------------------------------------------
(* Properties                                                                 *)

\* Achievements are those of the ROM that is played and count for the user who
\* is signed in, the ROM that a running load may hash again is held and no other,
\* and outside Achievement mode nothing is processed or loaded, although answers
\* arrive at any later time and ROMs, users and modes change meanwhile.
PlaysTheRom ==
  /\ client.game # Rc!NoGame => client.game.hash = app.rom /\ (Playing(State) => client.game.as = client.name)
  /\ client.load # 0 => client.loads[client.load].hash = app.rom /\ bridge.buffer = client.load
  /\ app.mode = "standard" => client.game = Rc!NoGame /\ client.load = 0

\* In Achievement mode the settings have the token of the user who is signed in
\* and none that was rejected or given up, once what was told is handled.
TokenIsTheUsers ==
  app.mode = "achievement" /\ (\A n \in DOMAIN bridge.ring : bridge.ring[n].kind # "login") =>
    app.token = CASE client.user = "loggedin" -> client.name
                  [] client.user = "none" -> Rc!Nobody
                  [] OTHER -> app.token

\* An unlock in the archive is filed under the game it was earned in, or under the
\* unknown game if a ROM no game is known for was opened meanwhile.
ArchiveIsTrue == \A u \in app.archive : u.game \in {u.of, NoRom}

\* Signing in and loading come to an end: neither waits for an answer that was
\* lost between the client, the bridge, the threads and the window.
Busy == app.mode = "achievement" /\ (client.user = "requested" \/ client.load # 0)
Settles == Busy ~> ~Busy

\* The archive says of itself "Achievements earned here will appear in this
\* list" and "This local history is kept even when you switch games"
\* (achievements_ui.rs): once it is handled, every unlock is there.
UnlocksAreArchived ==
  bridge.ring = <<>> => \A u \in app.earned : [game |-> u[2], of |-> u[2]] \in app.archive
=============================================================================
