------------------------------- MODULE RcSubmit -------------------------------
(* Telling the server of an unlock or of a leaderboard entry until it answers: *)
(* the first failure is tried again at once, the later ones after a wait, and  *)
(* the host is told when something is waiting and when nothing is any more.    *)
(*                                                                           *)
(* A request is [id, kind, of, hard, load, tries, at]: of the achievement or   *)
(* the leaderboard, in the load-th game of the session, failed tries times (2  *)
(* stands for any more), sent and not yet answered, or queued for another try. *)
EXTENDS RcLeaderboards

\* rc_client_update_disconnect_state: only the attempts that wait count.
UpdateDisconnect(c) ==
  LET waits == \E r \in c.requests : r.at = "queued"
      told  == c.disconnect \in {"visible", "hiding"}
  IN  [c EXCEPT !.disconnect = CASE waits /\ told -> "visible" [] waits /\ ~told -> "showing"
                                 [] ~waits /\ told -> "hiding" [] OTHER -> "hidden"]

\* rc_client_raise_disconnect_events, called when there is something to tell.
RaiseDisconnectEvents(c) ==
  CASE c.disconnect = "showing" -> Tell([c EXCEPT !.disconnect = "visible"], <<"disconnected">>)
    [] c.disconnect = "hiding"  -> Tell([c EXCEPT !.disconnect = "hidden"], <<"reconnected">>)
    [] OTHER -> c

\* The request is built for the user who is signed in now; without one it
\* cannot be, and that is the end of it.
Send(c, r) ==
  LET rest == c.requests \ {q \in c.requests : q.id = r.id}
  IN  IF c.signed THEN Tell([c EXCEPT !.requests = rest \cup {[r EXCEPT !.at = "sent"]}], <<"request", r>>)
      ELSE [c EXCEPT !.requests = rest]

NewRequest(c, kind, of) ==
  [id |-> CHOOSE n \in 1..Cardinality(c.requests) + 1 : \A r \in c.requests : r.id # n,
   kind |-> kind, of |-> of, hard |-> c.hardcore, load |-> c.load, tries |-> 0, at |-> "sent"]

\* Mutant of AwardAchievement: a hardcore unlock is not one in softcore.
AwardForgetsSoft(c, i) ==
  LET d == [c EXCEPT !.achs[i] = [@ EXCEPT !.st = "unlocked", !.unlocked = @ \cup {IF c.hardcore THEN "hard" ELSE "soft"}]]
  IN  IF c.achs[i].def.core THEN Send(d, NewRequest(c, "award", c.achs[i].id)) ELSE d

\* rc_client_award_achievement: an unofficial one is not for the server.
AwardAchievement(c, i) ==
  LET a   == c.achs[i]
      had == IF c.hardcore THEN {"hard", "soft"} ELSE a.unlocked \cup {"soft"}
      d   == [c EXCEPT !.achs[i] = [a EXCEPT !.st = "unlocked", !.unlocked = had]]
  IN  IF c.achs[i].def.core THEN Send(d, NewRequest(c, "award", c.achs[i].id)) ELSE d

\* rc_client_submit_leaderboard_entry
SubmitEntry(c, j) == IF c.hardcore THEN Send(c, NewRequest(c, "submit", j)) ELSE c

\* Mutant of Retry: one request at a time.
RetryAlone(c, r) == IF \E q \in c.requests : q.at = "sent" THEN c ELSE Send(c, r)

\* rc_client_award_achievement_retry, rc_client_submit_leaderboard_entry_retry
Retry(c, r) == Send(c, r)

\* An answer that settles the request; the state of the connection is looked at
\* only by those that had failed before.
Settled(c, r) ==
  LET d == [c EXCEPT !.requests = @ \ {r}]
  IN  IF r.tries > 0 THEN UpdateDisconnect(d) ELSE d

\* No answer, or one that says to come back.
Failed(c, r) ==
  IF r.tries = 0 THEN Send(c, [r EXCEPT !.tries = 1])
  ELSE UpdateDisconnect([c EXCEPT !.requests = (@ \ {r}) \cup {[r EXCEPT !.tries = 2, !.at = "queued"]}])

\* What the server counts when it is asked what is left to unlock.
Remaining(c, server, hard) ==
  {i \in 1..Len(c.setup.achs) : c.setup.achs[i].core /\ <<i, hard>> \notin server /\ <<i, TRUE>> \notin server}

\* rc_client_award_achievement_callback: result is ok, refused or failed. An
\* unlock may have reached the server although the answer did not come back.
AwardCallback(c, r, result, reached) ==
  LET server == IF reached \/ result = "ok" THEN c.server \cup {<<r.of, r.hard>>} ELSE c.server
      d      == [c EXCEPT !.server = server]
      last   == Remaining(c, server, r.hard) = {}
  IN  CASE result = "failed"  -> Failed(d, r)
        [] result = "refused" -> Settled(Tell(d, <<"server_error", r>>), r)
        [] result = "ok" /\ last /\ ~c.loaded -> [d EXCEPT !.fault = "award"]
        [] result = "ok" /\ last /\ c.loaded /\ c.mastery = "none" -> Settled([d EXCEPT !.mastery = "pending"], r)
        [] OTHER -> Settled(d, r)

\* rc_client_submit_leaderboard_entry_callback: a late answer has no scoreboard.
SubmitCallback(c, r, result) ==
  CASE result = "failed"  -> Failed(c, r)
    [] result = "refused" -> Settled(Tell(c, <<"server_error", r>>), r)
    [] OTHER -> Settled(IF r.tries < 2 /\ c.loaded THEN Tell(c, <<"scoreboard", r.of>>) ELSE c, r)
===============================================================================
