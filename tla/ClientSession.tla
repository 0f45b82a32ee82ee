---------------------------- MODULE ClientSession ----------------------------
(***************************************************************************)
(* The life of a session in the browser: Client (connect, redirection,     *)
(* teardown) in wwwroot/lib/rdpweb/client.js and the console page that     *)
(* drives it, Views/Home/Console.cshtml: login form, settings, and the     *)
(* loop that reconnects after a drop.                                      *)
(*                                                                         *)
(* The handlers of a socket, the timers and the clicks interleave; a       *)
(* socket that is closing still has its onclose to come, unless its        *)
(* handlers were taken off.  Browser sockets deliver no message once they  *)
(* are closing.  Sockets are numbered in the order in which they are       *)
(* opened.                                                                 *)
(***************************************************************************)
EXTENDS Integers

CONSTANTS
  MaxSockets,    \* how many sockets are opened
  Environments   \* each [clicks, faults, may]: what the user and the network do

Hazards ==
  { "settings",       \* the user applies settings
    "redirects",      \* the host hands the session to another one
    "slow",           \* an attempt to reconnect may take longer than its watchdog
    "hasty",          \* a connect comes before the socket before has closed
    "quitsBetween",   \* the user quits between two legs of a redirection
    "quitsRetrying" } \* or presses Disconnect while the page reconnects

None == 0

EnvironmentType == [clicks : Nat, faults : Nat, may : SUBSET Hazards]

ASSUME SessionAssumption == MaxSockets \in Nat /\ Environments \subseteq EnvironmentType

Sockets == 1..MaxSockets

VARIABLES
  env,
  sock,     \* st, heard: its handlers are on, leg: how far its session is
  client,   \* the Client object
  page,     \* the console page
  past      \* quit: the user has left; ended: sessions the host or a failure ended

vars == <<env, sock, client, page, past>>

May(h) == h \in env.may

Unused == [st |-> "unused", heard |-> FALSE, leg |-> "auth"]

TypeOK ==
  /\ sock \in [Sockets -> [st : {"unused", "connecting", "open", "closing", "closed"},
                           heard : BOOLEAN, leg : {"auth", "relay", "active"}]]
  /\ client \in [sock : {None} \cup Sockets, proto : {None} \cup Sockets,
                 connected : BOOLEAN, intentional : BOOLEAN, wasActive : BOOLEAN,
                 protoClosed : BOOLEAN, redirect : BOOLEAN,
                 gateway : {None} \cup Sockets, probe : {None} \cup Sockets]
  /\ page \in [form : BOOLEAN, canConnect : BOOLEAN, canLeave : BOOLEAN, retrying : BOOLEAN,
               timer : {"none", "attempt", "watchdog"}, settings : BOOLEAN,
               apply : BOOLEAN, applyTimer : BOOLEAN]
  /\ past \in [quit : BOOLEAN, ended : SUBSET Sockets]
  /\ client.sock = None => client.proto = None /\ ~client.connected
  /\ page.timer # "none" => page.retrying

Init ==
  /\ env \in Environments
  /\ sock = [s \in Sockets |-> Unused]
  /\ client = [sock |-> None, proto |-> None, connected |-> FALSE, intentional |-> FALSE,
               wasActive |-> FALSE, protoClosed |-> FALSE, redirect |-> FALSE,
               gateway |-> None, probe |-> None]
  /\ page = [form |-> TRUE, canConnect |-> TRUE, canLeave |-> FALSE, retrying |-> FALSE,
             timer |-> "none", settings |-> FALSE, apply |-> FALSE, applyTimer |-> FALSE]
  /\ past = [quit |-> FALSE, ended |-> {}]

Click == env.clicks > 0 /\ env' = [env EXCEPT !.clicks = @ - 1]
Fault == env.faults > 0 /\ env' = [env EXCEPT !.faults = @ - 1]

-----------------------------------------------------------------------------
(* The page: its timers and what it does on a status.                      *)

\* stopReconnecting.
StopRetrying(p) == [p EXCEPT !.retrying = FALSE, !.timer = "none"]

\* resetConsole.
Reset(p) ==
  [StopRetrying(p) EXCEPT !.form = TRUE, !.canConnect = TRUE, !.canLeave = FALSE,
                          !.settings = FALSE]

\* Mutant: the next attempt is left to the watchdog of the one that failed.
ScheduledVariant(p) == p

\* scheduleReconnectAttempt, while reconnecting.
Scheduled(p) == [p EXCEPT !.timer = "attempt"]

\* startReconnecting.
Retrying(p) == Scheduled([p EXCEPT !.retrying = TRUE, !.settings = FALSE])

\* Mutant: a session that is back leaves the loop running.
OnReadyVariant(p) == [p EXCEPT !.form = FALSE, !.canLeave = TRUE]

OnReady(p) == [StopRetrying(p) EXCEPT !.form = FALSE, !.canLeave = TRUE]

\* The form comes back; settings stay open until the socket has closed.
OnError(p) == IF p.retrying THEN p ELSE [Reset(p) EXCEPT !.settings = p.settings]

\* Settings that were applied start the next session; a failed attempt is
\* followed by another.
OnClosed(p) ==
  IF p.apply THEN [p EXCEPT !.apply = FALSE, !.applyTimer = TRUE]
  ELSE IF p.retrying THEN Retrying(p) ELSE Reset(p)

-----------------------------------------------------------------------------
(* The client.                                                             *)

\* Mutant: the flag outlives the session it was set for.
TornDownVariant(c) ==
  [c EXCEPT !.connected = FALSE, !.wasActive = FALSE, !.protoClosed = FALSE,
            !.gateway = None, !.probe = None]

\* deinitialize, but for the status.
TornDown(c) ==
  [c EXCEPT !.connected = FALSE, !.wasActive = FALSE, !.intentional = FALSE,
            !.protoClosed = FALSE, !.gateway = None, !.probe = None]

\* What ends with "closed", and not with "reconnecting".
IsOver(c) == c.intentional \/ ~c.wasActive

\* deinitialize.
Deinitialize(c, p) ==
  /\ client' = TornDown(c)
  /\ page' = IF IsOver(c) THEN OnClosed(p) ELSE Retrying(p)

\* Mutant: the handlers of the socket before stay on.
DetachedVariant(s) == [s EXCEPT !.st = IF @ = "closed" THEN @ ELSE "closing"]

\* A socket is closed with its handlers off: nothing more is heard of it.
Detached(s) == [s EXCEPT !.st = "closed", !.heard = FALSE]

IsNext(s) == sock[s].st = "unused" /\ \A t \in 1..(s - 1) : sock[t].st # "unused"

\* Connecting before the socket before has closed.
Hasty == client.sock # None /\ sock[client.sock].st = "closing"

\* connect: the socket before, if there is one, is dropped (_dropSocket).
Connect(c) ==
  /\ Hasty => May("hasty")
  /\ \E next \in Sockets :
       /\ IsNext(next)
       /\ sock' = [s \in Sockets |->
            IF s = next THEN [st |-> "connecting", heard |-> TRUE, leg |-> "auth"]
            ELSE IF s = c.sock THEN Detached(sock[s]) ELSE sock[s]]
       /\ client' = [c EXCEPT !.sock = next, !.proto = IF c.sock = None THEN @ ELSE None]

\* Mutant: the close is not marked as meant.
DisconnectVariant(p) ==
  IF client.sock = None
  THEN page' = p /\ UNCHANGED <<sock, client>>
  ELSE sock' = [sock EXCEPT ![client.sock] = Detached(@)] /\ Deinitialize(client, p)

\* disconnect; without a socket it does nothing.
Disconnect(p) ==
  IF client.sock = None
  THEN page' = p /\ UNCHANGED <<sock, client>>
  ELSE /\ sock' = [sock EXCEPT ![client.sock] = Detached(@)]
       /\ Deinitialize([client EXCEPT !.intentional = TRUE], p)

-----------------------------------------------------------------------------
(* The socket, the gateway and the host.                                   *)

Hears(s) == sock[s].heard /\ sock[s].st = "open"

Opens(s) ==
  /\ sock[s].st = "connecting" /\ sock[s].heard
  /\ sock' = [sock EXCEPT ![s].st = "open"]
  /\ UNCHANGED <<env, client, page, past>>

\* The control frame "ready": _startProtocol.  To get there takes longer than the
\* 100 ms after a redirection.
Ready(s) ==
  /\ Hears(s) /\ sock[s].leg = "auth" /\ ~client.redirect
  /\ sock' = [sock EXCEPT ![s].leg = "relay"]
  /\ client' = [client EXCEPT !.gateway = s, !.proto = s]
  /\ UNCHANGED <<env, page, past>>

\* _startQualityProbe.
Probe(c) == IF c.gateway = None THEN c.probe ELSE c.gateway

\* _onActive, the first time and after a reactivation.
Active(s) ==
  /\ Hears(s) /\ client.proto = s /\ sock[s].leg = "relay"
  /\ sock' = [sock EXCEPT ![s].leg = "active"]
  /\ IF client.connected THEN UNCHANGED <<client, page>>
     ELSE /\ client' = [client EXCEPT !.connected = TRUE, !.wasActive = TRUE,
                                      !.probe = Probe(client)]
          /\ page' = OnReady(page)
  /\ UNCHANGED <<env, past>>

\* The control frame "redirect": the next leg is connected after 100 ms.
Redirects(s) ==
  /\ May("redirects") /\ Fault /\ Hears(s) /\ sock[s].leg # "auth" /\ client.proto = s
  /\ sock' = [sock EXCEPT ![s] = Detached(@)]
  /\ client' = [client EXCEPT !.sock = None, !.proto = None, !.connected = FALSE,
                              !.redirect = TRUE]
  /\ UNCHANGED <<page, past>>

\* The control frame "error", or graphics that cannot be decoded (_onGfxFatal).
Fails(s) ==
  /\ Fault /\ Hears(s)
  /\ client' = [client EXCEPT !.intentional = TRUE]
  /\ page' = OnError(page)
  /\ sock' = [sock EXCEPT ![s].st = "closing"]
  /\ past' = [past EXCEPT !.ended = @ \cup {s}]

\* _onProtocolClose.
ProtocolClosed(c, graceful) ==
  [c EXCEPT !.protoClosed = TRUE, !.intentional = graceful \/ @, !.proto = None]

\* The host ends the session, with a message or by an error.
HostEnds(s) ==
  /\ Fault /\ Hears(s) /\ client.proto = s /\ sock[s].leg # "auth"
  /\ \E graceful \in BOOLEAN :
       /\ past' = IF graceful THEN [past EXCEPT !.ended = @ \cup {s}] ELSE past
       /\ IF client.protoClosed THEN UNCHANGED <<sock, client>>
          ELSE /\ sock' = [sock EXCEPT ![s].st = "closing"]
               /\ client' = ProtocolClosed(client, graceful)
  /\ UNCHANGED page

\* onclose of a socket that was closed; deinitialize.
Closed(s) ==
  /\ sock[s].heard /\ sock[s].st = "closing"
  /\ sock' = [sock EXCEPT ![s].st = "closed"]
  /\ Deinitialize(client, page)
  /\ UNCHANGED <<env, past>>

\* The network, or the gateway, drops a socket: onclose, and onerror before it
\* unless the close was clean.
Drops(s) ==
  /\ Fault /\ sock[s].heard /\ sock[s].st \in {"connecting", "open"}
  /\ sock' = [sock EXCEPT ![s].st = "closed"]
  /\ \E p \in {page, OnError(page)} : Deinitialize(client, p)
  /\ UNCHANGED past

-----------------------------------------------------------------------------
(* Timers.                                                                 *)

RedirectTimer ==
  /\ client.redirect
  /\ Connect([client EXCEPT !.redirect = FALSE])
  /\ UNCHANGED <<env, page, past>>

\* runReconnectAttempt.
Attempt ==
  /\ Connect(client)
  /\ page' = [page EXCEPT !.timer = "watchdog"]
  /\ UNCHANGED past

AttemptTimer == page.timer = "attempt" /\ Attempt /\ UNCHANGED env

\* The watchdog of an attempt that neither succeeded nor failed.
Watchdog ==
  /\ page.timer = "watchdog" /\ May("slow") /\ Fault
  /\ page' = Scheduled(page)
  /\ UNCHANGED <<sock, client, past>>

\* Two minutes have passed (updateReconnectCountdown), or the user gives up.
Deadline ==
  /\ page.retrying
  /\ client.redirect => May("quitsBetween")
  /\ LET p == StopRetrying(page)
     IN IF client.sock = None THEN page' = Reset(p) /\ UNCHANGED <<sock, client>>
        ELSE /\ sock' = [sock EXCEPT ![client.sock] = Detached(@)]
             /\ client' = TornDown(client) /\ page' = Reset(OnClosed(p))
  /\ past' = [past EXCEPT !.quit = TRUE]
  /\ UNCHANGED env

\* The new session after settings were applied, on the next turn.
ApplyTimer ==
  /\ page.applyTimer
  /\ Connect(client)
  /\ page' = [page EXCEPT !.applyTimer = FALSE, !.canConnect = FALSE]
  /\ UNCHANGED <<env, past>>

-----------------------------------------------------------------------------
(* The user, who is not quicker than a timer of 0 ms.                      *)

UserConnects ==
  /\ page.form /\ page.canConnect /\ ~page.retrying /\ ~page.applyTimer /\ Click
  /\ Connect(client)
  /\ page' = [page EXCEPT !.canConnect = FALSE]
  /\ past' = [past EXCEPT !.quit = FALSE]

\* Disconnect, in the bar of a session.
UserLeaves ==
  /\ page.canLeave /\ ~page.applyTimer /\ Click
  /\ page.retrying => May("quitsRetrying")
  /\ client.redirect => May("quitsBetween")
  /\ Disconnect(page)
  /\ past' = [past EXCEPT !.quit = TRUE]

\* "Retry now", or the browser is online again.
UserRetries == page.retrying /\ Click /\ Attempt

OpensSettings ==
  /\ May("settings") /\ client.connected /\ ~page.settings
  /\ page' = [page EXCEPT !.settings = TRUE]
  /\ UNCHANGED <<env, sock, client, past>>

AppliesSettings ==
  /\ page.settings /\ Click
  /\ client.redirect => May("quitsBetween")
  /\ Disconnect([page EXCEPT !.settings = FALSE, !.apply = TRUE])
  /\ UNCHANGED past

-----------------------------------------------------------------------------

Network(s) == Opens(s) \/ Ready(s) \/ Active(s) \/ Closed(s)
Timers == RedirectTimer \/ AttemptTimer \/ ApplyTimer
User == UserConnects \/ UserLeaves \/ UserRetries \/ OpensSettings \/ AppliesSettings

Next ==
  \/ \E s \in Sockets : Network(s) \/ Redirects(s) \/ Fails(s) \/ HostEnds(s) \/ Drops(s)
  \/ Timers \/ Watchdog \/ Deadline \/ User
  \/ UNCHANGED vars

Spec == Init /\ [][Next]_vars

\* Sockets open and close, the gateway and the host answer, timers fire.
FairSpec == Spec /\ WF_vars(Timers) /\ \A s \in Sockets : WF_vars(Network(s))

-----------------------------------------------------------------------------
(* Properties.                                                             *)

Live(s) == sock[s].st \in {"connecting", "open"}

\* There is one session at a time, and events come only from its socket: no
\* late onclose of an earlier attempt can tear the present session down
\* ("its late onclose would otherwise run deinitialize() over THIS session").
OneSession ==
  \A s \in Sockets : Live(s) \/ sock[s].heard => s = client.sock

\* The client's record of its sockets: its types, and one session at a time.
Coherent == TypeOK /\ OneSession

\* Once the user has left, or the deadline has passed, there is no connection
\* until the user asks for one: no timer brings the session back.
QuitIsFinal ==
  past.quit => client.redirect = FALSE /\ \A s \in Sockets : ~Live(s)

\* The page shows a session while there is one, with a way to leave it; and
\* its loop is not running then.
PageAgrees ==
  \A s \in Sockets : sock[s].st = "open" /\ sock[s].leg = "active" /\ client.proto = s
    => client.connected /\ ~page.form /\ page.canLeave /\ ~page.retrying

\* The connection quality that is shown is that of the session: after a
\* redirection too the measurement is bound to the new leg.
ProbeIsOwn == client.connected /\ client.gateway # None /\ Live(client.sock)
                => client.probe = client.sock

\* What the page shows is the session there is.
ShownIsReal == PageAgrees /\ ProbeIsOwn

\* A session that drops is reconnected, and one that the host or a failure has
\* ended is not ("distinct from a graceful host disconnect").
DropRetried(s) ==
  (sock[s].heard /\ sock[s].leg = "active" /\ sock[s].st # "closed"
     /\ sock'[s].heard /\ sock'[s].st = "closed")
  => (page'.retrying <=> s \notin past.ended)

DropsAreRetried == [][\A s \in Sockets : DropRetried(s)]_vars

\* A connect comes to its end: a session, or a form that can be used again.
ConnectEnds == ~page.canConnect ~> client.connected \/ page.canConnect

=============================================================================
