----------------------------- MODULE BrowserProofs -----------------------------
(***************************************************************************)
(* Proofs about two parts of the browser client.                           *)
(*                                                                         *)
(* About ClientSession, for any number of sockets, clicks and faults: in   *)
(* every environment there is one session at a time; and as long as the    *)
(* user does not act between two legs, while the page reconnects or before *)
(* a socket has closed, quitting is final, the page shows the session      *)
(* there is, and drops, and only drops, are retried.                       *)
(*                                                                         *)
(* About GfxPipeline, for any surfaces, slots and PDUs and in every        *)
(* environment: each decode advances the barrier once, and the canvas      *)
(* shows what is not marked to be painted.  It implements OrderedGfx       *)
(* when the host is Orderly, that is, neither overruns a SURFACE_TO_CACHE  *)
(* nor reuses a busy surface, and draws only decodes when the worker may   *)
(* be lost.  If it also shows one H.264 stream at a time (OneVideo), the   *)
(* frames that are acknowledged have landed.                               *)
(***************************************************************************)
EXTENDS ClientSession, GfxPipeline, SequenceTheorems, FiniteSetTheorems,
        WellFoundedInduction, TLAPS

\* The user leaves the page the time it needs.
Patient == env.may \cap {"hasty", "quitsBetween", "quitsRetrying"} = {}

-----------------------------------------------------------------------------
(* What holds of a patient user, beside Coherent.                          *)

Current == sock[client.sock]

\* The flags of a client speak of its present socket.
ClientInv ==
  /\ client.connected =>
       /\ client.sock # None /\ Current.heard /\ Current.leg = "active"
       /\ Current.st \in {"open", "closing"}
       /\ client.wasActive /\ client.probe = client.sock /\ ~client.redirect
  /\ client.proto # None =>
       /\ client.proto = client.sock /\ ~client.redirect
       /\ Current.st \in {"connecting", "open"} => client.gateway = client.sock
  /\ client.intentional \/ client.protoClosed =>
       client.sock # None /\ Current.st = "closing"

\* A session that is up is a socket's, until that has closed; and the host or a
\* failure has ended it just when its close is meant.
SocketInv ==
  \A s \in Sockets :
    /\ sock[s].heard /\ sock[s].leg = "active" /\ sock[s].st # "closed" => client.connected
    /\ sock[s].st \in {"unused", "connecting"} => sock[s].leg = "auth"
    /\ sock[s].st \in {"connecting", "open"} => sock[s].heard
    /\ s \in past.ended => sock[s].st \in {"closing", "closed"}
    /\ s = client.sock /\ sock[s].st = "closing" => (client.intentional <=> s \in past.ended)

\* The page agrees with the client.
PageInv ==
  /\ ~page.apply
  /\ client.connected =>
       /\ ~page.retrying /\ ~page.applyTimer
       /\ Current.st = "open" => ~page.form /\ page.canLeave
  /\ page.settings => ~page.retrying
  /\ client.sock = None /\ ~client.redirect =>
       ~page.settings /\ ~page.canLeave /\ ~page.retrying /\ ~page.applyTimer
  /\ page.applyTimer =>
       ~client.redirect /\ ~page.retrying /\ ~page.settings /\ ~past.quit

\* After the user has left, or before the session with new settings, no event
\* is to come.
SilenceInv ==
  /\ past.quit \/ page.applyTimer => \A s \in Sockets : ~sock[s].heard /\ ~Live(s)
  /\ past.quit => ~client.redirect /\ ~page.retrying /\ ~page.applyTimer /\ ~page.settings

PatientInv == ClientInv /\ SocketInv /\ PageInv /\ SilenceInv

Inv == env \in EnvironmentType /\ Coherent /\ (Patient => PatientInv)

-----------------------------------------------------------------------------
(* What the operators return.                                              *)

SockType == [st : {"unused", "connecting", "open", "closing", "closed"},
             heard : BOOLEAN, leg : {"auth", "relay", "active"}]
ClientType == [sock : {None} \cup Sockets, proto : {None} \cup Sockets,
               connected : BOOLEAN, intentional : BOOLEAN, wasActive : BOOLEAN,
               protoClosed : BOOLEAN, redirect : BOOLEAN,
               gateway : {None} \cup Sockets, probe : {None} \cup Sockets]
PageType == [form : BOOLEAN, canConnect : BOOLEAN, canLeave : BOOLEAN, retrying : BOOLEAN,
             timer : {"none", "attempt", "watchdog"}, settings : BOOLEAN,
             apply : BOOLEAN, applyTimer : BOOLEAN]

\* None is not a socket.
LEMMA NoneIsNoSocket == None \notin Sockets /\ Sockets \subseteq Nat
BY SessionAssumption DEF None, Sockets

\* A page whose loop is stopped, or that is reset.
LEMMA ResetFacts ==
  ASSUME NEW p \in PageType
  PROVE  /\ StopRetrying(p) \in PageType /\ Reset(p) \in PageType
         /\ \A q \in {StopRetrying(p), Reset(p)} :
              ~q.retrying /\ q.timer = "none" /\ q.apply = p.apply /\ q.applyTimer = p.applyTimer
         /\ StopRetrying(p).settings = p.settings /\ StopRetrying(p).form = p.form
         /\ StopRetrying(p).canLeave = p.canLeave
         /\ ~Reset(p).settings /\ ~Reset(p).canLeave
BY DEF PageType, StopRetrying, Reset

\* A page that starts its loop, or the next attempt.
LEMMA RetryingFacts ==
  ASSUME NEW p \in PageType
  PROVE  /\ Retrying(p) \in PageType /\ Scheduled(p) \in PageType
         /\ Retrying(p).retrying /\ ~Retrying(p).settings
         /\ Retrying(p).apply = p.apply /\ Retrying(p).applyTimer = p.applyTimer
         /\ Scheduled(p) = [p EXCEPT !.timer = "attempt"]
BY DEF PageType, Retrying, Scheduled

\* A page that learns that the session is up.
LEMMA OnReadyFacts ==
  ASSUME NEW p \in PageType
  PROVE  /\ OnReady(p) \in PageType
         /\ ~OnReady(p).retrying /\ OnReady(p).timer = "none"
         /\ ~OnReady(p).form /\ OnReady(p).canLeave
         /\ OnReady(p).apply = p.apply /\ OnReady(p).applyTimer = p.applyTimer
         /\ OnReady(p).settings = p.settings
BY DEF PageType, StopRetrying, OnReady

\* A page that learns of an error.
LEMMA OnErrorFacts ==
  ASSUME NEW p \in PageType, p.timer # "none" => p.retrying
  PROVE  /\ OnError(p) \in PageType
         /\ OnError(p).timer # "none" => OnError(p).retrying
         /\ OnError(p).retrying = p.retrying /\ OnError(p).settings = p.settings
         /\ OnError(p).apply = p.apply /\ OnError(p).applyTimer = p.applyTimer
         /\ OnError(p).canLeave => p.canLeave
BY DEF PageType, StopRetrying, Reset, OnError

\* A page that learns that the session has closed.
LEMMA OnClosedFacts ==
  ASSUME NEW p \in PageType, p.timer # "none" => p.retrying
  PROVE  /\ OnClosed(p) \in PageType
         /\ OnClosed(p).timer # "none" => OnClosed(p).retrying
         /\ OnClosed(p).retrying = p.retrying
         /\ OnClosed(p).apply = FALSE
         /\ OnClosed(p).applyTimer = (p.applyTimer \/ p.apply)
         /\ OnClosed(p).settings => p.apply /\ p.settings
BY DEF PageType, StopRetrying, Reset, OnClosed, Retrying, Scheduled

\* A client whose session is torn down.
LEMMA TornDownFacts ==
  ASSUME NEW c \in ClientType
  PROVE  /\ TornDown(c) \in ClientType
         /\ TornDown(c).sock = c.sock /\ TornDown(c).proto = c.proto
         /\ TornDown(c).redirect = c.redirect
         /\ ~TornDown(c).connected /\ ~TornDown(c).intentional /\ ~TornDown(c).protoClosed
BY DEF ClientType, TornDown, None

\* A socket whose handlers are off.
LEMMA DetachedFacts ==
  ASSUME NEW s \in SockType
  PROVE  /\ Detached(s) \in SockType /\ Detached(s).st = "closed" /\ ~Detached(s).heard
         /\ Detached(s).leg = s.leg
BY DEF SockType, Detached

\* A new socket takes the place of the one before.
LEMMA ConnectFacts ==
  ASSUME Coherent, NEW c \in ClientType, c.sock = client.sock, Connect(c)
  PROVE  /\ Hasty => May("hasty")
         /\ \E next \in Sockets :
              /\ sock[next].st = "unused"
              /\ sock' \in [Sockets -> SockType]
              /\ sock'[next].st = "connecting" /\ sock'[next].heard /\ sock'[next].leg = "auth"
              /\ \A s \in Sockets \ {next} : sock'[s].leg = sock[s].leg
              /\ \A s \in Sockets \ {next} : ~sock'[s].heard
              /\ \A s \in Sockets \ {next} : sock'[s].st = IF s = c.sock THEN "closed" ELSE sock[s].st
              /\ client' = [c EXCEPT !.sock = next, !.proto = IF c.sock = None THEN @ ELSE None]
<1>1. sock \in [Sockets -> SockType]
  BY DEF Coherent, TypeOK, SockType
<1>2. PICK next \in Sockets :
        /\ sock[next].st = "unused"
        /\ sock' = [s \in Sockets |->
             IF s = next THEN [st |-> "connecting", heard |-> TRUE, leg |-> "auth"]
             ELSE IF s = c.sock THEN Detached(sock[s]) ELSE sock[s]]
        /\ client' = [c EXCEPT !.sock = next, !.proto = IF c.sock = None THEN @ ELSE None]
  BY DEF Connect, IsNext
<1>3. [st |-> "connecting", heard |-> TRUE, leg |-> "auth"] \in SockType
  BY DEF SockType
<1>4. \A s \in Sockets : Detached(sock[s]) \in SockType
  BY <1>1, DetachedFacts
<1>5. sock' \in [Sockets -> SockType]
  BY <1>1, <1>2, <1>3, <1>4
<1>6. \A s \in Sockets \ {next} : sock'[s] = IF s = c.sock THEN Detached(sock[s]) ELSE sock[s]
  BY <1>2
<1>7. \A s \in Sockets : sock[s].heard => s = c.sock
  BY DEF Coherent, OneSession
<1>8. \A s \in Sockets : Detached(sock[s]).st = "closed" /\ ~Detached(sock[s]).heard
                         /\ Detached(sock[s]).leg = sock[s].leg
  BY <1>1, DetachedFacts
<1>9. sock'[next].st = "connecting" /\ sock'[next].heard /\ sock'[next].leg = "auth"
  BY <1>2
<1> QED
  BY <1>2, <1>5, <1>6, <1>7, <1>8, <1>9 DEF Connect

\* The session is torn down and the page told.
LEMMA DeinitializeFacts ==
  ASSUME NEW c \in ClientType, NEW p \in PageType, p.timer # "none" => p.retrying,
         Deinitialize(c, p)
  PROVE  /\ client' = TornDown(c) /\ page' \in PageType
         /\ page'.timer # "none" => page'.retrying
         /\ page' = IF IsOver(c) THEN OnClosed(p) ELSE Retrying(p)
BY RetryingFacts, OnClosedFacts DEF Deinitialize

-----------------------------------------------------------------------------
(* One session at a time.                                                  *)

\* What Coherent says, with the types of the records named.
LEMMA CoherentParts ==
  ASSUME Coherent
  PROVE  /\ sock \in [Sockets -> SockType] /\ client \in ClientType /\ page \in PageType
         /\ past \in [quit : BOOLEAN, ended : SUBSET Sockets]
         /\ client.sock = None => client.proto = None /\ ~client.connected
         /\ page.timer # "none" => page.retrying
         /\ \A s \in Sockets : Live(s) \/ sock[s].heard => s = client.sock
BY DEF Coherent, TypeOK, OneSession, SockType, ClientType, PageType

\* And what has to be shown of the next state.
LEMMA CoherentNext ==
  ASSUME sock' \in [Sockets -> SockType], client' \in ClientType, page' \in PageType,
         past' \in [quit : BOOLEAN, ended : SUBSET Sockets],
         client'.sock = None => client'.proto = None /\ ~client'.connected,
         page'.timer # "none" => page'.retrying,
         \A s \in Sockets : sock'[s].st \in {"connecting", "open"} \/ sock'[s].heard
                              => s = client'.sock
  PROVE  Coherent'
BY DEF Coherent, TypeOK, OneSession, SockType, ClientType, PageType, Live

\* Whatever becomes of the present socket, no other one is up; and once it is
\* detached, none is.
LEMMA SockStep ==
  ASSUME Coherent, NEW s \in Sockets, s = client.sock, NEW v \in SockType,
         sock' = [sock EXCEPT ![s] = v]
  PROVE  /\ sock' \in [Sockets -> SockType] /\ sock'[s] = v
         /\ \A t \in Sockets \ {s} : sock'[t] = sock[t]
         /\ \A t \in Sockets : sock'[t].st \in {"connecting", "open"} \/ sock'[t].heard
                                 => t = client.sock
         /\ (v.st = "closed" /\ ~v.heard) =>
              \A t \in Sockets : sock'[t].st \notin {"connecting", "open"} /\ ~sock'[t].heard
BY CoherentParts DEF Live

\* A connect keeps Coherent.
LEMMA ConnectCoherent ==
  ASSUME Coherent, NEW c \in ClientType, c.sock = client.sock,
         c.proto = client.proto, Connect(c), page' \in PageType,
         page'.timer # "none" => page'.retrying,
         past' \in [quit : BOOLEAN, ended : SUBSET Sockets]
  PROVE  Coherent'
<1>1. PICK next \in Sockets :
        /\ sock' \in [Sockets -> SockType]
        /\ \A s \in Sockets \ {next} : ~sock'[s].heard
        /\ \A s \in Sockets \ {next} : sock'[s].st = IF s = c.sock THEN "closed" ELSE sock[s].st
        /\ client' = [c EXCEPT !.sock = next, !.proto = IF c.sock = None THEN @ ELSE None]
  BY ConnectFacts
<1>2. \A s \in Sockets : Live(s) => s = client.sock
  BY CoherentParts
<1>3. client' \in ClientType /\ client'.sock = next
  BY <1>1 DEF ClientType
<1>4. \A s \in Sockets : sock'[s].st \in {"connecting", "open"} \/ sock'[s].heard => s = next
  BY <1>1, <1>2 DEF Live
<1> QED
  BY <1>1, <1>3, <1>4, CoherentNext, NoneIsNoSocket

\* The end of a session keeps Coherent, when its socket has closed or is.
LEMMA DeinitializeCoherent ==
  ASSUME Coherent, NEW c \in ClientType, c.sock = client.sock, c.proto = client.proto,
         NEW p \in PageType, p.timer # "none" => p.retrying, Deinitialize(c, p),
         NEW s \in Sockets, s = client.sock, NEW v \in SockType, v.st = "closed",
         sock' = [sock EXCEPT ![s] = v],
         past' \in [quit : BOOLEAN, ended : SUBSET Sockets]
  PROVE  Coherent'
<1>1. /\ client' = TornDown(c) /\ page' \in PageType
      /\ page'.timer # "none" => page'.retrying
  BY DeinitializeFacts
<1>2. client' \in ClientType /\ client'.sock = client.sock
  BY <1>1, TornDownFacts
<1>4. /\ sock' \in [Sockets -> SockType]
      /\ \A t \in Sockets : sock'[t].st \in {"connecting", "open"} \/ sock'[t].heard
                              => t = client.sock
  BY SockStep
<1> QED
  BY <1>1, <1>2, <1>4, CoherentNext, NoneIsNoSocket

\* Leaving a session keeps Coherent.
LEMMA DisconnectCoherent ==
  ASSUME Coherent, NEW p \in PageType, p.timer # "none" => p.retrying, Disconnect(p),
         past' \in [quit : BOOLEAN, ended : SUBSET Sockets]
  PROVE  Coherent'
<1>1. CASE client.sock = None
  BY <1>1, CoherentParts, CoherentNext DEF Disconnect, Live
<1>2. CASE client.sock # None
  <2> DEFINE c == [client EXCEPT !.intentional = TRUE]
             s == client.sock
             v == Detached(sock[s])
  <2>1. s \in Sockets /\ c \in ClientType /\ c.sock = client.sock /\ c.proto = client.proto
    BY <1>2, CoherentParts DEF ClientType
  <2>2. sock[s] \in SockType
    BY <2>1, CoherentParts
  <2>3. v \in SockType /\ v.st = "closed"
    BY <2>2, DetachedFacts
  <2>4. sock' = [sock EXCEPT ![s] = v] /\ Deinitialize(c, p)
    BY <1>2 DEF Disconnect
  <2> HIDE DEF c, s, v
  <2>5. s = client.sock
    BY DEF s
  <2> QED
    BY <2>1, <2>3, <2>4, <2>5, DeinitializeCoherent
<1> QED
  BY <1>1, <1>2

\* What the sockets do keeps Coherent.
LEMMA SocketsCoherent ==
  ASSUME Coherent, NEW s \in Sockets,
         Network(s) \/ Redirects(s) \/ Fails(s) \/ HostEnds(s) \/ Drops(s)
  PROVE  Coherent'
<1>0. /\ sock \in [Sockets -> SockType] /\ client \in ClientType /\ page \in PageType
      /\ past \in [quit : BOOLEAN, ended : SUBSET Sockets]
      /\ client.sock = None => client.proto = None /\ ~client.connected
      /\ page.timer # "none" => page.retrying
      /\ \A t \in Sockets : Live(t) \/ sock[t].heard => t = client.sock
      /\ sock[s] \in SockType /\ client.sock \in {None} \cup Sockets
  BY CoherentParts DEF ClientType
<1>1. ASSUME Opens(s) PROVE Coherent'
  <2> DEFINE v == [sock[s] EXCEPT !.st = "open"]
  <2>1. sock' = [sock EXCEPT ![s] = v] /\ s = client.sock
        /\ UNCHANGED <<client, page, past>>
    BY <1>0, <1>1 DEF Opens
  <2>2. v \in SockType
    BY <1>0 DEF SockType
  <2> HIDE DEF v
  <2>3. /\ sock' \in [Sockets -> SockType]
        /\ \A t \in Sockets : sock'[t].st \in {"connecting", "open"} \/ sock'[t].heard
                                => t = client.sock
    BY <2>1, <2>2, SockStep
  <2> QED
    BY <1>0, <2>1, <2>3, CoherentNext
<1>2. ASSUME Ready(s) \/ Active(s) PROVE Coherent'
  <2>1. s = client.sock /\ UNCHANGED past
    BY <1>0, <1>2 DEF Ready, Active, Hears
  <2>2. PICK v \in SockType : sock' = [sock EXCEPT ![s] = v]
    BY <1>0, <1>2 DEF SockType, Ready, Active
  <2>3. /\ sock' \in [Sockets -> SockType]
        /\ \A t \in Sockets : sock'[t].st \in {"connecting", "open"} \/ sock'[t].heard
                                => t = client.sock
    BY <2>1, <2>2, SockStep
  <2>4. client' \in ClientType /\ client'.sock = client.sock
    <3>1. CASE Ready(s)
      BY <3>1, <1>0 DEF Ready, ClientType
    <3>2. CASE Active(s)
      <4>1. \/ client' = client
            \/ client' = [client EXCEPT !.connected = TRUE, !.wasActive = TRUE,
                                        !.probe = Probe(client)]
        BY <3>2 DEF Active
      <4>2. Probe(client) \in {None} \cup Sockets
        BY <1>0 DEF Probe, ClientType
      <4> QED
        BY <1>0, <4>1, <4>2 DEF ClientType
    <3> QED
      BY <1>2, <3>1, <3>2
  <2>5. page' \in PageType /\ (page'.timer # "none" => page'.retrying)
    BY <1>0, <1>2, OnReadyFacts DEF Ready, Active
  <2> QED
    BY <1>0, <2>1, <2>3, <2>4, <2>5, CoherentNext, NoneIsNoSocket
<1>3. ASSUME Closed(s) PROVE Coherent'
  BY <1>0, <1>3, DeinitializeCoherent DEF Closed, SockType
<1>4. ASSUME Redirects(s) PROVE Coherent'
  <2> DEFINE v == Detached(sock[s])
  <2>1. /\ sock' = [sock EXCEPT ![s] = v] /\ s = client.sock
        /\ UNCHANGED <<page, past>>
    BY <1>0, <1>4 DEF Redirects, Hears
  <2>2. v \in SockType /\ ~v.heard /\ v.st = "closed"
    BY <1>0, DetachedFacts
  <2> HIDE DEF v
  <2>3. /\ sock' \in [Sockets -> SockType]
        /\ \A t \in Sockets : sock'[t].st \in {"connecting", "open"} \/ sock'[t].heard
                                => t = None
    BY <2>1, <2>2, SockStep
  <2>4. client' \in ClientType /\ client'.sock = None /\ client'.proto = None
        /\ ~client'.connected
    BY <1>0, <1>4 DEF Redirects, ClientType
  <2> QED
    BY <1>0, <2>1, <2>3, <2>4, CoherentNext
<1>5. ASSUME Fails(s) \/ HostEnds(s) PROVE Coherent'
  <2>1. s = client.sock /\ s \in Sockets /\ sock[s].st = "open" /\ sock[s].heard
    BY <1>0, <1>5 DEF Fails, HostEnds, Hears
  <2> DEFINE v == [sock[s] EXCEPT !.st = "closing"]
  <2>2. sock' = [sock EXCEPT ![s] = v] \/ sock' = sock
    BY <1>5 DEF Fails, HostEnds
  <2>3. v \in SockType
    BY <1>0 DEF SockType
  <2> HIDE DEF v
  <2>4. /\ sock' \in [Sockets -> SockType]
        /\ \A t \in Sockets : sock'[t].st \in {"connecting", "open"} \/ sock'[t].heard
                                => t = client.sock
    BY <1>0, <2>1, <2>3, SockStep, <2>2 DEF Live
  <2>5. client' \in ClientType /\ client'.sock = client.sock
    BY <1>0, <1>5 DEF Fails, HostEnds, ProtocolClosed, ClientType
  <2>6. page' \in PageType /\ (page'.timer # "none" => page'.retrying)
    BY <1>0, <1>5, OnErrorFacts DEF Fails, HostEnds
  <2>7. past' \in [quit : BOOLEAN, ended : SUBSET Sockets]
    BY <1>0, <1>5 DEF Fails, HostEnds
  <2> QED
    BY <2>1, <2>4, <2>5, <2>6, <2>7, CoherentNext, NoneIsNoSocket
<1>6. ASSUME Drops(s) PROVE Coherent'
  BY <1>0, <1>6, OnErrorFacts, DeinitializeCoherent DEF Drops, SockType
<1> QED
  BY <1>1, <1>2, <1>3, <1>4, <1>5, <1>6 DEF Network

\* The timers and the user keep Coherent.
LEMMA PageCoherent ==
  ASSUME Coherent, Timers \/ Watchdog \/ Deadline \/ User
  PROVE  Coherent'
<1>0. /\ sock \in [Sockets -> SockType] /\ client \in ClientType /\ page \in PageType
      /\ past \in [quit : BOOLEAN, ended : SUBSET Sockets]
      /\ client.sock = None => client.proto = None /\ ~client.connected
      /\ page.timer # "none" => page.retrying
      /\ \A t \in Sockets : Live(t) \/ sock[t].heard => t = client.sock
      /\ client.sock \in {None} \cup Sockets
  BY CoherentParts DEF ClientType
<1>1. ASSUME RedirectTimer PROVE Coherent'
  <2> DEFINE c == [client EXCEPT !.redirect = FALSE]
  <2>1. c \in ClientType /\ c.sock = client.sock /\ c.proto = client.proto
    BY <1>0 DEF ClientType
  <2>2. Connect(c) /\ UNCHANGED <<page, past>>
    BY <1>1 DEF RedirectTimer
  <2> HIDE DEF c
  <2> QED
    BY <1>0, <2>1, <2>2, ConnectCoherent
<1>2. ASSUME AttemptTimer \/ UserRetries PROVE Coherent'
  BY <1>0, <1>2, ConnectCoherent DEF AttemptTimer, UserRetries, Attempt, PageType
<1>3. ASSUME ApplyTimer \/ UserConnects PROVE Coherent'
  BY <1>0, <1>3, ConnectCoherent DEF ApplyTimer, UserConnects, PageType
<1>4. ASSUME Watchdog PROVE Coherent'
  BY <1>4, <1>0, CoherentNext DEF Watchdog, PageType, Scheduled, Live
<1>5. ASSUME Deadline PROVE Coherent'
  <2> DEFINE p == StopRetrying(page)
  <2>1. p \in PageType /\ p.timer = "none"
    BY <1>0, ResetFacts
  <2>2. past' \in [quit : BOOLEAN, ended : SUBSET Sockets]
    BY <1>0, <1>5 DEF Deadline
  <2>3. /\ OnClosed(p) \in PageType /\ Reset(p) \in PageType /\ Reset(p).timer = "none"
        /\ Reset(OnClosed(p)) \in PageType /\ Reset(OnClosed(p)).timer = "none"
    BY <2>1, ResetFacts, OnClosedFacts
  <2>4. CASE client.sock = None
    <3>1. page' = Reset(p) /\ UNCHANGED <<sock, client>>
      BY <1>5, <2>4 DEF Deadline
    <3> HIDE DEF p
    <3> QED
      BY <1>0, <2>2, <2>3, <3>1, CoherentNext DEF Live
  <2>5. CASE client.sock # None
    <3> DEFINE s == client.sock
               v == Detached(sock[s])
    <3>1. /\ sock' = [sock EXCEPT ![s] = v]
          /\ client' = TornDown(client) /\ page' = Reset(OnClosed(p))
      BY <1>5, <2>5 DEF Deadline
    <3> HIDE DEF p
    <3>2. s \in Sockets /\ sock[s] \in SockType
      BY <1>0, <2>5
    <3>3. v \in SockType
      BY <3>2, DetachedFacts
    <3> HIDE DEF s, v
    <3>6. s = client.sock
      BY DEF s
    <3>4. /\ sock' \in [Sockets -> SockType]
          /\ \A t \in Sockets : sock'[t].st \in {"connecting", "open"} \/ sock'[t].heard
                                  => t = client.sock
      BY <3>1, <3>2, <3>3, <3>6, SockStep
    <3>5. client' \in ClientType /\ client'.sock = client.sock
      BY <1>0, <3>1, TornDownFacts
    <3> QED
      BY <2>2, <2>3, <2>5, <3>1, <3>4, <3>5, CoherentNext
  <2> QED
    BY <2>4, <2>5
<1>6. ASSUME UserLeaves PROVE Coherent'
  BY <1>0, <1>6, DisconnectCoherent DEF UserLeaves
<1>7. ASSUME OpensSettings PROVE Coherent'
  BY <1>7, <1>0, CoherentNext DEF OpensSettings, PageType, Live
<1>8. ASSUME AppliesSettings PROVE Coherent'
  <2> DEFINE p == [page EXCEPT !.settings = FALSE, !.apply = TRUE]
  <2>1. p \in PageType /\ (p.timer # "none" => p.retrying)
    BY <1>0 DEF PageType
  <2>2. Disconnect(p) /\ UNCHANGED past
    BY <1>8 DEF AppliesSettings
  <2> HIDE DEF p
  <2> QED
    BY <1>0, <2>1, <2>2, DisconnectCoherent
<1> QED
  BY <1>1, <1>2, <1>3, <1>4, <1>5, <1>6, <1>7, <1>8 DEF Timers, User

\* The first state is coherent.
LEMMA InitCoherent == Init => Coherent
BY NoneIsNoSocket DEF Init, Coherent, TypeOK, OneSession, Unused, Live

\* Every step keeps Coherent.
LEMMA StepCoherent == Coherent /\ [Next]_vars => Coherent'
BY SocketsCoherent, PageCoherent DEF vars, Coherent, TypeOK, OneSession, Live, Next

\* There is one session at a time, and events come only from its socket
\* (client.js, _dropSocket), whatever the user does.
THEOREM OneSessionAtATime == Spec => []Coherent
BY InitCoherent, StepCoherent, PTL DEF Spec

-----------------------------------------------------------------------------
(* A patient user.                                                         *)

\* What a user is like does not change.
LEMMA EnvironmentKept ==
  ASSUME env \in EnvironmentType, [Next]_vars
  PROVE  env' \in EnvironmentType /\ (Patient' <=> Patient)
<1>1. Click => env' \in EnvironmentType /\ env'.may = env.may
  BY DEF Click, EnvironmentType
<1>2. Fault => env' \in EnvironmentType /\ env'.may = env.may
  BY DEF Fault, EnvironmentType
<1>3. Click \/ Fault \/ UNCHANGED env
  <2>1. ASSUME NEW s \in Sockets, Network(s) \/ Redirects(s) \/ Fails(s) \/ HostEnds(s) \/ Drops(s)
        PROVE  Fault \/ UNCHANGED env
    BY <2>1 DEF Network, Opens, Ready, Active, Closed, Redirects, Fails, HostEnds, Drops
  <2>2. ASSUME Timers \/ Watchdog \/ Deadline PROVE Fault \/ UNCHANGED env
    BY <2>2 DEF Timers, RedirectTimer, AttemptTimer, ApplyTimer, Watchdog, Deadline
  <2>3. ASSUME User PROVE Click \/ UNCHANGED env
    BY <2>3 DEF User, UserConnects, UserLeaves, UserRetries, OpensSettings, AppliesSettings
  <2> QED
    BY <2>1, <2>2, <2>3 DEF Next, vars
<1> QED
  BY <1>1, <1>2, <1>3 DEF Patient

\* What is not to be expected of a patient user.
LEMMA PatientMay ==
  ASSUME Patient
  PROVE  ~May("hasty") /\ ~May("quitsBetween") /\ ~May("quitsRetrying")
BY DEF Patient, May

\* A connect, when no session is up and nobody has left.
LEMMA ConnectPatient ==
  ASSUME Coherent, Patient, PatientInv, ~client.connected,
         NEW c \in ClientType, Connect(c),
         c = client \/ c = [client EXCEPT !.redirect = FALSE],
         ~page'.apply, page'.settings => ~page'.retrying, ~page'.applyTimer, ~past'.quit,
         past'.ended = past.ended
  PROVE  PatientInv'
<1>0. /\ client \in ClientType /\ sock \in [Sockets -> SockType]
      /\ past \in [quit : BOOLEAN, ended : SUBSET Sockets]
      /\ client.sock = None => client.proto = None
  BY CoherentParts
<1>1. /\ c.sock = client.sock /\ c.proto = client.proto /\ ~c.connected
      /\ c.intentional = client.intentional /\ c.protoClosed = client.protoClosed
  BY <1>0 DEF ClientType
<1>2. ~Hasty
  BY <1>1, ConnectFacts, PatientMay
<1>3. ~client.intentional /\ ~client.protoClosed
  BY <1>2 DEF Hasty, PatientInv, ClientInv, Current
<1>4. PICK next \in Sockets :
        /\ sock[next].st = "unused"
        /\ sock' \in [Sockets -> SockType]
        /\ sock'[next].st = "connecting" /\ sock'[next].heard /\ sock'[next].leg = "auth"
        /\ \A s \in Sockets \ {next} : sock'[s].leg = sock[s].leg
        /\ \A s \in Sockets \ {next} : ~sock'[s].heard
        /\ \A s \in Sockets \ {next} : sock'[s].st = IF s = c.sock THEN "closed" ELSE sock[s].st
        /\ client' = [c EXCEPT !.sock = next, !.proto = IF c.sock = None THEN @ ELSE None]
  BY <1>1, ConnectFacts
<1>5. /\ client'.sock = next /\ client'.proto = None /\ ~client'.connected
      /\ ~client'.intentional /\ ~client'.protoClosed
  BY <1>0, <1>1, <1>4, <1>3 DEF ClientType
<1>6. ClientInv'
  BY <1>4, <1>5, NoneIsNoSocket DEF ClientInv, Current
<1>7. SocketInv'
  BY <1>4, <1>1, CoherentParts, <1>5 DEF PatientInv, SocketInv, Live
<1>8. PageInv'
  BY <1>5, NoneIsNoSocket DEF PageInv
<1>9. SilenceInv'
  BY DEF SilenceInv
<1> QED
  BY <1>6, <1>7, <1>8, <1>9 DEF PatientInv

\* The end of a session.
LEMMA TornDownPatient ==
  ASSUME Coherent, PatientInv, NEW s \in Sockets, s = client.sock,
         NEW v \in SockType, sock' = [sock EXCEPT ![s] = v], v.st = "closed",
         v.leg = sock[s].leg,
         NEW c \in ClientType, client' = TornDown(c), c.sock = client.sock,
         c.proto = client.proto, c.redirect = client.redirect,
         past'.ended = past.ended,
         ~page'.apply, ~page'.settings,
         page'.applyTimer => ~page'.retrying /\ ~past'.quit,
         past'.quit => ~page'.retrying /\ ~page'.applyTimer,
         (past'.quit \/ page'.applyTimer) => ~v.heard /\ ~client.redirect
  PROVE  PatientInv'
BY CoherentParts, TornDownFacts, SockStep, NoneIsNoSocket DEF PatientInv, ClientInv, Current,
   SocketInv, PageInv, SilenceInv, Live

\* What holds of the socket that is heard, and of its events.
LEMMA HeardFacts ==
  ASSUME Coherent, PatientInv, NEW s \in Sockets, sock[s].heard, sock[s].st # "closed"
  PROVE  /\ s = client.sock /\ client.sock # None
         /\ ~past.quit /\ ~page.applyTimer /\ ~page.apply
         /\ sock[s].leg = "active" <=> client.connected
         /\ sock[s].st = "open" => /\ ~client.intentional /\ ~client.protoClosed
                                   /\ s \notin past.ended
BY CoherentParts, NoneIsNoSocket DEF PatientInv, ClientInv, SocketInv, PageInv, SilenceInv, Current

\* Sockets that open, become ready or active.
LEMMA UpPatient ==
  ASSUME Coherent, PatientInv, NEW s \in Sockets, Opens(s) \/ Ready(s) \/ Active(s)
  PROVE  PatientInv'
<1>0. /\ sock \in [Sockets -> SockType] /\ client \in ClientType /\ page \in PageType
      /\ past \in [quit : BOOLEAN, ended : SUBSET Sockets] /\ past' = past
      /\ sock[s] \in SockType
  BY CoherentParts DEF Opens, Ready, Active
<1>1. /\ s = client.sock /\ client.sock # None
      /\ ~past.quit /\ ~page.applyTimer /\ ~page.apply
      /\ sock[s].leg = "active" <=> client.connected
  BY HeardFacts DEF Opens, Ready, Active, Hears
<1>2. ASSUME Opens(s) PROVE PatientInv'
  <2> DEFINE v == [sock[s] EXCEPT !.st = "open"]
  <2>1. sock' = [sock EXCEPT ![s] = v] /\ UNCHANGED <<client, page, past>>
        /\ sock[s].st = "connecting"
    BY <1>2 DEF Opens
  <2>2. v \in SockType /\ v.st = "open" /\ v.heard = sock[s].heard /\ v.leg = sock[s].leg
    BY <1>0 DEF SockType
  <2> HIDE DEF v
  <2>3. sock'[s] = v /\ \A t \in Sockets \ {s} : sock'[t] = sock[t]
    BY <1>1, <2>1, <2>2, SockStep
  <2>4. sock[s].leg = "auth" /\ ~client.connected /\ s \notin past.ended
    BY <1>1, <2>1 DEF PatientInv, SocketInv
  <2>5. ~client.intentional /\ ~client.protoClosed
    BY <1>1, <2>1 DEF PatientInv, ClientInv, Current
  <2> QED
    BY <1>0, <1>1, <2>1, <2>2, <2>3, <2>4, <2>5
    DEF PatientInv, ClientInv, SocketInv, PageInv, SilenceInv, Current
<1>3. ASSUME Ready(s) PROVE PatientInv'
  <2> DEFINE v == [sock[s] EXCEPT !.leg = "relay"]
  <2>1. /\ sock' = [sock EXCEPT ![s] = v] /\ UNCHANGED <<page, past>>
        /\ sock[s].st = "open" /\ sock[s].leg = "auth" /\ ~client.redirect
        /\ client' = [client EXCEPT !.gateway = s, !.proto = s]
    BY <1>3 DEF Ready, Hears
  <2>2. v \in SockType /\ v.st = "open" /\ v.heard = sock[s].heard /\ v.leg = "relay"
    BY <1>0, <2>1 DEF SockType
  <2> HIDE DEF v
  <2>3. sock'[s] = v /\ \A t \in Sockets \ {s} : sock'[t] = sock[t]
    BY <1>1, <2>1, <2>2, SockStep
  <2>4. /\ client'.sock = s /\ client'.proto = s /\ client'.gateway = s
        /\ ~client'.connected /\ ~client'.redirect
        /\ client'.intentional = client.intentional /\ client'.protoClosed = client.protoClosed
    BY <1>0, <1>1, <2>1 DEF ClientType
  <2>5. ~client.intentional /\ ~client.protoClosed
    BY <1>1, <2>1 DEF PatientInv, ClientInv, Current
  <2> QED
    BY <1>0, <1>1, <2>1, <2>2, <2>3, <2>4, <2>5
    DEF PatientInv, ClientInv, SocketInv, PageInv, SilenceInv, Current
<1>4. ASSUME Active(s) PROVE PatientInv'
  <2> DEFINE v == [sock[s] EXCEPT !.leg = "active"]
  <2>1. /\ sock' = [sock EXCEPT ![s] = v] /\ sock[s].heard
        /\ sock[s].st = "open" /\ sock[s].leg = "relay" /\ client.proto = s
    BY <1>4 DEF Active, Hears
  <2>2. v \in SockType /\ v.st = "open" /\ v.heard /\ v.leg = "active"
    BY <1>0, <2>1 DEF SockType
  <2> HIDE DEF v
  <2>3. sock'[s] = v /\ \A t \in Sockets \ {s} : sock'[t] = sock[t]
    BY <1>1, <2>1, <2>2, SockStep
  <2>4. /\ ~client.connected /\ ~client.intentional /\ ~client.protoClosed
        /\ client.gateway = s /\ ~client.redirect
    BY <1>1, <2>1, NoneIsNoSocket DEF PatientInv, ClientInv, Current
  <2>5. Probe(client) = s
    BY <2>4, NoneIsNoSocket DEF Probe
  <2>6. client' = [client EXCEPT !.connected = TRUE, !.wasActive = TRUE, !.probe = s]
        /\ page' = OnReady(page)
    BY <1>4, <2>4, <2>5 DEF Active
  <2>7. /\ client'.sock = s /\ client'.proto = s /\ client'.gateway = s
        /\ client'.connected /\ client'.wasActive /\ client'.probe = s
        /\ ~client'.redirect /\ ~client'.intentional /\ ~client'.protoClosed
    BY <1>0, <1>1, <2>1, <2>4, <2>6 DEF ClientType
  <2>8. /\ ~page'.retrying /\ ~page'.form /\ page'.canLeave
        /\ ~page'.apply /\ ~page'.applyTimer
    BY <1>0, <1>1, <2>6, OnReadyFacts
  <2>9. ClientInv' /\ SocketInv'
    BY <1>0, <1>1, <2>1, <2>2, <2>3, <2>4, <2>7 DEF PatientInv, ClientInv, SocketInv, Current
  <2>10. PageInv'
    BY <1>1, <2>7, <2>8 DEF PageInv
  <2>11. SilenceInv'
    BY <1>0, <1>1, <2>8 DEF SilenceInv
  <2> QED
    BY <2>9, <2>10, <2>11 DEF PatientInv
<1> QED
  BY <1>2, <1>3, <1>4

\* The host hands the session on.
LEMMA RedirectsPatient ==
  ASSUME Coherent, PatientInv, NEW s \in Sockets, Redirects(s)
  PROVE  PatientInv'
<1> DEFINE v == Detached(sock[s])
<1>0. /\ sock \in [Sockets -> SockType] /\ client \in ClientType /\ page \in PageType
      /\ sock[s] \in SockType /\ sock[s].heard /\ sock[s].st = "open"
      /\ sock' = [sock EXCEPT ![s] = v]
      /\ client' = [client EXCEPT !.sock = None, !.proto = None, !.connected = FALSE,
                                  !.redirect = TRUE]
      /\ UNCHANGED <<page, past>>
  BY CoherentParts DEF Redirects, Hears
<1>1. /\ s = client.sock /\ ~past.quit /\ ~page.applyTimer /\ ~page.apply
      /\ ~client.intentional /\ ~client.protoClosed
  BY <1>0, HeardFacts
<1>2. v \in SockType /\ v.st = "closed" /\ ~v.heard /\ v.leg = sock[s].leg
  BY <1>0, DetachedFacts
<1> HIDE DEF v
<1>3. sock'[s] = v /\ \A t \in Sockets \ {s} : sock'[t] = sock[t]
  BY <1>0, <1>1, <1>2, SockStep
<1>4. /\ client'.sock = None /\ client'.proto = None /\ ~client'.connected /\ client'.redirect
      /\ ~client'.intentional /\ ~client'.protoClosed
  BY <1>0, <1>1 DEF ClientType
<1>5. \A t \in Sockets : sock[t].heard => t = s
  BY <1>1, CoherentParts
<1>6. ClientInv'
  BY <1>4 DEF ClientInv
<1>7. SocketInv'
  BY <1>0, <1>1, <1>2, <1>3, <1>4, <1>5, NoneIsNoSocket DEF PatientInv, SocketInv
<1>8. PageInv'
  BY <1>0, <1>1, <1>4 DEF PatientInv, PageInv
<1>9. SilenceInv'
  BY <1>0, <1>1 DEF SilenceInv
<1> QED
  BY <1>6, <1>7, <1>8, <1>9 DEF PatientInv

\* A session that a failure or the host ends, or whose protocol fails.
LEMMA EndsPatient ==
  ASSUME Coherent, PatientInv, NEW s \in Sockets, Fails(s) \/ HostEnds(s)
  PROVE  PatientInv'
<1> DEFINE v == [sock[s] EXCEPT !.st = "closing"]
<1>0. /\ sock \in [Sockets -> SockType] /\ client \in ClientType /\ page \in PageType
      /\ past \in [quit : BOOLEAN, ended : SUBSET Sockets]
      /\ page.timer # "none" => page.retrying
      /\ sock[s] \in SockType /\ sock[s].heard /\ sock[s].st = "open"
  BY CoherentParts DEF Fails, HostEnds, Hears
<1>1. /\ s = client.sock /\ client.sock # None
      /\ ~past.quit /\ ~page.applyTimer /\ ~page.apply
      /\ sock[s].leg = "active" <=> client.connected
      /\ ~client.intentional /\ ~client.protoClosed /\ s \notin past.ended
  BY <1>0, HeardFacts
<1>2. v \in SockType /\ v.st = "closing" /\ v.heard /\ v.leg = sock[s].leg
  BY <1>0 DEF SockType
<1>3. sock' = [sock EXCEPT ![s] = v]
  BY <1>1 DEF Fails, HostEnds
<1> HIDE DEF v
<1>4. sock'[s] = v /\ \A t \in Sockets \ {s} : sock'[t] = sock[t]
  BY <1>1, <1>2, <1>3, SockStep
<1>5. /\ client'.sock = s /\ client'.proto \in {None, client.proto}
      /\ client'.connected = client.connected /\ client'.wasActive = client.wasActive
      /\ client'.probe = client.probe /\ client'.redirect = client.redirect
  BY <1>0, <1>1 DEF Fails, HostEnds, ProtocolClosed, ClientType
<1>6. /\ past'.quit = past.quit /\ past'.ended \in {past.ended, past.ended \cup {s}}
      /\ s \in past'.ended <=> client'.intentional
  <2>1. CASE Fails(s)
    BY <2>1, <1>0 DEF Fails, ClientType
  <2>2. CASE HostEnds(s)
    <3>1. PICK graceful \in BOOLEAN :
            /\ past' = IF graceful THEN [past EXCEPT !.ended = past.ended \cup {s}] ELSE past
            /\ client' = [client EXCEPT !.protoClosed = TRUE, !.proto = None,
                                        !.intentional = graceful \/ client.intentional]
      BY <1>1, <2>2 DEF HostEnds, ProtocolClosed
    <3>2. client'.intentional = graceful
      BY <1>0, <1>1, <3>1 DEF ClientType
    <3> QED
      BY <1>0, <1>1, <3>1, <3>2
  <2> QED
    BY <2>1, <2>2
<1>7. /\ page'.apply = page.apply /\ page'.applyTimer = page.applyTimer
      /\ page'.retrying = page.retrying /\ page'.settings = page.settings
  BY <1>0, OnErrorFacts DEF Fails, HostEnds
<1>8. ClientInv'
  BY <1>0, <1>1, <1>2, <1>4, <1>5 DEF PatientInv, ClientInv, Current
<1>9. SocketInv'
  BY <1>0, <1>1, <1>2, <1>4, <1>5, <1>6 DEF PatientInv, SocketInv
<1>10. PageInv'
  BY <1>1, <1>2, <1>4, <1>5, <1>7 DEF Current, PatientInv, PageInv
<1>11. SilenceInv'
  BY <1>1, <1>6, <1>7 DEF SilenceInv
<1> QED
  BY <1>8, <1>9, <1>10, <1>11 DEF PatientInv

\* A socket that closes: the session is over, or it is retried.
LEMMA ClosesPatient ==
  ASSUME Coherent, PatientInv, NEW s \in Sockets, Closed(s) \/ Drops(s)
  PROVE  PatientInv'
<1> DEFINE v == [sock[s] EXCEPT !.st = "closed"]
<1>0. /\ client \in ClientType /\ page \in PageType /\ (page.timer # "none" => page.retrying)
      /\ sock[s] \in SockType /\ sock[s].heard /\ sock[s].st # "closed"
      /\ sock' = [sock EXCEPT ![s] = v] /\ past' = past
  BY CoherentParts DEF Closed, Drops
<1>1. s = client.sock /\ ~past.quit /\ ~page.applyTimer /\ ~page.apply
  BY <1>0, HeardFacts
<1>2. v \in SockType /\ v.st = "closed" /\ v.leg = sock[s].leg
  BY <1>0 DEF SockType
<1> HIDE DEF v
<1>3. PICK p \in {page, OnError(page)} : Deinitialize(client, p)
  BY DEF Closed, Drops
<1>4. /\ p \in PageType /\ (p.timer # "none" => p.retrying)
      /\ ~p.apply /\ ~p.applyTimer
  BY <1>0, <1>1, <1>3, OnErrorFacts
<1>5. client' = TornDown(client) /\ (page' = OnClosed(p) \/ page' = Retrying(p))
  BY <1>3 DEF Deinitialize
<1>6. ~page'.apply /\ ~page'.applyTimer /\ ~page'.settings
  <2>1. ~OnClosed(p).apply /\ ~OnClosed(p).applyTimer /\ ~OnClosed(p).settings
    BY <1>4, OnClosedFacts
  <2>2. ~Retrying(p).apply /\ ~Retrying(p).applyTimer /\ ~Retrying(p).settings
    BY <1>4, RetryingFacts
  <2> QED
    BY <1>5, <2>1, <2>2
<1> QED
  BY <1>0, <1>1, <1>2, <1>5, <1>6, TornDownPatient

\* The present session is left: in every way, its socket is detached.
LEMMA LeaveFacts ==
  ASSUME Coherent, Patient, PatientInv, NEW p, Disconnect(p), client.sock # None
  PROVE  /\ sock' = [sock EXCEPT ![client.sock] = Detached(sock[client.sock])]
         /\ \E c \in ClientType : /\ client' = TornDown(c) /\ c.sock = client.sock
                                  /\ c.proto = client.proto /\ c.redirect = client.redirect
         /\ page' = OnClosed(p)
<1> DEFINE c == [client EXCEPT !.intentional = TRUE]
<1>1. client \in ClientType
  BY CoherentParts
<1>2. c \in ClientType /\ c.sock = client.sock /\ c.proto = client.proto
      /\ c.redirect = client.redirect /\ c.intentional
  BY <1>1 DEF ClientType
<1>3. Deinitialize(c, p) /\ sock' = [sock EXCEPT ![client.sock] = Detached(sock[client.sock])]
  BY DEF Disconnect
<1> HIDE DEF c
<1>4. client' = TornDown(c) /\ page' = OnClosed(p)
  BY <1>2, <1>3 DEF Deinitialize, IsOver
<1> QED
  BY <1>2, <1>3, <1>4

\* The user leaves, applies settings, or the time for a reconnect is up.
LEMMA LeavesPatient ==
  ASSUME Coherent, Patient, PatientInv, UserLeaves \/ AppliesSettings \/ Deadline
  PROVE  PatientInv'
<1> DEFINE s == client.sock
           v == Detached(sock[s])
<1>0. /\ sock \in [Sockets -> SockType] /\ client \in ClientType /\ page \in PageType
      /\ past \in [quit : BOOLEAN, ended : SUBSET Sockets]
      /\ page.timer # "none" => page.retrying
  BY CoherentParts
<1>1. ~client.redirect
  BY PatientMay DEF UserLeaves, AppliesSettings, Deadline
<1>2. client.sock # None /\ ~page.applyTimer /\ ~page.apply
  BY <1>1 DEF UserLeaves, AppliesSettings, Deadline, PatientInv, PageInv
<1>3. s \in Sockets /\ sock[s] \in SockType
  BY <1>0, <1>2 DEF ClientType
<1>4. v \in SockType /\ v.st = "closed" /\ ~v.heard /\ v.leg = sock[s].leg
  BY <1>3, DetachedFacts
<1>5. ASSUME sock' = [sock EXCEPT ![s] = v],
             \E c \in ClientType : /\ client' = TornDown(c) /\ c.sock = client.sock
                                   /\ c.proto = client.proto /\ c.redirect = client.redirect,
             ~page'.apply, ~page'.settings, ~page'.retrying,
             page'.applyTimer => ~past'.quit, past'.ended = past.ended
      PROVE  PatientInv'
  <2> HIDE DEF s, v
  <2>1. s = client.sock
    BY DEF s
  <2> QED
    BY <1>1, <1>3, <1>4, <1>5, <2>1, TornDownPatient
<1>6. CASE UserLeaves
  <2>1. page' = OnClosed(page) /\ ~page.retrying /\ past' = [past EXCEPT !.quit = TRUE]
    BY <1>2, <1>6, LeaveFacts, PatientMay DEF UserLeaves
  <2>2. ~page'.apply /\ ~page'.settings /\ ~page'.retrying /\ ~page'.applyTimer
    BY <1>0, <1>2, <2>1, OnClosedFacts
  <2>3. past'.ended = past.ended
    BY <1>0, <2>1
  <2> QED
    BY <1>2, <1>5, <1>6, <2>2, <2>3, LeaveFacts DEF UserLeaves
<1>7. CASE AppliesSettings
  <2> DEFINE p == [page EXCEPT !.settings = FALSE, !.apply = TRUE]
  <2>1. /\ p \in PageType /\ p.timer = page.timer /\ p.retrying = page.retrying
        /\ ~p.settings
    BY <1>0 DEF PageType
  <2>2. ~page.retrying /\ ~past.quit
    BY <1>7 DEF AppliesSettings, PatientInv, PageInv, SilenceInv
  <2>3. Disconnect(p) /\ past' = past
    BY <1>7 DEF AppliesSettings
  <2> HIDE DEF p
  <2>4. page' = OnClosed(p)
    BY <1>2, <2>3, LeaveFacts
  <2>5. ~page'.apply /\ ~page'.settings /\ ~page'.retrying
    BY <1>0, <2>1, <2>2, <2>4, OnClosedFacts
  <2> QED
    BY <1>2, <1>5, <2>2, <2>3, <2>5, LeaveFacts
<1>8. CASE Deadline
  <2> DEFINE p == StopRetrying(page)
  <2>1. /\ sock' = [sock EXCEPT ![s] = v] /\ client' = TornDown(client)
        /\ page' = Reset(OnClosed(p)) /\ past' = [past EXCEPT !.quit = TRUE]
    BY <1>2, <1>8 DEF Deadline
  <2>2. p \in PageType /\ p.timer = "none" /\ ~p.apply /\ ~p.applyTimer
    BY <1>0, <1>2, ResetFacts
  <2> HIDE DEF p
  <2>3. OnClosed(p) \in PageType /\ ~OnClosed(p).apply /\ ~OnClosed(p).applyTimer
    BY <2>2, OnClosedFacts
  <2>4. ~page'.apply /\ ~page'.settings /\ ~page'.retrying /\ ~page'.applyTimer
    BY <2>1, <2>3, ResetFacts
  <2>5. past'.ended = past.ended
    BY <1>0, <2>1
  <2> QED
    BY <1>0, <1>5, <2>1, <2>4, <2>5
<1> QED
  BY <1>6, <1>7, <1>8

\* The next socket: after a redirection, a drop, new settings or a click.
LEMMA NextSocketPatient ==
  ASSUME Coherent, Patient, PatientInv,
         Timers \/ UserConnects \/ UserRetries
  PROVE  PatientInv'
<1>0. /\ client \in ClientType /\ page \in PageType
      /\ past \in [quit : BOOLEAN, ended : SUBSET Sockets]
      /\ page.timer # "none" => page.retrying
  BY CoherentParts
<1>1. CASE RedirectTimer
  <2> DEFINE c == [client EXCEPT !.redirect = FALSE]
  <2>1. c \in ClientType
    BY <1>0 DEF ClientType
  <2>2. client.redirect /\ Connect(c) /\ UNCHANGED <<page, past>>
    BY <1>1 DEF RedirectTimer
  <2>3. /\ ~client.connected /\ ~page.apply /\ ~page.applyTimer /\ ~past.quit
        /\ page.settings => ~page.retrying
    BY <2>2 DEF PatientInv, ClientInv, PageInv, SilenceInv
  <2>4. c = [client EXCEPT !.redirect = FALSE]
    OBVIOUS
  <2> HIDE DEF c
  <2> QED
    BY <2>1, <2>2, <2>3, <2>4, ConnectPatient
<1>2. CASE AttemptTimer \/ UserRetries
  BY <1>0, <1>2, ConnectPatient DEF AttemptTimer, UserRetries, Attempt, PatientInv, PageInv,
     SilenceInv, PageType
<1>3. CASE ApplyTimer
  BY <1>3, <1>0, ConnectPatient DEF ApplyTimer, PatientInv, PageInv, PageType
<1>4. CASE UserConnects
  BY <1>4, <1>0, ConnectFacts, PatientMay, ConnectPatient DEF UserConnects, PatientInv, ClientInv,
     PageInv, Current, Hasty, PageType
<1> QED
  BY <1>1, <1>2, <1>3, <1>4 DEF Timers

\* What only the page sees.
LEMMA PagePatient ==
  ASSUME Coherent, PatientInv, Watchdog \/ OpensSettings
  PROVE  PatientInv'
BY CoherentParts, NoneIsNoSocket DEF Watchdog, OpensSettings, Scheduled, PageType, PatientInv,
   ClientInv, PageInv, SilenceInv, Current, ClientType, SocketInv, Live

\* The first state.
LEMMA InitInv == Init => Inv
BY SessionAssumption, InitCoherent DEF Init, Unused, PatientInv, ClientInv, SocketInv, PageInv,
   SilenceInv, Live, Inv

\* Every step keeps the invariant.
LEMMA StepInv == Inv /\ [Next]_vars => Inv'
<1> SUFFICES ASSUME Inv, [Next]_vars PROVE Inv'
  OBVIOUS
<1>1. Coherent'
  BY StepCoherent DEF Inv
<1>2. env' \in EnvironmentType /\ (Patient' <=> Patient)
  BY EnvironmentKept DEF Inv
<1>3. ASSUME Patient PROVE PatientInv'
  <2>1. Coherent /\ PatientInv
    BY <1>3 DEF Inv
  <2>2. CASE UNCHANGED vars
    BY <2>1, <2>2
    DEF vars, PatientInv, ClientInv, SocketInv, PageInv, SilenceInv, Current, Live
  <2>3. ASSUME NEW s \in Sockets, Network(s) \/ Redirects(s) \/ Fails(s) \/ HostEnds(s) \/ Drops(s)
        PROVE  PatientInv'
    BY <2>1, <2>3, UpPatient, ClosesPatient, RedirectsPatient, EndsPatient DEF Network
  <2>4. ASSUME Timers \/ Watchdog \/ Deadline \/ User PROVE PatientInv'
    BY <1>3, <2>1, <2>4, NextSocketPatient, PagePatient, LeavesPatient DEF User
  <2> QED
    BY <2>2, <2>3, <2>4 DEF Next
<1> QED
  BY <1>1, <1>2, <1>3 DEF Inv

\* The invariant holds.
LEMMA InvHolds == Spec => []Inv
BY InitInv, StepInv, PTL DEF Spec

-----------------------------------------------------------------------------
(* What a patient user can rely on.                                        *)

\* Once the user has left or the deadline has passed, no timer brings the session
\* back (Console.cshtml, stopReconnecting), as long as the user leaves neither
\* between two legs nor with the Disconnect of the bar while the page reconnects.
THEOREM QuittingIsFinal == Spec => [](Patient => QuitIsFinal)
<1>1. Inv => (Patient => QuitIsFinal)
  BY DEF Inv, PatientInv, SilenceInv, QuitIsFinal
<1> QED
  BY <1>1, InvHolds, PTL

\* The page shows a session just while there is one, and its quality probe is
\* bound to the leg that is up (client.js, _onActive).
THEOREM PageShowsSession == Spec => [](Patient => ShownIsReal)
<1>1. ASSUME Inv, Patient PROVE ShownIsReal
  BY <1>1, CoherentParts, NoneIsNoSocket DEF Inv, PageAgrees, Live, PatientInv, ClientInv,
     SocketInv, PageInv, Current, ProbeIsOwn, ShownIsReal
<1> QED
  BY <1>1, InvHolds, PTL

\* Only a socket that closes by itself is still heard when it has closed.
LEMMA ClosedByItself ==
  ASSUME Coherent, [Next]_vars, NEW s \in Sockets, sock[s].st # "closed",
         sock'[s].heard, sock'[s].st = "closed"
  PROVE  Closed(s) \/ Drops(s)
<1>0. sock \in [Sockets -> SockType] /\ client \in ClientType /\ sock[s] \in SockType
  BY CoherentParts
<1>1. ASSUME NEW t \in Sockets, NEW v \in SockType, sock' = [sock EXCEPT ![t] = v],
             v.st # "closed" \/ ~v.heard
      PROVE  FALSE
  BY <1>0, <1>1
<1>2. ASSUME NEW c \in ClientType, c.sock = client.sock, Connect(c) PROVE FALSE
  BY <1>2, ConnectFacts
<1>3. sock' # sock
  OBVIOUS
<1>4. ASSUME NEW t \in Sockets PROVE Detached(sock[t]) \in SockType /\ ~Detached(sock[t]).heard
  BY <1>0, DetachedFacts
<1>5. ASSUME NEW t \in Sockets, Closed(t) \/ Drops(t) PROVE t = s
  BY <1>5, <1>0 DEF Closed, Drops
<1>6. ASSUME NEW t \in Sockets, Opens(t) \/ Ready(t) \/ Active(t) \/ Fails(t) \/ HostEnds(t)
      PROVE  FALSE
  BY <1>0, <1>6, <1>1, <1>3 DEF Opens, Ready, Active, Fails, HostEnds, Hears, SockType
<1>7. ASSUME NEW t \in Sockets, Redirects(t) PROVE FALSE
  BY <1>1, <1>4, <1>7 DEF Redirects
<1>8. ASSUME UserLeaves \/ AppliesSettings \/ Deadline PROVE FALSE
  BY <1>3, <1>8, <1>0, <1>1, <1>4 DEF UserLeaves, AppliesSettings, Deadline, Disconnect, ClientType
<1>9. ASSUME Timers \/ UserConnects \/ UserRetries PROVE FALSE
  BY <1>0, <1>2, <1>9 DEF ClientType, RedirectTimer, AttemptTimer, ApplyTimer, UserConnects,
     UserRetries, Attempt, Timers
<1>10. ASSUME Watchdog \/ OpensSettings \/ UNCHANGED vars PROVE FALSE
  BY <1>3, <1>10 DEF Watchdog, OpensSettings, vars
<1> QED
  BY <1>5, <1>6, <1>7, <1>8, <1>9, <1>10 DEF Next, Network, User

\* A session that drops is reconnected, and one that the host or a failure has
\* ended is not (client.js, deinitialize).
THEOREM DropsRetried == Spec /\ []Patient => DropsAreRetried
<1>1. ASSUME Inv, Patient, [Next]_vars, NEW s \in Sockets PROVE DropRetried(s)
  <2> SUFFICES ASSUME sock[s].heard, sock[s].leg = "active", sock[s].st # "closed",
                      sock'[s].heard, sock'[s].st = "closed"
               PROVE  page'.retrying <=> s \notin past.ended
    BY DEF DropRetried
  <2>0. Coherent /\ PatientInv
    BY <1>1 DEF Inv
  <2>1. Closed(s) \/ Drops(s)
    BY <1>1, <2>0, ClosedByItself
  <2>2. s = client.sock /\ client.connected /\ client.sock # None /\ ~page.apply
    BY <2>0, HeardFacts
  <2>3. /\ client.wasActive /\ ~page.retrying
        /\ client.intentional <=> s \in past.ended
    BY <2>0, <2>1, <2>2
    DEF PatientInv, ClientInv, SocketInv, PageInv, Current, Closed, Drops
  <2>4. page \in PageType /\ (page.timer # "none" => page.retrying)
    BY <2>0, CoherentParts
  <2>5. PICK p \in {page, OnError(page)} : Deinitialize(client, p)
    BY <2>1 DEF Closed, Drops
  <2>6. p \in PageType /\ ~p.retrying /\ (p.timer # "none" => p.retrying)
    BY <2>3, <2>4, <2>5, OnErrorFacts
  <2>7. CASE s \in past.ended
    BY <2>3, <2>5, <2>7, <2>6, OnClosedFacts DEF Deinitialize, IsOver
  <2>8. CASE s \notin past.ended
    BY <2>3, <2>5, <2>8, <2>6, RetryingFacts DEF Deinitialize, IsOver
  <2> QED
    BY <2>7, <2>8
<1>2. Inv /\ Patient /\ [Next]_vars => [\A s \in Sockets : DropRetried(s)]_vars
  BY <1>1
<1> QED
  BY <1>2, InvHolds, PTL DEF DropsAreRetried, Spec

-----------------------------------------------------------------------------
(* Induction over numbers, and the folds and prefixes of the model.        *)

\* A set of numbers has a least one.
LEMMA SmallestOf ==
  ASSUME NEW T \in SUBSET Nat, T # {}
  PROVE  \E n \in T : \A m \in T : n <= m
<1> DEFINE R == OpToRel(<, Nat)
<1>1. IsWellFoundedOn(R, Nat)
  BY NatLessThanWellFounded
<1>2. \A x, y \in Nat : x < y => <<x, y>> \in R
  BY DEF OpToRel
<1> HIDE DEF R
<1>3. PICK x \in T : \A y \in T : ~ (<<y, x>> \in R)
  BY <1>1, WFMin
<1>4. \A y \in T : ~(y < x)
  BY <1>2, <1>3
<1> QED
  BY <1>3, <1>4

\* A set that holds 0 and, with a number, the next one holds them all.
LEMMA NatSteps ==
  ASSUME NEW T, 0 \in T, \A n \in Nat : n \in T => n + 1 \in T
  PROVE  \A n \in Nat : n \in T
<1> SUFFICES ASSUME Nat \ T # {} PROVE FALSE
  OBVIOUS
<1>1. PICK n \in Nat \ T : \A m \in Nat \ T : n <= m
  BY SmallestOf
<1>2. n # 0
  BY <1>1
<1>3. n - 1 \in Nat /\ n - 1 \in T
  BY <1>1, <1>2
<1> QED
  BY <1>1, <1>3

\* Before the first of the bad numbers of 1..n none is bad.
LEMMA PrefixExists ==
  ASSUME NEW n \in Nat, NEW Bad \in SUBSET Nat
  PROVE  \E k \in 0..n : (\A i \in 1..k : i \notin Bad) /\ (k = n \/ k + 1 \in Bad)
<1>1. CASE \A i \in 1..n : i \notin Bad
  BY <1>1
<1>2. CASE \E i \in 1..n : i \in Bad
  <2> DEFINE T == {i \in 1..n : i \in Bad}
  <2>1. T \in SUBSET Nat /\ T # {}
    BY <1>2
  <2>2. PICK m \in T : \A i \in T : m <= i
    BY <2>1, SmallestOf
  <2>3. m \in 1..n /\ m \in Bad
    OBVIOUS
  <2>4. m - 1 \in 0..n /\ m - 1 + 1 = m
    BY <2>3
  <2>5. \A i \in 1..(m - 1) : i \notin Bad
    BY <2>3, <2>2
  <2> QED
    BY <2>3, <2>4, <2>5
<1> QED
  BY <1>1, <1>2

\* The greatest of the first numbers.
LEMMA MaxIsLast ==
  ASSUME NEW m \in Nat, NEW s \in SUBSET (1..(m + 1)), m + 1 \in s
  PROVE  Max(s) = m + 1
<1>1. \A y \in s : m + 1 >= y
  OBVIOUS
<1>2. \A x \in s : (\A y \in s : x >= y) => x = m + 1
  OBVIOUS
<1> QED
  BY <1>1, <1>2 DEF Max

\* The recursion that a fold over queue q stands for.
PerformRec(scr, q, D, f) ==
  f = [s \in SUBSET D |->
         IF s = {} THEN scr ELSE LET x == Max(s) IN Perform(f[s \ {x}], q[x].pdu)]

LEMMA PerformedIsRec ==
  ASSUME NEW scr, NEW q
  PROVE  Performed(scr, q) = (CHOOSE f : PerformRec(scr, q, DOMAIN q, f))[DOMAIN q]
BY DEF Performed, FoldLeft, MapThenFoldSet, PerformRec

LEMMA PerformRecExists ==
  ASSUME NEW scr, NEW q
  PROVE  \A n \in Nat : \E f : PerformRec(scr, q, 1..n, f)
<1> DEFINE T == {n \in Nat : \E f : PerformRec(scr, q, 1..n, f)}
<1>1. 0 \in T
  <2> DEFINE f == [s \in SUBSET (1..0) |-> scr]
  <2>1. \A s \in SUBSET (1..0) : s = {}
    OBVIOUS
  <2>2. f = [s \in SUBSET (1..0) |->
              IF s = {} THEN scr ELSE LET x == Max(s) IN Perform(f[s \ {x}], q[x].pdu)]
    BY <2>1
  <2>3. PerformRec(scr, q, 1..0, f)
    BY <2>2 DEF PerformRec
  <2> QED
    BY <2>3
<1>2. ASSUME NEW n \in Nat, n \in T PROVE n + 1 \in T
  <2>1. PICK f : PerformRec(scr, q, 1..n, f)
    BY <1>2
  <2> DEFINE g == [s \in SUBSET (1..(n + 1)) |->
                     IF n + 1 \in s THEN Perform(f[s \ {n + 1}], q[n + 1].pdu) ELSE f[s]]
  <2>2. ASSUME NEW s \in SUBSET (1..(n + 1))
        PROVE  g[s] = IF s = {} THEN scr
                      ELSE LET x == Max(s) IN Perform(g[s \ {x}], q[x].pdu)
    <3>1. CASE n + 1 \in s
      <4>1. Max(s) = n + 1
        BY <3>1, MaxIsLast
      <4>2. s \ {n + 1} \in SUBSET (1..(n + 1)) /\ n + 1 \notin s \ {n + 1}
        OBVIOUS
      <4>3. g[s \ {n + 1}] = f[s \ {n + 1}]
        BY <4>2
      <4>4. g[s] = Perform(f[s \ {n + 1}], q[n + 1].pdu)
        BY <3>1
      <4> HIDE DEF g
      <4> QED
        BY <3>1, <4>1, <4>3, <4>4
    <3>2. CASE n + 1 \notin s
      <4>1. \A x \in s : x \in 1..n
        BY <3>2
      <4>2. s \in SUBSET (1..n)
        BY <4>1
      <4>3. f[s] = IF s = {} THEN scr
                   ELSE LET x == Max(s) IN Perform(f[s \ {x}], q[x].pdu)
        BY <2>1, <4>2 DEF PerformRec
      <4>4. g[s] = f[s]
        BY <3>2
      <4>5. \A x : g[s \ {x}] = f[s \ {x}]
        BY <3>2
      <4> HIDE DEF g
      <4> QED
        BY <4>3, <4>4, <4>5
    <3> QED
      BY <3>1, <3>2
  <2>3. g = [s \in SUBSET (1..(n + 1)) |-> g[s]]
    OBVIOUS
  <2> HIDE DEF g
  <2>4. g = [s \in SUBSET (1..(n + 1)) |->
               IF s = {} THEN scr ELSE LET x == Max(s) IN Perform(g[s \ {x}], q[x].pdu)]
    BY <2>2, <2>3
  <2>5. PerformRec(scr, q, 1..(n + 1), g)
    BY <2>4 DEF PerformRec
  <2> QED
    BY <2>5
<1> HIDE DEF T
<1>3. \A n \in Nat : n \in T
  BY <1>1, <1>2, NatSteps
<1> QED
  BY <1>3 DEF T

\* The screens between the operations of a queue.
Between(scr, q, h) ==
  /\ h[0] = scr
  /\ \A i \in 1..Len(q) : h[i] = Perform(h[i - 1], q[i].pdu)

\* What a queue does is what its operations do one by one.
LEMMA PerformedFacts ==
  ASSUME NEW scr, NEW S, NEW q \in Seq(S)
  PROVE  \E h : Between(scr, q, h) /\ Performed(scr, q) = h[Len(q)]
<1> DEFINE n == Len(q)
           F == CHOOSE f : PerformRec(scr, q, DOMAIN q, f)
           h == [i \in 0..n |-> F[1..i]]
<1>1. n \in Nat /\ DOMAIN q = 1..n
  OBVIOUS
<1>2. \E f : PerformRec(scr, q, DOMAIN q, f)
  BY <1>1, PerformRecExists
<1>3. PerformRec(scr, q, DOMAIN q, F)
  BY <1>2
<1>4. Performed(scr, q) = F[DOMAIN q]
  BY PerformedIsRec
<1> HIDE DEF F, n
<1>5. \A s \in SUBSET (1..n) :
        F[s] = IF s = {} THEN scr ELSE LET x == Max(s) IN Perform(F[s \ {x}], q[x].pdu)
  BY <1>1, <1>3 DEF PerformRec
<1>6. h[0] = scr
  <2>1. 0 \in 0..n /\ 1..0 = {}
    BY <1>1
  <2>2. F[{}] = scr
    BY <1>5
  <2> QED
    BY <2>1, <2>2
<1>7. ASSUME NEW i \in 1..n PROVE h[i] = Perform(h[i - 1], q[i].pdu)
  BY <1>1, MaxIsLast, <1>5
<1>8. Performed(scr, q) = h[n]
  BY <1>1, <1>4
<1> HIDE DEF h
<1>9. Between(scr, q, h)
  BY <1>6, <1>7 DEF Between, n
<1> QED
  BY <1>8, <1>9 DEF n

-----------------------------------------------------------------------------
(* The messages and PDUs there are.                                        *)

OrderedPdu ==
  {p \in Pdu : /\ p.kind \in Ordered
               /\ p.kind \in {"fill", "raw", "copy", "load"} => p.dst \in Surfaces
               /\ p.kind \in {"copy", "save"} => p.src \in Surfaces
               /\ p.kind = "save" => p.dst \in Slots
               /\ p.kind = "load" => p.src \in Slots
               /\ p.kind \in {"fill", "raw"} => p.src = NoPicture}
VideoPdu == {p \in Pdu : p.kind \in Video /\ p.dst \in Surfaces /\ p.src = NoPicture}
ProgressivePdu ==
  {p \in Pdu : p.kind = "progressive" /\ p.dst \in Surfaces /\ p.src = NoPicture}
DecodePdu == VideoPdu \cup ProgressivePdu

ScreenType ==
  [surf : [Surfaces -> SurfaceType], cache : [Slots -> Pictures \cup {NoPicture}]]

\* Screen y is screen x after drawing: no surface goes, one that is new is an
\* orphan, and what was drawn on is dirty.
Redrawn(x, y) ==
  /\ x \in ScreenType /\ y \in ScreenType
  /\ \A s \in Surfaces :
       /\ y.surf[s].mapped = x.surf[s].mapped
       /\ \/ y.surf[s].st = x.surf[s].st
          \/ x.surf[s].st = "gone" /\ y.surf[s].st = "orphan"
       /\ \/ y.surf[s].dirty /\ y.surf[s].st # "gone"
          \/ /\ y.surf[s].dirty = x.surf[s].dirty /\ y.surf[s].px = x.surf[s].px
             /\ y.surf[s].touched = x.surf[s].touched

LEMMA RedrawnSelf ==
  ASSUME NEW x \in ScreenType
  PROVE  Redrawn(x, x)
BY DEF Redrawn

LEMMA RedrawnTwice ==
  ASSUME NEW x, NEW y, NEW z, Redrawn(x, y), Redrawn(y, z)
  PROVE  Redrawn(x, z)
BY DEF Redrawn, ScreenType, SurfaceType

\* Painting a surface.
Drawn(su, v) == [su EXCEPT !.px = v, !.touched = TRUE, !.dirty = TRUE]

LEMMA DrawnFacts ==
  ASSUME NEW su \in SurfaceType, NEW v \in Pictures
  PROVE  /\ Drawn(su, v) \in SurfaceType /\ Drawn(su, v).st = su.st /\ Drawn(su, v).px = v
         /\ Drawn(su, v).mapped = su.mapped /\ Drawn(su, v).dirty
BY DEF SurfaceType, Drawn

LEMMA PaintFacts ==
  ASSUME NEW x \in ScreenType, NEW s \in Surfaces, NEW v \in Pictures
  PROVE  /\ Paint(x, s, v) \in ScreenType /\ Paint(x, s, v).cache = x.cache
         /\ \A t \in Surfaces :
              Paint(x, s, v).surf[t] = IF t = s THEN Drawn(x.surf[s], v) ELSE x.surf[t]
<1> DEFINE new == Drawn(x.surf[s], v)
<1>1. x = [surf |-> x.surf, cache |-> x.cache] /\ x.surf \in [Surfaces -> SurfaceType]
      /\ x.cache \in [Slots -> Pictures \cup {NoPicture}]
  BY DEF ScreenType
<1>2. x.surf[s] \in SurfaceType
  BY <1>1
<1>3. new \in SurfaceType
  BY <1>2, DrawnFacts
<1>4. Paint(x, s, v) = [surf |-> [x.surf EXCEPT ![s] = new], cache |-> x.cache]
  BY <1>1, <1>2 DEF Paint, Drawn
<1> HIDE DEF new
<1>5. [x.surf EXCEPT ![s] = new] \in [Surfaces -> SurfaceType]
  BY <1>1, <1>3
<1>6. Paint(x, s, v) \in ScreenType
  BY <1>1, <1>4, <1>5 DEF ScreenType
<1>7. Paint(x, s, v).cache = x.cache /\ Paint(x, s, v).surf = [x.surf EXCEPT ![s] = new]
  BY <1>4
<1>8. \A t \in Surfaces : Paint(x, s, v).surf[t] = IF t = s THEN new ELSE x.surf[t]
  BY <1>1, <1>7
<1> QED
  BY <1>6, <1>7, <1>8 DEF new

LEMMA PaintRedraws ==
  ASSUME NEW x \in ScreenType, NEW s \in Surfaces, NEW v \in Pictures, ~Absent(x, s)
  PROVE  Redrawn(x, Paint(x, s, v))
<1>1. x.surf[s] \in SurfaceType /\ x.surf[s].st # "gone"
  BY DEF ScreenType, Absent
<1> QED
  BY <1>1, DrawnFacts, PaintFacts DEF Redrawn

LEMMA PaintIfThereFacts ==
  ASSUME NEW x \in ScreenType, NEW s \in Surfaces, NEW v \in Pictures
  PROVE  /\ Redrawn(x, PaintIfThere(x, s, v)) /\ PaintIfThere(x, s, v).cache = x.cache
BY RedrawnSelf, PaintRedraws, PaintFacts DEF PaintIfThere

\* A surface that did not exist is there, and blank.
LEMMA MaterialiseFacts ==
  ASSUME NEW x \in ScreenType, NEW s \in Surfaces
  PROVE  /\ Redrawn(x, Materialise(x, s)) /\ Materialise(x, s).cache = x.cache
         /\ ~Absent(Materialise(x, s), s)
         /\ \A t \in Surfaces : Materialise(x, s).surf[t].px = x.surf[t].px
<1> DEFINE new == [x.surf[s] EXCEPT !.st = "orphan"]
           y == Materialise(x, s)
<1>1. CASE ~Absent(x, s)
  BY <1>1, RedrawnSelf DEF Materialise
<1>2. CASE Absent(x, s)
  <2>1. x = [surf |-> x.surf, cache |-> x.cache] /\ x.surf \in [Surfaces -> SurfaceType]
        /\ x.cache \in [Slots -> Pictures \cup {NoPicture}]
    BY DEF ScreenType
  <2>2. x.surf[s] \in SurfaceType /\ x.surf[s].st = "gone"
    BY <1>2, <2>1 DEF Absent
  <2>3. new \in SurfaceType /\ new.st = "orphan" /\ new.px = x.surf[s].px
        /\ new.mapped = x.surf[s].mapped /\ new.dirty = x.surf[s].dirty
        /\ new.touched = x.surf[s].touched
    BY <2>2 DEF SurfaceType
  <2>4. y = [surf |-> [x.surf EXCEPT ![s] = new], cache |-> x.cache]
    BY <1>2, <2>1 DEF Materialise
  <2> HIDE DEF new, y
  <2>5. [x.surf EXCEPT ![s] = new] \in [Surfaces -> SurfaceType]
    BY <2>1, <2>3
  <2>6. y \in ScreenType /\ y.cache = x.cache
        /\ \A t \in Surfaces : y.surf[t] = IF t = s THEN new ELSE x.surf[t]
    BY <2>1, <2>4, <2>5 DEF ScreenType
  <2>7. Redrawn(x, y)
    BY <2>2, <2>3, <2>6 DEF Redrawn
  <2>8. ~Absent(y, s)
    BY <2>3, <2>6 DEF Absent
  <2> QED
    BY <2>3, <2>6, <2>7, <2>8 DEF y
<1> QED
  BY <1>1, <1>2

\* An order-sensitive PDU draws.
LEMMA PerformRedraws ==
  ASSUME NEW x \in ScreenType, NEW p \in OrderedPdu
  PROVE  Redrawn(x, Perform(x, p))
<1>0. p.id \in Pictures /\ p.kind \in Ordered
  BY PipelineAssumption DEF OrderedPdu, Pdu, Pictures
<1>1. CASE p.kind = "fill"
  BY <1>1, <1>0, PaintIfThereFacts DEF OrderedPdu, Perform, SolidFill
<1>2. CASE p.kind = "raw"
  <2>1. p.dst \in Surfaces
    BY <1>2 DEF OrderedPdu
  <2> DEFINE y == Materialise(x, p.dst)
  <2>2. Perform(x, p) = Paint(y, p.dst, p.id)
    BY <1>2 DEF Perform, DrawRaw
  <2>3. Redrawn(x, y) /\ ~Absent(y, p.dst)
    BY <2>1, MaterialiseFacts
  <2> HIDE DEF y
  <2>4. y \in ScreenType
    BY <2>3 DEF Redrawn
  <2>5. Redrawn(y, Paint(y, p.dst, p.id))
    BY <1>0, <2>1, <2>3, <2>4, PaintRedraws
  <2> QED
    BY <2>2, <2>3, <2>5, RedrawnTwice
<1>3. CASE p.kind = "copy"
  BY <1>3, PaintIfThereFacts, RedrawnSelf DEF OrderedPdu, Perform, ScreenType, SurfaceType,
     SurfaceToSurface
<1>4. CASE p.kind = "save"
  <2>1. p.dst \in Slots /\ p.src \in Surfaces
    BY <1>4 DEF OrderedPdu
  <2>2. Perform(x, p) = SurfaceToCache(x, p)
    BY <1>4 DEF Perform
  <2>3. x.surf[p.src].px \in Pictures
    BY <2>1 DEF ScreenType, SurfaceType
  <2>4. x = [surf |-> x.surf, cache |-> x.cache] /\ x.surf \in [Surfaces -> SurfaceType]
        /\ x.cache \in [Slots -> Pictures \cup {NoPicture}]
    BY DEF ScreenType
  <2> DEFINE y == [surf |-> x.surf, cache |-> [x.cache EXCEPT ![p.dst] = x.surf[p.src].px]]
  <2>5. Perform(x, p) \in {x, y}
    BY <2>2, <2>4 DEF SurfaceToCache
  <2>6. y \in ScreenType
    BY <2>1, <2>3, <2>4 DEF ScreenType
  <2>7. Redrawn(x, y)
    BY <2>6 DEF Redrawn
  <2> QED
    BY <2>5, <2>7, RedrawnSelf
<1>5. CASE p.kind = "load"
  BY <1>5, PaintIfThereFacts, RedrawnSelf DEF OrderedPdu, Perform, ScreenType, CacheToSurface
<1> QED
  BY <1>0, <1>1, <1>2, <1>3, <1>4, <1>5 DEF Ordered

\* So does a queue of them.
LEMMA BetweenRedraws ==
  ASSUME NEW x \in ScreenType, NEW B, NEW q \in Seq([barrier : B, pdu : OrderedPdu]),
         NEW h, Between(x, q, h)
  PROVE  \A i \in 0..Len(q) : Redrawn(x, h[i])
<1> DEFINE T == {i \in Nat : i <= Len(q) => Redrawn(x, h[i])}
<1>1. 0 \in T
  BY RedrawnSelf DEF Between
<1>2. ASSUME NEW n \in Nat, n \in T PROVE n + 1 \in T
  <2>1. SUFFICES ASSUME n + 1 <= Len(q) PROVE Redrawn(x, h[n + 1])
    OBVIOUS
  <2>2. n + 1 \in 1..Len(q) /\ n <= Len(q) /\ n + 1 - 1 = n
    BY <2>1
  <2>3. Redrawn(x, h[n])
    BY <1>2, <2>2
  <2>4. h[n + 1] = Perform(h[n], q[n + 1].pdu)
    BY <2>2 DEF Between
  <2>5. q[n + 1] \in [barrier : B, pdu : OrderedPdu]
    BY <2>2, ElementOfSeq
  <2>6. q[n + 1].pdu \in OrderedPdu
    BY <2>5
  <2>7. h[n] \in ScreenType
    BY <2>3 DEF Redrawn
  <2>8. Redrawn(h[n], h[n + 1])
    BY <2>4, <2>6, <2>7, PerformRedraws
  <2> QED
    BY <2>3, <2>8, RedrawnTwice
<1> HIDE DEF T
<1>3. \A n \in Nat : n \in T
  BY <1>1, <1>2, NatSteps
<1> QED
  BY <1>3 DEF T

-----------------------------------------------------------------------------
(* The inductive invariant.                                                *)

NoPdu     == [id |-> 0, kind |-> "end", src |-> NoPicture, dst |-> NoPicture]
HostType  == [sent : {NoPdu} \cup Pdu, frame : 0..MaxPdus,
              live : SUBSET Surfaces, keyed : SUBSET Surfaces]
CountType == [decodes : Nat, settled : Nat, submitted : Nat, painted : Nat]
QueueType == [barrier : Nat, pdu : OrderedPdu]
AckType   == [from : Nat, at : Nat, barrier : Nat, video : Nat]
ReceiptType == [from : Nat, at : Nat, forced : BOOLEAN]

\* What is posted to the worker, and what it posts.
AskType     == [cmd : {"progressive"}, pdu : ProgressivePdu] \cup [cmd : {"h264"}, pdu : VideoPdu]
DestroyType == [cmd : {"destroy"}, surface : Surfaces]
AnswerType  == [cmd : {"progressive-result"}, pdu : ProgressivePdu, ok : BOOLEAN]
               \cup [cmd : {"h264-submitted"}, pdu : VideoPdu, willOutput : BOOLEAN]
FrameType   == [cmd : {"h264-frame"}, pdu : VideoPdu]
NoteType    == [cmd : {"h264-need-keyframe", "h264-unsupported"}]
PostType    == AnswerType \cup FrameType \cup NoteType

Typed ==
  /\ setting \in Settings /\ host \in HostType
  /\ surf \in [Surfaces -> SurfaceType] /\ cache \in [Slots -> Pictures \cup {NoPicture}]
  /\ shown \in [Surfaces -> Pictures] /\ count \in CountType
  /\ queue \in Seq(QueueType) /\ pending \in SUBSET DecodePdu /\ IsFiniteSet(pending)
  /\ acks \in Seq(AckType) /\ acked \in Seq(ReceiptType)
  /\ worker \in {"up", "off", "lost", "closed"} /\ ran \in BOOLEAN
  /\ toWorker \in Seq(AskType \cup DestroyType) /\ toPage \in Seq(PostType)
  /\ dec \in [Surfaces -> {"none", "started", "unsupported"}]
  /\ owed \in [Surfaces -> Seq(VideoPdu)]

LEMMA TypedIsTypeOK ==
  ASSUME Typed
  PROVE  PipelineTypeOK
<1>1. QueueType \subseteq [barrier : Nat, pdu : Pdu] /\ DecodePdu \subseteq Pdu
  BY DEF QueueType, OrderedPdu, DecodePdu, VideoPdu, ProgressivePdu
<1>2. queue \in Seq([barrier : Nat, pdu : Pdu])
  BY <1>1, SeqMonotonic DEF Typed
<1>3. VideoPdu \subseteq Pdu
  BY DEF VideoPdu
<1>4. Seq(VideoPdu) \subseteq Seq(Pdu)
  BY <1>3, SeqMonotonic
<1>5. owed \in [Surfaces -> Seq(Pdu)]
  BY <1>4 DEF Typed
<1> QED
  BY <1>1, <1>2, <1>5 DEF Typed, PipelineTypeOK, HostType, CountType, AckType, ReceiptType, NoPdu

\* The types of the next state, one by one.
LEMMA TypedNext ==
  ASSUME setting' \in Settings, host' \in HostType, surf' \in [Surfaces -> SurfaceType],
         cache' \in [Slots -> Pictures \cup {NoPicture}], shown' \in [Surfaces -> Pictures],
         count' \in CountType, queue' \in Seq(QueueType), pending' \in SUBSET DecodePdu,
         IsFiniteSet(pending'), acks' \in Seq(AckType), acked' \in Seq(ReceiptType),
         worker' \in {"up", "off", "lost", "closed"}, ran' \in BOOLEAN,
         toWorker' \in Seq(AskType \cup DestroyType), toPage' \in Seq(PostType),
         dec' \in [Surfaces -> {"none", "started", "unsupported"}],
         owed' \in [Surfaces -> Seq(VideoPdu)]
  PROVE  Typed'
BY DEF Typed

-----------------------------------------------------------------------------
(* What the helpers of the actions do.                                     *)

\* A PDU of the host: what it is, and what it leaves alone.
LEMMA SendsFacts ==
  ASSUME Typed, NEW k \in Kinds,
         NEW src \in Surfaces \cup Slots \cup {NoPicture},
         NEW dst \in Surfaces \cup Slots \cup {NoPicture}, Sends(k, src, dst)
  PROVE  /\ host' \in HostType
         /\ host'.sent.id = host.sent.id + 1 /\ host'.sent.kind = k
         /\ host'.sent.src = src /\ host'.sent.dst = dst
         /\ host'.sent \in Pdu /\ host.sent.id \in Nat
         /\ host'.live = IF k = "create" THEN host.live \cup {dst}
                         ELSE IF k = "delete" THEN host.live \ {dst} ELSE host.live
         /\ setting' = setting /\ worker' = worker /\ ran' = ran /\ toPage' = toPage
         /\ worker # "closed" /\ Sendable(k, src, dst)
<1> DEFINE new == [id |-> host.sent.id + 1, kind |-> k, src |-> src, dst |-> dst]
<1>1. host.sent.id \in Nat /\ host.sent.id + 1 \in 1..MaxPdus
  BY PipelineAssumption DEF Typed, HostType, NoPdu, Pdu, Sends
<1>2. new \in Pdu /\ new.id = host.sent.id + 1 /\ new.kind = k /\ new.src = src /\ new.dst = dst
  BY <1>1 DEF Pdu
<1>3. host.live \in SUBSET Surfaces /\ host.keyed \in SUBSET Surfaces /\ host.frame \in 0..MaxPdus
  BY DEF Typed, HostType
<1>4. k \in {"create", "avc-key"} => dst \in Surfaces
  BY DEF Sends, Sendable, Video
<1> HIDE DEF new
<1>5. host' = [sent |-> new,
               frame |-> IF k = "end" THEN host.sent.id + 1 ELSE host.frame,
               live |-> IF k = "create" THEN host.live \cup {dst}
                        ELSE IF k = "delete" THEN host.live \ {dst} ELSE host.live,
               keyed |-> IF k = "avc-key" THEN host.keyed \cup {dst}
                         ELSE IF k \in {"delete", "recreate"} THEN host.keyed \ {dst}
                         ELSE host.keyed]
  BY DEF Sends, new
<1>6. host' \in HostType
  BY <1>1, <1>2, <1>3, <1>4, <1>5 DEF HostType
<1>7. host'.sent = new /\ host'.live = IF k = "create" THEN host.live \cup {dst}
                         ELSE IF k = "delete" THEN host.live \ {dst} ELSE host.live
  BY <1>5
<1> QED
  BY <1>1, <1>2, <1>6, <1>7 DEF Sends, new

\* On what the host may use a surface id.
LEMMA SendableFacts ==
  ASSUME NEW k, NEW src, NEW dst, Sendable(k, src, dst)
  PROVE  /\ k = "create" => dst \notin host.live
         /\ k \in {"recreate", "delete", "map"} => dst \in host.live
         /\ k \in {"recreate", "delete"} /\ Busy(dst) => Given("reuse")
BY DEF Sendable, Video

\* The operations that a drain performs, and the ones it leaves.
LEMMA DrainFacts ==
  ASSUME queue \in Seq(QueueType), NEW c, NEW scr \in ScreenType,
         Drain(c, scr)
  PROVE  \E k \in 0..Len(queue) : \E h :
           /\ \A i \in 1..k : MayRun(c, i)
           /\ k = Len(queue) \/ ~MayRun(c, k + 1)
           /\ queue' = SubSeq(queue, k + 1, Len(queue))
           /\ Between(scr, SubSeq(queue, 1, k), h) /\ Len(SubSeq(queue, 1, k)) = k
           /\ surf' = h[k].surf /\ cache' = h[k].cache
           /\ \A i \in 0..k : Redrawn(scr, h[i])
<1> DEFINE n == Len(queue)
           Bad == {i \in 1..n : ~MayRun(c, i)}
           k == PrefixOf(n, LAMBDA i : MayRun(c, i))
           q == SubSeq(queue, 1, k)
<1>1. n \in Nat
  OBVIOUS
<1>2. \E j \in 0..n : (\A i \in 1..j : i \notin Bad) /\ (j = n \/ j + 1 \in Bad)
  <2>1. Bad \in SUBSET Nat
    BY <1>1
  <2> HIDE DEF Bad, n
  <2> QED
    BY <1>1, <2>1, PrefixExists
<1>3. \E j \in 0..n : (\A i \in 1..j : MayRun(c, i)) /\ (j = n \/ ~MayRun(c, j + 1))
  BY <1>1, <1>2
<1>4. k \in 0..n /\ (\A i \in 1..k : MayRun(c, i)) /\ (k = n \/ ~MayRun(c, k + 1))
  <2> HIDE DEF n
  <2> QED
    BY <1>3 DEF PrefixOf
<1>5. /\ queue' = SubSeq(queue, k + 1, n)
      /\ surf' = Performed(scr, q).surf /\ cache' = Performed(scr, q).cache
  BY DEF Drain
<1> HIDE DEF k
<1>6. q \in Seq(QueueType) /\ Len(q) = k
  BY <1>1, <1>4
<1> HIDE DEF q
<1>7. PICK h : Between(scr, q, h) /\ Performed(scr, q) = h[Len(q)]
  BY <1>6, PerformedFacts
<1>8. \A i \in 0..Len(q) : Redrawn(scr, h[i])
  BY <1>6, <1>7, BetweenRedraws DEF QueueType
<1> HIDE DEF n
<1> QED
  BY <1>4, <1>5, <1>6, <1>7, <1>8 DEF n, q

\* Frames are acknowledged from the head of the list.
LEMMA TryAckFacts ==
  ASSUME Typed, NEW c \in CountType, NEW fs \in Seq(AckType), TryAckFrames(c, fs)
  PROVE  count' = c /\ acks' \in Seq(AckType) /\ acked' \in Seq(ReceiptType)
<1> DEFINE n == Len(fs)
           Bad == {i \in 1..n : ~Landed(c, fs[i])}
           k == PrefixOf(n, LAMBDA i : Landed(c, fs[i]))
<1>1. n \in Nat /\ Bad \in SUBSET Nat
  OBVIOUS
<1>2. \E j \in 0..n : (\A i \in 1..j : i \notin Bad) /\ (j = n \/ j + 1 \in Bad)
  <2> HIDE DEF Bad, n
  <2> QED
    BY <1>1, PrefixExists
<1>3. \E j \in 0..n : (\A i \in 1..j : Landed(c, fs[i])) /\ (j = n \/ ~Landed(c, fs[j + 1]))
  BY <1>1, <1>2
<1>4. k \in 0..n
  <2> HIDE DEF n
  <2> QED
    BY <1>3 DEF PrefixOf
<1>5. /\ count' = c /\ acks' = SubSeq(fs, k + 1, n)
      /\ acked' = acked \o [i \in 1..k |-> Receipt(fs[i], FALSE)]
  BY DEF TryAckFrames
<1> HIDE DEF k
<1>6. acks' \in Seq(AckType)
  BY <1>1, <1>4, <1>5
<1>7. \A i \in 1..k : Receipt(fs[i], FALSE) \in ReceiptType
  <2> SUFFICES ASSUME NEW i \in 1..k PROVE Receipt(fs[i], FALSE) \in ReceiptType
    OBVIOUS
  <2>1. fs[i] \in AckType
    BY <1>1, <1>4, ElementOfSeq
  <2> QED
    BY <2>1 DEF AckType, ReceiptType, Receipt
<1> DEFINE r == [i \in 1..k |-> Receipt(fs[i], FALSE)]
<1>8. r \in Seq(ReceiptType)
  <2>1. k \in Nat
    BY <1>1, <1>4
  <2>2. r \in [1..k -> ReceiptType]
    BY <1>7
  <2> HIDE DEF r
  <2> QED
    BY <2>1, <2>2
<1> HIDE DEF r
<1>9. acked \o r \in Seq(ReceiptType)
  BY <1>8 DEF Typed
<1> QED
  BY <1>5, <1>6, <1>9 DEF r

LEMMA AckTimerFacts ==
  ASSUME Typed, AckTimer
  PROVE  /\ count' \in CountType /\ count'.decodes = count.decodes
         /\ count'.settled = count.settled
         /\ acks' \in Seq(AckType) /\ acked' \in Seq(ReceiptType)
<1>1. PICK k \in 1..Len(acks) :
        LET c    == WriteOff(count, acks[k].video)
            more == PrefixOf(Len(acks) - k, LAMBDA i : Landed(c, acks[k + i]))
        IN /\ count' = c
           /\ acks' = SubSeq(acks, k + more + 1, Len(acks))
           /\ acked' = acked \o
                [i \in 1..(k + more) |-> Receipt(acks[i], i <= k /\ ~Landed(count, acks[i]))]
  BY DEF AckTimer
<1> DEFINE c == WriteOff(count, acks[k].video)
           n == Len(acks) - k
           Bad == {i \in 1..n : ~Landed(c, acks[k + i])}
           more == PrefixOf(n, LAMBDA i : Landed(c, acks[k + i]))
           r == [i \in 1..(k + more) |-> Receipt(acks[i], i <= k /\ ~Landed(count, acks[i]))]
<1>2. acks \in Seq(AckType) /\ acked \in Seq(ReceiptType) /\ count \in CountType
  BY DEF Typed
<1>3. acks[k] \in AckType /\ n \in Nat /\ Bad \in SUBSET Nat
  BY <1>2, ElementOfSeq
<1>4. c \in CountType /\ c.decodes = count.decodes /\ c.settled = count.settled
  BY <1>2, <1>3 DEF WriteOff, CountType, AckType
<1> HIDE DEF c
<1>5. \E j \in 0..n : (\A i \in 1..j : i \notin Bad) /\ (j = n \/ j + 1 \in Bad)
  <2> HIDE DEF Bad, n
  <2> QED
    BY <1>3, PrefixExists
<1>6. \E j \in 0..n : (\A i \in 1..j : Landed(c, acks[k + i]))
                      /\ (j = n \/ ~Landed(c, acks[k + (j + 1)]))
  <2>1. PICK j \in 0..n : (\A i \in 1..j : i \notin Bad) /\ (j = n \/ j + 1 \in Bad)
    BY <1>5
  <2>2. \A i \in 1..n : i \in Bad <=> ~Landed(c, acks[k + i])
    OBVIOUS
  <2>3. j + 1 \in Bad => j + 1 \in 1..n
    OBVIOUS
  <2> HIDE DEF Bad, n
  <2>4. 1..j \subseteq 1..n
    BY <1>3
  <2> QED
    BY <2>1, <2>2, <2>3, <2>4
<1>7. more \in 0..n
  <2> HIDE DEF n
  <2> QED
    BY <1>6 DEF PrefixOf
<1>8. count' = c /\ acks' = SubSeq(acks, k + more + 1, Len(acks)) /\ acked' = acked \o r
  BY <1>1 DEF c
<1>9. k + more \in 0..Len(acks)
  <2> HIDE DEF more
  <2> QED
    BY <1>2, <1>7
<1> HIDE DEF more
<1>10. acks' \in Seq(AckType)
  BY <1>2, <1>8, <1>9
<1>11. \A i \in 1..(k + more) :
         Receipt(acks[i], i <= k /\ ~Landed(count, acks[i])) \in ReceiptType
  <2> SUFFICES ASSUME NEW i \in 1..(k + more)
               PROVE Receipt(acks[i], i <= k /\ ~Landed(count, acks[i])) \in ReceiptType
    OBVIOUS
  <2>1. acks[i] \in AckType
    BY <1>2, <1>9, ElementOfSeq
  <2>2. (i <= k /\ ~Landed(count, acks[i])) \in BOOLEAN
    OBVIOUS
  <2> QED
    BY <2>1, <2>2 DEF AckType, ReceiptType, Receipt
<1>12. r \in Seq(ReceiptType)
  BY <1>9, <1>11
<1> HIDE DEF r
<1>13. acked' \in Seq(ReceiptType)
  BY <1>2, <1>8, <1>12
<1> QED
  BY <1>4, <1>8, <1>10, <1>13

\* The barrier advances for a decode that was not counted yet.
LEMMA SettleFacts ==
  ASSUME NEW c \in CountType
  PROVE  /\ Settle(c) \in CountType /\ Settle(c).decodes = c.decodes
         /\ Settle(c).submitted = c.submitted /\ Settle(c).painted = c.painted
         /\ Settle(c).settled = IF c.settled < c.decodes THEN c.settled + 1 ELSE c.settled
BY DEF Settle, CountType

\* What the page draws in a step.
Draws == Redrawn(Screen, [surf |-> surf', cache |-> cache'])

LEMMA ScreenTyped ==
  ASSUME Typed
  PROVE  Screen \in ScreenType /\ Screen.surf = surf /\ Screen.cache = cache
BY DEF Typed, Screen, ScreenType

LEMMA DrawsTypes ==
  ASSUME Draws
  PROVE  surf' \in [Surfaces -> SurfaceType] /\ cache' \in [Slots -> Pictures \cup {NoPicture}]
BY DEF Draws, Redrawn, ScreenType

\* A screen is its surfaces and its cache.
LEMMA ScreenParts ==
  ASSUME NEW y \in ScreenType
  PROVE  y = [surf |-> y.surf, cache |-> y.cache]
BY DEF ScreenType

LEMMA DrainDraws ==
  ASSUME Typed, NEW c, NEW scr, Redrawn(Screen, scr), Drain(c, scr)
  PROVE  Draws /\ queue' \in Seq(QueueType)
<1>1. queue \in Seq(QueueType) /\ scr \in ScreenType
  BY DEF Typed, Redrawn
<1>2a. PICK k \in 0..Len(queue) : \E h :
           /\ \A i \in 1..k : MayRun(c, i)
           /\ k = Len(queue) \/ ~MayRun(c, k + 1)
           /\ queue' = SubSeq(queue, k + 1, Len(queue))
           /\ Between(scr, SubSeq(queue, 1, k), h) /\ Len(SubSeq(queue, 1, k)) = k
           /\ surf' = h[k].surf /\ cache' = h[k].cache
           /\ \A i \in 0..k : Redrawn(scr, h[i])
  BY <1>1, DrainFacts
<1>2. PICK h : /\ queue' = SubSeq(queue, k + 1, Len(queue))
               /\ surf' = h[k].surf /\ cache' = h[k].cache
               /\ \A i \in 0..k : Redrawn(scr, h[i])
  BY <1>2a
<1>3. Len(queue) \in Nat
  BY <1>1
<1>4. queue' \in Seq(QueueType)
  BY <1>1, <1>2, <1>3
<1>5. Redrawn(scr, h[k])
  BY <1>2, <1>3
<1>6. h[k] \in ScreenType
  BY <1>5 DEF Redrawn
<1>7. h[k] = [surf |-> surf', cache |-> cache']
  BY <1>2, <1>6, ScreenParts
<1> QED
  BY <1>4, <1>5, <1>7, RedrawnTwice DEF Draws

-----------------------------------------------------------------------------
(* Types, and what is drawn.                                               *)

\* What the PDU of an action is.
LEMMA SentKinds ==
  ASSUME host'.sent \in Pdu
  PROVE  /\ host'.sent.kind \in Video /\ host'.sent.dst \in Surfaces
              /\ host'.sent.src = NoPicture => host'.sent \in VideoPdu
         /\ host'.sent.kind = "progressive" /\ host'.sent.dst \in Surfaces
              /\ host'.sent.src = NoPicture => host'.sent \in ProgressivePdu
BY DEF VideoPdu, ProgressivePdu

LEMMA OrderedSent ==
  ASSUME Typed, host'.sent \in Pdu, NEW k \in Ordered, NEW src, NEW dst, Sendable(k, src, dst),
         host'.sent.kind = k, host'.sent.src = src, host'.sent.dst = dst
  PROVE  host'.sent \in OrderedPdu
<1>1. host.live \in SUBSET Surfaces
  BY DEF Typed, HostType
<1> DEFINE p == host'.sent
<1>2. p \in Pdu /\ p.kind = k /\ p.src = src /\ p.dst = dst
  OBVIOUS
<1> HIDE DEF p
<1>3. p \in OrderedPdu
  BY <1>1, <1>2 DEF OrderedPdu, Ordered, Sendable, Video
<1> QED
  BY <1>3 DEF p

LEMMA DispatchOrderedTyped ==
  ASSUME Typed, NEW k \in Ordered,
         NEW src \in Surfaces \cup Slots \cup {NoPicture},
         NEW dst \in Surfaces \cup Slots \cup {NoPicture}, DispatchOrdered(k, src, dst)
  PROVE  Typed' /\ Draws /\ host'.sent \in OrderedPdu
<1>1. k \in Kinds
  BY DEF Ordered, Kinds
<1>2. Sends(k, src, dst)
  BY DEF DispatchOrdered
<1>3. /\ host' \in HostType /\ host'.sent \in Pdu /\ Sendable(k, src, dst)
      /\ host'.sent.kind = k /\ host'.sent.src = src /\ host'.sent.dst = dst
      /\ setting' = setting /\ worker' = worker /\ ran' = ran /\ toPage' = toPage
  BY <1>1, <1>2, SendsFacts
<1>4. host'.sent \in OrderedPdu
  BY <1>3, OrderedSent
<1>5. UNCHANGED <<shown, count, pending, toWorker, acks, acked, dec, owed>>
  BY DEF DispatchOrdered, ackVars, videoVars
<1>6. Draws /\ queue' \in Seq(QueueType)
  <2>1. CASE MustQueue(k)
    <3>1. surf' = surf /\ cache' = cache
          /\ queue' = Append(queue, [barrier |-> count.decodes, pdu |-> host'.sent])
      BY <2>1 DEF DispatchOrdered
    <3>2. Draws
      BY <3>1, ScreenTyped, RedrawnSelf DEF Draws, Screen
    <3>3. count.decodes \in Nat
      BY DEF Typed, CountType
    <3>4. [barrier |-> count.decodes, pdu |-> host'.sent] \in QueueType
      BY <1>4, <3>3 DEF QueueType
    <3> QED
      BY <3>1, <3>2, <3>4 DEF Typed
  <2>2. CASE ~MustQueue(k)
    BY <2>2, <1>4, ScreenTyped, PerformRedraws, ScreenParts DEF DispatchOrdered, Redrawn, Typed,
       Draws
  <2> QED
    BY <2>1, <2>2
<1>7. surf' \in [Surfaces -> SurfaceType] /\ cache' \in [Slots -> Pictures \cup {NoPicture}]
  BY <1>6, DrawsTypes
<1>8. Typed'
  BY <1>3, <1>5, <1>6, <1>7 DEF Typed
<1> QED
  BY <1>4, <1>6, <1>8

\* The PDUs that make, map and remove surfaces, end frames or clear the canvas.
LEMMA SurfacePduTyped ==
  ASSUME Typed, NEW s \in Surfaces,
         CreateSurface(s) \/ RecreateSurface(s) \/ DeleteSurface(s) \/ MapSurfaceToOutput(s)
  PROVE  Typed'
<1>1. PICK k \in {"create", "recreate", "delete", "map"} : Sends(k, NoPicture, s)
  BY DEF CreateSurface, RecreateSurface, DeleteSurface, MapSurfaceToOutput
<1>2. host' \in HostType /\ setting' = setting /\ worker' = worker /\ ran' = ran /\ toPage' = toPage
  BY <1>1, SendsFacts DEF Kinds
<1>3. surf[s] \in SurfaceType /\ surf \in [Surfaces -> SurfaceType] /\ NoSurface \in SurfaceType
  BY PipelineAssumption DEF Typed, NoSurface, SurfaceType, Pictures
<1>4. surf' \in [Surfaces -> SurfaceType] /\ UNCHANGED <<cache, shown, count, queue, pending, acks, acked>>
  <2>1. CASE CreateSurface(s)
    BY <1>3, <2>1 DEF SurfaceType, CreateSurface, ackVars
  <2>2. CASE RecreateSurface(s)
    BY <1>3, <2>2 DEF SurfaceType, RecreateSurface, ackVars
  <2>3. CASE DeleteSurface(s)
    BY <1>3, <2>3 DEF DeleteSurface, ackVars
  <2>4. CASE MapSurfaceToOutput(s)
    BY <1>3, <2>4 DEF MapSurfaceToOutput, SurfaceType, ackVars
  <2> QED
    BY <2>1, <2>2, <2>3, <2>4
<1>5. /\ toWorker' \in Seq(AskType \cup DestroyType) /\ owed' \in [Surfaces -> Seq(VideoPdu)]
      /\ dec' \in [Surfaces -> {"none", "started", "unsupported"}]
  <2> DEFINE m == [cmd |-> "destroy", surface |-> s]
  <2>1. m \in AskType \cup DestroyType
    BY DEF DestroyType
  <2>2. <<>> \in Seq(VideoPdu)
    OBVIOUS
  <2>3. /\ toWorker' = toWorker \/ toWorker' = Append(toWorker, m)
        /\ \/ dec' = dec /\ owed' = owed
           \/ dec' = [dec EXCEPT ![s] = "none"] /\ owed' = [owed EXCEPT ![s] = <<>>]
    BY DEF CreateSurface, RecreateSurface, DeleteSurface, MapSurfaceToOutput, DestroySurface,
           videoVars
  <2> HIDE DEF m
  <2>4. /\ toWorker \in Seq(AskType \cup DestroyType) /\ owed \in [Surfaces -> Seq(VideoPdu)]
        /\ dec \in [Surfaces -> {"none", "started", "unsupported"}]
    BY DEF Typed
  <2>5. toWorker' \in Seq(AskType \cup DestroyType)
    BY <2>1, <2>3, <2>4
  <2>6. owed' \in [Surfaces -> Seq(VideoPdu)]
    BY <2>2, <2>3, <2>4
  <2>7. dec' \in [Surfaces -> {"none", "started", "unsupported"}]
    BY <2>3, <2>4
  <2> QED
    BY <2>5, <2>6, <2>7
<1> QED
  BY <1>2, <1>4, <1>5 DEF Typed

LEMMA ResetGraphicsTyped ==
  ASSUME Typed, ResetGraphics
  PROVE  Typed'
<1>1. Sends("reset", NoPicture, NoPicture)
  BY DEF ResetGraphics
<1>2. host' \in HostType /\ setting' = setting /\ worker' = worker /\ ran' = ran /\ toPage' = toPage
  BY <1>1, SendsFacts DEF Kinds
<1>3. \A s \in Surfaces : surf[s] \in SurfaceType /\ [surf[s] EXCEPT !.dirty = FALSE] \in SurfaceType
  BY DEF Typed, SurfaceType
<1>4. surf' \in [Surfaces -> SurfaceType]
  BY <1>3 DEF ResetGraphics
<1>5. shown' \in [Surfaces -> Pictures]
  BY PipelineAssumption, <1>3 DEF Pictures, SurfaceType, ResetGraphics
<1> QED
  BY <1>2, <1>4, <1>5 DEF Typed, ResetGraphics, ackVars, videoVars

LEMMA FlushTypes ==
  ASSUME Typed, FlushDirty(surf)
  PROVE  surf' \in [Surfaces -> SurfaceType] /\ shown' \in [Surfaces -> Pictures]
<1>1. \A s \in Surfaces : surf[s] \in SurfaceType /\ [surf[s] EXCEPT !.dirty = FALSE] \in SurfaceType
  BY DEF Typed, SurfaceType
<1>2. \A s \in Surfaces : surf[s].px \in Pictures /\ shown[s] \in Pictures
  BY <1>1 DEF SurfaceType, Typed
<1> QED
  BY <1>1, <1>2 DEF FlushDirty

LEMMA EndFrameTyped ==
  ASSUME Typed, EndFrame
  PROVE  Typed' /\ count' = count
<1>1. Sends("end", NoPicture, NoPicture) /\ FlushDirty(surf)
  BY DEF EndFrame
<1>2. host' \in HostType /\ setting' = setting /\ worker' = worker /\ ran' = ran /\ toPage' = toPage
  BY <1>1, SendsFacts DEF Kinds
<1> DEFINE a == [from |-> host.frame, at |-> host'.frame,
                 barrier |-> count.decodes, video |-> count.submitted]
<1>3. a \in AckType /\ count \in CountType
  BY <1>2, PipelineAssumption DEF Typed, HostType, CountType, AckType
<1>4. TryAckFrames(count, Append(acks, a))
  BY DEF EndFrame
<1> HIDE DEF a
<1>5. Append(acks, a) \in Seq(AckType)
  BY <1>3 DEF Typed
<1>6. count' = count /\ acks' \in Seq(AckType) /\ acked' \in Seq(ReceiptType)
  BY <1>3, <1>4, <1>5, TryAckFacts
<1>7. UNCHANGED <<cache, queue, pending, toWorker, dec, owed>>
  BY DEF EndFrame, videoVars
<1>8. surf' \in [Surfaces -> SurfaceType] /\ shown' \in [Surfaces -> Pictures]
  BY <1>1, FlushTypes
<1> QED
  BY <1>2, <1>6, <1>7, <1>8 DEF Typed

\* A decode is sent to the worker.
Asked(s) ==
  LET p == host'.sent
  IN /\ worker = "up" /\ p \in DecodePdu /\ p.dst = s /\ p.id = host.sent.id + 1
     /\ \E m \in AskType : m.pdu = p /\ toWorker' = Append(toWorker, m)
     /\ pending' = pending \cup {p}
     /\ count' \in CountType /\ count'.decodes = count.decodes + 1
     /\ count'.settled = count.settled
     /\ surf' = Materialise(Screen, s).surf
     /\ UNCHANGED <<cache, shown, queue, acks, acked, dec, owed>>

LEMMA AskFacts ==
  ASSUME Typed, NEW s \in Surfaces,
         DecodeProgressive(s) \/ \E k \in Video : DecodeAvc420(k, s)
  PROVE  Asked(s) /\ \E k \in {"progressive"} \cup Video : Sends(k, NoPicture, s)
<1> DEFINE p == host'.sent
<1>1. count \in CountType
  BY DEF Typed
<1>2. CASE DecodeProgressive(s)
  <2>1. Sends("progressive", NoPicture, s)
    BY <1>2 DEF DecodeProgressive
  <2>2. p \in Pdu /\ p.kind = "progressive" /\ p.src = NoPicture /\ p.dst = s /\ p.id = host.sent.id + 1
    BY <2>1, SendsFacts DEF Kinds
  <2>3. p \in ProgressivePdu
    BY <2>2, SentKinds
  <2> DEFINE m == [cmd |-> "progressive", pdu |-> p]
  <2>4. m \in AskType /\ m.pdu = p
    BY <2>3 DEF AskType
  <2>5. toWorker' = Append(toWorker, m)
    BY <1>2 DEF DecodeProgressive
  <2>6. count' = [count EXCEPT !.decodes = count.decodes + 1]
    BY <1>1, <1>2 DEF DecodeProgressive
  <2>7. count' \in CountType /\ count'.decodes = count.decodes + 1 /\ count'.settled = count.settled
    BY <1>1, <2>6 DEF CountType
  <2> HIDE DEF m
  <2> QED
    BY <1>2, <2>1, <2>2, <2>3, <2>4, <2>5, <2>7
    DEF Asked, DecodeProgressive, DecodePdu, ackVars, videoVars
<1>3. ASSUME NEW k \in Video, DecodeAvc420(k, s) PROVE Asked(s) /\ Sends(k, NoPicture, s)
  <2>1. Sends(k, NoPicture, s) /\ k \in Kinds
    BY <1>3 DEF DecodeAvc420, Video, Kinds
  <2>2. p \in Pdu /\ p.kind = k /\ p.src = NoPicture /\ p.dst = s /\ p.id = host.sent.id + 1
    BY <2>1, SendsFacts
  <2>3. p \in VideoPdu
    BY <2>2, SentKinds
  <2> DEFINE m == [cmd |-> "h264", pdu |-> p]
  <2>4. m \in AskType /\ m.pdu = p
    BY <2>3 DEF AskType
  <2>5. toWorker' = Append(toWorker, m)
    BY <1>3 DEF DecodeAvc420
  <2>6. count' = [count EXCEPT !.decodes = count.decodes + 1, !.submitted = count.submitted + 1]
    BY <1>1, <1>3 DEF DecodeAvc420
  <2>7. count' \in CountType /\ count'.decodes = count.decodes + 1 /\ count'.settled = count.settled
    <3> DEFINE c == [count EXCEPT !.decodes = count.decodes + 1]
    <3>1. c \in CountType /\ c.decodes = count.decodes + 1 /\ c.settled = count.settled
          /\ count.submitted \in Nat
      BY <1>1 DEF CountType
    <3>2. count' = [c EXCEPT !.submitted = count.submitted + 1]
      BY <2>6
    <3> HIDE DEF c
    <3> QED
      BY <3>1, <3>2 DEF CountType
  <2> HIDE DEF m
  <2> QED
    BY <1>3, <2>1, <2>2, <2>3, <2>4, <2>5, <2>7
    DEF Asked, DecodeAvc420, DecodePdu, ackVars, videoVars
<1> QED
  BY <1>2, <1>3

LEMMA AskTyped ==
  ASSUME Typed, NEW s \in Surfaces,
         DecodeProgressive(s) \/ \E k \in Video : DecodeAvc420(k, s)
  PROVE  Typed' /\ Draws
<1>1. PICK k \in {"progressive"} \cup Video : Sends(k, NoPicture, s)
  BY AskFacts
<1>2. Asked(s)
  BY AskFacts
<1>3. host' \in HostType /\ setting' = setting /\ worker' = worker /\ ran' = ran /\ toPage' = toPage
  BY <1>1, SendsFacts DEF Kinds, Video
<1>4. Draws
  BY ScreenTyped, MaterialiseFacts, <1>2, ScreenParts DEF Redrawn, Asked, Draws
<1>5. surf' \in [Surfaces -> SurfaceType] /\ cache' \in [Slots -> Pictures \cup {NoPicture}]
  BY <1>4, DrawsTypes
<1>6. toWorker' \in Seq(AskType \cup DestroyType)
  BY <1>2 DEF Asked, Typed
<1>7. pending' \in SUBSET DecodePdu /\ IsFiniteSet(pending')
  BY <1>2, FS_AddElement DEF Typed, Asked
<1>8. /\ shown' \in [Surfaces -> Pictures] /\ count' \in CountType /\ queue' \in Seq(QueueType)
      /\ acks' \in Seq(AckType) /\ acked' \in Seq(ReceiptType)
      /\ dec' \in [Surfaces -> {"none", "started", "unsupported"}]
      /\ owed' \in [Surfaces -> Seq(VideoPdu)]
  BY <1>2 DEF Typed, Asked
<1>9. setting' \in Settings /\ worker' \in {"up", "off", "lost", "closed"} /\ ran' \in BOOLEAN
      /\ toPage' \in Seq(PostType)
  BY <1>3 DEF Typed
<1> QED
  BY <1>3, <1>4, <1>5, <1>6, <1>7, <1>8, <1>9, TypedNext

\* A progressive decode on the page.
LEMMA SyncFacts ==
  ASSUME Typed, NEW s \in Surfaces, DecodeProgressiveSync(s)
  PROVE  /\ Typed' /\ Draws /\ worker # "up" /\ Sends("progressive", NoPicture, s)
         /\ count'.decodes = count.decodes + 1
         /\ count'.settled = IF count.settled < count.decodes + 1 THEN count.settled + 1
                             ELSE count.settled
         /\ UNCHANGED <<shown, pending, toWorker, acks, acked, dec, owed>>
         /\ \E ok \in BOOLEAN :
              LET scr == Materialise(Screen, s)
              IN Drain(count', IF ok THEN Paint(scr, s, host'.sent.id) ELSE scr)
<1> DEFINE p == host'.sent
           scr == Materialise(Screen, s)
           c == [count EXCEPT !.decodes = count.decodes + 1]
<1>1. Sends("progressive", NoPicture, s) /\ worker # "up"
  BY DEF DecodeProgressiveSync
<1>2. /\ p \in Pdu /\ host' \in HostType
      /\ setting' = setting /\ worker' = worker /\ ran' = ran /\ toPage' = toPage
  BY <1>1, SendsFacts DEF Kinds
<1>3. PICK ok \in BOOLEAN :
        /\ Drain(Settle(c), IF ok THEN Paint(scr, s, p.id) ELSE scr)
        /\ count' = Settle(c)
  BY DEF DecodeProgressiveSync, Typed
<1>0. count \in CountType
  BY DEF Typed
<1>4. c \in CountType /\ c.decodes = count.decodes + 1 /\ c.settled = count.settled
  BY <1>0 DEF CountType
<1> HIDE DEF c
<1>5. /\ count' \in CountType /\ count'.decodes = count.decodes + 1
      /\ count'.settled = IF count.settled < count.decodes + 1 THEN count.settled + 1
                          ELSE count.settled
  BY <1>3, <1>4, SettleFacts
<1>6. Redrawn(Screen, scr) /\ scr \in ScreenType /\ ~Absent(scr, s)
  BY ScreenTyped, MaterialiseFacts DEF Redrawn
<1>7. p.id \in Pictures
  BY <1>2, PipelineAssumption DEF Pdu, Pictures
<1> HIDE DEF scr
<1> DEFINE base == IF ok THEN Paint(scr, s, p.id) ELSE scr
<1>8. Redrawn(Screen, base)
  BY <1>6, <1>7, PaintRedraws, RedrawnTwice
<1>9. Drain(count', base)
  BY <1>3
<1> HIDE DEF base
<1>10. Draws /\ queue' \in Seq(QueueType)
  BY <1>8, <1>9, DrainDraws
<1>11. surf' \in [Surfaces -> SurfaceType] /\ cache' \in [Slots -> Pictures \cup {NoPicture}]
  BY <1>10, DrawsTypes
<1>12. UNCHANGED <<shown, pending, toWorker, acks, acked, dec, owed>>
  BY DEF DecodeProgressiveSync, ackVars, videoVars
<1>13. Typed'
  BY <1>2, <1>5, <1>10, <1>11, <1>12 DEF Typed
<1> QED
  BY <1>1, <1>5, <1>9, <1>10, <1>12, <1>13 DEF base, scr

\* A decoder takes chunk p, or not.
LEMMA SubmitFacts ==
  ASSUME Typed, NEW p \in VideoPdu, NEW o, Submit(p, o)
  PROVE  /\ dec' \in [Surfaces -> {"none", "started", "unsupported"}]
         /\ owed' \in [Surfaces -> Seq(VideoPdu)]
         /\ \A s \in Surfaces : s # p.dst => owed'[s] = owed[s]
         /\ owed'[p.dst] = IF o = "taken" THEN Append(owed[p.dst], p)
                           ELSE IF o = "threw" THEN <<>> ELSE owed[p.dst]
<1>1. p.dst \in Surfaces
  BY DEF VideoPdu
<1>2. owed[p.dst] \in Seq(VideoPdu) /\ owed \in [Surfaces -> Seq(VideoPdu)]
      /\ dec \in [Surfaces -> {"none", "started", "unsupported"}]
  BY <1>1 DEF Typed
<1> DEFINE new == CASE o = "taken" -> Append(owed[p.dst], p)
                    [] o = "threw" -> <<>>
                    [] OTHER -> owed[p.dst]
<1>3. new \in Seq(VideoPdu) /\ new = IF o = "taken" THEN Append(owed[p.dst], p)
                                     ELSE IF o = "threw" THEN <<>> ELSE owed[p.dst]
  BY <1>2
<1>4. owed' = [owed EXCEPT ![p.dst] = new]
  BY DEF Submit
<1>5. dec' \in [Surfaces -> {"none", "started", "unsupported"}]
  BY <1>1, <1>2 DEF Submit
<1> HIDE DEF new
<1>6. /\ owed' \in [Surfaces -> Seq(VideoPdu)]
      /\ \A s \in Surfaces : s # p.dst => owed'[s] = owed[s]
      /\ owed'[p.dst] = new
  BY <1>1, <1>2, <1>3, <1>4
<1> QED
  BY <1>3, <1>5, <1>6

LEMMA PageVideoFacts ==
  ASSUME Typed, NEW s \in Surfaces, NEW k \in Video, DecodeAvc420Page(k, s)
  PROVE  /\ Typed' /\ Draws /\ worker # "up" /\ Sends(k, NoPicture, s)
         /\ surf' = Materialise(Screen, s).surf
         /\ UNCHANGED <<cache, shown, count, queue, pending, toWorker, acks, acked>>
         /\ \E o : Submit(host'.sent, o)
         /\ host'.sent \in VideoPdu /\ host'.sent.dst = s
<1>1. Sends(k, NoPicture, s) /\ worker # "up" /\ k \in Kinds
  BY DEF DecodeAvc420Page, Video, Kinds
<1>2. /\ host'.sent \in Pdu /\ host' \in HostType
      /\ host'.sent.kind = k /\ host'.sent.src = NoPicture /\ host'.sent.dst = s
      /\ setting' = setting /\ worker' = worker /\ ran' = ran /\ toPage' = toPage
  BY <1>1, SendsFacts
<1>3. host'.sent \in VideoPdu
  BY <1>2, SentKinds
<1>4. PICK o : Submit(host'.sent, o)
  BY DEF DecodeAvc420Page
<1>5. dec' \in [Surfaces -> {"none", "started", "unsupported"}] /\ owed' \in [Surfaces -> Seq(VideoPdu)]
  BY <1>3, <1>4, SubmitFacts
<1>6. surf' = Materialise(Screen, s).surf
      /\ UNCHANGED <<cache, shown, count, queue, pending, toWorker, acks, acked>>
  BY DEF DecodeAvc420Page, ackVars
<1>7. Draws
  BY ScreenTyped, MaterialiseFacts, <1>6, ScreenParts DEF Redrawn, Draws
<1>8. surf' \in [Surfaces -> SurfaceType]
  BY <1>7, DrawsTypes
<1>9. Typed'
  BY <1>2, <1>5, <1>6, <1>8 DEF Typed
<1> QED
  BY <1>1, <1>2, <1>3, <1>4, <1>6, <1>7, <1>9

\* A decoder puts out a picture, which the page paints or is sent.
LEMMA VideoOutputFacts ==
  ASSUME Typed, NEW s \in Surfaces, VideoOutput(s)
  PROVE  LET p == Head(owed[s])
         IN /\ Typed' /\ Draws /\ p \in VideoPdu /\ owed[s] # <<>> /\ worker # "closed"
            /\ owed' = [owed EXCEPT ![s] = Tail(owed[s])]
            /\ IF worker = "up"
               THEN /\ toPage' = Append(toPage, [cmd |-> "h264-frame", pdu |-> p])
                    /\ surf' = surf
               ELSE /\ toPage' = toPage
                    /\ surf' = PaintIfThere(Screen, s, p.id).surf
            /\ UNCHANGED <<setting, host, cache, shown, count, queue, pending, acks, acked,
                           worker, ran, toWorker>>
<1> DEFINE p == Head(owed[s])
           m == [cmd |-> "h264-frame", pdu |-> p]
<1>1. owed[s] \in Seq(VideoPdu) /\ owed[s] # <<>> /\ worker # "closed"
  BY DEF Typed, VideoOutput
<1>2. p \in VideoPdu /\ Tail(owed[s]) \in Seq(VideoPdu)
  BY <1>1
<1>3. owed' = [owed EXCEPT ![s] = Tail(owed[s])]
  BY DEF VideoOutput
<1>4. IF worker = "up" THEN toPage' = Append(toPage, m) /\ surf' = surf
      ELSE toPage' = toPage /\ surf' = PaintIfThere(Screen, s, p.id).surf
  BY DEF VideoOutput
<1>5. UNCHANGED <<setting, host, cache, shown, count, queue, pending, acks, acked,
                  worker, ran, toWorker, dec>>
  BY DEF VideoOutput, ackVars
<1>6. m \in PostType
  BY <1>2 DEF PostType, FrameType
<1>7. p.id \in Pictures
  BY <1>2, PipelineAssumption DEF VideoPdu, Pdu, Pictures
<1> HIDE DEF m, p
<1>8. Draws
  BY <1>4, <1>5, ScreenTyped, RedrawnSelf, <1>7, PaintIfThereFacts, ScreenParts DEF Draws, Screen,
     Redrawn
<1>9. surf' \in [Surfaces -> SurfaceType]
  BY <1>8, DrawsTypes
<1>10. toPage' \in Seq(PostType)
  <2>1. toPage \in Seq(PostType) /\ (toPage' = toPage \/ toPage' = Append(toPage, m))
    BY <1>4 DEF Typed
  <2> QED
    BY <1>6, <2>1
<1>11. owed' \in [Surfaces -> Seq(VideoPdu)]
  BY <1>2, <1>3 DEF Typed
<1>12. Typed'
  BY <1>5, <1>9, <1>10, <1>11 DEF Typed
<1> QED
  BY <1>1, <1>2, <1>3, <1>4, <1>5, <1>8, <1>12 DEF p, m

LEMMA VideoErrorFacts ==
  ASSUME Typed, NEW s \in Surfaces, VideoError(s)
  PROVE  /\ Typed' /\ owed' = [owed EXCEPT ![s] = <<>>]
         /\ \/ toPage' = toPage
            \/ worker = "up" /\ \E n \in NoteType : toPage' = Append(toPage, n)
         /\ UNCHANGED <<setting, host, surf, cache, shown, count, queue, pending, acks, acked,
                        worker, ran, toWorker>>
<1> DEFINE n == [cmd |-> "h264-need-keyframe"]
<1>1. n \in NoteType /\ n \in PostType
  BY DEF NoteType, PostType
<1>2. toPage' = IF worker = "up" THEN Append(toPage, n) ELSE toPage
  BY DEF VideoError
<1>3. /\ UNCHANGED <<setting, host, surf, cache, shown, count, queue, pending, acks, acked,
                     worker, ran, toWorker>>
      /\ owed' = [owed EXCEPT ![s] = <<>>] /\ dec' = [dec EXCEPT ![s] = "none"]
  BY DEF VideoError, pageVars, ackVars
<1> HIDE DEF n
<1>4. toPage' \in Seq(PostType)
  BY <1>1, <1>2 DEF Typed
<1>5. <<>> \in Seq(VideoPdu)
  OBVIOUS
<1>6. owed' \in [Surfaces -> Seq(VideoPdu)] /\ dec' \in [Surfaces -> {"none", "started", "unsupported"}]
  BY <1>3, <1>5 DEF Typed
<1>7. Typed'
  BY <1>3, <1>4, <1>6 DEF Typed
<1> QED
  BY <1>1, <1>2, <1>3, <1>7

\* What the worker does with message m: it answers a decode, after a note that
\* it may post, and changes the chunks of a surface; or it forgets a surface.
Answered(m, a) ==
  /\ m \in AskType /\ a \in AnswerType /\ a.pdu = m.pdu
  /\ toPage' = Append(toPage, a)
     \/ \E n \in NoteType : toPage' = Append(Append(toPage, n), a)
  /\ \/ owed' = owed
     \/ m.pdu \in VideoPdu /\ \E o : Submit(m.pdu, o)

Forgotten(m) ==
  /\ m \in DestroyType /\ toPage' = toPage
  /\ owed' = [owed EXCEPT ![m.surface] = <<>>]

LEMMA AskCases ==
  ASSUME NEW m \in AskType \cup DestroyType
  PROVE  /\ m.cmd = "progressive" => m \in AskType /\ m.pdu \in ProgressivePdu
         /\ m.cmd = "h264" => m \in AskType /\ m.pdu \in VideoPdu
         /\ m.cmd = "destroy" => m \in DestroyType /\ m.surface \in Surfaces
         /\ m \in AskType => m.cmd # "destroy" /\ m.pdu \in DecodePdu
BY DEF AskType, DestroyType, DecodePdu

LEMMA WorkerStepFacts ==
  ASSUME Typed, WorkerStep
  PROVE  LET m == Head(toWorker)
         IN /\ Typed' /\ worker = "up" /\ ran' /\ toWorker # <<>> /\ toWorker' = Tail(toWorker)
            /\ (\E a \in AnswerType : Answered(m, a)) \/ Forgotten(m)
            /\ UNCHANGED <<setting, host, surf, cache, shown, count, queue, pending, acks, acked,
                           worker>>
<1> DEFINE m == Head(toWorker)
<1>1. toWorker \in Seq(AskType \cup DestroyType) /\ toWorker # <<>> /\ toPage \in Seq(PostType)
  BY DEF Typed, WorkerStep
<1>2. m \in AskType \cup DestroyType /\ Tail(toWorker) \in Seq(AskType \cup DestroyType)
  BY <1>1
<1>3. /\ worker = "up" /\ ran' = TRUE /\ toWorker' = Tail(toWorker)
      /\ WorkerProgressive(m) \/ WorkerH264(m) \/ WorkerDestroySurface(m)
      /\ UNCHANGED <<setting, host, surf, cache, shown, count, queue, pending, acks, acked, worker>>
  BY DEF WorkerStep, pageVars, ackVars
<1> HIDE DEF m
<1> DEFINE Good == /\ (\E a \in AnswerType : Answered(m, a)) \/ Forgotten(m)
                   /\ toPage' \in Seq(PostType) /\ owed' \in [Surfaces -> Seq(VideoPdu)]
                   /\ dec' \in [Surfaces -> {"none", "started", "unsupported"}]
<1>4. ASSUME WorkerProgressive(m) PROVE Good
  <2>1. m \in AskType /\ m.pdu \in ProgressivePdu
    BY <1>2, <1>4, AskCases DEF WorkerProgressive
  <2>2. PICK ok \in BOOLEAN :
          toPage' = toPage \o <<[cmd |-> "progressive-result", pdu |-> m.pdu, ok |-> ok]>>
    BY <1>4 DEF WorkerProgressive, Post
  <2> DEFINE a == [cmd |-> "progressive-result", pdu |-> m.pdu, ok |-> ok]
  <2>3. a \in AnswerType /\ a.pdu = m.pdu
    BY <2>1 DEF AnswerType
  <2>4. toPage' = toPage \o <<a>>
    BY <2>2
  <2> HIDE DEF a
  <2>5. a \in PostType
    BY <2>3 DEF PostType
  <2>6. toPage' = Append(toPage, a)
    BY <1>1, <2>4, <2>5, AppendIsConcat
  <2>7. dec' = dec /\ owed' = owed
    BY <1>4 DEF WorkerProgressive, videoVars
  <2>8. toPage' \in Seq(PostType)
    BY <1>1, <2>5, <2>6
  <2>9. Answered(m, a)
    BY <2>1, <2>3, <2>6, <2>7 DEF Answered
  <2> QED
    BY <2>3, <2>7, <2>8, <2>9 DEF Typed
<1>5. ASSUME WorkerH264(m) PROVE Good
  <2>1. m \in AskType /\ m.pdu \in VideoPdu
    BY <1>2, <1>5, AskCases DEF WorkerH264
  <2>2. PICK o : /\ Submit(m.pdu, o)
                 /\ Post((CASE o = "threw" -> <<[cmd |-> "h264-need-keyframe"]>>
                            [] o = "unsupported" -> <<[cmd |-> "h264-unsupported"]>>
                            [] OTHER -> <<>>)
                         \o <<[cmd |-> "h264-submitted", pdu |-> m.pdu, willOutput |-> o = "taken"]>>)
    BY <1>5 DEF WorkerH264
  <2> DEFINE a == [cmd |-> "h264-submitted", pdu |-> m.pdu, willOutput |-> o = "taken"]
             k == [cmd |-> "h264-need-keyframe"]
             u == [cmd |-> "h264-unsupported"]
             ns == CASE o = "threw" -> <<k>> [] o = "unsupported" -> <<u>> [] OTHER -> <<>>
  <2>3. a \in AnswerType /\ a.pdu = m.pdu
    BY <2>1 DEF AnswerType
  <2>4. k \in NoteType /\ u \in NoteType
    BY DEF NoteType
  <2>5. toPage' = toPage \o (ns \o <<a>>)
    BY <2>2 DEF Post
  <2>6. ns = <<>> \/ ns = <<k>> \/ ns = <<u>>
    OBVIOUS
  <2> HIDE DEF a, k, u, ns
  <2>7. a \in PostType /\ k \in PostType /\ u \in PostType
    BY <2>3, <2>4 DEF PostType
  <2>8. \/ toPage' = Append(toPage, a)
        \/ \E n \in NoteType : n \in PostType /\ toPage' = Append(Append(toPage, n), a)
    <3>1. CASE ns = <<>>
      BY <2>7, <3>1, <1>1, <2>5, AppendIsConcat
    <3>2. ASSUME NEW n \in NoteType, n \in PostType, ns = <<n>>
          PROVE  toPage' = Append(Append(toPage, n), a)
      BY <1>1, <2>5, <2>7, <3>2, ConcatAssociative, AppendIsConcat
    <3> QED
      BY <2>4, <2>6, <2>7, <3>1, <3>2
  <2>9. toPage' \in Seq(PostType)
    <3>1. \A n \in PostType : Append(Append(toPage, n), a) \in Seq(PostType)
      BY <1>1, <2>7
    <3>2. Append(toPage, a) \in Seq(PostType)
      BY <1>1, <2>7
    <3> QED
      BY <2>8, <3>1, <3>2
  <2>10. Answered(m, a)
    BY <2>1, <2>2, <2>3, <2>8 DEF Answered
  <2> QED
    BY <2>1, <2>2, <2>3, <2>9, <2>10, SubmitFacts
<1>6. ASSUME WorkerDestroySurface(m) PROVE Good
  BY <1>2, <1>6, AskCases, <1>1 DEF WorkerDestroySurface, Typed, Forgotten
<1>7. Good
  BY <1>3, <1>4, <1>5, <1>6
<1>8. Typed'
  BY <1>2, <1>3, <1>7 DEF Typed
<1> QED
  BY <1>1, <1>3, <1>7, <1>8 DEF m

LEMMA WorkerErrorFacts ==
  ASSUME Typed, WorkerError
  PROVE  /\ Typed' /\ worker = "up" /\ ~ran /\ Given("workerLost") /\ worker' = "lost"
         /\ toWorker' = <<>>
         /\ UNCHANGED <<setting, host, surf, cache, shown, count, queue, pending, acks, acked,
                        ran, toPage, dec, owed>>
BY DEF WorkerError, pageVars, ackVars, videoVars, Typed

\* The kinds of messages that the page takes.
LEMMA PostCases ==
  ASSUME NEW m \in PostType
  PROVE  /\ m.cmd = "progressive-result" =>
              m \in AnswerType /\ m.pdu \in ProgressivePdu /\ m.ok \in BOOLEAN
         /\ m.cmd = "h264-submitted" => m \in AnswerType /\ m.pdu \in VideoPdu
         /\ m.cmd = "h264-frame" => m \in FrameType /\ m.pdu \in VideoPdu
         /\ m \in AnswerType => m.pdu \in DecodePdu /\ m \notin FrameType /\ m \notin NoteType
         /\ m \in FrameType => m.pdu \in VideoPdu /\ m \notin NoteType
         /\ m \in FrameType <=> m.cmd = "h264-frame"
BY DEF PostType, AnswerType, FrameType, NoteType, DecodePdu

LEMMA TakeFacts ==
  ASSUME Typed, NEW m, Take(m)
  PROVE  /\ worker # "closed" /\ toPage # <<>> /\ m = Head(toPage) /\ m \in PostType
         /\ toPage' = Tail(toPage) /\ toPage' \in Seq(PostType)
         /\ UNCHANGED <<setting, host, shown, ran, toWorker, dec, owed>>
BY DEF Take, videoVars, Typed

\* The worker's answer to a decode: its picture, or none, is painted, the
\* barrier advances and the queue is drained.
LEMMA AnswerFacts ==
  ASSUME Typed, NEW m, OnProgressiveResult(m) \/ OnH264Submitted(m)
  PROVE  /\ Typed' /\ Draws /\ m \in AnswerType /\ Take(m) /\ worker' = worker
         /\ pending' = pending \ {m.pdu}
         /\ count'.decodes = count.decodes
         /\ count'.settled = IF count.settled < count.decodes THEN count.settled + 1
                             ELSE count.settled
         /\ \E scr : /\ \/ scr = Screen
                        \/ /\ m.pdu \in ProgressivePdu
                           /\ scr = PaintIfThere(Screen, m.pdu.dst, m.pdu.id)
                     /\ Redrawn(Screen, scr) /\ Drain(count', scr)
<1>1. Take(m) /\ pending' = pending \ {m.pdu} /\ worker' = worker
  BY DEF OnProgressiveResult, OnH264Submitted
<1>2. m \in PostType /\ toPage' \in Seq(PostType)
      /\ UNCHANGED <<setting, host, shown, ran, toWorker, dec, owed>>
  BY <1>1, TakeFacts
<1>3. count \in CountType /\ acks \in Seq(AckType)
  BY DEF Typed
<1>4. m \in AnswerType
  BY <1>2, PostCases DEF OnProgressiveResult, OnH264Submitted
<1> DEFINE Result(c, scr) ==
      /\ c \in CountType /\ c.decodes = count.decodes /\ c.settled = count.settled
      /\ \/ scr = Screen
         \/ m.pdu \in ProgressivePdu /\ scr = PaintIfThere(Screen, m.pdu.dst, m.pdu.id)
      /\ Redrawn(Screen, scr) /\ Drain(Settle(c), scr) /\ TryAckFrames(Settle(c), acks)
<1>5. \E c, scr : Result(c, scr)
  <2>1. ASSUME OnProgressiveResult(m) PROVE \E c, scr : Result(c, scr)
    <3> DEFINE scr == IF m.ok THEN PaintIfThere(Screen, m.pdu.dst, m.pdu.id) ELSE Screen
    <3>1. Drain(Settle(count), scr) /\ TryAckFrames(Settle(count), acks)
      BY <2>1 DEF OnProgressiveResult
    <3>2. m.pdu \in ProgressivePdu
      BY <1>2, <2>1, PostCases DEF OnProgressiveResult
    <3>3. m.pdu.dst \in Surfaces /\ m.pdu.id \in Pictures
      BY <3>2, PipelineAssumption DEF ProgressivePdu, Pdu, Pictures
    <3>4. Redrawn(Screen, scr)
      BY <3>3, ScreenTyped, PaintIfThereFacts, RedrawnSelf
    <3>5. scr \in {Screen, PaintIfThere(Screen, m.pdu.dst, m.pdu.id)}
      OBVIOUS
    <3> HIDE DEF scr
    <3>6. Result(count, scr)
      BY <1>3, <3>1, <3>2, <3>4, <3>5
    <3> HIDE DEF Result
    <3> QED
      BY <3>6
  <2>2. ASSUME OnH264Submitted(m) PROVE \E c, scr : Result(c, scr)
    <3> DEFINE c == IF m.willOutput THEN count ELSE [count EXCEPT !.painted = @ + 1]
    <3>1. Drain(Settle(c), Screen) /\ TryAckFrames(Settle(c), acks)
      BY <2>2 DEF OnH264Submitted
    <3>2. c \in CountType /\ c.decodes = count.decodes /\ c.settled = count.settled
      BY <1>3 DEF CountType
    <3> HIDE DEF c
    <3>3. Redrawn(Screen, Screen)
      BY ScreenTyped, RedrawnSelf
    <3>4. Result(c, Screen)
      BY <3>1, <3>2, <3>3
    <3> HIDE DEF Result
    <3> QED
      BY <3>4
  <2> QED
    BY <2>1, <2>2
<1>6. PICK c, scr : Result(c, scr)
  BY <1>5
<1>7. Settle(c) \in CountType /\ Settle(c).decodes = count.decodes
      /\ Settle(c).settled = IF count.settled < count.decodes THEN count.settled + 1
                             ELSE count.settled
  BY <1>6, SettleFacts
<1>8. count' = Settle(c) /\ acks' \in Seq(AckType) /\ acked' \in Seq(ReceiptType)
  BY <1>3, <1>6, <1>7, TryAckFacts
<1>9. Draws /\ queue' \in Seq(QueueType)
  BY <1>6, DrainDraws
<1>10. surf' \in [Surfaces -> SurfaceType] /\ cache' \in [Slots -> Pictures \cup {NoPicture}]
  BY <1>9, DrawsTypes
<1>11. pending' \in SUBSET DecodePdu /\ IsFiniteSet(pending')
  BY <1>1, FS_RemoveElement DEF Typed
<1>12. Typed'
  BY <1>1, <1>2, <1>7, <1>8, <1>9, <1>10, <1>11 DEF Typed
<1> QED
  BY <1>1, <1>4, <1>6, <1>7, <1>8, <1>9, <1>12

\* A picture of the worker's decoder is painted.
LEMMA FrameFacts ==
  ASSUME Typed, NEW m, OnH264Frame(m)
  PROVE  /\ Typed' /\ Draws /\ m \in FrameType /\ m.pdu \in VideoPdu /\ Take(m)
         /\ surf' = PaintIfThere(Screen, m.pdu.dst, m.pdu.id).surf
         /\ count'.decodes = count.decodes /\ count'.settled = count.settled
         /\ UNCHANGED <<cache, queue, pending, worker>>
<1>1. /\ Take(m) /\ m.cmd = "h264-frame" /\ UNCHANGED <<cache, queue, pending, worker>>
      /\ surf' = PaintIfThere(Screen, m.pdu.dst, m.pdu.id).surf
      /\ TryAckFrames([count EXCEPT !.painted = @ + 1], acks)
  BY DEF OnH264Frame
<1>2. /\ m \in PostType /\ toPage' \in Seq(PostType)
      /\ UNCHANGED <<setting, host, shown, ran, toWorker, dec, owed>>
  BY <1>1, TakeFacts
<1>3. m \in FrameType /\ m.pdu \in VideoPdu
  BY <1>1, <1>2, PostCases
<1>4. m.pdu.dst \in Surfaces /\ m.pdu.id \in Pictures
  BY <1>3, PipelineAssumption DEF VideoPdu, Pdu, Pictures
<1> DEFINE c == [count EXCEPT !.painted = @ + 1]
<1>5. count \in CountType /\ acks \in Seq(AckType)
  BY DEF Typed
<1>6. c \in CountType /\ c.decodes = count.decodes /\ c.settled = count.settled
  BY <1>5 DEF CountType
<1>7. TryAckFrames(c, acks)
  BY <1>1
<1> HIDE DEF c
<1>8. count' = c /\ acks' \in Seq(AckType) /\ acked' \in Seq(ReceiptType)
  BY <1>5, <1>6, <1>7, TryAckFacts
<1>9. Draws
  <2>1. Redrawn(Screen, PaintIfThere(Screen, m.pdu.dst, m.pdu.id))
        /\ PaintIfThere(Screen, m.pdu.dst, m.pdu.id).cache = cache
    BY <1>4, ScreenTyped, PaintIfThereFacts
  <2>2. PaintIfThere(Screen, m.pdu.dst, m.pdu.id) = [surf |-> surf', cache |-> cache']
    BY <1>1, <2>1, ScreenParts DEF Redrawn
  <2> QED
    BY <2>1, <2>2 DEF Draws
<1>10. surf' \in [Surfaces -> SurfaceType]
  BY <1>9, DrawsTypes
<1>11. Typed'
  BY <1>1, <1>2, <1>6, <1>8, <1>10 DEF Typed
<1> QED
  BY <1>1, <1>3, <1>6, <1>8, <1>9, <1>11

LEMMA NoteFacts ==
  ASSUME Typed, NEW m, OnNeedKeyframe(m)
  PROVE  /\ Typed' /\ m \in PostType /\ m \notin AnswerType /\ m \notin FrameType /\ Take(m)
         /\ count'.decodes = count.decodes /\ count'.settled = count.settled
         /\ UNCHANGED <<surf, cache, queue, pending, worker>>
<1>1. /\ Take(m) /\ m.cmd = "h264-need-keyframe" /\ UNCHANGED <<surf, cache, queue, pending, worker>>
      /\ TryAckFrames([count EXCEPT !.painted = count.submitted], acks)
  BY DEF OnNeedKeyframe
<1>2. /\ m \in PostType /\ toPage' \in Seq(PostType)
      /\ UNCHANGED <<setting, host, shown, ran, toWorker, dec, owed>>
  BY <1>1, TakeFacts
<1>3. m \notin AnswerType /\ m \notin FrameType
  BY <1>1 DEF AnswerType, FrameType
<1> DEFINE c == [count EXCEPT !.painted = count.submitted]
<1>5. count \in CountType /\ acks \in Seq(AckType)
  BY DEF Typed
<1>6. c \in CountType /\ c.decodes = count.decodes /\ c.settled = count.settled
  BY <1>5 DEF CountType
<1>7. TryAckFrames(c, acks)
  BY <1>1
<1> HIDE DEF c
<1>8. count' = c /\ acks' \in Seq(AckType) /\ acked' \in Seq(ReceiptType)
  BY <1>5, <1>6, <1>7, TryAckFacts
<1>9. Typed'
  BY <1>1, <1>2, <1>6, <1>8 DEF Typed
<1> QED
  BY <1>1, <1>2, <1>3, <1>6, <1>8, <1>9

\* The page ends the pipeline.
LEMMA ShutFacts ==
  ASSUME Typed, OnUnsupported \/ Destroy
  PROVE  /\ Typed' /\ worker # "closed" /\ worker' = "closed" /\ toWorker' = <<>> /\ toPage' = <<>>
         /\ surf' = [s \in Surfaces |-> [surf[s] EXCEPT !.dirty = FALSE]]
         /\ UNCHANGED <<setting, host, cache, shown, count, queue, pending, acks, acked, ran,
                        dec, owed>>
<1>1. /\ worker # "closed" /\ worker' = "closed" /\ toWorker' = <<>> /\ toPage' = <<>>
      /\ surf' = [s \in Surfaces |-> [surf[s] EXCEPT !.dirty = FALSE]]
      /\ UNCHANGED <<setting, host, cache, shown, count, queue, pending, acks, acked, ran,
                     dec, owed>>
  BY DEF OnUnsupported, Destroy, Shut, ackVars, videoVars
<1>2. \A s \in Surfaces : [surf[s] EXCEPT !.dirty = FALSE] \in SurfaceType
  BY DEF Typed, SurfaceType
<1>3. surf' \in [Surfaces -> SurfaceType]
  BY <1>1, <1>2
<1>4. <<>> \in Seq(AskType \cup DestroyType) /\ <<>> \in Seq(PostType)
  OBVIOUS
<1>5. Typed'
  BY <1>1, <1>3, <1>4 DEF Typed
<1> QED
  BY <1>1, <1>5

LEMMA AckTimerTyped ==
  ASSUME Typed, AckTimer
  PROVE  /\ Typed' /\ count'.decodes = count.decodes /\ count'.settled = count.settled
         /\ UNCHANGED <<setting, host, surf, cache, shown, queue, pending, worker, ran, toWorker,
                        toPage, dec, owed>>
BY AckTimerFacts DEF AckTimer, pageVars, videoVars, Typed

LEMMA FlushTyped ==
  ASSUME Typed, Flush
  PROVE  /\ Typed' /\ FlushDirty(surf)
         /\ UNCHANGED <<setting, host, cache, count, queue, pending, acks, acked, worker, ran,
                        toWorker, toPage, dec, owed>>
BY FlushTypes DEF Flush, ackVars, videoVars, Typed

LEMMA InitTyped ==
  ASSUME PipelineInit
  PROVE  Typed
<1>1. NoSurface \in SurfaceType /\ 0 \in Pictures
  BY PipelineAssumption DEF NoSurface, SurfaceType, Pictures
<1>2. host \in HostType
  BY PipelineAssumption DEF PipelineInit, HostType, NoPdu
<1>3. count \in CountType
  BY DEF PipelineInit, CountType
<1>4. setting \in Settings /\ worker \in {"up", "off"}
  BY PipelineAssumption DEF PipelineInit
<1>5. IsFiniteSet(pending)
  BY FS_EmptySet DEF PipelineInit
<1>6. /\ \A S : <<>> \in Seq(S)
      /\ queue = <<>> /\ acks = <<>> /\ acked = <<>> /\ toWorker = <<>> /\ toPage = <<>>
  BY DEF PipelineInit
<1>7. owed \in [Surfaces -> Seq(VideoPdu)]
  BY <1>6 DEF PipelineInit
<1>8. /\ surf \in [Surfaces -> SurfaceType] /\ cache \in [Slots -> Pictures \cup {NoPicture}]
      /\ shown \in [Surfaces -> Pictures] /\ pending \in SUBSET DecodePdu /\ ran \in BOOLEAN
      /\ dec \in [Surfaces -> {"none", "started", "unsupported"}]
  BY <1>1 DEF PipelineInit
<1> QED
  BY <1>2, <1>3, <1>4, <1>5, <1>6, <1>7, <1>8 DEF Typed

-----------------------------------------------------------------------------
(* The canvas.                                                             *)

\* The page's surfaces are the ones that the host created, and orphans that
\* are not mapped.
SurfacesAgree ==
  \A s \in Surfaces : /\ surf[s].st = "live" <=> s \in host.live
                      /\ surf[s].st = "gone" => surf[s] = NoSurface
                      /\ surf[s].st = "orphan" => ~surf[s].mapped

Canvas == SurfacesAgree /\ CleanIsShown

\* A surface that is not drawn on stays as it is.
LEMMA SameSurface ==
  ASSUME NEW x \in SurfaceType, NEW y \in SurfaceType, y.st = x.st, y.mapped = x.mapped,
         y.dirty = x.dirty, y.px = x.px, y.touched = x.touched
  PROVE  y = x
BY DEF SurfaceType

\* Drawing keeps the canvas right.
LEMMA DrawsCanvas ==
  ASSUME Typed, Canvas, Draws, host'.live = host.live, shown' = shown, worker' = worker
  PROVE  Canvas'
<1>1. \A s \in Surfaces : surf[s] \in SurfaceType /\ surf'[s] \in SurfaceType
  BY DrawsTypes DEF Typed
<1>2. ASSUME NEW s \in Surfaces
      PROVE  /\ surf'[s].mapped = surf[s].mapped
             /\ \/ surf'[s].st = surf[s].st
                \/ surf[s].st = "gone" /\ surf'[s].st = "orphan"
             /\ \/ surf'[s].dirty /\ surf'[s].st # "gone"
                \/ /\ surf'[s].dirty = surf[s].dirty /\ surf'[s].px = surf[s].px
                   /\ surf'[s].touched = surf[s].touched
  BY DEF Draws, Redrawn, Screen
<1>3. ASSUME NEW s \in Surfaces, surf[s].st = "gone"
      PROVE  ~surf[s].mapped /\ ~surf[s].touched
  BY <1>3 DEF Canvas, SurfacesAgree, NoSurface
<1>4. SurfacesAgree'
  BY <1>2, <1>3, <1>1, SameSurface DEF SurfacesAgree, Canvas
<1>5. CleanIsShown'
  BY <1>2, <1>3 DEF CleanIsShown, Visible, Canvas
<1> QED
  BY <1>4, <1>5 DEF Canvas

LEMMA SameCanvas ==
  ASSUME Canvas, host'.live = host.live, surf' = surf, shown' = shown, worker' = worker
  PROVE  Canvas'
BY DEF Canvas, SurfacesAgree, CleanIsShown, Visible

LEMMA SurfacePduCanvas ==
  ASSUME Typed, Canvas, NEW s \in Surfaces,
         CreateSurface(s) \/ RecreateSurface(s) \/ DeleteSurface(s) \/ MapSurfaceToOutput(s)
  PROVE  Canvas'
<1>0. surf \in [Surfaces -> SurfaceType] /\ surf[s] \in SurfaceType /\ NoSurface \in SurfaceType
      /\ NoSurface.st = "gone" /\ ~NoSurface.mapped /\ ~NoSurface.touched
  BY PipelineAssumption DEF Typed, NoSurface, SurfaceType, Pictures
<1>1. shown' = shown /\ worker' = worker
  BY DEF CreateSurface, RecreateSurface, DeleteSurface, MapSurfaceToOutput, Sends
\* It suffices to look at surface s.
<1>2. ASSUME NEW new \in SurfaceType, surf' = [surf EXCEPT ![s] = new],
             \A t \in Surfaces : t # s => (t \in host'.live <=> t \in host.live),
             new.st = "live" <=> s \in host'.live, new.st = "gone" => new = NoSurface,
             new.st # "orphan",
             new.st # "gone" /\ new.mapped /\ new.touched => new.dirty
      PROVE  Canvas'
  BY <1>0, <1>2, <1>1 DEF Canvas, SurfacesAgree, CleanIsShown, Visible
<1>3. CASE CreateSurface(s)
  <2>1. Sends("create", NoPicture, s)
    BY <1>3 DEF CreateSurface
  <2>2. host'.live = host.live \cup {s} /\ s \notin host.live
    BY <2>1, SendsFacts, SendableFacts DEF Kinds
  <2> DEFINE new == IF surf[s].st = "orphan" THEN [surf[s] EXCEPT !.st = "live", !.dirty = FALSE]
                    ELSE [NoSurface EXCEPT !.st = "live"]
  <2>3. surf' = [surf EXCEPT ![s] = new]
    BY <1>3 DEF CreateSurface
  <2>4. new \in SurfaceType /\ new.st = "live"
    BY <1>0 DEF SurfaceType
  <2>5. ~(new.mapped /\ new.touched)
    BY <1>0 DEF Canvas, SurfacesAgree, SurfaceType
  <2> HIDE DEF new
  <2> QED
    BY <1>2, <2>2, <2>3, <2>4, <2>5
<1>4. CASE RecreateSurface(s)
  <2>1. Sends("recreate", NoPicture, s)
    BY <1>4 DEF RecreateSurface
  <2>2. host'.live = host.live /\ s \in host.live
    BY <2>1, SendsFacts, SendableFacts DEF Kinds
  <2> DEFINE new == [NoSurface EXCEPT !.st = "live"]
  <2>3. surf' = [surf EXCEPT ![s] = new]
    BY <1>4 DEF RecreateSurface
  <2>4. new \in SurfaceType /\ new.st = "live" /\ ~new.mapped
    BY <1>0 DEF SurfaceType
  <2> HIDE DEF new
  <2> QED
    BY <1>2, <2>2, <2>3, <2>4
<1>5. CASE DeleteSurface(s)
  <2>1. Sends("delete", NoPicture, s)
    BY <1>5 DEF DeleteSurface
  <2>2. host'.live = host.live \ {s}
    BY <2>1, SendsFacts DEF Kinds
  <2>3. surf' = [surf EXCEPT ![s] = NoSurface]
    BY <1>5 DEF DeleteSurface
  <2> QED
    BY <1>0, <1>2, <2>2, <2>3
<1>6. CASE MapSurfaceToOutput(s)
  <2>1. Sends("map", NoPicture, s)
    BY <1>6 DEF MapSurfaceToOutput
  <2>2. host'.live = host.live /\ s \in host.live
    BY <2>1, SendsFacts, SendableFacts DEF Kinds
  <2> DEFINE new == [surf[s] EXCEPT !.mapped = TRUE, !.dirty = surf[s].st # "gone"]
  <2>3. surf' = [surf EXCEPT ![s] = new]
    BY <1>0, <1>6 DEF MapSurfaceToOutput
  <2>4. surf[s].st = "live"
    BY <2>2 DEF Canvas, SurfacesAgree
  <2>5. new \in SurfaceType /\ new.st = "live" /\ new.dirty
    BY <1>0, <2>4 DEF SurfaceType
  <2> HIDE DEF new
  <2> QED
    BY <1>2, <2>2, <2>3, <2>5
<1> QED
  BY <1>3, <1>4, <1>5, <1>6

\* What is cleared or flushed is on the canvas.
LEMMA FlushCanvas ==
  ASSUME Typed, Canvas, host'.live = host.live, worker' = worker \/ worker' = "closed",
         surf' = [s \in Surfaces |-> [surf[s] EXCEPT !.dirty = FALSE]],
         worker' # "closed" => \A s \in Surfaces :
           \/ ~Visible(surf[s])
           \/ shown'[s] = surf[s].px
           \/ ~surf[s].dirty /\ shown'[s] = shown[s]
  PROVE  Canvas'
<1>1. \A s \in Surfaces : surf[s] \in SurfaceType
  BY DEF Typed
<1>2. \A s \in Surfaces :
        /\ surf'[s] = [surf[s] EXCEPT !.dirty = FALSE]
        /\ surf'[s].st = surf[s].st /\ surf'[s].mapped = surf[s].mapped
        /\ surf'[s].px = surf[s].px /\ surf'[s].touched = surf[s].touched
  BY <1>1 DEF SurfaceType
<1>3. NoSurface \in SurfaceType /\ [NoSurface EXCEPT !.dirty = FALSE] = NoSurface
  <2>1. NoSurface \in SurfaceType /\ ~NoSurface.dirty
    BY PipelineAssumption DEF NoSurface, SurfaceType, Pictures
  <2>2. \A x \in SurfaceType : ~x.dirty => [x EXCEPT !.dirty = FALSE] = x
    BY DEF SurfaceType
  <2> QED
    BY <2>1, <2>2
<1>4. SurfacesAgree'
  BY <1>2, <1>3 DEF Canvas, SurfacesAgree
<1>5. CleanIsShown'
  BY <1>2 DEF CleanIsShown, Visible, Canvas
<1> QED
  BY <1>4, <1>5 DEF Canvas

-----------------------------------------------------------------------------
(* The messages between the page and its worker.                           *)

LEMMA AppendAt ==
  ASSUME NEW S, NEW q \in Seq(S), NEW a \in S
  PROVE  /\ Append(q, a) \in Seq(S) /\ Len(Append(q, a)) = Len(q) + 1 /\ Len(q) \in Nat
         /\ Append(q, a)[Len(q) + 1] = a
         /\ \A i \in 1..Len(q) : Append(q, a)[i] = q[i]
OBVIOUS

LEMMA TailAt ==
  ASSUME NEW S, NEW q \in Seq(S), q # <<>>
  PROVE  /\ Tail(q) \in Seq(S) /\ Len(q) \in Nat \ {0} /\ Len(Tail(q)) = Len(q) - 1
         /\ Head(q) = q[1] /\ Head(q) \in S
         /\ \A i \in 1..Len(Tail(q)) : i + 1 \in 1..Len(q) /\ Tail(q)[i] = q[i + 1]
OBVIOUS

\* Message i of the page, or of the worker, is about decode p.
Answers(tp, i, p) == i \in 1..Len(tp) /\ tp[i] \in AnswerType /\ tp[i].pdu = p
Asks(tw, i, p)    == i \in 1..Len(tw) /\ tw[i] \in AskType /\ tw[i].pdu = p

\* The decodes that are asked and answered are pending ones, in their order.
Fifo(tp, tw, pd) ==
  /\ \A i, j, p, q : Answers(tp, i, p) /\ Answers(tp, j, q) /\ i < j => p.id < q.id
  /\ \A i, j, p, q : Asks(tw, i, p) /\ Asks(tw, j, q) /\ i < j => p.id < q.id
  /\ \A i, j, p, q : Answers(tp, i, p) /\ Asks(tw, j, q) => p.id < q.id
  /\ \A i, p : Answers(tp, i, p) \/ Asks(tw, i, p) => p \in pd

\* Every pending decode is asked, or answered.
AllAsked(tp, tw, pd) == \A p \in pd : \E i : Answers(tp, i, p) \/ Asks(tw, i, p)

\* A message after an Append or a Tail.
LEMMA AnswersAppend ==
  ASSUME NEW tp \in Seq(PostType), NEW m \in PostType
  PROVE  \A i, p : Answers(Append(tp, m), i, p) <=>
                     \/ Answers(tp, i, p)
                     \/ i = Len(tp) + 1 /\ m \in AnswerType /\ m.pdu = p
<1> DEFINE q == Append(tp, m)
<1>1. Len(q) = Len(tp) + 1 /\ Len(tp) \in Nat /\ q[Len(tp) + 1] = m
      /\ \A i \in 1..Len(tp) : q[i] = tp[i]
  BY AppendAt
<1> HIDE DEF q
<1>2. \A i : i \in 1..Len(q) <=> i \in 1..Len(tp) \/ i = Len(tp) + 1
  BY <1>1
<1>3. ~(Len(tp) + 1 \in 1..Len(tp))
  BY <1>1
<1>4. \A i, p : Answers(q, i, p) <=>
                     \/ Answers(tp, i, p)
                     \/ i = Len(tp) + 1 /\ m \in AnswerType /\ m.pdu = p
  BY <1>1, <1>2, <1>3 DEF Answers
<1> QED
  BY <1>4 DEF q

LEMMA AsksAppend ==
  ASSUME NEW tw \in Seq(AskType \cup DestroyType), NEW m \in AskType \cup DestroyType
  PROVE  \A i, p : Asks(Append(tw, m), i, p) <=>
                     \/ Asks(tw, i, p)
                     \/ i = Len(tw) + 1 /\ m \in AskType /\ m.pdu = p
<1> DEFINE q == Append(tw, m)
<1>1. Len(q) = Len(tw) + 1 /\ Len(tw) \in Nat /\ q[Len(tw) + 1] = m
      /\ \A i \in 1..Len(tw) : q[i] = tw[i]
  BY AppendAt
<1> HIDE DEF q
<1>2. \A i : i \in 1..Len(q) <=> i \in 1..Len(tw) \/ i = Len(tw) + 1
  BY <1>1
<1>3. ~(Len(tw) + 1 \in 1..Len(tw))
  BY <1>1
<1>4. \A i, p : Asks(q, i, p) <=>
                     \/ Asks(tw, i, p)
                     \/ i = Len(tw) + 1 /\ m \in AskType /\ m.pdu = p
  BY <1>1, <1>2, <1>3 DEF Asks
<1> QED
  BY <1>4 DEF q

LEMMA AnswersTail ==
  ASSUME NEW tp \in Seq(PostType), tp # <<>>
  PROVE  /\ \A i, p : Answers(Tail(tp), i, p) => Answers(tp, i + 1, p)
         /\ \A i, p : Answers(tp, i, p) =>
              \/ i = 1 /\ Head(tp) \in AnswerType /\ Head(tp).pdu = p
              \/ Answers(Tail(tp), i - 1, p)
         /\ \A p : Head(tp) \in AnswerType /\ Head(tp).pdu = p => Answers(tp, 1, p)
<1> DEFINE q == Tail(tp)
<1>1. /\ Len(tp) \in Nat \ {0} /\ Len(q) = Len(tp) - 1 /\ Head(tp) = tp[1]
      /\ \A i \in 1..Len(q) : i + 1 \in 1..Len(tp) /\ q[i] = tp[i + 1]
  BY TailAt
<1> HIDE DEF q
<1>2. \A i \in 1..Len(tp) : i = 1 \/ (i - 1 \in 1..Len(q) /\ q[i - 1] = tp[i])
  BY <1>1
<1>3. 1 \in 1..Len(tp)
  BY <1>1
<1>4. /\ \A i, p : Answers(q, i, p) => Answers(tp, i + 1, p)
      /\ \A i, p : Answers(tp, i, p) =>
              \/ i = 1 /\ Head(tp) \in AnswerType /\ Head(tp).pdu = p
              \/ Answers(q, i - 1, p)
      /\ \A p : Head(tp) \in AnswerType /\ Head(tp).pdu = p => Answers(tp, 1, p)
  BY <1>1, <1>2, <1>3 DEF Answers
<1> QED
  BY <1>4 DEF q

LEMMA AsksTail ==
  ASSUME NEW tw \in Seq(AskType \cup DestroyType), tw # <<>>
  PROVE  /\ \A i, p : Asks(Tail(tw), i, p) => Asks(tw, i + 1, p)
         /\ \A i, p : Asks(tw, i, p) =>
              \/ i = 1 /\ Head(tw) \in AskType /\ Head(tw).pdu = p
              \/ Asks(Tail(tw), i - 1, p)
         /\ \A p : Head(tw) \in AskType /\ Head(tw).pdu = p => Asks(tw, 1, p)
<1> DEFINE q == Tail(tw)
<1>1. /\ Len(tw) \in Nat \ {0} /\ Len(q) = Len(tw) - 1 /\ Head(tw) = tw[1]
      /\ \A i \in 1..Len(q) : i + 1 \in 1..Len(tw) /\ q[i] = tw[i + 1]
  BY TailAt
<1> HIDE DEF q
<1>2. \A i \in 1..Len(tw) : i = 1 \/ (i - 1 \in 1..Len(q) /\ q[i - 1] = tw[i])
  BY <1>1
<1>3. 1 \in 1..Len(tw)
  BY <1>1
<1>4. /\ \A i, p : Asks(q, i, p) => Asks(tw, i + 1, p)
      /\ \A i, p : Asks(tw, i, p) =>
              \/ i = 1 /\ Head(tw) \in AskType /\ Head(tw).pdu = p
              \/ Asks(q, i - 1, p)
      /\ \A p : Head(tw) \in AskType /\ Head(tw).pdu = p => Asks(tw, 1, p)
  BY <1>1, <1>2, <1>3 DEF Asks
<1> QED
  BY <1>4 DEF q

LEMMA Indices ==
  /\ \A tp, i, p : Answers(tp, i, p) => i \in Int /\ i \in 1..Len(tp)
  /\ \A tw, i, p : Asks(tw, i, p) => i \in Int /\ i \in 1..Len(tw)
BY DEF Answers, Asks

\* A decode is asked.
LEMMA FifoAsk ==
  ASSUME NEW tp \in Seq(PostType), NEW tw \in Seq(AskType \cup DestroyType), NEW pd,
         NEW m \in AskType, Fifo(tp, tw, pd), \A p \in pd : p.id < m.pdu.id
  PROVE  /\ Fifo(tp, Append(tw, m), pd \cup {m.pdu})
         /\ AllAsked(tp, tw, pd) => AllAsked(tp, Append(tw, m), pd \cup {m.pdu})
<1> DEFINE w == Append(tw, m)
<1>1. Len(tw) \in Nat
  OBVIOUS
<1>2. \A i, p : Asks(w, i, p) <=> \/ Asks(tw, i, p)
                                  \/ i = Len(tw) + 1 /\ m.pdu = p
  BY AsksAppend
<1> HIDE DEF w
<1>3. Fifo(tp, w, pd \cup {m.pdu})
  BY <1>1, Indices, <1>2 DEF Fifo
<1>4. ASSUME AllAsked(tp, tw, pd) PROVE AllAsked(tp, w, pd \cup {m.pdu})
  BY <1>2, <1>4 DEF AllAsked
<1> QED
  BY <1>3, <1>4 DEF w

\* The worker is told to forget a surface.
LEMMA FifoDestroy ==
  ASSUME NEW tp \in Seq(PostType), NEW tw \in Seq(AskType \cup DestroyType), NEW pd,
         NEW m \in DestroyType, Fifo(tp, tw, pd)
  PROVE  /\ Fifo(tp, Append(tw, m), pd)
         /\ AllAsked(tp, tw, pd) => AllAsked(tp, Append(tw, m), pd)
BY AsksAppend DEF AskType, DestroyType, Fifo, AllAsked

\* A picture or a note is posted.
LEMMA FifoPost ==
  ASSUME NEW tp \in Seq(PostType), NEW tw, NEW pd,
         NEW m \in PostType, m \notin AnswerType, Fifo(tp, tw, pd)
  PROVE  /\ Fifo(Append(tp, m), tw, pd)
         /\ AllAsked(tp, tw, pd) => AllAsked(Append(tp, m), tw, pd)
BY AnswersAppend DEF Fifo, AllAsked

\* The worker answers its first message.
LEMMA FifoAnswer ==
  ASSUME NEW tp \in Seq(PostType), NEW tw \in Seq(AskType \cup DestroyType), NEW pd, tw # <<>>,
         Head(tw) \in AskType, NEW a \in AnswerType, a.pdu = Head(tw).pdu, Fifo(tp, tw, pd)
  PROVE  /\ Fifo(Append(tp, a), Tail(tw), pd)
         /\ AllAsked(tp, tw, pd) => AllAsked(Append(tp, a), Tail(tw), pd)
<1> DEFINE t == Append(tp, a)
           w == Tail(tw)
<1>1. Len(tp) \in Nat
  OBVIOUS
<1>2. \A i, p : Answers(t, i, p) <=> \/ Answers(tp, i, p)
                                     \/ i = Len(tp) + 1 /\ a.pdu = p
  BY AnswersAppend DEF PostType
<1>3. /\ \A i, p : Asks(w, i, p) => Asks(tw, i + 1, p)
      /\ \A i, p : Asks(tw, i, p) => (i = 1 /\ Head(tw).pdu = p) \/ Asks(w, i - 1, p)
      /\ Asks(tw, 1, a.pdu)
  BY AsksTail
<1> HIDE DEF t, w
<1>4. Fifo(t, w, pd)
  <2>1. ASSUME NEW i, NEW j, NEW p, NEW q, Answers(t, i, p), Answers(t, j, q), i < j
        PROVE p.id < q.id
    BY <2>1, <1>3, <1>1, Indices, <1>2 DEF Fifo
  <2>2. ASSUME NEW i, NEW j, NEW p, NEW q, Asks(w, i, p), Asks(w, j, q), i < j PROVE p.id < q.id
    <3>1. i \in Int /\ j \in Int /\ i + 1 < j + 1
      BY <2>2, Indices
    <3>2. Asks(tw, i + 1, p) /\ Asks(tw, j + 1, q)
      BY <1>3, <2>2
    <3> QED
      BY <3>1, <3>2 DEF Fifo
  <2>3. ASSUME NEW i, NEW j, NEW p, NEW q, Answers(t, i, p), Asks(w, j, q) PROVE p.id < q.id
    <3>1. Asks(tw, j + 1, q) /\ 1 < j + 1
      BY <1>3, <2>3, Indices
    <3> QED
      BY <1>2, <1>3, <2>3, <3>1 DEF Fifo
  <2>4. \A i, p : Answers(t, i, p) \/ Asks(w, i, p) => p \in pd
    BY <1>2, <1>3 DEF Fifo
  <2> QED
    BY <2>1, <2>2, <2>3, <2>4 DEF Fifo
<1>5. AllAsked(tp, tw, pd) => AllAsked(t, w, pd)
  BY <1>2, <1>3 DEF AllAsked
<1> QED
  BY <1>4, <1>5 DEF t, w

\* It forgets a surface.
LEMMA FifoForget ==
  ASSUME NEW tp, NEW tw \in Seq(AskType \cup DestroyType), NEW pd, tw # <<>>,
         Head(tw) \notin AskType, Fifo(tp, tw, pd)
  PROVE  /\ Fifo(tp, Tail(tw), pd)
         /\ AllAsked(tp, tw, pd) => AllAsked(tp, Tail(tw), pd)
<1> DEFINE w == Tail(tw)
<1>1. /\ \A i, p : Asks(w, i, p) => Asks(tw, i + 1, p)
      /\ \A i, p : Asks(tw, i, p) => Asks(w, i - 1, p)
  BY AsksTail
<1> HIDE DEF w
<1>2. ASSUME NEW i, NEW j, NEW p, NEW q, Asks(w, i, p), Asks(w, j, q), i < j PROVE p.id < q.id
  <2>1. i \in Int /\ j \in Int /\ i + 1 < j + 1
    BY <1>2, Indices
  <2>2. Asks(tw, i + 1, p) /\ Asks(tw, j + 1, q)
    BY <1>1, <1>2
  <2> QED
    BY <2>1, <2>2 DEF Fifo
<1>3. Fifo(tp, w, pd)
  BY <1>1, <1>2 DEF Fifo
<1>4. AllAsked(tp, tw, pd) => AllAsked(tp, w, pd)
  BY <1>1 DEF AllAsked
<1> QED
  BY <1>3, <1>4 DEF w

\* The page takes an answer: it is about the oldest decode that is pending.
LEMMA FifoTake ==
  ASSUME NEW tp \in Seq(PostType), NEW tw \in Seq(AskType \cup DestroyType), NEW pd, tp # <<>>,
         Head(tp) \in AnswerType, Fifo(tp, tw, pd)
  PROVE  LET left == pd \ {Head(tp).pdu}
         IN /\ Head(tp).pdu \in pd
            /\ Fifo(Tail(tp), tw, left)
            /\ AllAsked(tp, tw, pd) => /\ AllAsked(Tail(tp), tw, left)
                                       /\ \A p \in left : Head(tp).pdu.id < p.id
<1> DEFINE t == Tail(tp)
           a == Head(tp).pdu
<1>1. /\ \A i, p : Answers(t, i, p) => Answers(tp, i + 1, p)
      /\ \A i, p : Answers(tp, i, p) => (i = 1 /\ a = p) \/ Answers(t, i - 1, p)
      /\ Answers(tp, 1, a)
  BY AnswersTail
<1>2. \A i, p : Answers(t, i, p) => i + 1 \in Int /\ 1 < i + 1
  BY Indices
<1>3. \A m \in AnswerType \cup AskType : m.pdu.id \in Int
  BY PipelineAssumption DEF AnswerType, AskType, VideoPdu, ProgressivePdu, Pdu
<1> HIDE DEF t, a
<1>4. a \in pd
  BY <1>1 DEF Fifo
<1>5. \A i, p : Answers(t, i, p) \/ Asks(tw, i, p) => a.id < p.id
  BY <1>1, <1>2 DEF Fifo
<1>6. \A i, p : Answers(t, i, p) \/ Asks(tw, i, p) => p # a
  BY <1>3, <1>5 DEF Answers, Asks
<1>7. ASSUME NEW i, NEW j, NEW p, NEW q, Answers(t, i, p), Answers(t, j, q), i < j PROVE p.id < q.id
  <2>1. i \in Int /\ j \in Int /\ i + 1 < j + 1
    BY <1>7, Indices
  <2>2. Answers(tp, i + 1, p) /\ Answers(tp, j + 1, q)
    BY <1>1, <1>7
  <2> QED
    BY <2>1, <2>2 DEF Fifo
<1>8. Fifo(t, tw, pd \ {a})
  BY <1>1, <1>6, <1>7 DEF Fifo
<1>9. ASSUME AllAsked(tp, tw, pd), NEW p \in pd \ {a}
      PROVE  \E i : Answers(t, i, p) \/ Asks(tw, i, p)
  BY <1>1, <1>9 DEF AllAsked
<1>10. AllAsked(tp, tw, pd) => AllAsked(t, tw, pd \ {a}) /\ \A p \in pd \ {a} : a.id < p.id
  BY <1>5, <1>9 DEF AllAsked
<1> QED
  BY <1>4, <1>8, <1>10 DEF t, a

\* The page takes a picture or a note.
LEMMA FifoSkip ==
  ASSUME NEW tp \in Seq(PostType), NEW tw, NEW pd, tp # <<>>,
         Head(tp) \notin AnswerType, Fifo(tp, tw, pd)
  PROVE  /\ Fifo(Tail(tp), tw, pd)
         /\ AllAsked(tp, tw, pd) => AllAsked(Tail(tp), tw, pd)
<1> DEFINE t == Tail(tp)
<1>1. /\ \A i, p : Answers(t, i, p) => Answers(tp, i + 1, p)
      /\ \A i, p : Answers(tp, i, p) => Answers(t, i - 1, p)
  BY AnswersTail
<1> HIDE DEF t
<1>2. ASSUME NEW i, NEW j, NEW p, NEW q, Answers(t, i, p), Answers(t, j, q), i < j PROVE p.id < q.id
  <2>1. i \in Int /\ j \in Int /\ i + 1 < j + 1
    BY <1>2, Indices
  <2>2. Answers(tp, i + 1, p) /\ Answers(tp, j + 1, q)
    BY <1>1, <1>2
  <2> QED
    BY <2>1, <2>2 DEF Fifo
<1>3. Fifo(t, tw, pd)
  BY <1>1, <1>2 DEF Fifo
<1>4. AllAsked(tp, tw, pd) => AllAsked(t, tw, pd)
  BY <1>1 DEF AllAsked
<1> QED
  BY <1>3, <1>4 DEF t
-----------------------------------------------------------------------------
(* The barrier.                                                            *)

\* The decodes in flight are older than what the host sends next.
Known == \A p \in pending : p.id <= host.sent.id

\* Without a worker there are no messages, and before it runs none of its own.
Workers ==
  /\ worker # "up" => toWorker = <<>> /\ toPage = <<>>
  /\ worker = "up" /\ ~ran => toPage = <<>> /\ \A s \in Surfaces : owed[s] = <<>>

Messages ==
  /\ Known /\ Workers /\ BarrierExact
  /\ Fifo(toPage, toWorker, pending)
  /\ worker = "up" => AllAsked(toPage, toWorker, pending)

LEMMA NoMessages == \A pd : Fifo(<<>>, <<>>, pd)
BY DEF Answers, Asks, Fifo

\* A step that leaves the decodes and their messages alone.
LEMMA SameMessages ==
  ASSUME Messages, pending' = pending, toPage' = toPage, toWorker' = toWorker,
         worker' = worker, ran' = ran, host'.sent.id \in Nat, host.sent.id \in Nat,
         host.sent.id <= host'.sent.id, Typed,
         count'.decodes = count.decodes /\ count'.settled = count.settled,
         worker = "up" /\ ~ran => \A s \in Surfaces : owed'[s] \in {owed[s], <<>>}
  PROVE  Messages'
<1>1. \A p \in pending : p.id \in Nat
  BY PipelineAssumption DEF Typed, DecodePdu, VideoPdu, ProgressivePdu, Pdu
<1>2. Known'
  BY <1>1 DEF Messages, Known
<1>3. Workers' /\ BarrierExact'
  BY DEF Messages, Workers, BarrierExact
<1> QED
  BY <1>2, <1>3 DEF Messages

LEMMA HostIds ==
  ASSUME Typed
  PROVE  host.sent.id \in Nat /\ \A p \in pending : p.id \in Nat
BY PipelineAssumption DEF Typed, HostType, NoPdu, DecodePdu, VideoPdu, ProgressivePdu, Pdu

\* PDUs that are not decodes.
LEMMA PlainMessages ==
  ASSUME Typed, Messages,
         \/ \E k \in Ordered, a, b \in Surfaces \cup Slots \cup {NoPicture} : DispatchOrdered(k, a, b)
         \/ ResetGraphics \/ EndFrame
         \/ \E s \in Surfaces : MapSurfaceToOutput(s) \/ CreateSurface(s)
  PROVE  Messages'
<1>1. PICK k \in Kinds, a \in Surfaces \cup Slots \cup {NoPicture},
           b \in Surfaces \cup Slots \cup {NoPicture} : Sends(k, a, b)
  BY DEF DispatchOrdered, ResetGraphics, EndFrame, MapSurfaceToOutput, CreateSurface, Kinds, Ordered
<1>2. host'.sent.id = host.sent.id + 1 /\ host.sent.id \in Nat /\ worker' = worker /\ ran' = ran
      /\ toPage' = toPage
  BY <1>1, SendsFacts
<1>3. UNCHANGED <<pending, toWorker, owed>>
  BY DEF DispatchOrdered, ResetGraphics, EndFrame, MapSurfaceToOutput, CreateSurface, videoVars
<1>4. count' = count
  BY EndFrameTyped DEF DispatchOrdered, ResetGraphics, MapSurfaceToOutput, CreateSurface
<1> QED
  BY <1>2, <1>3, <1>4, SameMessages

\* PDUs that destroy a surface.
LEMMA DestroyMessages ==
  ASSUME Typed, Messages, NEW s \in Surfaces, RecreateSurface(s) \/ DeleteSurface(s)
  PROVE  Messages'
<1>1. PICK k \in {"recreate", "delete"} : Sends(k, NoPicture, s)
  BY DEF RecreateSurface, DeleteSurface
<1>2. host'.sent.id = host.sent.id + 1 /\ host.sent.id \in Nat /\ worker' = worker /\ ran' = ran
      /\ toPage' = toPage
  BY <1>1, SendsFacts DEF Kinds
<1>3. DestroySurface(s) /\ count' = count /\ pending' = pending
  BY DEF RecreateSurface, DeleteSurface
<1>4. CASE worker # "up"
  BY <1>2, <1>3, <1>4, SameMessages DEF DestroySurface
<1>5. CASE worker = "up"
  <2> DEFINE m == [cmd |-> "destroy", surface |-> s]
  <2>1. toWorker' = Append(toWorker, m) /\ owed' = owed
    BY <1>3, <1>5 DEF DestroySurface, videoVars
  <2>2. m \in DestroyType
    BY DEF DestroyType
  <2> HIDE DEF m
  <2>3. toPage \in Seq(PostType) /\ toWorker \in Seq(AskType \cup DestroyType)
    BY DEF Typed
  <2>4. Fifo(toPage', toWorker', pending') /\ AllAsked(toPage', toWorker', pending')
    BY <1>2, <1>3, <1>5, <2>1, <2>2, <2>3, FifoDestroy DEF Messages
  <2>5. Known' /\ Workers' /\ BarrierExact'
    BY <1>2, <1>3, <1>5, <2>1, HostIds DEF Messages, Known, Workers, BarrierExact
  <2> QED
    BY <2>4, <2>5 DEF Messages
<1> QED
  BY <1>4, <1>5

\* A decode is counted and is pending, once.
LEMMA AskMessages ==
  ASSUME Typed, Messages, NEW s \in Surfaces,
         DecodeProgressive(s) \/ \E k \in Video : DecodeAvc420(k, s)
  PROVE  Messages'
<1> DEFINE p == host'.sent
<1>1. PICK k \in {"progressive"} \cup Video : Sends(k, NoPicture, s)
  BY AskFacts
<1>2. Asked(s)
  BY AskFacts
<1>3. host.sent.id \in Nat /\ worker' = worker /\ ran' = ran /\ toPage' = toPage
  BY <1>1, SendsFacts DEF Kinds, Video
<1>4. PICK m \in AskType : m.pdu = p /\ toWorker' = Append(toWorker, m)
  BY <1>2 DEF Asked
<1>5. worker = "up" /\ p.id = host.sent.id + 1 /\ pending' = pending \cup {p} /\ owed' = owed
      /\ count'.decodes = count.decodes + 1 /\ count'.settled = count.settled
  BY <1>2 DEF Asked
<1> HIDE DEF p
<1>6. \A q \in pending : q.id < p.id /\ q.id \in Nat
  BY <1>3, <1>5, HostIds DEF Messages, Known
<1>7. p \notin pending
  BY <1>3, <1>5, <1>6
<1>8. toPage \in Seq(PostType) /\ toWorker \in Seq(AskType \cup DestroyType)
  BY DEF Typed
<1>9. Fifo(toPage', toWorker', pending') /\ AllAsked(toPage', toWorker', pending')
  BY <1>3, <1>4, <1>5, <1>6, <1>8, FifoAsk DEF Messages
<1>10. BarrierExact'
  <2>1. Cardinality(pending') = Cardinality(pending) + 1
    BY <1>5, <1>7, FS_AddElement DEF Typed
  <2>2. Cardinality(pending) \in Nat /\ count.settled \in Nat /\ count.decodes \in Nat
    BY FS_CardinalityType DEF Typed, CountType
  <2> QED
    BY <1>5, <2>1, <2>2 DEF Messages, BarrierExact
<1>11. Known'
  BY <1>3, <1>5, <1>6 DEF Known, p
<1>12. Workers'
  BY <1>3, <1>5 DEF Messages, Workers
<1> QED
  BY <1>3, <1>5, <1>9, <1>10, <1>11, <1>12 DEF Messages

\* A decode on the page is settled at once.
LEMMA SyncMessages ==
  ASSUME Typed, Messages, NEW s \in Surfaces, DecodeProgressiveSync(s)
  PROVE  Messages' /\ count'.settled = count.settled + 1
<1>1. /\ worker # "up" /\ Sends("progressive", NoPicture, s)
      /\ count'.decodes = count.decodes + 1
      /\ count'.settled = IF count.settled < count.decodes + 1 THEN count.settled + 1
                          ELSE count.settled
      /\ UNCHANGED <<pending, toWorker>>
  BY SyncFacts
<1>2. host'.sent.id = host.sent.id + 1 /\ host.sent.id \in Nat /\ worker' = worker /\ ran' = ran
      /\ toPage' = toPage
  BY <1>1, SendsFacts DEF Kinds
<1>3. Cardinality(pending) \in Nat /\ count.settled \in Nat /\ count.decodes \in Nat
  BY FS_CardinalityType DEF Typed, CountType
<1>4. count'.settled = count.settled + 1 /\ BarrierExact'
  BY <1>1, <1>3 DEF Messages, BarrierExact
<1>5. Known' /\ Workers'
  BY <1>1, <1>2, HostIds DEF Messages, Known, Workers
<1> QED
  BY <1>1, <1>2, <1>4, <1>5 DEF Messages

\* The H.264 decoder of the page.
LEMMA PageVideoMessages ==
  ASSUME Typed, Messages, NEW s \in Surfaces, NEW k \in Video, DecodeAvc420Page(k, s)
  PROVE  Messages'
<1>1. worker # "up" /\ Sends(k, NoPicture, s) /\ UNCHANGED <<count, pending, toWorker>>
  BY PageVideoFacts
<1>2. host'.sent.id = host.sent.id + 1 /\ host.sent.id \in Nat /\ worker' = worker /\ ran' = ran
      /\ toPage' = toPage
  BY <1>1, SendsFacts DEF Kinds, Video
<1> QED
  BY <1>1, <1>2, SameMessages

\* The decoders of the worker post pictures and notes.
LEMMA OutputMessages ==
  ASSUME Typed, Messages, NEW s \in Surfaces, VideoOutput(s) \/ VideoError(s)
  PROVE  Messages'
<1>1. UNCHANGED <<host, count, pending, worker, ran, toWorker>>
  BY VideoOutputFacts, VideoErrorFacts
<1>2. host.sent.id \in Nat /\ owed \in [Surfaces -> Seq(VideoPdu)]
  BY HostIds DEF Typed
<1>3. toPage \in Seq(PostType) /\ toWorker \in Seq(AskType \cup DestroyType)
  BY DEF Typed
<1>4. owed[s] # <<>>
  BY DEF VideoOutput, VideoError
<1>5. worker = "up" => ran
  BY <1>4 DEF Messages, Workers, Typed
<1>6. \/ toPage' = toPage
      \/ worker = "up" /\ \E m \in PostType : m \notin AnswerType /\ toPage' = Append(toPage, m)
  <2>1. CASE VideoOutput(s)
    <3> DEFINE m == [cmd |-> "h264-frame", pdu |-> Head(owed[s])]
    <3>1. IF worker = "up" THEN toPage' = Append(toPage, m) ELSE toPage' = toPage
      BY <2>1, VideoOutputFacts
    <3>2. Head(owed[s]) \in VideoPdu
      BY <2>1, VideoOutputFacts
    <3>3. m \in PostType /\ m \notin AnswerType
      BY <3>2 DEF PostType, FrameType, AnswerType
    <3> HIDE DEF m
    <3> QED
      BY <3>1, <3>3
  <2>2. CASE VideoError(s)
    BY <2>2, VideoErrorFacts DEF PostType, NoteType, AnswerType
  <2> QED
    BY <2>1, <2>2
<1>7. CASE toPage' = toPage
  BY <1>1, <1>2, <1>5, <1>7, SameMessages
<1>8. ASSUME worker = "up", NEW m \in PostType, m \notin AnswerType, toPage' = Append(toPage, m)
      PROVE  Messages'
  BY <1>1, <1>3, <1>8, FifoPost, <1>5 DEF Messages, Known, Workers, BarrierExact
<1> QED
  BY <1>6, <1>7, <1>8

\* The worker takes its messages in their order.
LEMMA WorkerStepMessages ==
  ASSUME Typed, Messages, WorkerStep
  PROVE  Messages'
<1> DEFINE m == Head(toWorker)
<1>1. /\ worker = "up" /\ ran' /\ toWorker # <<>> /\ toWorker' = Tail(toWorker)
      /\ (\E a \in AnswerType : Answered(m, a)) \/ Forgotten(m)
      /\ UNCHANGED <<host, count, pending, worker>>
  BY WorkerStepFacts
<1>2. toPage \in Seq(PostType) /\ toWorker \in Seq(AskType \cup DestroyType)
  BY DEF Typed
<1> HIDE DEF m
<1>3. Fifo(toPage, toWorker, pending) /\ AllAsked(toPage, toWorker, pending)
  BY <1>1 DEF Messages
<1>4. Fifo(toPage', toWorker', pending') /\ AllAsked(toPage', toWorker', pending')
  <2>1. ASSUME NEW a \in AnswerType, Answered(m, a)
        PROVE  Fifo(toPage', toWorker', pending') /\ AllAsked(toPage', toWorker', pending')
    <3>1. m \in AskType /\ a.pdu = m.pdu
      BY <2>1 DEF Answered
    <3>2. CASE toPage' = Append(toPage, a)
      BY <1>1, <1>2, <1>3, <3>1, <3>2, FifoAnswer DEF m
    <3>3. ASSUME NEW n \in NoteType, toPage' = Append(Append(toPage, n), a)
          PROVE  Fifo(toPage', toWorker', pending') /\ AllAsked(toPage', toWorker', pending')
      <4>1. n \in PostType /\ n \notin AnswerType
        BY DEF PostType, NoteType, AnswerType
      <4> DEFINE t == Append(toPage, n)
      <4>2. Fifo(t, toWorker, pending) /\ AllAsked(t, toWorker, pending) /\ t \in Seq(PostType)
        BY <1>2, <1>3, <4>1, FifoPost
      <4>3. toPage' = Append(t, a)
        BY <3>3
      <4> HIDE DEF t
      <4> QED
        BY <1>1, <1>2, <3>1, <4>2, <4>3, FifoAnswer DEF m
    <3> QED
      BY <2>1, <3>2, <3>3 DEF Answered
  <2>2. CASE Forgotten(m)
    BY <2>2, <1>1, <1>2, <1>3, FifoForget DEF Forgotten, AskType, DestroyType, m
  <2> QED
    BY <1>1, <2>1, <2>2
<1>5. Known' /\ Workers' /\ BarrierExact'
  BY <1>1 DEF Messages, Known, Workers, BarrierExact
<1> QED
  BY <1>4, <1>5 DEF Messages

\* The worker is gone, and its messages with it.
LEMMA LossMessages ==
  ASSUME Typed, Messages, WorkerError \/ OnUnsupported \/ Destroy
  PROVE  Messages'
BY WorkerErrorFacts, ShutFacts, NoMessages DEF Messages, Workers, Known, BarrierExact

\* An answer settles the oldest pending decode.
LEMMA AnswerMessages ==
  ASSUME Typed, Messages, NEW m, OnProgressiveResult(m) \/ OnH264Submitted(m)
  PROVE  /\ Messages' /\ count'.settled = count.settled + 1 /\ m.pdu \in pending
         /\ worker = "up" /\ \A p \in pending' : m.pdu.id < p.id
<1>1. /\ m \in AnswerType /\ Take(m) /\ worker' = worker /\ pending' = pending \ {m.pdu}
      /\ count'.decodes = count.decodes
      /\ count'.settled = IF count.settled < count.decodes THEN count.settled + 1
                          ELSE count.settled
  BY AnswerFacts
<1>2. /\ toPage # <<>> /\ m = Head(toPage) /\ toPage' = Tail(toPage)
      /\ UNCHANGED <<host, ran, toWorker, owed>>
  BY <1>1, TakeFacts
<1>3. toPage \in Seq(PostType) /\ toWorker \in Seq(AskType \cup DestroyType)
  BY DEF Typed
<1>4. worker = "up" /\ ran
  BY <1>2 DEF Messages, Workers, Typed
<1>5. /\ m.pdu \in pending /\ Fifo(toPage', toWorker', pending')
      /\ AllAsked(toPage', toWorker', pending') /\ \A p \in pending' : m.pdu.id < p.id
  BY <1>1, <1>2, <1>3, <1>4, FifoTake DEF Messages
<1>6. Cardinality(pending') = Cardinality(pending) - 1
  <2>1. IsFiniteSet(pending) /\ pending' = pending \ {m.pdu} /\ m.pdu \in pending
    BY <1>1, <1>5 DEF Typed
  <2> QED
    BY <2>1, FS_RemoveElement
<1>7. Cardinality(pending) \in Nat /\ Cardinality(pending') \in Nat
      /\ count.settled \in Nat /\ count.decodes \in Nat
  BY <1>1, FS_CardinalityType, FS_RemoveElement DEF Typed, CountType
<1>8. count'.settled = count.settled + 1 /\ BarrierExact'
  BY <1>1, <1>6, <1>7 DEF Messages, BarrierExact
<1>9. Known' /\ Workers'
  BY <1>1, <1>2, <1>4 DEF Messages, Known, Workers
<1> QED
  BY <1>4, <1>5, <1>8, <1>9 DEF Messages

LEMMA SkipMessages ==
  ASSUME Typed, Messages, NEW m, OnH264Frame(m) \/ OnNeedKeyframe(m)
  PROVE  Messages' /\ worker = "up"
<1>1. m \notin AnswerType /\ Take(m)
  BY FrameFacts, NoteFacts DEF FrameType, AnswerType
<1>2. /\ toPage # <<>> /\ m = Head(toPage) /\ toPage' = Tail(toPage)
      /\ UNCHANGED <<host, ran, toWorker, owed>>
  BY <1>1, TakeFacts
<1>3. pending' = pending /\ worker' = worker
      /\ count'.decodes = count.decodes /\ count'.settled = count.settled
  BY FrameFacts, NoteFacts
<1>4. toPage \in Seq(PostType)
  BY DEF Typed
<1>5. worker = "up" /\ ran
  BY <1>2 DEF Messages, Workers, Typed
<1>6. Fifo(toPage', toWorker', pending') /\ AllAsked(toPage', toWorker', pending')
  BY <1>1, <1>2, <1>3, <1>4, <1>5, FifoSkip DEF Messages
<1>7. Known' /\ Workers' /\ BarrierExact'
  BY <1>2, <1>3, <1>5 DEF Messages, Known, Workers, BarrierExact
<1> QED
  BY <1>5, <1>6, <1>7 DEF Messages

-----------------------------------------------------------------------------
(* The pipeline is coherent.                                               *)

PipelineInv == Typed /\ Canvas /\ Messages

LEMMA StepTyped ==
  ASSUME Typed, PipelineNext
  PROVE  Typed'
<1>1. ASSUME NEW m, OnProgressiveResult(m) \/ OnH264Submitted(m) \/ OnH264Frame(m) \/ OnNeedKeyframe(m)
      PROVE  Typed'
  BY <1>1, AnswerFacts, FrameFacts, NoteFacts
<1>2. CASE HostStep
  BY DispatchOrderedTyped, SurfacePduTyped, AskTyped, SyncFacts, PageVideoFacts, <1>2,
     ResetGraphicsTyped, EndFrameTyped DEF HostStep
<1>3. CASE Rest
  BY <1>3 DEF Rest, pipelineVars, Typed
<1>4. CASE PageMessage
  BY <1>1, <1>4, ShutFacts DEF PageMessage
<1>5. ASSUME NEW s \in Surfaces, VideoOutput(s) \/ VideoError(s) PROVE Typed'
  BY <1>5, VideoOutputFacts, VideoErrorFacts
<1>6. CASE WorkerStep \/ WorkerError \/ AckTimer \/ Flush \/ Destroy
  BY <1>6, WorkerStepFacts, WorkerErrorFacts, AckTimerTyped, FlushTyped, ShutFacts
<1> QED
  BY <1>2, <1>3, <1>4, <1>5, <1>6 DEF PipelineNext

\* What a PDU leaves alone besides.
LEMMA PduCanvas ==
  ASSUME Typed, NEW k \in Kinds \ {"create", "delete"},
         NEW a \in Surfaces \cup Slots \cup {NoPicture},
         NEW b \in Surfaces \cup Slots \cup {NoPicture}, Sends(k, a, b)
  PROVE  host'.live = host.live /\ worker' = worker
BY SendsFacts

LEMMA StepCanvas ==
  ASSUME Typed, Canvas, PipelineNext
  PROVE  Canvas'
<1>1. CASE HostStep
  <2>1. ASSUME NEW k \in Ordered, NEW a \in Surfaces \cup Slots \cup {NoPicture},
               NEW b \in Surfaces \cup Slots \cup {NoPicture}, DispatchOrdered(k, a, b)
        PROVE  Canvas'
    BY <2>1, PduCanvas, DispatchOrderedTyped, DrawsCanvas DEF DispatchOrdered, Ordered, Kinds
  <2>2. ASSUME NEW s \in Surfaces,
               CreateSurface(s) \/ RecreateSurface(s) \/ DeleteSurface(s) \/ MapSurfaceToOutput(s)
        PROVE  Canvas'
    BY <2>2, SurfacePduCanvas
  <2>3. ASSUME NEW s \in Surfaces, DecodeProgressive(s) \/ \E k \in Video : DecodeAvc420(k, s)
        PROVE  Canvas'
    BY <2>3, AskFacts, PduCanvas, AskTyped, DrawsCanvas DEF Kinds, Video, DecodeProgressive,
       DecodeAvc420
  <2>4. ASSUME NEW s \in Surfaces, DecodeProgressiveSync(s) PROVE Canvas'
    BY <2>4, SyncFacts, PduCanvas, DrawsCanvas DEF Kinds
  <2>5. ASSUME NEW s \in Surfaces, NEW k \in Video, DecodeAvc420Page(k, s) PROVE Canvas'
    BY <2>5, PageVideoFacts, PduCanvas, DrawsCanvas DEF Kinds, Video
  <2>6. CASE ResetGraphics
    BY <2>6, PduCanvas, FlushCanvas DEF ResetGraphics, Kinds
  <2>7. CASE EndFrame
    BY <2>7, PduCanvas, FlushCanvas DEF EndFrame, Kinds, FlushDirty
  <2> QED
    BY <1>1, <2>1, <2>2, <2>3, <2>4, <2>5, <2>6, <2>7 DEF HostStep
<1>2. ASSUME NEW m, OnProgressiveResult(m) \/ OnH264Submitted(m) \/ OnH264Frame(m) \/ OnNeedKeyframe(m)
      PROVE  Canvas'
  BY <1>2, TakeFacts, SameCanvas, AnswerFacts, FrameFacts, DrawsCanvas DEF OnProgressiveResult,
     OnH264Submitted, OnH264Frame, OnNeedKeyframe
<1>3. CASE OnUnsupported \/ Destroy
  BY <1>3, ShutFacts, FlushCanvas
<1>4. CASE Flush
  BY <1>4, FlushTyped, FlushCanvas DEF FlushDirty
<1>5. ASSUME NEW s \in Surfaces, VideoOutput(s) PROVE Canvas'
  BY <1>5, VideoOutputFacts, DrawsCanvas
<1>6. ASSUME NEW s \in Surfaces, VideoError(s) PROVE Canvas'
  BY <1>6, VideoErrorFacts, SameCanvas
<1>7. CASE WorkerStep \/ AckTimer \/ Rest
  BY <1>7, WorkerStepFacts, AckTimerTyped, SameCanvas DEF Rest, pipelineVars
<1>8. CASE WorkerError
  BY <1>8, WorkerErrorFacts DEF Canvas, SurfacesAgree, CleanIsShown, Visible
<1> QED
  BY <1>1, <1>2, <1>3, <1>4, <1>5, <1>6, <1>7, <1>8 DEF PipelineNext, PageMessage

LEMMA StepMessages ==
  ASSUME Typed, Messages, PipelineNext
  PROVE  Messages'
<1>1. CASE HostStep
  BY PageVideoMessages, <1>1, PlainMessages, DestroyMessages, AskMessages, SyncMessages DEF HostStep
<1>2. CASE PageMessage
  BY <1>2, AnswerMessages, SkipMessages, LossMessages DEF PageMessage
<1>3. CASE AckTimer \/ Flush \/ Rest
  BY <1>3, AckTimerTyped, FlushTyped, HostIds, SameMessages DEF Rest, pipelineVars
<1> QED
  BY <1>1, <1>2, <1>3, WorkerStepMessages, LossMessages, OutputMessages DEF PipelineNext

\* The invariant of the pipeline: what it holds is typed, and what its surfaces,
\* its canvas, its counters and its messages say of each other always agrees.
THEOREM PipelineInvHolds == PipelineSpec => []PipelineInv
<1>1. PipelineInit => PipelineInv
  <2> SUFFICES ASSUME PipelineInit PROVE PipelineInv
    OBVIOUS
  <2>1. Typed
    BY InitTyped
  <2>2. Canvas
    BY DEF PipelineInit, Canvas, SurfacesAgree, CleanIsShown, Visible, NoSurface
  <2>3. pending = {} /\ toWorker = <<>> /\ toPage = <<>>
    BY DEF PipelineInit
  <2>4. BarrierExact
    BY FS_EmptySet DEF PipelineInit, BarrierExact
  <2>5. Known /\ Workers
    BY DEF PipelineInit, Known, Workers
  <2>6. Messages
    BY <2>3, <2>4, <2>5, NoMessages DEF Messages, AllAsked
  <2> QED
    BY <2>1, <2>2, <2>6 DEF PipelineInv
<1>2. PipelineInv /\ [PipelineNext]_pipelineVars => PipelineInv'
  BY StepTyped, StepCanvas, StepMessages DEF PipelineInv, pipelineVars, Typed, Canvas,
     SurfacesAgree, CleanIsShown, Visible, Messages, Known, Workers, BarrierExact
<1> QED
  BY <1>1, <1>2, PTL DEF PipelineSpec

\* Each submitted decode advances the barrier of _decodeSettled exactly once, and
\* what _flushDirty has brought to the canvas is what the surfaces hold.
THEOREM PipelineStaysCoherent == PipelineSpec => []PipelineCoherent
<1>1. PipelineInv => PipelineCoherent
  BY TypedIsTypeOK DEF PipelineInv, Messages, Canvas, PipelineCoherent
<1> QED
  BY <1>1, PipelineInvHolds, PTL

-----------------------------------------------------------------------------
(* The strict order: what a queue of PDUs does.                            *)

Sorted(q) == \A i, j \in 1..Len(q) : i < j => q[i].id < q[j].id

LEMMA SameCardinality ==
  ASSUME NEW S
  PROVE  Strict!Cardinality(S) = Cardinality(S)
BY DEF Strict!Cardinality, Cardinality

LEMMA SameMax ==
  ASSUME NEW S
  PROVE  Strict!Max(S) = Max(S)
BY DEF Strict!Max, Max

\* The members of a queue.
LEMMA ToSetIs ==
  ASSUME NEW S, NEW q \in Seq(S)
  PROVE  \A x : x \in ToSet(q) <=> \E i \in 1..Len(q) : q[i] = x
BY DEF ToSet

\* A queue in the order of its numbers is the arrival of its members.
LEMMA ArrivalIs ==
  ASSUME NEW q \in Seq(Pdu), Sorted(q)
  PROVE  Strict!Arrival(ToSet(q)) = q
<1> DEFINE S == ToSet(q)
           n == Len(q)
           Good(r) == \A i, j \in 1..Cardinality(S) : i < j => r[i].id < r[j].id
<1>1. n \in Nat /\ \A i \in 1..n : q[i] \in Pdu /\ q[i].id \in Nat
  <2>1. \A i \in 1..n : q[i] \in Pdu
    BY ElementOfSeq
  <2>2. \A p \in Pdu : p.id \in Nat
    BY PipelineAssumption DEF Pdu
  <2> QED
    BY <2>1, <2>2
<1>2. \A x : x \in S <=> \E i \in 1..n : q[i] = x
  BY ToSetIs
<1>3. \A i, j \in 1..n : i < j => q[i].id < q[j].id
  BY DEF Sorted
<1>4. q \in [1..n -> S]
  <2>1. q = [i \in 1..n |-> q[i]]
    OBVIOUS
  <2> HIDE DEF S, n
  <2> QED
    BY <1>2, <2>1
<1> HIDE DEF S, n
<1>5. \A i, j \in 1..n : i # j => q[i] # q[j]
  BY <1>1, <1>3
<1>6. Cardinality(S) = n /\ IsFiniteSet(S) /\ IsFiniteSet(1..n) /\ Cardinality(1..n) = n
  <2>1. IsFiniteSet(1..n) /\ Cardinality(1..n) = n
    BY <1>1, FS_Interval
  <2>2. q \in Bijection(1..n, S)
    BY <1>2, <1>4, <1>5 DEF Bijection, Injection, Surjection, IsInjective
  <2>3. ExistsBijection(1..n, S)
    BY <2>2 DEF ExistsBijection
  <2> QED
    BY <2>1, <2>3, FS_Bijection
<1>7. q \in [1..Cardinality(S) -> S] /\ Good(q)
  BY <1>3, <1>4, <1>6
<1> DEFINE r == CHOOSE x \in [1..Cardinality(S) -> S] : Good(x)
<1>8. r \in [1..Cardinality(S) -> S] /\ Good(r)
  <2> HIDE DEF Good
  <2> QED
    BY <1>7
<1>9. Strict!Arrival(S) = r
  BY SameCardinality DEF Strict!Arrival
<1> HIDE DEF r
<1>10. r \in [1..n -> S] /\ \A i, j \in 1..n : i < j => r[i].id < r[j].id
  BY <1>6, <1>8
<1>11. \A x \in S : x.id \in Nat
  BY <1>1, <1>2
<1>12. \A i, j \in 1..n : i # j => r[i] # r[j]
  BY <1>1, <1>10, <1>11
<1>13. \A x \in S : \E i \in 1..n : r[i] = x
  <2>1. r \in Injection(1..n, S)
    BY <1>10, <1>12 DEF Injection, IsInjective
  <2>2. r \in Surjection(1..n, S)
    BY <1>6, <2>1, FS_Injection
  <2> QED
    BY <2>2 DEF Surjection
<1>14. ASSUME NEW k \in 1..n, r[k] # q[k] PROVE FALSE
  <2> DEFINE T == {i \in 1..n : r[i] # q[i]}
  <2>1. T \in SUBSET Nat /\ T # {}
    BY <1>14
  <2>2. PICK m \in T : \A i \in T : m <= i
    BY <2>1, SmallestOf
  <2>3. m \in 1..n /\ r[m] # q[m] /\ \A i \in 1..n : i < m => r[i] = q[i]
    BY <1>1, <2>2
  <2>4. PICK j \in 1..n : q[j] = r[m]
    BY <1>2, <1>10, <2>3
  <2>5. m < j
    BY <1>1, <1>12, <2>3, <2>4
  <2>6. q[m].id < r[m].id /\ q[m] \in S
    BY <1>3, <1>4, <2>3, <2>4, <2>5
  <2>7. PICK l \in 1..n : r[l] = q[m]
    BY <1>13, <2>6
  <2>8. m < l
    BY <1>1, <1>5, <2>3, <2>7
  <2>9. r[m].id < r[l].id
    BY <1>10, <2>3, <2>8
  <2> QED
    BY <1>10, <1>11, <2>3, <2>6, <2>7, <2>9
<1>15. r = q
  <2>1. \A k \in 1..n : r[k] = q[k]
    BY <1>14
  <2>2. q = [k \in 1..n |-> q[k]] /\ r = [k \in 1..n |-> r[k]]
    BY <1>4, <1>10
  <2> QED
    BY <2>1, <2>2
<1> QED
  BY <1>9, <1>15 DEF S

\* The recursion that a fold of effects over queue q stands for.
EffectRec(pic, q, D, f) ==
  f = [s \in SUBSET D |->
         IF s = {} THEN pic ELSE LET x == Strict!Max(s) IN Strict!Effect(f[s \ {x}], q[x])]

LEMMA PerformedIsEffectRec ==
  ASSUME NEW pic, NEW S
  PROVE  LET q == Strict!Arrival(S)
         IN Strict!Performed(pic, S) = (CHOOSE f : EffectRec(pic, q, DOMAIN q, f))[DOMAIN q]
BY DEF Strict!Performed, Strict!FoldLeft, Strict!MapThenFoldSet, EffectRec

\* The pictures between the PDUs of a queue.
Steps(pic, q, h) ==
  /\ h[0] = pic
  /\ \A i \in 1..Len(q) : h[i] = Strict!Effect(h[i - 1], q[i])

LEMMA EffectRecExists ==
  ASSUME NEW pic, NEW q
  PROVE  \A n \in Nat : \E f : EffectRec(pic, q, 1..n, f)
<1> DEFINE T == {n \in Nat : \E f : EffectRec(pic, q, 1..n, f)}
<1>1. 0 \in T
  <2> DEFINE f == [s \in SUBSET (1..0) |-> pic]
  <2>1. \A s \in SUBSET (1..0) : s = {}
    OBVIOUS
  <2>2. f = [s \in SUBSET (1..0) |->
              IF s = {} THEN pic ELSE LET x == Strict!Max(s) IN Strict!Effect(f[s \ {x}], q[x])]
    BY <2>1
  <2>3. EffectRec(pic, q, 1..0, f)
    BY <2>2 DEF EffectRec
  <2> QED
    BY <2>3
<1>2. ASSUME NEW n \in Nat, n \in T PROVE n + 1 \in T
  <2>1. PICK f : EffectRec(pic, q, 1..n, f)
    BY <1>2
  <2> DEFINE g == [s \in SUBSET (1..(n + 1)) |->
                     IF n + 1 \in s THEN Strict!Effect(f[s \ {n + 1}], q[n + 1]) ELSE f[s]]
  <2>2. ASSUME NEW s \in SUBSET (1..(n + 1))
        PROVE  g[s] = IF s = {} THEN pic
                      ELSE LET x == Strict!Max(s) IN Strict!Effect(g[s \ {x}], q[x])
    <3>1. CASE n + 1 \in s
      <4>1. Strict!Max(s) = n + 1
        BY <3>1, MaxIsLast, SameMax
      <4>2. s \ {n + 1} \in SUBSET (1..(n + 1)) /\ n + 1 \notin s \ {n + 1}
        OBVIOUS
      <4>3. g[s \ {n + 1}] = f[s \ {n + 1}]
        BY <4>2
      <4>4. g[s] = Strict!Effect(f[s \ {n + 1}], q[n + 1])
        BY <3>1
      <4> HIDE DEF g
      <4> QED
        BY <3>1, <4>1, <4>3, <4>4
    <3>2. CASE n + 1 \notin s
      <4>1. \A x \in s : x \in 1..n
        BY <3>2
      <4>2. s \in SUBSET (1..n)
        BY <4>1
      <4>3. f[s] = IF s = {} THEN pic
                   ELSE LET x == Strict!Max(s) IN Strict!Effect(f[s \ {x}], q[x])
        BY <2>1, <4>2 DEF EffectRec
      <4>4. g[s] = f[s]
        BY <3>2
      <4>5. \A x : g[s \ {x}] = f[s \ {x}]
        BY <3>2
      <4> HIDE DEF g
      <4> QED
        BY <4>3, <4>4, <4>5
    <3> QED
      BY <3>1, <3>2
  <2>3. g = [s \in SUBSET (1..(n + 1)) |-> g[s]]
    OBVIOUS
  <2> HIDE DEF g
  <2>4. g = [s \in SUBSET (1..(n + 1)) |->
               IF s = {} THEN pic ELSE LET x == Strict!Max(s) IN Strict!Effect(g[s \ {x}], q[x])]
    BY <2>2, <2>3
  <2>5. EffectRec(pic, q, 1..(n + 1), g)
    BY <2>4 DEF EffectRec
  <2> QED
    BY <2>5
<1> HIDE DEF T
<1>3. \A n \in Nat : n \in T
  BY <1>1, <1>2, NatSteps
<1> QED
  BY <1>3 DEF T

\* What a set of PDUs does, when q is the set in order and h its pictures.
LEMMA PerformedIs ==
  ASSUME NEW q \in Seq(Pdu), Sorted(q), NEW pic, NEW h, Steps(pic, q, h)
  PROVE  Strict!Performed(pic, ToSet(q)) = h[Len(q)]
<1> DEFINE n == Len(q)
           F == CHOOSE f : EffectRec(pic, q, DOMAIN q, f)
<1>1. n \in Nat /\ DOMAIN q = 1..n
  OBVIOUS
<1>2. \E f : EffectRec(pic, q, DOMAIN q, f)
  BY <1>1, EffectRecExists
<1>3. EffectRec(pic, q, DOMAIN q, F)
  BY <1>2
<1>4. Strict!Performed(pic, ToSet(q)) = F[DOMAIN q]
  BY ArrivalIs, PerformedIsEffectRec
<1> HIDE DEF F, n
<1>5. \A s \in SUBSET (1..n) :
        F[s] = IF s = {} THEN pic ELSE LET x == Strict!Max(s) IN Strict!Effect(F[s \ {x}], q[x])
  BY <1>1, <1>3 DEF EffectRec
<1> DEFINE T == {i \in Nat : i <= n => F[1..i] = h[i]}
<1>6. 0 \in T
  <2>1. 1..0 = {}
    OBVIOUS
  <2>2. F[{}] = pic
    BY <1>5
  <2> QED
    BY <2>1, <2>2 DEF Steps
<1>7. ASSUME NEW j \in Nat, j \in T PROVE j + 1 \in T
  <2>1. SUFFICES ASSUME j + 1 <= n PROVE F[1..(j + 1)] = h[j + 1]
    OBVIOUS
  <2>2. F[1..j] = h[j]
    BY <1>1, <1>7, <2>1
  <2>3. j + 1 \in 1..n /\ 1..(j + 1) \in SUBSET (1..n) /\ j + 1 \in 1..(j + 1) /\ j + 1 - 1 = j
    BY <1>1, <2>1
  <2>4. Strict!Max(1..(j + 1)) = j + 1
    BY <2>3, MaxIsLast, SameMax
  <2>5. (1..(j + 1)) \ {j + 1} = 1..j
    OBVIOUS
  <2>6. F[1..(j + 1)] = Strict!Effect(F[1..j], q[j + 1])
    BY <1>5, <2>3, <2>4, <2>5
  <2>7. h[j + 1] = Strict!Effect(h[j], q[j + 1])
    BY <2>3 DEF Steps, n
  <2> QED
    BY <2>2, <2>6, <2>7
<1> HIDE DEF T
<1>8. n \in T
  BY <1>1, <1>6, <1>7, NatSteps
<1> QED
  BY <1>1, <1>4, <1>8 DEF T, n

-----------------------------------------------------------------------------
(* The strict order: what one PDU does.                                    *)

\* The pictures of a screen.
Pics(x) == [px |-> [s \in Surfaces |-> x.surf[s].px], cache |-> x.cache]

LEMMA PicsOfPaint ==
  ASSUME NEW x \in ScreenType, NEW s \in Surfaces, NEW v \in Pictures
  PROVE  Pics(Paint(x, s, v)) = [Pics(x) EXCEPT !.px[s] = v]
<1> DEFINE y == Paint(x, s, v)
<1>1. /\ y.cache = x.cache
      /\ \A t \in Surfaces : y.surf[t].px = IF t = s THEN v ELSE x.surf[t].px
  BY DrawnFacts, PaintFacts DEF ScreenType
<1> HIDE DEF y
<1> DEFINE f == [t \in Surfaces |-> x.surf[t].px]
<1>2. Pics(x) = [px |-> f, cache |-> x.cache]
  BY DEF Pics
<1>3. [t \in Surfaces |-> y.surf[t].px] = [f EXCEPT ![s] = v]
  BY <1>1
<1>4. Pics(y) = [px |-> [f EXCEPT ![s] = v], cache |-> x.cache]
  BY <1>1, <1>3 DEF Pics
<1> HIDE DEF f
<1>5. [Pics(x) EXCEPT !.px[s] = v] = [px |-> [f EXCEPT ![s] = v], cache |-> x.cache]
  BY <1>2
<1> QED
  BY <1>4, <1>5 DEF y

\* What a PDU does to pictures.
LEMMA EffectOfPaint ==
  ASSUME NEW pic, NEW p, p.kind \in {"progressive", "avc-key", "avc-delta", "fill", "raw"}
  PROVE  Strict!Effect(pic, p) = [pic EXCEPT !.px[p.dst] = p.id]
BY DEF Strict!Effect, Strict!Decodes, Strict!Video

LEMMA EffectOfCopy ==
  ASSUME NEW pic, NEW p, p.kind = "copy"
  PROVE  Strict!Effect(pic, p) = [pic EXCEPT !.px[p.dst] = pic.px[p.src]]
BY DEF Strict!Effect, Strict!Decodes, Strict!Video

LEMMA EffectOfSave ==
  ASSUME NEW pic, NEW p, p.kind = "save"
  PROVE  Strict!Effect(pic, p) = [pic EXCEPT !.cache[p.dst] = pic.px[p.src]]
BY DEF Strict!Effect, Strict!Decodes, Strict!Video

LEMMA EffectOfLoad ==
  ASSUME NEW pic, NEW p, p.kind = "load"
  PROVE  Strict!Effect(pic, p) = IF pic.cache[p.src] = NoPicture THEN pic
                                 ELSE [pic EXCEPT !.px[p.dst] = pic.cache[p.src]]
BY DEF Strict!Effect, Strict!Decodes, Strict!Video

LEMMA EffectOfClear ==
  ASSUME NEW pic, NEW p, p.kind \in {"recreate", "delete"}
  PROVE  Strict!Effect(pic, p) = [pic EXCEPT !.px[p.dst] = 0]
BY DEF Strict!Effect, Strict!Decodes, Strict!Video

LEMMA EffectOfNone ==
  ASSUME NEW pic, NEW p, p.kind \in {"create", "map", "end", "reset"}
  PROVE  Strict!Effect(pic, p) = pic
BY DEF Strict!Effect, Strict!Decodes, Strict!Video

\* Performing an operation on surfaces that exist has the effect it promises.
Exist(x, p) == p.kind # "raw" => \A s \in Surfaces : Touches(p, s) => ~Absent(x, s)

LEMMA EffectOfPerform ==
  ASSUME NEW x \in ScreenType, NEW p \in OrderedPdu, Exist(x, p)
  PROVE  Strict!Effect(Pics(x), p) = Pics(Perform(x, p))
<1>0. p.id \in Pictures /\ p.kind \in Ordered
  BY PipelineAssumption DEF OrderedPdu, Pdu, Pictures
<1>1. CASE p.kind = "fill"
  BY <1>1, <1>0, EffectOfPaint, PicsOfPaint DEF OrderedPdu, Perform, SolidFill, PaintIfThere,
     Exist, Touches
<1>2. CASE p.kind = "raw"
  <2>1. p.dst \in Surfaces
    BY <1>2 DEF OrderedPdu
  <2> DEFINE y == Materialise(x, p.dst)
  <2>2. Perform(x, p) = Paint(y, p.dst, p.id)
    BY <1>2 DEF Perform, DrawRaw
  <2>3. y \in ScreenType /\ y.cache = x.cache /\ \A t \in Surfaces : y.surf[t].px = x.surf[t].px
    BY <2>1, MaterialiseFacts DEF Redrawn
  <2> HIDE DEF y
  <2>4. Pics(y) = Pics(x)
    BY <2>3 DEF Pics
  <2> QED
    BY <1>0, <1>2, <2>1, <2>2, <2>3, <2>4, EffectOfPaint, PicsOfPaint
<1>3. CASE p.kind = "copy"
  <2>1. p.dst \in Surfaces /\ p.src \in Surfaces
    BY <1>3 DEF OrderedPdu
  <2>2. ~Absent(x, p.dst) /\ ~Absent(x, p.src)
    BY <1>3, <2>1 DEF Exist, Touches
  <2>3. Perform(x, p) = Paint(x, p.dst, x.surf[p.src].px)
    BY <1>3, <2>2 DEF Perform, SurfaceToSurface, PaintIfThere
  <2>4. x.surf[p.src].px \in Pictures /\ Pics(x).px[p.src] = x.surf[p.src].px
    BY <2>1 DEF ScreenType, SurfaceType, Pics
  <2> QED
    BY <1>3, <2>1, <2>3, <2>4, EffectOfCopy, PicsOfPaint
<1>4. CASE p.kind = "save"
  <2>1. p.dst \in Slots /\ p.src \in Surfaces
    BY <1>4 DEF OrderedPdu
  <2>2. ~Absent(x, p.src)
    BY <1>4, <2>1 DEF Exist, Touches
  <2> DEFINE c == [x.cache EXCEPT ![p.dst] = x.surf[p.src].px]
  <2>3. x = [surf |-> x.surf, cache |-> x.cache]
    BY ScreenParts
  <2>4. Perform(x, p) = [surf |-> x.surf, cache |-> c]
    BY <1>4, <2>2, <2>3 DEF Perform, SurfaceToCache
  <2>5. Pics(x).px[p.src] = x.surf[p.src].px /\ Pics(x).cache = x.cache
    BY <2>1 DEF Pics
  <2>6. Pics(Perform(x, p)) = [px |-> [s \in Surfaces |-> x.surf[s].px], cache |-> c]
    BY <2>4 DEF Pics
  <2>7. Strict!Effect(Pics(x), p) = [Pics(x) EXCEPT !.cache = c]
    BY <1>4, <2>5, EffectOfSave
  <2> HIDE DEF c
  <2> QED
    BY <2>6, <2>7 DEF Pics
<1>5. CASE p.kind = "load"
  <2>1. p.dst \in Surfaces /\ p.src \in Slots
    BY <1>5 DEF OrderedPdu
  <2>2. ~Absent(x, p.dst)
    BY <1>5, <2>1 DEF Exist, Touches
  <2>3. Pics(x).cache = x.cache
    BY DEF Pics
  <2>4. CASE x.cache[p.src] = NoPicture
    BY <1>5, <2>3, <2>4, EffectOfLoad DEF Perform, CacheToSurface
  <2>5. CASE x.cache[p.src] # NoPicture
    <3>1. x.cache[p.src] \in Pictures
      BY <2>1, <2>5 DEF ScreenType
    <3>2. Perform(x, p) = Paint(x, p.dst, x.cache[p.src])
      BY <1>5, <2>2, <2>5 DEF Perform, CacheToSurface, PaintIfThere
    <3> QED
      BY <1>5, <2>1, <2>3, <2>5, <3>1, <3>2, EffectOfLoad, PicsOfPaint
  <2> QED
    BY <2>4, <2>5
<1> QED
  BY <1>0, <1>1, <1>2, <1>3, <1>4, <1>5 DEF Ordered

-----------------------------------------------------------------------------
(* The strict order: a step.                                               *)

\* What arrives in a step, and what is performed in it or is lost.
Arrived == IF host'.sent = host.sent THEN {} ELSE {host'.sent}
Gone    == (Waiting \cup Arrived) \ Waiting'

NextScreen == [surf |-> surf', cache |-> cache']

\* Queue q is performed and the rest of what is gone are decodes that failed.
LEMMA StrictQueue ==
  ASSUME NEW q \in Seq(Pdu), Sorted(q), NEW h, Steps(Pics(Screen), q, h),
         h[Len(q)] = Pics(NextScreen),
         host'.sent # host.sent => host'.sent.id > host.sent.id,
         Waiting' \subseteq Waiting \cup Arrived, ToSet(q) \subseteq Gone,
         \A p \in Gone : p \in ToSet(q) \/ p.kind \in Strict!Decodes,
         \A p \in ToSet(q), w \in Waiting' : w.id < p.id => ~Strict!Conflict(p, w)
  PROVE  Strict!Next
<1> DEFINE failed == Gone \ ToSet(q)
<1>1. failed \in SUBSET {p \in Gone : p.kind \in Strict!Decodes} /\ Gone \ failed = ToSet(q)
  OBVIOUS
<1>2. Strict!InOrder(Gone \ failed, Waiting')
  BY <1>1 DEF Strict!InOrder
<1>3. Strict!Performed(Pics(Screen), Gone \ failed) = Pics(NextScreen)
  BY <1>1, PerformedIs
<1>4. Pics(Screen) = [px |-> [s \in Surfaces |-> surf[s].px], cache |-> cache]
  BY DEF Pics, Screen
<1>5. Pics(NextScreen) = [px |-> [s \in Surfaces |-> surf'[s].px], cache |-> cache']
  BY DEF Pics, NextScreen
<1> HIDE DEF failed
<1>6. [px |-> [s \in Surfaces |-> surf'[s].px], cache |-> cache'] =
        Strict!Performed([px |-> [s \in Surfaces |-> surf[s].px], cache |-> cache], Gone \ failed)
  BY <1>3, <1>4, <1>5
<1> QED
  BY <1>1, <1>2, <1>6 DEF Strict!Next, Gone, Arrived

\* Nothing is performed.
LEMMA StrictNothing ==
  ASSUME Pics(NextScreen) = Pics(Screen),
         host'.sent # host.sent => host'.sent.id > host.sent.id,
         Waiting' \subseteq Waiting \cup Arrived,
         \A p \in Gone : p.kind \in Strict!Decodes
  PROVE  Strict!Next
<1> DEFINE q == <<>>
           h == [i \in {0} |-> Pics(Screen)]
<1>1. q \in Seq(Pdu) /\ Len(q) = 0
  OBVIOUS
<1>3. h[0] = Pics(Screen)
  OBVIOUS
<1> HIDE DEF q, h
<1>2. \A x : x \notin ToSet(q)
  <2>1. \A x : x \in ToSet(q) <=> \E i \in 1..Len(q) : q[i] = x
    BY <1>1, ToSetIs
  <2> QED
    BY <1>1, <2>1
<1>4. Sorted(q) /\ Steps(Pics(Screen), q, h)
  BY <1>1, <1>3 DEF Sorted, Steps
<1> QED
  BY <1>1, <1>2, <1>3, <1>4, StrictQueue

\* One PDU is performed.
LEMMA StrictOne ==
  ASSUME NEW p \in Pdu, p \in Gone, Pics(NextScreen) = Strict!Effect(Pics(Screen), p),
         host'.sent # host.sent => host'.sent.id > host.sent.id,
         Waiting' \subseteq Waiting \cup Arrived,
         \A w \in Gone : w = p \/ w.kind \in Strict!Decodes,
         \A w \in Waiting' : w.id < p.id => ~Strict!Conflict(p, w)
  PROVE  Strict!Next
<1> DEFINE q == <<p>>
           h == [i \in {0, 1} |-> IF i = 0 THEN Pics(Screen) ELSE Strict!Effect(Pics(Screen), p)]
<1>1. q \in Seq(Pdu) /\ Len(q) = 1 /\ q[1] = p
  OBVIOUS
<1>3. h[0] = Pics(Screen) /\ h[1] = Strict!Effect(Pics(Screen), p)
  OBVIOUS
<1> HIDE DEF q, h
<1>2. \A x : x \in ToSet(q) <=> x = p
  BY <1>1, ToSetIs
<1>4. Sorted(q)
  BY <1>1 DEF Sorted
<1>5. Steps(Pics(Screen), q, h)
  BY <1>1, <1>3 DEF Steps
<1> QED
  BY <1>1, <1>2, <1>3, <1>4, <1>5, StrictQueue

-----------------------------------------------------------------------------
(* What waits.                                                             *)

\* PDU p is in a queue, is owed by a decoder, or its picture is on its way.
Queued(q, p)      == \E i \in 1..Len(q) : q[i].pdu = p
Owes(ow, s, i, p) == s \in Surfaces /\ i \in 1..Len(ow[s]) /\ ow[s][i] = p
Frames(tp, i, p)  == i \in 1..Len(tp) /\ tp[i] \in FrameType /\ tp[i].pdu = p
Undrawn(ow, tp, p) == (\E s, i : Owes(ow, s, i, p)) \/ (\E i : Frames(tp, i, p))

Counted == IF worker \in {"lost", "closed"} THEN {} ELSE pending

LEMMA UndrawnIs ==
  ASSUME NEW ow \in [Surfaces -> Seq(VideoPdu)], NEW tp \in Seq(PostType), NEW p
  PROVE  p \in (UNION {ToSet(ow[s]) : s \in Surfaces})
               \cup {m.pdu : m \in {x \in ToSet(tp) : x.cmd = "h264-frame"}}
           <=> Undrawn(ow, tp, p)
BY ToSetIs, ElementOfSeq, PostCases DEF Owes, Frames, Undrawn

LEMMA QueuedIs ==
  ASSUME NEW S, NEW q \in Seq(S), NEW p
  PROVE  p \in {e.pdu : e \in ToSet(q)} <=> Queued(q, p)
BY ToSetIs DEF Queued

LEMMA WaitingIs ==
  /\ Typed => \A p : p \in Waiting <=> p \in Counted \/ Queued(queue, p) \/ Undrawn(owed, toPage, p)
  /\ Typed' => \A p : p \in Waiting' <=> p \in Counted' \/ Queued(queue', p) \/ Undrawn(owed', toPage', p)
BY UndrawnIs, QueuedIs DEF Typed, Waiting, Unpainted, Counted

\* What the waiting PDUs are.
LEMMA WaitingKinds ==
  ASSUME NEW ow \in [Surfaces -> Seq(VideoPdu)], NEW tp \in Seq(PostType)
  PROVE  \A p : Undrawn(ow, tp, p) => p \in VideoPdu
BY ElementOfSeq DEF Owes, Frames, FrameType, Undrawn

LEMMA QueueKinds ==
  ASSUME NEW q \in Seq(QueueType)
  PROVE  /\ \A i \in 1..Len(q) : q[i] \in QueueType /\ q[i].pdu \in OrderedPdu /\ q[i].barrier \in Nat
                                 /\ q[i].pdu.id \in Nat /\ q[i].pdu \in Pdu
         /\ \A p : Queued(q, p) => p \in OrderedPdu
<1>1. \A i \in 1..Len(q) : q[i] \in QueueType
  BY ElementOfSeq
<1>2. \A p \in OrderedPdu : p.id \in Nat /\ p \in Pdu
  BY PipelineAssumption DEF OrderedPdu, Pdu
<1>3. \A i \in 1..Len(q) : q[i].pdu \in OrderedPdu /\ q[i].barrier \in Nat
  BY <1>1 DEF QueueType
<1> QED
  BY <1>1, <1>2, <1>3 DEF Queued

\* The decodes and the ordered operations are told apart by their kind.
LEMMA KindsApart ==
  /\ \A p \in DecodePdu : p \notin OrderedPdu /\ p.kind \in Strict!Decodes /\ p \in Pdu
  /\ \A p \in VideoPdu : p \in DecodePdu /\ p \notin ProgressivePdu
  /\ \A p \in ProgressivePdu : p \in DecodePdu
BY DEF DecodePdu, VideoPdu, ProgressivePdu, OrderedPdu, Ordered, Video, Strict!Decodes, Strict!Video

\* Videos are in conflict with videos of the same surface only.
LEMMA VideoConflicts ==
  ASSUME NEW v \in VideoPdu, NEW p \in Pdu
  PROVE  /\ p \in VideoPdu /\ p.dst # v.dst => ~Strict!Conflict(p, v)
         /\ p \in OrderedPdu \cup ProgressivePdu => ~Strict!Conflict(p, v) /\ ~Strict!Conflict(v, p)
BY PipelineAssumption DEF VideoPdu, Video, Strict!Writes, Strict!Reads, Strict!Video,
   Strict!Conflict, OrderedPdu, Ordered, ProgressivePdu

-----------------------------------------------------------------------------
(* The pictures of the video decoders.                                     *)

\* A decoder owes its chunks in their order, and its pictures are on their way
\* in their order, before those it still owes.
VideoOrder(ow, tp) ==
  /\ \A s, i, p : Owes(ow, s, i, p) => p.dst = s
  /\ \A s, i, j, p, q : Owes(ow, s, i, p) /\ Owes(ow, s, j, q) /\ i < j => p.id < q.id
  /\ \A i, j, p, q : Frames(tp, i, p) /\ Frames(tp, j, q) /\ i < j /\ p.dst = q.dst => p.id < q.id
  /\ \A i, j, p, q : Frames(tp, i, p) /\ Owes(ow, p.dst, j, q) => p.id < q.id

\* A picture that is still to come is of a chunk that is older than the pending
\* decodes, or pending itself, and then it was answered before.
VideoAsked(ow, tp, pd) ==
  /\ \A p, q : Undrawn(ow, tp, p) /\ q \in pd => p \in pd \/ p.id < q.id
  /\ \A s, i, p : Owes(ow, s, i, p) /\ p \in pd => \E j : Answers(tp, j, p)
  /\ \A i, p : Frames(tp, i, p) /\ p \in pd => \E j : j < i /\ Answers(tp, j, p)

VideoKnown(ow, tp, h) == \A p : Undrawn(ow, tp, p) => p.id <= h.sent.id

Videos ==
  /\ VideoOrder(owed, toPage) /\ VideoKnown(owed, toPage, host)
  /\ worker = "up" => VideoAsked(owed, toPage, pending)

\* A message after an Append or a Tail.
LEMMA FramesAppend ==
  ASSUME NEW tp \in Seq(PostType), NEW m \in PostType
  PROVE  \A i, p : Frames(Append(tp, m), i, p) <=>
                     \/ Frames(tp, i, p)
                     \/ i = Len(tp) + 1 /\ m \in FrameType /\ m.pdu = p
<1> DEFINE q == Append(tp, m)
<1>1. Len(q) = Len(tp) + 1 /\ Len(tp) \in Nat /\ q[Len(tp) + 1] = m
      /\ \A i \in 1..Len(tp) : q[i] = tp[i]
  BY AppendAt
<1> HIDE DEF q
<1>2. \A i : i \in 1..Len(q) <=> i \in 1..Len(tp) \/ i = Len(tp) + 1
  BY <1>1
<1>3. ~(Len(tp) + 1 \in 1..Len(tp))
  BY <1>1
<1>4. \A i, p : Frames(q, i, p) <=>
                     \/ Frames(tp, i, p)
                     \/ i = Len(tp) + 1 /\ m \in FrameType /\ m.pdu = p
  BY <1>1, <1>2, <1>3 DEF Frames
<1> QED
  BY <1>4 DEF q

LEMMA FramesTail ==
  ASSUME NEW tp \in Seq(PostType), tp # <<>>
  PROVE  /\ \A i, p : Frames(Tail(tp), i, p) => Frames(tp, i + 1, p) /\ i \in Int /\ 1 < i + 1
         /\ \A i, p : Frames(tp, i, p) =>
              \/ i = 1 /\ Head(tp) \in FrameType /\ Head(tp).pdu = p
              \/ Frames(Tail(tp), i - 1, p)
         /\ \A p : Head(tp) \in FrameType /\ Head(tp).pdu = p => Frames(tp, 1, p)
<1> DEFINE q == Tail(tp)
<1>1. /\ Len(tp) \in Nat \ {0} /\ Len(q) = Len(tp) - 1 /\ Head(tp) = tp[1]
      /\ \A i \in 1..Len(q) : i + 1 \in 1..Len(tp) /\ q[i] = tp[i + 1]
  BY TailAt
<1> HIDE DEF q
<1>2. \A i \in 1..Len(tp) : i = 1 \/ (i - 1 \in 1..Len(q) /\ q[i - 1] = tp[i])
  BY <1>1
<1>3. 1 \in 1..Len(tp) /\ \A i \in 1..Len(q) : i \in Int /\ 1 < i + 1
  BY <1>1
<1>4. /\ \A i, p : Frames(q, i, p) => Frames(tp, i + 1, p) /\ i \in Int /\ 1 < i + 1
      /\ \A i, p : Frames(tp, i, p) =>
              \/ i = 1 /\ Head(tp) \in FrameType /\ Head(tp).pdu = p
              \/ Frames(q, i - 1, p)
      /\ \A p : Head(tp) \in FrameType /\ Head(tp).pdu = p => Frames(tp, 1, p)
  BY <1>1, <1>2, <1>3 DEF Frames
<1> QED
  BY <1>4 DEF q

\* The decoder of surface s takes chunk p, or puts its oldest one out.
Puts(ow, s, p, ow2) ==
  ow2[s] = Append(ow[s], p) /\ \A t \in Surfaces : t # s => ow2[t] = ow[t]
Outs(ow, s, ow2) ==
  ow[s] # <<>> /\ ow2[s] = Tail(ow[s]) /\ \A t \in Surfaces : t # s => ow2[t] = ow[t]

LEMMA OwesPut ==
  ASSUME NEW ow \in [Surfaces -> Seq(VideoPdu)], NEW s \in Surfaces, NEW p \in VideoPdu,
         NEW ow2, Puts(ow, s, p, ow2)
  PROVE  /\ \A t, i, q : Owes(ow2, t, i, q) <=>
                           \/ Owes(ow, t, i, q)
                           \/ t = s /\ i = Len(ow[s]) + 1 /\ q = p
         /\ Len(ow[s]) \in Nat
BY AppendAt DEF Puts, Owes

LEMMA OwesTail ==
  ASSUME NEW ow \in [Surfaces -> Seq(VideoPdu)], NEW s \in Surfaces, NEW ow2, Outs(ow, s, ow2)
  PROVE  /\ \A t, i, q : Owes(ow2, t, i, q) =>
              /\ t # s => Owes(ow, t, i, q)
              /\ t = s => Owes(ow, s, i + 1, q) /\ i \in Int /\ 1 < i + 1
         /\ Owes(ow, s, 1, Head(ow[s]))
<1>1. ow[s] \in Seq(VideoPdu) /\ ow[s] # <<>>
  BY DEF Outs
<1>2. /\ Len(ow[s]) \in Nat \ {0} /\ Len(Tail(ow[s])) = Len(ow[s]) - 1 /\ Head(ow[s]) = ow[s][1]
      /\ \A i \in 1..Len(Tail(ow[s])) : i + 1 \in 1..Len(ow[s]) /\ Tail(ow[s])[i] = ow[s][i + 1]
  BY <1>1, TailAt
<1>3. ow2[s] = Tail(ow[s]) /\ \A t \in Surfaces : t # s => ow2[t] = ow[t]
  BY DEF Outs
<1>4. 1 \in 1..Len(ow[s]) /\ \A i \in 1..Len(Tail(ow[s])) : i \in Int /\ 1 < i + 1
  BY <1>2
<1> QED
  BY <1>2, <1>3, <1>4 DEF Owes

\* The numbers of chunks.
LEMMA VideoIds ==
  ASSUME NEW ow \in [Surfaces -> Seq(VideoPdu)], NEW tp \in Seq(PostType)
  PROVE  /\ \A p : Undrawn(ow, tp, p) => p \in VideoPdu /\ p.id \in Nat
         /\ \A s, i, p : Owes(ow, s, i, p) => Undrawn(ow, tp, p) /\ i \in Int /\ p.id \in Nat
         /\ \A i, p : Frames(tp, i, p) => Undrawn(ow, tp, p) /\ i \in Int /\ p.id \in Nat
BY PipelineAssumption, WaitingKinds DEF VideoPdu, Pdu, Owes, Undrawn, Frames

\* Some decoders lose what they owe.
LEMMA VideosDropped ==
  ASSUME NEW ow, NEW ow2, NEW tp, \A s \in Surfaces : ow2[s] \in {ow[s], <<>>}
  PROVE  /\ \A p : Undrawn(ow2, tp, p) => Undrawn(ow, tp, p)
         /\ VideoOrder(ow, tp) => VideoOrder(ow2, tp)
         /\ \A pd : VideoAsked(ow, tp, pd) => VideoAsked(ow2, tp, pd)
<1>1. \A s, i, p : Owes(ow2, s, i, p) => Owes(ow, s, i, p)
  BY DEF Owes
<1>2. \A p : Undrawn(ow2, tp, p) => Undrawn(ow, tp, p)
  BY <1>1 DEF Undrawn
<1>3. VideoOrder(ow, tp) => VideoOrder(ow2, tp)
  BY <1>1 DEF VideoOrder
<1>4. \A pd : VideoAsked(ow, tp, pd) => VideoAsked(ow2, tp, pd)
  BY <1>1, <1>2 DEF VideoAsked
<1> QED
  BY <1>2, <1>3, <1>4

\* An answer or a note is posted.
LEMMA VideosPosted ==
  ASSUME NEW ow, NEW tp \in Seq(PostType), NEW m \in PostType, m \notin FrameType
  PROVE  /\ \A p : Undrawn(ow, Append(tp, m), p) <=> Undrawn(ow, tp, p)
         /\ VideoOrder(ow, tp) => VideoOrder(ow, Append(tp, m))
         /\ \A pd : VideoAsked(ow, tp, pd) => VideoAsked(ow, Append(tp, m), pd)
<1> DEFINE t == Append(tp, m)
<1>1. \A i, p : Frames(t, i, p) <=> Frames(tp, i, p)
  BY FramesAppend
<1>2. \A i, p : Answers(tp, i, p) => Answers(t, i, p)
  BY AnswersAppend
<1> HIDE DEF t
<1>3. \A p : Undrawn(ow, t, p) <=> Undrawn(ow, tp, p)
  BY <1>1 DEF Undrawn
<1>4. VideoOrder(ow, tp) => VideoOrder(ow, t)
  BY <1>1 DEF VideoOrder
<1>5. \A pd : VideoAsked(ow, tp, pd) => VideoAsked(ow, t, pd)
  BY <1>1, <1>2, <1>3 DEF VideoAsked
<1> QED
  BY <1>3, <1>4, <1>5 DEF t

\* A decoder takes a chunk that is newer than all it has.
LEMMA VideosPut ==
  ASSUME NEW ow \in [Surfaces -> Seq(VideoPdu)], NEW s \in Surfaces, NEW p \in VideoPdu, p.dst = s,
         NEW ow2, Puts(ow, s, p, ow2), NEW tp \in Seq(PostType), VideoOrder(ow, tp),
         \A u : Undrawn(ow, tp, u) => u.id < p.id
  PROVE  /\ \A u : Undrawn(ow2, tp, u) <=> Undrawn(ow, tp, u) \/ u = p
         /\ VideoOrder(ow2, tp)
         /\ \A pd : VideoAsked(ow, tp, pd) /\ p \in pd /\ (\E j : Answers(tp, j, p))
              => VideoAsked(ow2, tp, pd)
<1>1. /\ \A t, i, q : Owes(ow2, t, i, q) <=>
                           \/ Owes(ow, t, i, q)
                           \/ t = s /\ i = Len(ow[s]) + 1 /\ q = p
      /\ Len(ow[s]) \in Nat
  BY OwesPut
<1>2. \A u : Undrawn(ow2, tp, u) <=> Undrawn(ow, tp, u) \/ u = p
  <2>1. Owes(ow2, s, Len(ow[s]) + 1, p)
    BY <1>1
  <2>2. \A u : (\E t, i : Owes(ow2, t, i, u)) <=> (\E t, i : Owes(ow, t, i, u)) \/ u = p
    BY <1>1, <2>1
  <2> QED
    BY <2>2 DEF Undrawn
<1>3. /\ \A t, i, q : Owes(ow, t, i, q) => q.id < p.id /\ i \in 1..Len(ow[t])
      /\ \A i, q : Frames(tp, i, q) => q.id < p.id
  BY DEF Undrawn, Owes
<1>4. VideoOrder(ow2, tp)
  <2>1. \A t, i, q : Owes(ow2, t, i, q) => q.dst = t
    BY <1>1 DEF VideoOrder
  <2>2. ASSUME NEW t, NEW i, NEW j, NEW q, NEW r, Owes(ow2, t, i, q), Owes(ow2, t, j, r), i < j
        PROVE  q.id < r.id
    BY <2>2, <1>3, <1>1 DEF VideoOrder
  <2>3. ASSUME NEW i, NEW j, NEW q, NEW r, Frames(tp, i, q), Owes(ow2, q.dst, j, r)
        PROVE  q.id < r.id
    BY <2>3, <1>3, <1>1 DEF VideoOrder
  <2> QED
    BY <2>1, <2>2, <2>3 DEF VideoOrder
<1>5. ASSUME NEW pd, VideoAsked(ow, tp, pd), p \in pd, \E j : Answers(tp, j, p)
      PROVE  VideoAsked(ow2, tp, pd)
  BY <1>2, <1>5, <1>1 DEF VideoAsked
<1> QED
  BY <1>2, <1>4, <1>5

\* A decoder puts its oldest chunk out, as a message.
LEMMA VideosOutput ==
  ASSUME NEW ow \in [Surfaces -> Seq(VideoPdu)], NEW s \in Surfaces,
         NEW ow2, Outs(ow, s, ow2),
         NEW tp \in Seq(PostType), NEW m \in FrameType, m.pdu = Head(ow[s]), VideoOrder(ow, tp)
  PROVE  /\ \A p : Undrawn(ow2, Append(tp, m), p) => Undrawn(ow, tp, p)
         /\ VideoOrder(ow2, Append(tp, m))
         /\ \A pd : VideoAsked(ow, tp, pd) => VideoAsked(ow2, Append(tp, m), pd)
<1> DEFINE t == Append(tp, m)
           v == Head(ow[s])
<1>0. m \in PostType /\ Len(tp) \in Nat
  BY DEF PostType
<1>1. \A i, p : Frames(t, i, p) <=> Frames(tp, i, p) \/ (i = Len(tp) + 1 /\ v = p)
  BY <1>0, FramesAppend
<1>2. \A i, p : Answers(tp, i, p) => Answers(t, i, p) /\ i < Len(tp) + 1
  BY <1>0, AnswersAppend DEF Answers
<1>3. /\ \A u, i, q : Owes(ow2, u, i, q) =>
              /\ u # s => Owes(ow, u, i, q)
              /\ u = s => Owes(ow, s, i + 1, q) /\ i \in Int /\ 1 < i + 1
      /\ Owes(ow, s, 1, v)
  BY OwesTail
<1>4. \A i, p : Frames(tp, i, p) => i \in Int /\ i < Len(tp) + 1
  BY <1>0 DEF Frames
<1> HIDE DEF t, v
<1>5. \A p : Undrawn(ow2, t, p) => Undrawn(ow, tp, p)
  BY <1>1, <1>3 DEF Undrawn
<1>6. VideoOrder(ow2, t)
  <2>1. \A u, i, q : Owes(ow2, u, i, q) => q.dst = u
    BY <1>3 DEF VideoOrder
  <2>2. ASSUME NEW u, NEW i, NEW j, NEW q, NEW r, Owes(ow2, u, i, q), Owes(ow2, u, j, r), i < j
        PROVE  q.id < r.id
    BY <1>3, <2>2 DEF VideoOrder
  <2>3. ASSUME NEW i, NEW j, NEW p, NEW q, Frames(t, i, p), Frames(t, j, q), i < j, p.dst = q.dst
        PROVE  p.id < q.id
    <3>1. CASE Frames(tp, i, p) /\ Frames(tp, j, q)
      BY <2>3, <3>1 DEF VideoOrder
    <3>2. CASE Frames(tp, i, p) /\ q = v
      <4>1. v.dst = s
        BY <1>3 DEF VideoOrder
      <4> QED
        BY <1>3, <2>3, <3>2, <4>1 DEF VideoOrder
    <3>3. CASE i = Len(tp) + 1 /\ Frames(tp, j, q)
      BY <1>0, <1>4, <2>3, <3>3
    <3> QED
      BY <1>0, <1>1, <2>3, <3>1, <3>2, <3>3
  <2>4. ASSUME NEW i, NEW j, NEW p, NEW q, Frames(t, i, p), Owes(ow2, p.dst, j, q)
        PROVE  p.id < q.id
    <3>1. CASE Frames(tp, i, p)
      <4>1. \E k : Owes(ow, p.dst, k, q)
        BY <1>3, <2>4
      <4> QED
        BY <3>1, <4>1 DEF VideoOrder
    <3>2. CASE p = v
      BY <1>3, <2>4, <3>2 DEF VideoOrder
    <3> QED
      BY <1>1, <2>4, <3>1, <3>2
  <2> QED
    BY <2>1, <2>2, <2>3, <2>4 DEF VideoOrder
<1>7. ASSUME NEW pd, VideoAsked(ow, tp, pd) PROVE VideoAsked(ow2, t, pd)
  BY <1>5, <1>7, <1>2, <1>3, <1>1 DEF VideoAsked
<1> QED
  BY <1>5, <1>6, <1>7 DEF t

\* The page takes a message.
LEMMA VideosTake ==
  ASSUME NEW ow, NEW tp \in Seq(PostType), tp # <<>>, VideoOrder(ow, tp)
  PROVE  /\ \A p : Undrawn(ow, Tail(tp), p) => Undrawn(ow, tp, p)
         /\ VideoOrder(ow, Tail(tp))
         /\ \A pd, pd2 :
              /\ VideoAsked(ow, tp, pd) /\ pd2 \subseteq pd
              /\ \A p \in pd : p \notin pd2 => \A q \in pd2 : p.id < q.id
              /\ \A p \in pd2 : ~(Head(tp) \in AnswerType /\ Head(tp).pdu = p)
              => VideoAsked(ow, Tail(tp), pd2)
<1> DEFINE t == Tail(tp)
<1>1. /\ \A i, p : Frames(t, i, p) => Frames(tp, i + 1, p) /\ i \in Int /\ 1 < i + 1
      /\ \A i, p : Frames(tp, i, p) =>
              \/ i = 1 /\ Head(tp) \in FrameType /\ Head(tp).pdu = p
              \/ Frames(t, i - 1, p)
  BY FramesTail
<1>2. \A i, p : Answers(tp, i, p) =>
              \/ i = 1 /\ Head(tp) \in AnswerType /\ Head(tp).pdu = p
              \/ Answers(t, i - 1, p)
  BY AnswersTail
<1> HIDE DEF t
<1>3. \A p : Undrawn(ow, t, p) => Undrawn(ow, tp, p)
  BY <1>1 DEF Undrawn
<1>4. VideoOrder(ow, t)
  <2>1. ASSUME NEW i, NEW j, NEW p, NEW q, Frames(t, i, p), Frames(t, j, q), i < j, p.dst = q.dst
        PROVE  p.id < q.id
    <3>1. Frames(tp, i + 1, p) /\ Frames(tp, j + 1, q) /\ i + 1 < j + 1
      BY <1>1, <2>1
    <3> QED
      BY <2>1, <3>1 DEF VideoOrder
  <2>2. \A i, j, p, q : Frames(t, i, p) /\ Owes(ow, p.dst, j, q) => p.id < q.id
    BY <1>1 DEF VideoOrder
  <2> QED
    BY <2>1, <2>2 DEF VideoOrder
<1>5. ASSUME NEW pd, NEW pd2, VideoAsked(ow, tp, pd), pd2 \subseteq pd,
             \A p \in pd : p \notin pd2 => \A q \in pd2 : p.id < q.id,
             \A p \in pd2 : ~(Head(tp) \in AnswerType /\ Head(tp).pdu = p)
      PROVE  VideoAsked(ow, t, pd2)
  BY <1>3, <1>5, <1>2, <1>1, Indices DEF VideoAsked
<1> QED
  BY <1>3, <1>4, <1>5 DEF t

\* A decode is asked that is newer than all that is to come.
LEMMA VideosAsk ==
  ASSUME NEW ow \in [Surfaces -> Seq(VideoPdu)], NEW tp \in Seq(PostType), NEW pd, NEW n,
         n.id \in Nat, \A u : Undrawn(ow, tp, u) => u.id < n.id, VideoAsked(ow, tp, pd)
  PROVE  VideoAsked(ow, tp, pd \cup {n})
BY DEF Undrawn, VideoAsked

\* Nothing is on its way to the page.
LEMMA VideosSilent ==
  ASSUME NEW ow
  PROVE  /\ \A p, tp : Undrawn(ow, <<>>, p) => Undrawn(ow, tp, p)
         /\ \A tp : VideoOrder(ow, tp) => VideoOrder(ow, <<>>)
BY DEF Frames, Undrawn, VideoOrder

\* A decoder puts its oldest chunk out, and it is painted at once.
LEMMA VideosPainted ==
  ASSUME NEW ow \in [Surfaces -> Seq(VideoPdu)], NEW s \in Surfaces,
         NEW ow2, Outs(ow, s, ow2), NEW tp, VideoOrder(ow, tp)
  PROVE  /\ \A p : Undrawn(ow2, tp, p) => Undrawn(ow, tp, p)
         /\ VideoOrder(ow2, tp)
<1>1. /\ \A u, i, q : Owes(ow2, u, i, q) =>
              /\ u # s => Owes(ow, u, i, q)
              /\ u = s => Owes(ow, s, i + 1, q) /\ i \in Int /\ 1 < i + 1
      /\ Owes(ow, s, 1, Head(ow[s]))
  BY OwesTail
<1>2. \A u, i, q : Owes(ow2, u, i, q) => \E j : Owes(ow, u, j, q)
  BY <1>1
<1>3. \A p : Undrawn(ow2, tp, p) => Undrawn(ow, tp, p)
  BY <1>2 DEF Undrawn
<1>4. ASSUME NEW u, NEW i, NEW j, NEW q, NEW r, Owes(ow2, u, i, q), Owes(ow2, u, j, r), i < j
      PROVE  q.id < r.id
  BY <1>1, <1>4 DEF VideoOrder
<1>5. \A u, i, q : Owes(ow2, u, i, q) => q.dst = u
  BY <1>2 DEF VideoOrder
<1>6. \A i, j, p, q : Frames(tp, i, p) /\ Owes(ow2, p.dst, j, q) => p.id < q.id
  BY <1>2 DEF VideoOrder
<1>7. \A i, j, p, q : Frames(tp, i, p) /\ Frames(tp, j, q) /\ i < j /\ p.dst = q.dst => p.id < q.id
  BY DEF VideoOrder
<1> QED
  BY <1>3, <1>4, <1>5, <1>6, <1>7 DEF VideoOrder

\* What the decoders owe after a chunk.
LEMMA SubmitCases ==
  ASSUME Typed, NEW p \in VideoPdu, NEW o, Submit(p, o)
  PROVE  /\ p.dst \in Surfaces
         /\ Puts(owed, p.dst, p, owed') \/ \A s \in Surfaces : owed'[s] \in {owed[s], <<>>}
BY SubmitFacts DEF VideoPdu, Puts

\* Chunks are lost, or nothing happens to them.
LEMMA VideosSame ==
  ASSUME Typed, Videos, toPage' = toPage, pending' = pending, worker' \in {worker, "lost", "closed"},
         \A s \in Surfaces : owed'[s] \in {owed[s], <<>>},
         host.sent.id \in Nat, host'.sent.id \in Nat, host.sent.id <= host'.sent.id
  PROVE  Videos'
<1>1. /\ \A p : Undrawn(owed', toPage, p) => Undrawn(owed, toPage, p)
      /\ VideoOrder(owed, toPage) => VideoOrder(owed', toPage)
      /\ VideoAsked(owed, toPage, pending) => VideoAsked(owed', toPage, pending)
  BY VideosDropped
<1>2. \A p : Undrawn(owed, toPage, p) => p.id \in Nat
  BY VideoIds DEF Typed
<1>3. VideoKnown(owed', toPage', host')
  BY <1>1, <1>2 DEF Videos, VideoKnown
<1> QED
  BY <1>1, <1>3 DEF Videos

\* What every PDU does.
LEMMA HostSends ==
  ASSUME Typed, HostStep
  PROVE  /\ host'.sent.id = host.sent.id + 1 /\ host.sent.id \in Nat /\ host'.sent \in Pdu
         /\ worker' = worker /\ ran' = ran /\ toPage' = toPage /\ setting' = setting
<1>1. PICK k \in Kinds, a \in Surfaces \cup Slots \cup {NoPicture},
           b \in Surfaces \cup Slots \cup {NoPicture} : Sends(k, a, b)
  BY DEF HostStep, DispatchOrdered, CreateSurface, RecreateSurface, DeleteSurface,
         MapSurfaceToOutput, DecodeProgressive, DecodeProgressiveSync, DecodeAvc420,
         DecodeAvc420Page, ResetGraphics, EndFrame, Kinds, Ordered, Video
<1> QED
  BY <1>1, SendsFacts

LEMMA VideosOfHost ==
  ASSUME Typed, Messages, Videos, HostStep
  PROVE  Videos'
<1>1. /\ host'.sent.id = host.sent.id + 1 /\ host.sent.id \in Nat
      /\ worker' = worker /\ toPage' = toPage
  BY HostSends
<1>2. owed \in [Surfaces -> Seq(VideoPdu)] /\ toPage \in Seq(PostType)
  BY DEF Typed
<1>3. \A u : Undrawn(owed, toPage, u) => u.id \in Nat /\ u.id < host'.sent.id
  BY <1>1, <1>2, VideoIds DEF Videos, VideoKnown
<1>4. ASSUME NEW s \in Surfaces, DecodeProgressive(s) \/ \E k \in Video : DecodeAvc420(k, s)
      PROVE  Videos'
  <2>1. worker = "up" /\ pending' = pending \cup {host'.sent} /\ owed' = owed
    BY <1>4, AskFacts DEF Asked
  <2>2. host'.sent.id \in Nat
    BY <1>1
  <2>3. VideoAsked(owed, toPage, pending \cup {host'.sent})
    BY <1>2, <1>3, <2>1, <2>2, VideosAsk DEF Videos
  <2>4. VideoKnown(owed', toPage', host')
    BY <1>1, <1>3, <2>1 DEF VideoKnown
  <2> QED
    BY <1>1, <2>1, <2>3, <2>4 DEF Videos
<1>5. ASSUME NEW s \in Surfaces, NEW k \in Video, DecodeAvc420Page(k, s)
      PROVE  Videos'
  <2>1. /\ worker # "up" /\ pending' = pending /\ host'.sent \in VideoPdu /\ host'.sent.dst = s
        /\ \E o : Submit(host'.sent, o)
    BY <1>5, PageVideoFacts
  <2> DEFINE p == host'.sent
  <2>2. Puts(owed, s, p, owed') \/ \A t \in Surfaces : owed'[t] \in {owed[t], <<>>}
    BY <2>1, SubmitCases
  <2>3. CASE Puts(owed, s, p, owed')
    <3>1. /\ \A u : Undrawn(owed', toPage, u) <=> Undrawn(owed, toPage, u) \/ u = p
          /\ VideoOrder(owed', toPage)
      BY <1>2, <1>3, <2>1, <2>3, VideosPut DEF Videos
    <3>2. VideoKnown(owed', toPage', host')
      BY <1>1, <1>3, <3>1 DEF VideoKnown
    <3> QED
      BY <1>1, <2>1, <3>1, <3>2 DEF Videos
  <2>4. CASE \A t \in Surfaces : owed'[t] \in {owed[t], <<>>}
    BY <1>1, <2>1, <2>4, VideosSame
  <2> QED
    BY <2>2, <2>3, <2>4
<1>6. ASSUME NEW s \in Surfaces, RecreateSurface(s) \/ DeleteSurface(s)
      PROVE  Videos'
  BY <1>6, <1>2, <1>1, VideosSame DEF RecreateSurface, DeleteSurface, DestroySurface, videoVars
<1>7. CASE \/ \E k \in Ordered, a, b \in Surfaces \cup Slots \cup {NoPicture} : DispatchOrdered(k, a, b)
           \/ \E s \in Surfaces : CreateSurface(s) \/ MapSurfaceToOutput(s) \/ DecodeProgressiveSync(s)
           \/ ResetGraphics \/ EndFrame
  <2>1. pending' = pending /\ owed' = owed
    BY <1>7 DEF DispatchOrdered, CreateSurface, MapSurfaceToOutput, DecodeProgressiveSync,
                ResetGraphics, EndFrame, videoVars
  <2> QED
    BY <1>1, <2>1, VideosSame
<1> QED
  BY <1>4, <1>5, <1>6, <1>7 DEF HostStep

LEMMA VideosOfDecoder ==
  ASSUME Typed, Messages, Videos, NEW s \in Surfaces, VideoOutput(s) \/ VideoError(s)
  PROVE  Videos'
<1>1. owed \in [Surfaces -> Seq(VideoPdu)] /\ toPage \in Seq(PostType)
  BY DEF Typed
<1>2. UNCHANGED <<host, worker, pending>>
  BY VideoOutputFacts, VideoErrorFacts
<1>3. CASE VideoOutput(s)
  <2> DEFINE p == Head(owed[s])
             m == [cmd |-> "h264-frame", pdu |-> p]
  <2>1. /\ owed[s] # <<>> /\ owed' = [owed EXCEPT ![s] = Tail(owed[s])] /\ p \in VideoPdu
        /\ IF worker = "up" THEN toPage' = Append(toPage, m) ELSE toPage' = toPage
    BY <1>3, VideoOutputFacts
  <2>2. Outs(owed, s, owed')
    BY <1>1, <2>1 DEF Outs
  <2>3. CASE worker = "up"
    <3>1. m \in FrameType /\ m.pdu = Head(owed[s])
      BY <2>1 DEF FrameType
    <3> HIDE DEF m, p
    <3>2. /\ \A u : Undrawn(owed', Append(toPage, m), u) => Undrawn(owed, toPage, u)
          /\ VideoOrder(owed', Append(toPage, m))
          /\ VideoAsked(owed, toPage, pending) => VideoAsked(owed', Append(toPage, m), pending)
      BY <1>1, <2>2, <3>1, VideosOutput DEF Videos
    <3> QED
      BY <1>2, <2>1, <2>3, <3>2 DEF Videos, VideoKnown
  <2>4. CASE worker # "up"
    BY <1>1, <2>2, VideosPainted, <1>2, <2>1, <2>4 DEF Videos, VideoKnown
  <2> QED
    BY <2>3, <2>4
<1>4. CASE VideoError(s)
  <2>1. /\ owed' = [owed EXCEPT ![s] = <<>>]
        /\ toPage' = toPage \/ \E n \in NoteType : toPage' = Append(toPage, n)
    BY <1>4, VideoErrorFacts
  <2>2. /\ \A p : Undrawn(owed', toPage, p) => Undrawn(owed, toPage, p)
        /\ VideoOrder(owed, toPage) => VideoOrder(owed', toPage)
        /\ VideoAsked(owed, toPage, pending) => VideoAsked(owed', toPage, pending)
    BY <1>1, <2>1, VideosDropped
  <2>3. /\ \A p : Undrawn(owed', toPage', p) => Undrawn(owed', toPage, p)
        /\ VideoOrder(owed', toPage) => VideoOrder(owed', toPage')
        /\ VideoAsked(owed', toPage, pending) => VideoAsked(owed', toPage', pending)
    <3>1. ASSUME NEW n \in NoteType, toPage' = Append(toPage, n)
          PROVE  /\ \A p : Undrawn(owed', toPage', p) => Undrawn(owed', toPage, p)
                 /\ VideoOrder(owed', toPage) => VideoOrder(owed', toPage')
                 /\ VideoAsked(owed', toPage, pending) => VideoAsked(owed', toPage', pending)
      BY <1>1, <3>1, VideosPosted DEF PostType, NoteType, FrameType
    <3> QED
      BY <2>1, <3>1
  <2> QED
    BY <1>2, <2>2, <2>3 DEF Videos, VideoKnown
<1> QED
  BY <1>3, <1>4

LEMMA VideosOfWorker ==
  ASSUME Typed, Messages, Videos, WorkerStep
  PROVE  Videos'
<1> DEFINE m == Head(toWorker)
<1>1. /\ worker = "up" /\ toWorker # <<>>
      /\ (\E a \in AnswerType : Answered(m, a)) \/ Forgotten(m)
      /\ UNCHANGED <<host, pending, worker>>
  BY WorkerStepFacts
<1>2. owed \in [Surfaces -> Seq(VideoPdu)] /\ toPage \in Seq(PostType)
      /\ toWorker \in Seq(AskType \cup DestroyType)
  BY DEF Typed
<1>3. m \in AskType => Asks(toWorker, 1, m.pdu)
  BY <1>1, <1>2, AsksTail
<1> HIDE DEF m
<1>4. VideoOrder(owed, toPage) /\ VideoAsked(owed, toPage, pending) /\ VideoKnown(owed, toPage, host)
  BY <1>1 DEF Videos
<1>5. ASSUME NEW a \in AnswerType, Answered(m, a) PROVE Videos'
  <2>1. m \in AskType /\ a.pdu = m.pdu
    BY <1>5 DEF Answered
  <2>2. a \in PostType /\ a \notin FrameType /\ \A n \in NoteType : n \in PostType /\ n \notin FrameType
    BY DEF PostType, NoteType, FrameType, AnswerType
  <2>3. /\ \A u : Undrawn(owed, toPage', u) <=> Undrawn(owed, toPage, u)
        /\ VideoOrder(owed, toPage') /\ VideoAsked(owed, toPage', pending)
        /\ \E j : Answers(toPage', j, m.pdu)
    <3>1. CASE toPage' = Append(toPage, a)
      BY <1>2, <1>4, <2>1, <2>2, <3>1, VideosPosted, AnswersAppend
    <3>2. ASSUME NEW n \in NoteType, toPage' = Append(Append(toPage, n), a)
          PROVE  /\ \A u : Undrawn(owed, toPage', u) <=> Undrawn(owed, toPage, u)
                 /\ VideoOrder(owed, toPage') /\ VideoAsked(owed, toPage', pending)
                 /\ \E j : Answers(toPage', j, m.pdu)
      <4> DEFINE t == Append(toPage, n)
      <4>1. /\ \A u : Undrawn(owed, t, u) <=> Undrawn(owed, toPage, u)
            /\ VideoOrder(owed, t) /\ VideoAsked(owed, t, pending) /\ t \in Seq(PostType)
        BY <1>2, <1>4, <2>2, VideosPosted
      <4>2. toPage' = Append(t, a)
        BY <3>2
      <4> HIDE DEF t
      <4> QED
        BY <2>1, <2>2, <4>1, <4>2, VideosPosted, AnswersAppend
    <3> QED
      BY <1>5, <3>1, <3>2 DEF Answered
  <2>4. m.pdu \in pending /\ \A j, p : Answers(toPage, j, p) => p.id < m.pdu.id
    BY <1>1, <1>3, <2>1 DEF Messages, Fifo
  <2>5. \A u : Undrawn(owed, toPage', u) => u.id < m.pdu.id
    BY <2>3, <1>4, <2>4 DEF VideoAsked, Undrawn
  <2>6. /\ \A p : Undrawn(owed', toPage', p) => Undrawn(owed, toPage, p) \/ p = m.pdu
        /\ VideoOrder(owed', toPage') /\ VideoAsked(owed', toPage', pending)
    <3>1. toPage' \in Seq(PostType)
      BY WorkerStepFacts DEF Typed
    <3>2. CASE m.pdu \in VideoPdu /\ Puts(owed, m.pdu.dst, m.pdu, owed')
      BY <3>2, <1>2, <2>3, <2>4, <2>5, <3>1, VideosPut DEF VideoPdu
    <3>3. CASE \A s \in Surfaces : owed'[s] \in {owed[s], <<>>}
      BY <2>3, <3>3, VideosDropped
    <3>4. CASE owed' = owed
      BY <3>3, <3>4
    <3> QED
      BY <1>5, <3>2, <3>3, <3>4, SubmitCases DEF Answered
  <2>7. VideoKnown(owed', toPage', host')
    BY <1>1, <1>4, <2>4, <2>6 DEF VideoKnown, Messages, Known
  <2> QED
    BY <1>1, <2>6, <2>7 DEF Videos
<1>6. CASE Forgotten(m)
  BY <1>6, <1>2, <1>1, VideosSame, HostIds DEF Forgotten, DestroyType
<1> QED
  BY <1>1, <1>5, <1>6

LEMMA VideosOfMessage ==
  ASSUME Typed, Messages, Videos, NEW m,
         OnProgressiveResult(m) \/ OnH264Submitted(m) \/ OnH264Frame(m) \/ OnNeedKeyframe(m)
  PROVE  Videos'
<1>1. Take(m) /\ worker' = worker
  BY AnswerFacts, FrameFacts, NoteFacts
<1>2. toPage # <<>> /\ m = Head(toPage) /\ toPage' = Tail(toPage) /\ UNCHANGED <<host, owed>>
  BY <1>1, TakeFacts
<1>3. toPage \in Seq(PostType)
  BY DEF Typed
<1>4. worker = "up"
  BY <1>2 DEF Messages, Workers, Typed
<1>5. VideoOrder(owed, toPage) /\ VideoAsked(owed, toPage, pending) /\ VideoKnown(owed, toPage, host)
  BY <1>4 DEF Videos
<1>6. /\ pending' \subseteq pending
      /\ \A p \in pending : p \notin pending' => \A q \in pending' : p.id < q.id
      /\ \A p \in pending' : ~(m \in AnswerType /\ m.pdu = p)
  BY AnswerFacts, AnswerMessages, FrameFacts, NoteFacts DEF FrameType, AnswerType
<1>7. /\ \A p : Undrawn(owed, Tail(toPage), p) => Undrawn(owed, toPage, p)
      /\ VideoOrder(owed, Tail(toPage)) /\ VideoAsked(owed, Tail(toPage), pending')
  BY <1>2, <1>3, <1>5, <1>6, VideosTake
<1> QED
  BY <1>1, <1>2, <1>5, <1>7 DEF Videos, VideoKnown

LEMMA StepVideos ==
  ASSUME Typed, Messages, Videos, PipelineNext
  PROVE  Videos'
<1>1. CASE OnUnsupported \/ Destroy
  BY <1>1, ShutFacts, VideosSilent DEF Videos, VideoKnown
<1>2. CASE WorkerError \/ AckTimer \/ Flush \/ Rest
  BY <1>2, WorkerErrorFacts, AckTimerTyped, FlushTyped, VideosSame, HostIds DEF Rest, pipelineVars
<1> QED
  BY <1>1, <1>2, VideosOfHost, VideosOfDecoder, VideosOfWorker, VideosOfMessage
     DEF PipelineNext, PageMessage

-----------------------------------------------------------------------------
(* The queue.                                                              *)

\* A host that keeps to what the pipeline can order: it does not overrun a cache
\* operation, reuses a surface only when it is idle, and when the worker may be
\* lost it only sends decodes.
Orderly ==
  /\ ~Given("overrun") /\ ~Given("reuse")
  /\ Given("workerLost") => setting.kinds \cap Ordered = {}

\* The decodes pending that came before PDU id.
Older(pd, id) == {x \in pd : x.id < id}

\* The queue is in the order of arrival.
Arranged(q, h) ==
  /\ \A i, j \in 1..Len(q) : i < j => q[i].pdu.id < q[j].pdu.id
  /\ \A i \in 1..Len(q) : q[i].pdu.id <= h.sent.id

\* The barrier of a queued operation is reached when the decodes that came before
\* it are answered, and a save waits behind all that are pending.
Barriers(q, pd, settled) ==
  \A i \in 1..Len(q) :
    /\ q[i].barrier = settled + Cardinality(Older(pd, q[i].pdu.id))
    /\ q[i].pdu.kind = "save" => pd = Older(pd, q[i].pdu.id)

\* The surfaces of what is queued exist.
AllExist(q, x) == \A i \in 1..Len(q) : Exist(x, q[i].pdu)

\* The head waits for a decode.
HeadWaits(q, pd) == q # <<>> => Older(pd, q[1].pdu.id) # {}

Queues ==
  /\ Arranged(queue, host) /\ Barriers(queue, pending, count.settled)
  /\ AllExist(queue, Screen) /\ HeadWaits(queue, pending)
  /\ Given("workerLost") => queue = <<>>
  /\ worker = "lost" => Given("workerLost")
  /\ worker = "off" => pending = {}

LEMMA OlderTyped ==
  ASSUME Typed, NEW id
  PROVE  /\ IsFiniteSet(Older(pending, id)) /\ Cardinality(Older(pending, id)) \in Nat
         /\ Cardinality(Older(pending, id)) = 0 <=> Older(pending, id) = {}
BY FS_Subset, FS_CardinalityType, FS_EmptySet DEF Typed, Older

\* A newer decode is not among the older ones.
LEMMA OlderAdd ==
  ASSUME NEW pd, NEW n, NEW id, n.id \in Nat, id \in Nat, id < n.id
  PROVE  Older(pd \cup {n}, id) = Older(pd, id)
BY DEF Older

\* The oldest one is.
LEMMA OlderLess ==
  ASSUME NEW pd, IsFiniteSet(pd), NEW d \in pd, NEW id \in Nat,
         \A p \in pd : p.id \in Nat, \A p \in pd \ {d} : d.id < p.id, Older(pd, id) # {}
  PROVE  /\ d.id < id /\ Older(pd \ {d}, id) = Older(pd, id) \ {d}
         /\ Cardinality(Older(pd, id)) = Cardinality(Older(pd \ {d}, id)) + 1
         /\ Cardinality(Older(pd \ {d}, id)) \in Nat
         /\ Cardinality(Older(pd \ {d}, id)) = 0 <=> Older(pd \ {d}, id) = {}
<1>1. d \in Older(pd, id) /\ d.id < id
  BY DEF Older
<1>2. Older(pd \ {d}, id) = Older(pd, id) \ {d}
  BY DEF Older
<1>3. IsFiniteSet(Older(pd, id))
  BY FS_Subset DEF Older
<1>4. /\ IsFiniteSet(Older(pd, id) \ {d})
      /\ Cardinality(Older(pd, id) \ {d}) = Cardinality(Older(pd, id)) - 1
  BY <1>1, <1>3, FS_RemoveElement
<1>5. Cardinality(Older(pd, id)) \in Nat /\ Cardinality(Older(pd, id) \ {d}) \in Nat
      /\ (Cardinality(Older(pd, id) \ {d}) = 0 <=> Older(pd, id) \ {d} = {})
  BY <1>3, <1>4, FS_CardinalityType, FS_EmptySet
<1> QED
  BY <1>1, <1>2, <1>4, <1>5

\* The head of the queue waits, and all behind it.
LEMMA AllWait ==
  ASSUME Typed, Queues
  PROVE  /\ \A i \in 1..Len(queue) : Older(pending, queue[i].pdu.id) # {}
         /\ queue # <<>> => pending # {}
<1> SUFFICES ASSUME queue # <<>>
             PROVE  pending # {} /\ \A i \in 1..Len(queue) : Older(pending, queue[i].pdu.id) # {}
  OBVIOUS
<1>1. Len(queue) \in Nat \ {0} /\ \A i \in 1..Len(queue) : queue[i].pdu.id \in Nat
  BY QueueKinds DEF Typed
<1>2. PICK p \in pending : p.id < queue[1].pdu.id
  BY DEF Queues, HeadWaits, Older
<1>3. p.id \in Nat
  BY HostIds
<1>4. \A i \in 1..Len(queue) : p.id < queue[i].pdu.id
  BY <1>1, <1>2, <1>3 DEF Queues, Arranged
<1> QED
  BY <1>4 DEF Older

\* Nothing happens to the queue and to the decodes it waits for.
LEMMA QueuesKept ==
  ASSUME Typed, Queues, queue' = queue, pending' = pending, count'.settled = count.settled,
         setting' = setting, worker' \in {worker, "closed"},
         host.sent.id \in Nat, host'.sent.id \in Nat, host.sent.id <= host'.sent.id,
         \A i \in 1..Len(queue) : Exist(Screen, queue[i].pdu) => Exist(NextScreen, queue[i].pdu)
  PROVE  Queues'
<1>1. \A i \in 1..Len(queue) : queue[i].pdu.id \in Nat
  BY QueueKinds DEF Typed
<1>2. Arranged(queue', host')
  BY <1>1 DEF Queues, Arranged
<1>3. Screen' = NextScreen
  BY DEF Screen, NextScreen
<1>4. AllExist(queue', Screen')
  BY <1>3 DEF Queues, AllExist
<1>5. Given("workerLost") <=> Given("workerLost")'
  BY DEF Given
<1> QED
  BY <1>2, <1>4, <1>5 DEF Queues

\* No surface goes.
LEMMA ExistKept ==
  ASSUME NEW x, NEW y, NEW p, Exist(x, p),
         \A s \in Surfaces : x.surf[s].st # "gone" => y.surf[s].st # "gone"
  PROVE  Exist(y, p)
BY DEF Exist, Absent

LEMMA DrawsKeep ==
  ASSUME NEW x, NEW y, Redrawn(x, y)
  PROVE  \A s \in Surfaces : x.surf[s].st # "gone" => y.surf[s].st # "gone"
BY DEF Redrawn

-----------------------------------------------------------------------------
(* Steps that perform nothing.                                             *)

\* What every step needs: the invariant behind the refinement.
OrderInv == PipelineInv /\ Videos /\ Orderly /\ Queues

LEMMA PicsSame ==
  ASSUME \A s \in Surfaces : surf'[s].px = surf[s].px, cache' = cache
  PROVE  Pics(NextScreen) = Pics(Screen)
BY DEF Pics, NextScreen, Screen

LEMMA HostArrives ==
  ASSUME Typed, HostStep
  PROVE  Arrived = {host'.sent} /\ host'.sent.id > host.sent.id
BY HostSends DEF Arrived

LEMMA IdleStep ==
  ASSUME Typed, Typed', Pics(NextScreen) = Pics(Screen),
         host'.sent # host.sent => host'.sent.id > host.sent.id,
         \A p : p \in Counted' => p \in Counted \/ p \in Arrived,
         \A p : Queued(queue, p) => Queued(queue', p),
         \A p : Queued(queue', p) => Queued(queue, p) \/ p \in Arrived,
         \A p : Undrawn(owed', toPage', p) =>
                  Undrawn(owed, toPage, p) \/ p \in Counted \/ p \in Arrived,
         \A p \in Arrived : p \in DecodePdu \/ Queued(queue', p)
  PROVE  Strict!Next
BY WaitingIs, WaitingKinds, KindsApart, StrictNothing DEF Gone, Typed, Counted

\* The host and the queue have no part in it.
LEMMA QuietStep ==
  ASSUME Typed, Typed', host' = host, queue' = queue,
         \A s \in Surfaces : surf'[s].px = surf[s].px, cache' = cache,
         pending' = pending, worker' \in {worker, "lost", "closed"},
         \A p : Undrawn(owed', toPage', p) => Undrawn(owed, toPage, p) \/ p \in Counted
  PROVE  Strict!Next
BY PicsSame, IdleStep DEF Arrived, Counted

\* What is asked of the worker or handed to the page's decoder waits.
LEMMA OrderOfAsk ==
  ASSUME OrderInv, NEW s \in Surfaces,
         DecodeProgressive(s) \/ \E k \in Video : DecodeAvc420(k, s)
  PROVE  Queues' /\ Strict!Next
<1> DEFINE n == host'.sent
<1>1. Typed /\ Typed' /\ HostStep /\ Asked(s)
  BY AskTyped, AskFacts DEF OrderInv, PipelineInv, HostStep
<1>2. /\ n.id = host.sent.id + 1 /\ host.sent.id \in Nat
      /\ worker' = worker /\ toPage' = toPage /\ setting' = setting
  BY <1>1, HostSends
<1>3. Arrived = {n} /\ n.id > host.sent.id
  BY <1>1, HostArrives
<1>4. /\ worker = "up" /\ n \in DecodePdu /\ pending' = pending \cup {n}
      /\ count'.settled = count.settled /\ surf' = Materialise(Screen, s).surf
      /\ cache' = cache /\ queue' = queue /\ owed' = owed
  BY <1>1 DEF Asked
<1>5. Screen \in ScreenType /\ Screen.surf = surf
  BY <1>1, ScreenTyped
<1>6. Redrawn(Screen, Materialise(Screen, s)) /\ \A t \in Surfaces : surf'[t].px = surf[t].px
  BY <1>4, <1>5, MaterialiseFacts
<1>7. Strict!Next
  BY <1>2, <1>3, <1>4, <1>1, <1>6, PicsSame, IdleStep DEF Counted
<1>8. Queues'
  <2>0. queue \in Seq(QueueType)
    BY <1>1 DEF Typed
  <2>1. \A i \in 1..Len(queue) : queue[i].pdu.id \in Nat /\ queue[i].pdu.id <= host.sent.id
    BY <2>0, QueueKinds DEF OrderInv, Queues, Arranged
  <2>2. \A i \in 1..Len(queue) : Older(pending', queue[i].pdu.id) = Older(pending, queue[i].pdu.id)
    <3>1. n.id \in Nat
      BY <1>2
    <3>2. pending' = pending \cup {n}
      BY <1>4
    <3> HIDE DEF n
    <3> SUFFICES ASSUME NEW i \in 1..Len(queue)
                 PROVE  Older(pending', queue[i].pdu.id) = Older(pending, queue[i].pdu.id)
      OBVIOUS
    <3>3. queue[i].pdu.id \in Nat /\ queue[i].pdu.id < n.id
      BY <1>2, <1>3, <2>1, <3>1
    <3> QED
      BY <3>1, <3>2, <3>3, OlderAdd
  <2>3. \A i \in 1..Len(queue) : queue[i].pdu.kind # "save"
    BY <1>1, AskFacts, <2>0, ToSetIs DEF OrderInv, Sends, Video, Sendable, Orderly
  <2>4. Arranged(queue', host')
    BY <1>2, <1>4, <2>1 DEF OrderInv, Queues, Arranged
  <2>5. Barriers(queue', pending', count'.settled)
    BY <1>4, <2>2, <2>3 DEF OrderInv, Queues, Barriers
  <2>6. AllExist(queue', Screen')
    BY <1>4, <1>6, DrawsKeep, ExistKept DEF Screen, OrderInv, Queues, AllExist
  <2>7. HeadWaits(queue', pending')
    <3>1. queue # <<>> => 1 \in 1..Len(queue)
      BY <2>0
    <3> QED
      BY <1>4, <2>2, <3>1 DEF OrderInv, Queues, HeadWaits
  <2>8. Given("workerLost")' <=> Given("workerLost")
    BY <1>2 DEF Given
  <2> QED
    BY <1>2, <1>4, <2>4, <2>5, <2>6, <2>7, <2>8 DEF OrderInv, Queues
<1> QED
  BY <1>7, <1>8

LEMMA OrderOfPageVideo ==
  ASSUME OrderInv, NEW s \in Surfaces, NEW k \in Video, DecodeAvc420Page(k, s)
  PROVE  Queues' /\ Strict!Next
<1> DEFINE n == host'.sent
<1>1. Typed /\ HostStep
  BY DEF OrderInv, PipelineInv, HostStep
<1>2. /\ Typed' /\ surf' = Materialise(Screen, s).surf /\ n \in VideoPdu
      /\ UNCHANGED <<cache, count, queue, pending>> /\ \E o : Submit(n, o)
  BY <1>1, PageVideoFacts
<1>3. /\ n.id = host.sent.id + 1 /\ host.sent.id \in Nat
      /\ worker' = worker /\ toPage' = toPage /\ setting' = setting
  BY <1>1, HostSends
<1>4. Arrived = {n} /\ n.id > host.sent.id
  BY <1>1, HostArrives
<1>5. Screen \in ScreenType /\ Screen.surf = surf
  BY <1>1, ScreenTyped
<1>6. Redrawn(Screen, Materialise(Screen, s)) /\ \A t \in Surfaces : surf'[t].px = surf[t].px
  BY <1>2, <1>5, MaterialiseFacts
<1>7. \A p : Undrawn(owed', toPage', p) => Undrawn(owed, toPage, p) \/ p = n
  <2>1. n.dst \in Surfaces /\ owed \in [Surfaces -> Seq(VideoPdu)]
    BY <1>1, <1>2 DEF VideoPdu, Typed
  <2>2. CASE Puts(owed, n.dst, n, owed')
    BY <1>2, <2>1, <2>2, OwesPut, <1>3 DEF Undrawn
  <2>3. CASE \A t \in Surfaces : owed'[t] \in {owed[t], <<>>}
    BY <1>3, <2>3, VideosDropped
  <2> QED
    BY <1>1, <1>2, <2>2, <2>3, SubmitCases
<1>8. Strict!Next
  <2>1. \A p : p \in Counted' => p \in Counted
    BY <1>2, <1>3 DEF Counted
  <2> QED
    BY <1>1, <1>2, <1>3, <1>4, <1>6, <1>7, <2>1, KindsApart, PicsSame, IdleStep
<1>9. Queues'
  BY <1>2, <1>6, DrawsKeep, <1>1, <1>3, ExistKept, QueuesKept DEF NextScreen, OrderInv
<1> QED
  BY <1>8, <1>9

\* The surfaces that exist, and their pictures, stay.
LEMMA KeptQueues ==
  ASSUME OrderInv, UNCHANGED <<setting, host, queue, pending>>, count'.settled = count.settled,
         worker' \in {worker, "closed"},
         \A s \in Surfaces : surf[s].st # "gone" => surf'[s].st # "gone"
  PROVE  Queues'
BY HostIds, ExistKept, QueuesKept DEF OrderInv, PipelineInv, Screen, NextScreen

LEMMA OrderOfWorker ==
  ASSUME OrderInv, WorkerStep
  PROVE  Queues' /\ Strict!Next
<1> DEFINE m == Head(toWorker)
<1>1. Typed /\ Messages
  BY DEF OrderInv, PipelineInv
<1>2. /\ Typed' /\ worker = "up" /\ toWorker # <<>>
      /\ (\E a \in AnswerType : Answered(m, a)) \/ Forgotten(m)
      /\ UNCHANGED <<setting, host, surf, cache, count, queue, pending, worker>>
  BY <1>1, WorkerStepFacts
<1>3. owed \in [Surfaces -> Seq(VideoPdu)] /\ toPage \in Seq(PostType)
      /\ toWorker \in Seq(AskType \cup DestroyType)
  BY <1>1 DEF Typed
<1>4. m \in AskType => m.pdu \in pending
  BY <1>2, <1>3, AsksTail, <1>1 DEF Messages, Fifo
<1> HIDE DEF m
<1>5. ASSUME NEW a \in AnswerType, Answered(m, a)
      PROVE  \A p : Undrawn(owed', toPage', p) => Undrawn(owed, toPage, p) \/ p \in Counted
  <2>1. a \in PostType /\ a \notin FrameType /\ \A n \in NoteType : n \in PostType /\ n \notin FrameType
    BY DEF PostType, NoteType, FrameType, AnswerType
  <2>2. \A p : Undrawn(owed, toPage', p) <=> Undrawn(owed, toPage, p)
    <3>1. CASE toPage' = Append(toPage, a)
      BY <1>3, <2>1, <3>1, VideosPosted
    <3>2. ASSUME NEW n \in NoteType, toPage' = Append(Append(toPage, n), a)
          PROVE  \A p : Undrawn(owed, toPage', p) <=> Undrawn(owed, toPage, p)
      <4> DEFINE t == Append(toPage, n)
      <4>1. \A p : Undrawn(owed, t, p) <=> Undrawn(owed, toPage, p)
        BY <1>3, <2>1, VideosPosted
      <4>2. t \in Seq(PostType)
        BY <1>3, <2>1
      <4>3. toPage' = Append(t, a)
        BY <3>2
      <4> HIDE DEF t
      <4> QED
        BY <2>1, <4>1, <4>2, <4>3, VideosPosted
    <3> QED
      BY <1>5, <3>1, <3>2 DEF Answered
  <2>3. m.pdu \in Counted
    BY <1>2, <1>4, <1>5 DEF Answered, Counted
  <2>4. CASE m.pdu \in VideoPdu /\ Puts(owed, m.pdu.dst, m.pdu, owed')
    <3>1. m.pdu.dst \in Surfaces
      BY <2>4 DEF VideoPdu
    <3>2. \A t, i, q : Owes(owed', t, i, q) => Owes(owed, t, i, q) \/ q = m.pdu
      BY <1>3, <2>4, <3>1, OwesPut
    <3>3. \A p : Undrawn(owed', toPage', p) => Undrawn(owed, toPage', p) \/ p = m.pdu
      BY <3>2 DEF Undrawn
    <3> QED
      BY <2>2, <2>3, <3>3
  <2>5. CASE \A s \in Surfaces : owed'[s] \in {owed[s], <<>>}
    BY <2>5, VideosDropped, <2>2
  <2>6. CASE owed' = owed
    BY <2>5, <2>6
  <2> QED
    BY <1>1, <1>5, <2>4, <2>5, <2>6, SubmitCases DEF Answered
<1>6. ASSUME Forgotten(m)
      PROVE  \A p : Undrawn(owed', toPage', p) => Undrawn(owed, toPage, p) \/ p \in Counted
  BY <1>6, <1>3, VideosDropped DEF Forgotten, DestroyType
<1>7. \A p : Undrawn(owed', toPage', p) => Undrawn(owed, toPage, p) \/ p \in Counted
  BY <1>2, <1>5, <1>6
<1>8. Strict!Next
  BY <1>1, <1>2, <1>7, QuietStep
<1> QED
  BY <1>2, <1>8, KeptQueues

\* What the page does besides, and the loss of the worker.
LEMMA OrderOfRest ==
  ASSUME OrderInv, WorkerError \/ OnUnsupported \/ Destroy \/ AckTimer \/ Flush
                \/ (\E s \in Surfaces : VideoError(s)) \/ \E m : OnNeedKeyframe(m)
  PROVE  Queues' /\ Strict!Next
<1>1. Typed /\ Messages /\ owed \in [Surfaces -> Seq(VideoPdu)] /\ toPage \in Seq(PostType)
      /\ surf \in [Surfaces -> SurfaceType]
  BY DEF OrderInv, PipelineInv, Typed
<1>2. CASE OnUnsupported \/ Destroy
  <2>1. /\ Typed' /\ worker' = "closed" /\ toPage' = <<>>
        /\ surf' = [s \in Surfaces |-> [surf[s] EXCEPT !.dirty = FALSE]]
        /\ UNCHANGED <<setting, host, cache, count, queue, pending, owed>>
    BY <1>1, <1>2, ShutFacts
  <2>2. \A s \in Surfaces : surf'[s].px = surf[s].px /\ surf'[s].st = surf[s].st
    BY <1>1, <2>1 DEF SurfaceType
  <2>3. \A p : Undrawn(owed', toPage', p) => Undrawn(owed, toPage, p)
    BY <2>1, VideosSilent
  <2> QED
    BY <1>1, <2>1, <2>2, <2>3, QuietStep, KeptQueues
<1>3. CASE WorkerError
  BY <1>1, <1>3, WorkerErrorFacts, QuietStep DEF Given, Screen, OrderInv, Queues
<1>4. CASE AckTimer
  BY <1>1, <1>4, AckTimerTyped, QuietStep, KeptQueues
<1>5. CASE Flush
  BY <1>1, <1>5, FlushTyped, QuietStep, KeptQueues DEF FlushDirty, SurfaceType
<1>6. ASSUME NEW s \in Surfaces, VideoError(s) PROVE Queues' /\ Strict!Next
  <2>1. /\ Typed' /\ owed' = [owed EXCEPT ![s] = <<>>]
        /\ toPage' = toPage \/ \E n \in NoteType : toPage' = Append(toPage, n)
        /\ UNCHANGED <<setting, host, surf, cache, count, queue, pending, worker>>
    BY <1>1, <1>6, VideoErrorFacts
  <2>2. \A p : Undrawn(owed', toPage, p) => Undrawn(owed, toPage, p)
    BY <1>1, <2>1, VideosDropped
  <2>3. \A p : Undrawn(owed', toPage', p) => Undrawn(owed', toPage, p)
    BY <1>1, VideosPosted, <2>1 DEF PostType, NoteType, FrameType
  <2> QED
    BY <1>1, <2>1, <2>2, <2>3, QuietStep, KeptQueues
<1>7. ASSUME NEW m, OnNeedKeyframe(m) PROVE Queues' /\ Strict!Next
  BY <1>1, <1>7, NoteFacts, TakeFacts, VideosTake, QuietStep, KeptQueues DEF OrderInv, Videos
<1> QED
  BY <1>2, <1>3, <1>4, <1>5, <1>6, <1>7

-----------------------------------------------------------------------------
(* Steps that perform one PDU.                                             *)

WaitsNext(w) == w \in Counted' \/ Queued(queue', w) \/ Undrawn(owed', toPage', w)

LEMMA OneStep ==
  ASSUME Typed, Typed', NEW p \in Pdu, Pics(NextScreen) = Strict!Effect(Pics(Screen), p),
         p \in Counted \/ Undrawn(owed, toPage, p) \/ p \in Arrived, ~WaitsNext(p),
         host'.sent # host.sent => host'.sent.id > host.sent.id,
         \A w : w \in Counted' => w \in Counted,
         \A w : Queued(queue', w) <=> Queued(queue, w),
         \A w : Undrawn(owed', toPage', w) => Undrawn(owed, toPage, w),
         \A w \in Arrived : w = p,
         \A w : WaitsNext(w) /\ w.id < p.id => ~Strict!Conflict(p, w)
  PROVE  Strict!Next
BY WaitingIs, WaitingKinds, KindsApart, StrictOne DEF WaitsNext, Gone, Typed, Counted

\* What waits after a step, by its kind.
LEMMA NextKinds ==
  ASSUME Typed'
  PROVE  \A w : /\ w \in Counted' => w \in DecodePdu
                /\ Queued(queue', w) => w \in OrderedPdu
                /\ Undrawn(owed', toPage', w) => w \in VideoPdu
BY QueueKinds, WaitingKinds DEF Counted, Typed

\* A picture passes what is not of its own surface's video.
LEMMA VideoPasses ==
  ASSUME Typed', NEW v \in VideoPdu,
         \A w : WaitsNext(w) /\ w \in VideoPdu /\ w.id < v.id => w.dst # v.dst
  PROVE  \A w : WaitsNext(w) /\ w.id < v.id => ~Strict!Conflict(v, w)
BY NextKinds, VideoConflicts DEF VideoPdu, DecodePdu, ProgressivePdu, OrderedPdu, WaitsNext

\* A picture is painted on its surface, if that exists.
LEMMA PaintedVideo ==
  ASSUME Typed, NEW p \in VideoPdu, surf' = PaintIfThere(Screen, p.dst, p.id).surf, cache' = cache
  PROVE  /\ \/ \A s \in Surfaces : surf'[s].px = surf[s].px
            \/ Pics(NextScreen) = Strict!Effect(Pics(Screen), p)
         /\ \A s \in Surfaces : surf[s].st # "gone" => surf'[s].st # "gone"
<1>1. p.dst \in Surfaces /\ p.id \in Pictures /\ p.kind \in {"avc-key", "avc-delta"}
  BY PipelineAssumption DEF VideoPdu, Pdu, Pictures, Video
<1>2. Screen \in ScreenType /\ Screen.surf = surf /\ Screen.cache = cache
  BY ScreenTyped
<1> DEFINE y == PaintIfThere(Screen, p.dst, p.id)
<1>3. Redrawn(Screen, y) /\ y.cache = Screen.cache
  BY <1>1, <1>2, PaintIfThereFacts
<1>4. NextScreen = y
  BY <1>2, <1>3, ScreenParts DEF NextScreen, Redrawn
<1>5. ASSUME Absent(Screen, p.dst)
      PROVE  \A s \in Surfaces : surf'[s].px = surf[s].px
  BY <1>2, <1>5 DEF PaintIfThere
<1>6. ASSUME ~Absent(Screen, p.dst)
      PROVE  Pics(NextScreen) = Strict!Effect(Pics(Screen), p)
  BY <1>6, <1>4, <1>1, <1>2, PicsOfPaint, EffectOfPaint DEF PaintIfThere
<1>7. \A s \in Surfaces : surf[s].st # "gone" => surf'[s].st # "gone"
  BY <1>2, <1>3, DrawsKeep
<1> QED
  BY <1>5, <1>6, <1>7

LEMMA OrderOfOutput ==
  ASSUME OrderInv, NEW s \in Surfaces, VideoOutput(s)
  PROVE  Queues' /\ Strict!Next
<1> DEFINE p == Head(owed[s])
           m == [cmd |-> "h264-frame", pdu |-> p]
<1>1. Typed /\ Messages /\ owed \in [Surfaces -> Seq(VideoPdu)] /\ toPage \in Seq(PostType)
      /\ VideoOrder(owed, toPage)
  BY DEF OrderInv, PipelineInv, Typed, Videos
<1>2. /\ Typed' /\ Draws /\ p \in VideoPdu /\ owed[s] # <<>> /\ worker # "closed"
      /\ owed' = [owed EXCEPT ![s] = Tail(owed[s])]
      /\ IF worker = "up"
         THEN /\ toPage' = Append(toPage, m)
              /\ surf' = surf
         ELSE /\ toPage' = toPage
              /\ surf' = PaintIfThere(Screen, s, p.id).surf
      /\ UNCHANGED <<setting, host, cache, count, queue, pending, worker>>
  BY <1>1, VideoOutputFacts
<1>3. Outs(owed, s, owed')
  BY <1>1, <1>2 DEF Outs
<1>4. CASE worker = "up"
  <2>1. m \in FrameType /\ m.pdu = Head(owed[s])
    BY <1>2 DEF FrameType
  <2> HIDE DEF m, p
  <2>2. \A u : Undrawn(owed', Append(toPage, m), u) => Undrawn(owed, toPage, u)
    BY <1>1, <1>3, <2>1, VideosOutput
  <2> QED
    BY <1>1, <1>2, <1>4, <2>2, QuietStep, KeptQueues
<1>5. CASE worker # "up"
  <2>0. p.dst = s /\ Owes(owed, s, 1, p)
    BY <1>1, <1>3, OwesTail DEF VideoOrder
  <2>1. /\ \A u : Undrawn(owed', toPage', u) => Undrawn(owed, toPage, u)
        /\ surf' = PaintIfThere(Screen, p.dst, p.id).surf /\ toPage' = toPage
    BY <1>1, <1>2, <1>3, <1>5, <2>0, VideosPainted
  <2>2. /\ \/ \A t \in Surfaces : surf'[t].px = surf[t].px
           \/ Pics(NextScreen) = Strict!Effect(Pics(Screen), p)
        /\ \A t \in Surfaces : surf[t].st # "gone" => surf'[t].st # "gone"
    BY <1>1, <1>2, <2>1, PaintedVideo
  <2>3. Queues'
    BY <1>2, <2>2, KeptQueues
  <2>4. CASE \A t \in Surfaces : surf'[t].px = surf[t].px
    BY <1>1, <1>2, <2>1, <2>3, <2>4, QuietStep
  <2>5. CASE Pics(NextScreen) = Strict!Effect(Pics(Screen), p)
    <3>1. \A w : w \notin Counted /\ w \notin Counted'
      BY <1>1, <1>2, <1>5 DEF OrderInv, Queues, Typed, Counted
    <3>2. \A i, w : ~Frames(toPage, i, w)
      BY <1>1, <1>5 DEF Messages, Workers, Frames
    <3>3. \A w : Undrawn(owed', toPage', w) => w.dst # p.dst \/ p.id < w.id
      <4>1. \A t, i, w : Owes(owed', t, i, w) =>
              /\ t # s => Owes(owed, t, i, w)
              /\ t = s => Owes(owed, s, i + 1, w) /\ i \in Int /\ 1 < i + 1
        BY <1>1, <1>3, OwesTail
      <4>2. ASSUME NEW t, NEW i, NEW w, Owes(owed', t, i, w) PROVE w.dst # p.dst \/ p.id < w.id
        BY <4>1, <4>2, <1>1, <2>0 DEF VideoOrder
      <4> QED
        BY <2>1, <3>2, <4>2 DEF Undrawn
    <3>4. p \in Pdu /\ p.id \in Nat
      BY <1>2, PipelineAssumption DEF VideoPdu, Pdu
    <3>5. ~WaitsNext(p)
      <4>1. ~Undrawn(owed', toPage', p)
        BY <3>3, <3>4
      <4>2. ~Queued(queue', p)
        BY <1>2, NextKinds, KindsApart
      <4> QED
        BY <3>1, <4>1, <4>2 DEF WaitsNext
    <3>6. \A w : WaitsNext(w) /\ w \in VideoPdu /\ w.id < p.id => w.dst # p.dst
      <4>1. \A w : w \in VideoPdu => w.id \in Nat /\ w \notin OrderedPdu
        BY KindsApart, PipelineAssumption DEF VideoPdu, Pdu
      <4> SUFFICES ASSUME NEW w, WaitsNext(w), w \in VideoPdu, w.id < p.id PROVE w.dst # p.dst
        OBVIOUS
      <4>2. Undrawn(owed', toPage', w)
        BY <1>2, <3>1, <4>1, NextKinds DEF WaitsNext
      <4> QED
        BY <3>3, <3>4, <4>1, <4>2
    <3> HIDE DEF p
    <3>7. \A w : WaitsNext(w) /\ w.id < p.id => ~Strict!Conflict(p, w)
      BY <1>2, <3>6, VideoPasses
    <3>8. Undrawn(owed, toPage, p)
      BY <2>0 DEF Undrawn
    <3>9. Arrived = {}
      BY <1>2 DEF Arrived
    <3>10. Strict!Next
      BY <1>1, <1>2, <2>1, <2>5, <3>1, <3>4, <3>5, <3>7, <3>8, <3>9, OneStep
    <3> QED
      BY <2>3, <3>10
  <2> QED
    BY <2>2, <2>4, <2>5
<1> QED
  BY <1>4, <1>5

LEMMA OrderOfFrame ==
  ASSUME OrderInv, NEW m, OnH264Frame(m)
  PROVE  Queues' /\ Strict!Next
<1> DEFINE p == m.pdu
<1>1. Typed /\ Messages /\ owed \in [Surfaces -> Seq(VideoPdu)] /\ toPage \in Seq(PostType)
      /\ VideoOrder(owed, toPage)
  BY DEF OrderInv, PipelineInv, Typed, Videos
<1>2. /\ Typed' /\ m \in FrameType /\ p \in VideoPdu /\ Take(m)
      /\ surf' = PaintIfThere(Screen, p.dst, p.id).surf
      /\ count'.settled = count.settled
      /\ UNCHANGED <<cache, queue, pending, worker>>
  BY <1>1, FrameFacts
<1>3. toPage # <<>> /\ m = Head(toPage) /\ toPage' = Tail(toPage) /\ UNCHANGED <<setting, host, owed>>
  BY <1>1, <1>2, TakeFacts
<1>4. worker = "up"
  BY <1>1, <1>3 DEF Messages, Workers, Typed
<1>5. VideoAsked(owed, toPage, pending)
  BY <1>4 DEF OrderInv, Videos
<1>6. Frames(toPage, 1, p)
  BY <1>1, <1>2, <1>3, FramesTail
<1>7. /\ \A u : Undrawn(owed', toPage', u) => Undrawn(owed, toPage, u)
      /\ \A i, u : Frames(toPage', i, u) => Frames(toPage, i + 1, u) /\ 1 < i + 1
  BY <1>1, <1>3, VideosTake, FramesTail
<1>8. p \notin pending
  BY <1>1, <1>5, <1>6 DEF Answers, VideoAsked
<1> HIDE DEF p
<1>9. /\ \/ \A t \in Surfaces : surf'[t].px = surf[t].px
         \/ Pics(NextScreen) = Strict!Effect(Pics(Screen), p)
      /\ \A t \in Surfaces : surf[t].st # "gone" => surf'[t].st # "gone"
  BY <1>1, <1>2, PaintedVideo
<1>10. Queues'
  BY <1>2, <1>3, <1>9, KeptQueues
<1>11. CASE \A t \in Surfaces : surf'[t].px = surf[t].px
  BY <1>1, <1>2, <1>3, <1>7, <1>10, <1>11, QuietStep
<1>12. CASE Pics(NextScreen) = Strict!Effect(Pics(Screen), p)
  <2>1. p \in Pdu /\ p.id \in Nat /\ \A w \in VideoPdu : w.id \in Nat
    BY <1>2, PipelineAssumption DEF VideoPdu, Pdu
  <2>2. \A w : w \in Counted' <=> w \in pending
    BY <1>2, <1>4 DEF Counted
  <2>3. Undrawn(owed, toPage, p)
    BY <1>6 DEF Undrawn
  <2>4. \A w \in pending : p.id < w.id
    BY <1>5, <1>8, <2>3 DEF VideoAsked
  <2>5. \A w : Undrawn(owed', toPage', w) => w.dst # p.dst \/ p.id < w.id
    <3>1. \A t, i, w : Owes(owed', t, i, w) => w.dst # p.dst \/ p.id < w.id
      <4> SUFFICES ASSUME NEW t, NEW i, NEW w, Owes(owed, t, i, w), w.dst = p.dst PROVE p.id < w.id
        BY <1>3
      <4>1. w.dst = t
        BY <1>1 DEF VideoOrder
      <4>2. Owes(owed, p.dst, i, w)
        BY <4>1
      <4> QED
        BY <1>1, <1>6, <4>2 DEF VideoOrder
    <3>2. \A i, w : Frames(toPage', i, w) => w.dst # p.dst \/ p.id < w.id
      BY <1>7, <1>1, <1>6 DEF VideoOrder
    <3> QED
      BY <3>1, <3>2 DEF Undrawn
  <2>6. ~WaitsNext(p)
    BY <2>1, <2>5, <1>2, NextKinds, KindsApart, <1>8, <2>2 DEF WaitsNext
  <2>7. \A w : WaitsNext(w) /\ w \in VideoPdu /\ w.id < p.id => w.dst # p.dst
    BY <2>1, <1>2, NextKinds, KindsApart, <2>2, <2>4, <2>5 DEF WaitsNext
  <2>8. \A w : WaitsNext(w) /\ w.id < p.id => ~Strict!Conflict(p, w)
    BY <1>2, <2>7, VideoPasses
  <2>9. Arrived = {} /\ \A w : w \in Counted' => w \in Counted
    BY <1>2, <1>3 DEF Arrived, Counted
  <2>10. Strict!Next
    BY <1>1, <1>2, <1>3, <1>7, <1>12, <2>1, <2>3, <2>6, <2>8, <2>9, OneStep
  <2> QED
    BY <1>10, <2>10
<1> QED
  BY <1>9, <1>11, <1>12

-----------------------------------------------------------------------------
(* Steps of the host that perform its PDU.                                 *)

\* What the host sent.
LEMMA SentKind ==
  ASSUME Typed, NEW k \in Kinds,
         NEW src \in Surfaces \cup Slots \cup {NoPicture},
         NEW dst \in Surfaces \cup Slots \cup {NoPicture}, Sends(k, src, dst)
  PROVE  /\ host'.sent.kind = k /\ host'.sent.src = src /\ host'.sent.dst = dst
         /\ Sendable(k, src, dst)
BY SendsFacts

\* PDUs that write nothing and wait for nothing.
LEMMA OrderOfPlain ==
  ASSUME OrderInv, ResetGraphics \/ EndFrame
                \/ \E s \in Surfaces : CreateSurface(s) \/ MapSurfaceToOutput(s)
  PROVE  Queues' /\ Strict!Next
<1> DEFINE p == host'.sent
<1>1. Typed /\ SurfacesAgree /\ HostStep /\ surf \in [Surfaces -> SurfaceType]
  BY DEF OrderInv, PipelineInv, Canvas, Typed, HostStep
<1>2. Typed' /\ count' = count
  BY <1>1, EndFrameTyped, ResetGraphicsTyped, SurfacePduTyped DEF ResetGraphics, CreateSurface,
     MapSurfaceToOutput
<1>3. UNCHANGED <<cache, queue, pending, owed>>
  BY DEF ResetGraphics, EndFrame, CreateSurface, MapSurfaceToOutput, videoVars
<1>4. /\ p.id = host.sent.id + 1 /\ host.sent.id \in Nat /\ p \in Pdu
      /\ worker' = worker /\ toPage' = toPage /\ setting' = setting
  BY <1>1, HostSends
<1>5. /\ \A w \in Arrived : w = p
      /\ p \in Arrived /\ (host'.sent # host.sent => host'.sent.id > host.sent.id)
  BY <1>1, HostArrives
<1>6. p.kind \in {"create", "map", "end", "reset"}
  BY <1>1, SentKind DEF Kinds, ResetGraphics, EndFrame, CreateSurface, MapSurfaceToOutput
<1>7. \A t \in Surfaces : surf'[t].px = surf[t].px /\ (surf[t].st # "gone" => surf'[t].st # "gone")
  <2>1. ASSUME NEW s \in Surfaces, CreateSurface(s)
        PROVE  \A t \in Surfaces : surf'[t].px = surf[t].px
                                   /\ (surf[t].st # "gone" => surf'[t].st # "gone")
    <3>1. surf' = [surf EXCEPT ![s] =
                IF surf[s].st = "orphan" THEN [surf[s] EXCEPT !.st = "live", !.dirty = FALSE]
                ELSE [NoSurface EXCEPT !.st = "live"]]
      BY <2>1 DEF CreateSurface
    <3>2. s \notin host.live
      BY <1>1, <2>1, SentKind, SendableFacts DEF Kinds, CreateSurface
    <3>3. surf[s].st = "orphan" \/ surf[s] = NoSurface
      BY <1>1, <3>2 DEF SurfacesAgree, SurfaceType
    <3>4. [surf[s] EXCEPT !.st = "live", !.dirty = FALSE].px = surf[s].px
          /\ [surf[s] EXCEPT !.st = "live", !.dirty = FALSE].st = "live"
      BY <1>1 DEF SurfaceType
    <3>5. [NoSurface EXCEPT !.st = "live"].px = NoSurface.px /\ [NoSurface EXCEPT !.st = "live"].st = "live"
      BY DEF NoSurface
    <3> QED
      BY <1>1, <3>1, <3>3, <3>4, <3>5
  <2>2. ASSUME NEW s \in Surfaces, MapSurfaceToOutput(s)
        PROVE  \A t \in Surfaces : surf'[t].px = surf[t].px /\ surf'[t].st = surf[t].st
    BY <1>1, <2>2 DEF MapSurfaceToOutput, SurfaceType
  <2>3. CASE ResetGraphics
    BY <1>1, <2>3 DEF ResetGraphics, SurfaceType
  <2>4. CASE EndFrame
    BY <1>1, <2>4 DEF EndFrame, FlushDirty, SurfaceType
  <2> QED
    BY <2>1, <2>2, <2>3, <2>4
<1> HIDE DEF p
<1>8. Pics(NextScreen) = Strict!Effect(Pics(Screen), p)
  BY <1>3, <1>7, PicsSame, <1>6, EffectOfNone
<1>9. ~WaitsNext(p)
  BY <1>6, <1>2, NextKinds DEF DecodePdu, VideoPdu, ProgressivePdu, OrderedPdu, Ordered, Video,
     WaitsNext
<1>10. \A w : ~Strict!Conflict(p, w)
  BY <1>6 DEF Strict!Writes, Strict!Reads, Strict!Video, Strict!Conflict
<1>11. \A w : w \in Counted' => w \in Counted
  BY <1>3, <1>4 DEF Counted
<1>12. Strict!Next
  <2>1. /\ \A w : Queued(queue', w) <=> Queued(queue, w)
        /\ \A w : Undrawn(owed', toPage', w) => Undrawn(owed, toPage, w)
    BY <1>3, <1>4
  <2> QED
    BY <2>1, <1>1, <1>2, <1>3, <1>4, <1>5, <1>8, <1>9, <1>10, <1>11, OneStep
<1>13. Queues'
  BY <1>7, <1>4, <1>1, <1>2, <1>3, ExistKept, QueuesKept DEF Screen, NextScreen, p, OrderInv
<1> QED
  BY <1>12, <1>13

\* What waits is idle on a surface that is deleted or created anew.
LEMMA OrderOfDestroy ==
  ASSUME OrderInv, NEW s \in Surfaces, RecreateSurface(s) \/ DeleteSurface(s)
  PROVE  Queues' /\ Strict!Next
<1> DEFINE p == host'.sent
<1>1. /\ Typed /\ HostStep /\ surf \in [Surfaces -> SurfaceType]
      /\ owed \in [Surfaces -> Seq(VideoPdu)]
  BY DEF OrderInv, PipelineInv, Typed, HostStep
<1>2. Typed'
  BY <1>1, SurfacePduTyped
<1>3. UNCHANGED <<cache, count, queue, pending>> /\ DestroySurface(s)
  BY DEF RecreateSurface, DeleteSurface
<1>4. /\ p.id = host.sent.id + 1 /\ host.sent.id \in Nat /\ p \in Pdu
      /\ worker' = worker /\ toPage' = toPage /\ setting' = setting
  BY <1>1, HostSends
<1>5. /\ \A w \in Arrived : w = p
      /\ p \in Arrived /\ (host'.sent # host.sent => host'.sent.id > host.sent.id)
  BY <1>1, HostArrives
<1>6. p.kind \in {"recreate", "delete"} /\ p.dst = s
  <2>1. CASE RecreateSurface(s)
    <3>1. Sends("recreate", NoPicture, s) /\ "recreate" \in Kinds
      BY <2>1 DEF Kinds, RecreateSurface
    <3>2. host'.sent.kind = "recreate" /\ host'.sent.dst = s
      BY <1>1, <3>1, SentKind
    <3> QED
      BY <3>2
  <2>2. CASE DeleteSurface(s)
    <3>1. Sends("delete", NoPicture, s) /\ "delete" \in Kinds
      BY <2>2 DEF Kinds, DeleteSurface
    <3>2. host'.sent.kind = "delete" /\ host'.sent.dst = s
      BY <1>1, <3>1, SentKind
    <3> QED
      BY <3>2
  <2> QED
    BY <2>1, <2>2
<1>7. ~Busy(s)
  BY <1>1, SentKind, SendableFacts DEF OrderInv, Orderly, Kinds, RecreateSurface, DeleteSurface
<1>8. \A w : Undrawn(owed', toPage', w) => Undrawn(owed, toPage, w)
  BY <1>1, <1>3, <1>4, VideosDropped DEF DestroySurface, videoVars
<1>9. /\ surf'[s].px = 0
      /\ \A t \in Surfaces : t # s => surf'[t] = surf[t]
  BY <1>1 DEF RecreateSurface, DeleteSurface, NoSurface
<1>10. \A w : w \in Counted' => w \in Counted
  BY <1>3, <1>4 DEF Counted
<1>11. \A w : w \in Counted \/ Queued(queue, w) \/ Undrawn(owed, toPage, w) => ~Touches(w, s)
  BY <1>1, <1>7, WaitingIs DEF Busy
<1> HIDE DEF p
<1>12. Pics(NextScreen) = Strict!Effect(Pics(Screen), p)
  <2> DEFINE f == [t \in Surfaces |-> surf[t].px]
  <2>1. Pics(Screen) = [px |-> f, cache |-> cache]
    BY DEF Pics, Screen
  <2>2. [t \in Surfaces |-> surf'[t].px] = [f EXCEPT ![s] = 0]
    BY <1>9
  <2>3. Pics(NextScreen) = [px |-> [f EXCEPT ![s] = 0], cache |-> cache]
    BY <1>3, <2>2 DEF Pics, NextScreen
  <2> HIDE DEF f
  <2>4. [Pics(Screen) EXCEPT !.px[s] = 0] = [px |-> [f EXCEPT ![s] = 0], cache |-> cache]
    BY <2>1
  <2>5. Strict!Effect(Pics(Screen), p) = [Pics(Screen) EXCEPT !.px[s] = 0]
    BY <1>6, EffectOfClear
  <2> QED
    BY <2>3, <2>4, <2>5
<1>13. ~WaitsNext(p)
  BY <1>6, <1>2, NextKinds DEF DecodePdu, VideoPdu, ProgressivePdu, OrderedPdu, Ordered, Video,
     WaitsNext
<1>14. \A w : WaitsNext(w) => ~Strict!Conflict(p, w)
  <2> SUFFICES ASSUME NEW w, WaitsNext(w) PROVE ~Strict!Conflict(p, w)
    OBVIOUS
  <2>1. ~Touches(w, s)
    BY <1>3, <1>8, <1>10, <1>11 DEF WaitsNext
  <2>2. Strict!Writes(p) = {s} /\ Strict!Reads(p) = {}
    BY <1>6 DEF Strict!Writes, Strict!Reads, Strict!Video
  <2>3. s \notin Strict!Reads(w)
    BY <2>1 DEF Strict!Reads, Touches
  <2>4. s \notin Strict!Writes(w)
    BY PipelineAssumption, <1>2, NextKinds, <2>1 DEF VideoPdu, Video, Strict!Writes, Strict!Video,
       WaitsNext, DecodePdu, OrderedPdu, Ordered, ProgressivePdu, Touches
  <2> QED
    BY <2>2, <2>3, <2>4 DEF Strict!Conflict
<1>15. Strict!Next
  <2>1. \A w : Queued(queue', w) <=> Queued(queue, w)
    BY <1>3
  <2> QED
    BY <2>1, <1>1, <1>2, <1>3, <1>4, <1>5, <1>8, <1>10, <1>12, <1>13, <1>14, OneStep
<1>16. Queues'
  BY <1>11, <1>9, <1>4, <1>1, <1>3, QueuesKept DEF Queued, Exist, Absent, Screen, NextScreen, p,
     OrderInv
<1> QED
  BY <1>15, <1>16

-----------------------------------------------------------------------------
(* Operations that need not wait, and the ones that do.                    *)

LEMMA QueuesEmpty ==
  ASSUME Queues, queue' = <<>>, pending' = pending, setting' = setting, worker' = worker
  PROVE  Queues'
BY DEF Arranged, Barriers, AllExist, HeadWaits, Given, Queues

\* Only pictures of video decoders are to come.
LEMMA OnlyVideos ==
  ASSUME Typed', queue' = <<>>, \A w : w \notin Counted',
         NEW n \in Pdu, n \in OrderedPdu \cup ProgressivePdu
  PROVE  ~WaitsNext(n) /\ \A w : WaitsNext(w) => ~Strict!Conflict(n, w)
BY NextKinds, KindsApart, VideoConflicts DEF Queued, WaitsNext

\* The surfaces an operation names exist.
LEMMA SentExists ==
  ASSUME SurfacesAgree, NEW k \in Ordered, NEW src, NEW dst, Sendable(k, src, dst),
         NEW n, n.kind = k, n.src = src, n.dst = dst
  PROVE  Exist(Screen, n)
BY PipelineAssumption DEF Exist, Touches, Absent, Screen, Sendable, Video, Ordered, SurfacesAgree

\* Nothing is pending exactly when the counters are equal.
LEMMA NonePending ==
  ASSUME Typed, BarrierExact
  PROVE  /\ count.settled < count.decodes <=> pending # {}
         /\ Cardinality(pending) \in Nat
BY FS_CardinalityType, FS_EmptySet DEF Typed, CountType, BarrierExact

LEMMA QueuesAppend ==
  ASSUME Typed, Queues, BarrierExact, pending # {}, NEW n \in OrderedPdu, NEW e \in QueueType,
         e.pdu = n, e.barrier = count.decodes, n.id = host.sent.id + 1, host'.sent = n, Known,
         queue' = Append(queue, e), ~Given("workerLost"), Exist(Screen, n),
         UNCHANGED <<setting, count, pending, worker, surf, cache>>
  PROVE  Queues'
<1>1. /\ host.sent.id \in Nat /\ n.id \in Nat /\ host.sent.id < n.id
      /\ \A p \in pending : p.id \in Nat /\ p.id < n.id
  BY HostIds DEF Known
<1>2. Older(pending, n.id) = pending
  BY <1>1 DEF Older
<1>3. /\ Len(queue') = Len(queue) + 1 /\ Len(queue) \in Nat /\ queue'[Len(queue) + 1] = e
      /\ \A i \in 1..Len(queue) : queue'[i] = queue[i]
  BY AppendAt DEF Typed
<1>4. \A i \in 1..Len(queue) : queue[i].pdu.id \in Nat /\ queue[i].pdu.id < n.id
  <2>1. queue \in Seq(QueueType)
    BY DEF Typed
  <2>2. \A i \in 1..Len(queue) : queue[i].pdu.id \in Nat /\ queue[i].pdu.id <= host.sent.id
    BY <2>1, QueueKinds DEF Queues, Arranged
  <2> QED
    BY <1>1, <2>2
<1>5. \A i \in 1..Len(queue') : i \in 1..Len(queue) \/ (i = Len(queue) + 1 /\ queue'[i] = e)
  BY <1>3
<1>6. Arranged(queue', host')
  <2>1. ASSUME NEW i \in 1..Len(queue'), NEW j \in 1..Len(queue'), i < j
        PROVE  queue'[i].pdu.id < queue'[j].pdu.id
    BY <1>3, <2>1, <1>4, <1>5 DEF Queues, Arranged
  <2>2. ASSUME NEW i \in 1..Len(queue') PROVE queue'[i].pdu.id <= host'.sent.id
    BY <1>1, <1>3, <1>4, <1>5
  <2> QED
    BY <2>1, <2>2 DEF Arranged
<1>7. Barriers(queue', pending', count'.settled)
  BY <1>2, <1>3, <1>5 DEF BarrierExact, Barriers, Queues
<1>8. AllExist(queue', Screen')
  BY <1>3, <1>5 DEF Screen, AllExist, Queues
<1>9. HeadWaits(queue', pending')
  <2>1. CASE queue = <<>>
    BY <1>3, <2>1, <1>2 DEF HeadWaits
  <2>2. CASE queue # <<>>
    <3>1. 1 \in 1..Len(queue)
      BY <2>2 DEF Typed
    <3> QED
      BY <1>3, <2>2, <3>1 DEF Queues, HeadWaits
  <2> QED
    BY <2>1, <2>2
<1>10. Given("workerLost")' <=> Given("workerLost")
  BY DEF Given
<1> QED
  BY <1>6, <1>7, <1>8, <1>9, <1>10 DEF Queues

LEMMA OrderOfDispatch ==
  ASSUME OrderInv, NEW k \in Ordered,
         NEW src \in Surfaces \cup Slots \cup {NoPicture},
         NEW dst \in Surfaces \cup Slots \cup {NoPicture}, DispatchOrdered(k, src, dst)
  PROVE  Queues' /\ Strict!Next
<1> DEFINE n == host'.sent
           e == [barrier |-> count.decodes, pdu |-> n]
<1>1. /\ Typed /\ SurfacesAgree /\ HostStep /\ Known /\ BarrierExact /\ Queues
      /\ count \in CountType
  BY DEF OrderInv, PipelineInv, Canvas, Messages, HostStep, Typed
<1>2. Typed' /\ Draws /\ n \in OrderedPdu
  BY <1>1, DispatchOrderedTyped
<1>3. /\ n.id = host.sent.id + 1 /\ host.sent.id \in Nat /\ n \in Pdu
      /\ worker' = worker /\ toPage' = toPage /\ setting' = setting
  BY <1>1, HostSends
<1>4. /\ \A w \in Arrived : w = n
      /\ n \in Arrived /\ (host'.sent # host.sent => host'.sent.id > host.sent.id)
  BY <1>1, HostArrives
<1>5. UNCHANGED <<count, pending, owed>>
  BY DEF DispatchOrdered, videoVars
<1>6. Exist(Screen, n) /\ k \in setting.kinds
  <2>1. k \in Kinds /\ Sends(k, src, dst)
    BY DEF Ordered, Kinds, DispatchOrdered
  <2>2. n.kind = k /\ n.src = src /\ n.dst = dst /\ Sendable(k, src, dst)
    BY <1>1, <2>1, SentKind
  <2> HIDE DEF n
  <2> QED
    BY <1>1, <2>2, SentExists DEF Sendable
<1>7. ~Given("workerLost") /\ \A w : w \in Counted' => w \in Counted
  BY <1>3, <1>5, <1>6 DEF OrderInv, Orderly, Counted
<1>8. CASE MustQueue(k)
  <2>1. queue' = Append(queue, e) /\ UNCHANGED <<surf, cache>>
    BY <1>8 DEF DispatchOrdered
  <2>2. e \in QueueType /\ e.pdu = n /\ e.barrier = count.decodes
    BY <1>1, <1>2 DEF QueueType, CountType
  <2>3. pending # {}
    BY <1>1, <1>8, NonePending, AllWait DEF MustQueue
  <2> HIDE DEF e
  <2>4. Queues'
    BY <1>1, <1>2, <1>3, <1>5, <1>6, <1>7, <2>1, <2>2, <2>3, QueuesAppend
  <2>5. \A w : Queued(queue', w) <=> Queued(queue, w) \/ w = n
    BY <1>1, <2>1, <2>2, AppendAt DEF Typed, Queued
  <2>6. Pics(NextScreen) = Pics(Screen)
    BY <2>1, PicsSame
  <2>7. \A w : Undrawn(owed', toPage', w) => Undrawn(owed, toPage, w)
    BY <1>3, <1>5
  <2>8. Strict!Next
    BY <1>1, <1>2, <1>4, <1>7, <2>5, <2>6, <2>7, IdleStep
  <2> QED
    BY <2>4, <2>8
<1>9. CASE ~MustQueue(k)
  <2>1. queue' = queue /\ surf' = Perform(Screen, n).surf /\ cache' = Perform(Screen, n).cache
    BY <1>9 DEF DispatchOrdered
  <2>2. queue = <<>> /\ pending = {}
    BY <1>1, <1>9, NonePending DEF MustQueue
  <2> HIDE DEF n
  <2>3. Pics(NextScreen) = Strict!Effect(Pics(Screen), n)
    BY <1>1, ScreenTyped, <1>2, PerformRedraws, <2>1, ScreenParts, <1>6, EffectOfPerform
       DEF Redrawn, NextScreen
  <2>4. \A w : w \notin Counted'
    BY <1>5, <2>2 DEF Counted
  <2>5. ~WaitsNext(n) /\ \A w : WaitsNext(w) => ~Strict!Conflict(n, w)
    BY <1>2, <1>3, <2>1, <2>2, <2>4, OnlyVideos
  <2>6. /\ \A w : Queued(queue', w) <=> Queued(queue, w)
        /\ \A w : Undrawn(owed', toPage', w) => Undrawn(owed, toPage, w)
    BY <1>3, <1>5, <2>1
  <2>7. Strict!Next
    BY <1>1, <1>2, <1>3, <1>4, <1>7, <2>3, <2>5, <2>6, OneStep
  <2>8. Queues'
    BY <1>1, <1>3, <1>5, <2>1, <2>2, QueuesEmpty
  <2> QED
    BY <2>7, <2>8
<1> QED
  BY <1>8, <1>9

\* A decode on the page.
LEMMA OrderOfSync ==
  ASSUME OrderInv, NEW s \in Surfaces, DecodeProgressiveSync(s)
  PROVE  Queues' /\ Strict!Next
<1> DEFINE n == host'.sent
           mat == Materialise(Screen, s)
<1>1. Typed /\ HostStep /\ Queues
  BY DEF OrderInv, PipelineInv, HostStep
<1>2. /\ Typed' /\ Draws /\ worker # "up" /\ Sends("progressive", NoPicture, s)
      /\ UNCHANGED <<pending, owed>>
  BY <1>1, SyncFacts
<1>3. PICK ok \in BOOLEAN : Drain(count', IF ok THEN Paint(mat, s, n.id) ELSE mat)
  BY <1>1, SyncFacts
<1>4. /\ n.id = host.sent.id + 1 /\ host.sent.id \in Nat /\ n \in Pdu
      /\ worker' = worker /\ toPage' = toPage /\ setting' = setting
  BY <1>1, HostSends
<1>5. /\ \A w \in Arrived : w = n
      /\ n \in Arrived /\ (host'.sent # host.sent => host'.sent.id > host.sent.id)
  BY <1>1, HostArrives
<1>6. n.kind = "progressive" /\ n.dst = s /\ n.src = NoPicture
  BY <1>1, <1>2, SentKind DEF Kinds
<1>7. n \in ProgressivePdu /\ n.id \in Pictures
  BY <1>4, <1>6, PipelineAssumption DEF ProgressivePdu, Pdu, Pictures
<1>8. worker = "off" \/ worker = "lost"
  BY <1>2, <1>1 DEF Sends, Typed
<1>9. queue = <<>> /\ \A w : w \notin Counted /\ w \notin Counted'
  BY <1>1, <1>2, <1>4, <1>8, AllWait DEF Queues, Counted
<1> HIDE DEF n, mat
<1>10. /\ Screen \in ScreenType /\ mat \in ScreenType
       /\ \A t \in Surfaces : mat.surf[t].px = surf[t].px
       /\ mat.cache = cache
  BY <1>1, ScreenTyped, MaterialiseFacts DEF mat, Redrawn
<1> DEFINE scr == IF ok THEN Paint(mat, s, n.id) ELSE mat
<1>11. scr \in ScreenType
  BY <1>7, <1>10, PaintFacts
<1>12. queue' = <<>> /\ NextScreen = scr
  <2>1. queue \in Seq(QueueType) /\ Len(queue) = 0
    BY <1>1, <1>9 DEF Typed
  <2>2. Drain(count', scr)
    BY <1>3
  <2> HIDE DEF scr
  <2>3. PICK k \in 0..Len(queue) : \E h :
           /\ \A i \in 1..k : MayRun(count', i)
           /\ k = Len(queue) \/ ~MayRun(count', k + 1)
           /\ queue' = SubSeq(queue, k + 1, Len(queue))
           /\ Between(scr, SubSeq(queue, 1, k), h) /\ Len(SubSeq(queue, 1, k)) = k
           /\ surf' = h[k].surf /\ cache' = h[k].cache
           /\ \A i \in 0..k : Redrawn(scr, h[i])
    BY <1>11, <2>1, <2>2, DrainFacts
  <2>4. PICK h :
           /\ queue' = SubSeq(queue, k + 1, Len(queue))
           /\ Between(scr, SubSeq(queue, 1, k), h)
           /\ surf' = h[k].surf /\ cache' = h[k].cache
    BY <2>3
  <2>5. k = 0
    BY <2>1
  <2>6. queue' = <<>>
    BY <1>9, <2>1, <2>4, <2>5
  <2>7. h[0] = scr
    BY <2>4 DEF Between
  <2>8. NextScreen = scr
    BY <1>11, <2>4, <2>5, <2>7, ScreenParts DEF NextScreen
  <2> QED
    BY <2>6, <2>8
<1>13. Queues'
  BY <1>1, <1>2, <1>4, <1>12, QueuesEmpty
<1>14. Pics(mat) = Pics(Screen)
  BY <1>1, <1>10, ScreenTyped DEF Pics
<1>15. /\ \A w : Queued(queue', w) <=> Queued(queue, w)
       /\ \A w : Undrawn(owed', toPage', w) => Undrawn(owed, toPage, w)
  BY <1>2, <1>4, <1>9, <1>12
<1>16. CASE ok
  <2>1. Pics(NextScreen) = [Pics(Screen) EXCEPT !.px[s] = n.id]
    BY <1>7, <1>10, <1>12, <1>14, <1>16, PicsOfPaint
  <2>2. Pics(NextScreen) = Strict!Effect(Pics(Screen), n)
    BY <1>6, <2>1, EffectOfPaint
  <2>3. ~WaitsNext(n) /\ \A w : WaitsNext(w) => ~Strict!Conflict(n, w)
    BY <1>2, <1>4, <1>7, <1>9, <1>12, OnlyVideos
  <2>4. Strict!Next
    BY <1>1, <1>2, <1>4, <1>5, <1>9, <1>15, <2>2, <2>3, OneStep
  <2> QED
    BY <1>13, <2>4
<1>17. CASE ~ok
  <2>1. Pics(NextScreen) = Pics(Screen)
    BY <1>12, <1>14, <1>17
  <2>2. Strict!Next
    BY <1>1, <1>2, <1>5, <1>7, <1>9, <1>15, <2>1, KindsApart, IdleStep
  <2> QED
    BY <1>13, <2>2
<1> QED
  BY <1>3, <1>16, <1>17

-----------------------------------------------------------------------------
(* An answer and the operations it releases.                               *)

LEMMA SplitAt ==
  ASSUME NEW S, NEW q \in Seq(S), NEW k \in 0..Len(q)
  PROVE  /\ Len(q) \in Nat /\ k \in Nat
         /\ Len(SubSeq(q, 1, k)) = k /\ \A i \in 1..k : SubSeq(q, 1, k)[i] = q[i]
         /\ Len(SubSeq(q, k + 1, Len(q))) = Len(q) - k
         /\ \A i \in 1..(Len(q) - k) : SubSeq(q, k + 1, Len(q))[i] = q[k + i] /\ k + i \in 1..Len(q)
BY SubSeqProperties

\* After the answer for d a queued operation may run exactly when no older decode
\* is pending.
Released(d, i) ==
  LET o == Older(pending', queue[i].pdu.id)
  IN /\ d.id < queue[i].pdu.id
     /\ queue[i].barrier = count'.settled + Cardinality(o)
     /\ queue[i].pdu.kind = "save" => pending' = o
     /\ MayRun(count', i) <=> o = {}

LEMMA AnswerReleases ==
  ASSUME Typed, Typed', Queues, BarrierExact', NEW d \in pending, pending' = pending \ {d},
         \A p \in pending' : d.id < p.id, count'.settled = count.settled + 1
  PROVE  \A i \in 1..Len(queue) : Released(d, i)
<1> SUFFICES ASSUME NEW i \in 1..Len(queue) PROVE Released(d, i)
  OBVIOUS
<1> DEFINE id == queue[i].pdu.id
           o  == Older(pending', id)
<1>1. queue \in Seq(QueueType) /\ IsFiniteSet(pending) /\ \A p \in pending : p.id \in Nat
  BY HostIds DEF Typed
<1>2. id \in Nat /\ queue[i].barrier \in Nat
  BY <1>1, QueueKinds
<1>3. Older(pending, id) # {}
  BY AllWait
<1>4. /\ queue[i].barrier = count.settled + Cardinality(Older(pending, id))
      /\ queue[i].pdu.kind = "save" => pending = Older(pending, id)
  BY DEF Queues, Barriers
<1> HIDE DEF id
<1>5. /\ d.id < id /\ Older(pending \ {d}, id) = Older(pending, id) \ {d}
      /\ Cardinality(Older(pending, id)) = Cardinality(Older(pending \ {d}, id)) + 1
      /\ Cardinality(Older(pending \ {d}, id)) \in Nat
      /\ Cardinality(Older(pending \ {d}, id)) = 0 <=> Older(pending \ {d}, id) = {}
  BY <1>1, <1>2, <1>3, OlderLess
<1>6. /\ o = Older(pending, id) \ {d} /\ Cardinality(Older(pending, id)) = Cardinality(o) + 1
      /\ Cardinality(o) \in Nat /\ (Cardinality(o) = 0 <=> o = {})
  BY <1>5
<1>7. count.settled \in Nat
  BY DEF Typed, CountType
<1> HIDE DEF o
<1>8. queue[i].barrier = count'.settled + Cardinality(o)
  BY <1>4, <1>6, <1>7
<1>9. queue[i].pdu.kind = "save" => pending' = o
  BY <1>4, <1>6
<1>10. queue[i].barrier <= count'.settled <=> o = {}
  BY <1>6, <1>7, <1>8
<1>11. count'.settled < count'.decodes <=> pending' # {}
  <2>1. Cardinality(pending') \in Nat /\ (Cardinality(pending') = 0 <=> pending' = {})
    BY FS_CardinalityType, FS_EmptySet DEF Typed
  <2>2. count'.settled \in Nat /\ count'.decodes \in Nat
    BY DEF Typed, CountType
  <2>3. count'.settled + Cardinality(pending') = count'.decodes
    BY DEF BarrierExact
  <2> QED
    BY <2>1, <2>2, <2>3
<1>12. MayRun(count', i) <=> o = {}
  BY <1>9, <1>10, <1>11 DEF MayRun
<1> QED
  BY <1>5, <1>8, <1>9, <1>12 DEF Released, o, id

\* What stays in the queue still waits.
LEMMA QueuesRest ==
  ASSUME Typed, Queues, UNCHANGED <<setting, host, worker>>, worker = "up",
         NEW d, \A i \in 1..Len(queue) : Released(d, i),
         NEW k \in 0..Len(queue), queue' = SubSeq(queue, k + 1, Len(queue)),
         k = Len(queue) \/ ~MayRun(count', k + 1),
         \A s \in Surfaces : Screen.surf[s].st # "gone" => NextScreen.surf[s].st # "gone"
  PROVE  Queues'
<1> DEFINE n == Len(queue) - k
<1>1. queue \in Seq(QueueType)
  BY DEF Typed
<1>2. /\ Len(queue) \in Nat /\ k \in Nat /\ n \in Nat /\ Len(queue') = n
      /\ \A i \in 1..n : queue'[i] = queue[k + i] /\ k + i \in 1..Len(queue)
  BY <1>1, SplitAt
<1>3. Arranged(queue', host')
  <2>1. ASSUME NEW i \in 1..n, NEW j \in 1..n, i < j
        PROVE  queue'[i].pdu.id < queue'[j].pdu.id
    <3>1. k + i < k + j
      BY <1>2, <2>1
    <3> QED
      BY <1>2, <3>1 DEF Queues, Arranged
  <2>2. \A i \in 1..n : queue'[i].pdu.id <= host'.sent.id
    BY <1>2 DEF Queues, Arranged
  <2> QED
    BY <1>2, <2>1, <2>2 DEF Arranged
<1>4. Barriers(queue', pending', count'.settled)
  BY <1>2 DEF Released, Barriers
<1>5. AllExist(queue', Screen')
  <2>1. Screen' = NextScreen
    BY DEF Screen, NextScreen
  <2>2. \A i \in 1..n : Exist(NextScreen, queue[k + i].pdu)
    BY <1>2, ExistKept DEF Queues, AllExist
  <2> QED
    BY <1>2, <2>1, <2>2 DEF AllExist
<1>6. HeadWaits(queue', pending')
  <2> SUFFICES ASSUME queue' # <<>> PROVE Older(pending', queue'[1].pdu.id) # {}
    BY DEF HeadWaits
  <2>1. n # 0
    BY <1>1, <1>2, SubSeqProperties
  <2>2. queue'[1] = queue[k + 1] /\ k + 1 \in 1..Len(queue) /\ k # Len(queue)
    BY <1>2, <2>1
  <2> QED
    BY <2>2 DEF Released
<1>7. (Given("workerLost") => queue' = <<>>)
  <2>1. queue = <<>> => queue' = <<>>
    OBVIOUS
  <2> QED
    BY <2>1 DEF Queues
<1>8. Given("workerLost")' <=> Given("workerLost")
  BY DEF Given
<1> QED
  BY <1>3, <1>4, <1>5, <1>6, <1>7, <1>8 DEF Queues

\* The first k queued operations run on scr, through the screens h, after the
\* answer for d.
RunOf(d, k, scr, h) ==
  /\ Between(scr, SubSeq(queue, 1, k), h) /\ \A i \in 0..k : Redrawn(scr, h[i])
  /\ AllExist(queue, scr) /\ Arranged(queue, host)
  /\ \A i \in 1..Len(queue) : d.id < queue[i].pdu.id

\* q is d, if it was painted (o = 1), and the operations released after it, and
\* performing q one by one on the pictures pic leads to those of the last screen.
RunIn(q, pic, d, o, k, h) ==
  /\ Sorted(q) /\ \E g : Steps(pic, q, g) /\ g[Len(q)] = Pics(h[k])
  /\ \A x : x \in ToSet(q) <=> (o = 1 /\ x = d) \/ \E i \in 1..k : queue[i].pdu = x

LEMMA RunSteps ==
  ASSUME queue \in Seq(QueueType), NEW d \in Pdu, NEW k \in 0..Len(queue), NEW o \in {0, 1},
         NEW scr \in ScreenType, NEW h, RunOf(d, k, scr, h),
         NEW pic, Pics(scr) = IF o = 0 THEN pic ELSE Strict!Effect(pic, d)
  PROVE  \E q \in Seq(Pdu) : RunIn(q, pic, d, o, k, h)
<1> DEFINE n == k + o
           q == [i \in 1..n |-> IF i <= o THEN d ELSE queue[i - o].pdu]
           g == [i \in 0..n |-> IF i < o THEN pic ELSE Pics(h[i - o])]
<1>1. k \in Nat /\ k <= Len(queue) /\ Len(queue) \in Nat /\ n \in Nat /\ o \in Nat
  OBVIOUS
<1>2. \A i \in 1..Len(queue) : queue[i].pdu \in Pdu /\ queue[i].pdu \in OrderedPdu
  BY QueueKinds
<1>3. \A i \in 1..n : i <= o \/ i - o \in 1..k
  BY <1>1
<1>4. q \in Seq(Pdu) /\ Len(q) = n
  <2>1. \A i \in 1..n : ~(i <= o) => i - o \in 1..Len(queue)
    BY <1>1, <1>3
  <2>2. q \in [1..n -> Pdu]
    BY <1>2, <2>1
  <2> HIDE DEF q
  <2>3. q \in Seq(Pdu)
    BY <1>1, <2>2, SeqDef
  <2> QED
    BY <1>1, <2>2, <2>3
<1>5. /\ \A i \in 1..k : i + o \in 1..n /\ q[i + o] = queue[i].pdu
      /\ o = 1 => 1 \in 1..n /\ q[1] = d
  BY <1>1
<1>6. \A i \in 1..n : (o = 1 /\ i = 1 /\ q[i] = d) \/ (i - o \in 1..k /\ q[i] = queue[i - o].pdu)
  BY <1>1, <1>3
<1>7. /\ \A i \in 0..k : i + o \in 0..n /\ g[i + o] = Pics(h[i])
      /\ o = 1 => g[0] = pic
  BY <1>1
<1> HIDE DEF q, g
<1>8. Sorted(q)
  <2> SUFFICES ASSUME NEW i \in 1..n, NEW j \in 1..n, i < j PROVE q[i].id < q[j].id
    BY <1>4 DEF Sorted
  <2>1. j - o \in 1..k /\ q[j] = queue[j - o].pdu /\ j - o \in 1..Len(queue)
    BY <1>1, <1>6
  <2>2. CASE o = 1 /\ i = 1 /\ q[i] = d
    BY <2>1, <2>2 DEF RunOf
  <2>3. CASE i - o \in 1..k /\ q[i] = queue[i - o].pdu
    <3>1. i - o < j - o /\ i - o \in 1..Len(queue)
      BY <1>1, <2>3
    <3> QED
      BY <2>1, <2>3, <3>1 DEF RunOf, Arranged
  <2> QED
    BY <1>6, <2>2, <2>3
<1>9. /\ h[0] = scr
      /\ \A i \in 1..k : h[i] = Perform(h[i - 1], queue[i].pdu)
  BY SplitAt DEF RunOf, Between
<1>10. \A i \in 1..k : Pics(h[i]) = Strict!Effect(Pics(h[i - 1]), queue[i].pdu)
  <2> SUFFICES ASSUME NEW i \in 1..k
               PROVE  Pics(h[i]) = Strict!Effect(Pics(h[i - 1]), queue[i].pdu)
    OBVIOUS
  <2>1. i - 1 \in 0..k /\ i \in 1..Len(queue)
    BY <1>1
  <2>2. Redrawn(scr, h[i - 1]) /\ h[i - 1] \in ScreenType
    BY <2>1 DEF RunOf, Redrawn
  <2>3. Exist(scr, queue[i].pdu)
    BY <2>1 DEF RunOf, AllExist
  <2>4. Exist(h[i - 1], queue[i].pdu)
    BY <2>2, <2>3, DrawsKeep, ExistKept
  <2>5. Strict!Effect(Pics(h[i - 1]), queue[i].pdu) = Pics(Perform(h[i - 1], queue[i].pdu))
    BY <1>2, <2>1, <2>2, <2>4, EffectOfPerform
  <2> QED
    BY <1>9, <2>5
<1>11. Steps(pic, q, g)
  <2>1. g[0] = pic
    BY <1>7, <1>1, <1>9
  <2>2. ASSUME NEW i \in 1..n PROVE g[i] = Strict!Effect(g[i - 1], q[i])
    <3>1. CASE o = 1 /\ i = 1 /\ q[i] = d
      BY <1>1, <3>1, <1>7, <2>1, <1>9
    <3>2. CASE i - o \in 1..k /\ q[i] = queue[i - o].pdu
      BY <1>1, <3>2, <1>7, <1>10
    <3> QED
      BY <1>6, <3>1, <3>2
  <2> QED
    BY <1>4, <2>1, <2>2 DEF Steps
<1>12. g[Len(q)] = Pics(h[k])
  BY <1>1, <1>4, <1>7
<1>13. \A x : x \in ToSet(q) <=> (o = 1 /\ x = d) \/ \E i \in 1..k : queue[i].pdu = x
  BY <1>4, ToSetIs, <1>6, <1>5
<1> QED
  BY <1>4, <1>8, <1>11, <1>12, <1>13 DEF RunIn

\* The decode that was answered takes effect, or nothing.
LEMMA AnsweredEffect ==
  ASSUME Typed, NEW d \in DecodePdu, NEW scr,
         scr = Screen \/ (d \in ProgressivePdu /\ scr = PaintIfThere(Screen, d.dst, d.id))
  PROVE  \E o \in {0, 1} :
           /\ Pics(scr) = IF o = 0 THEN Pics(Screen) ELSE Strict!Effect(Pics(Screen), d)
           /\ o = 1 => d \in ProgressivePdu
<1>1. CASE scr = Screen
  BY <1>1
<1>2. CASE d \in ProgressivePdu /\ scr = PaintIfThere(Screen, d.dst, d.id)
  BY <1>2, PipelineAssumption, <1>1, ScreenTyped, PicsOfPaint, EffectOfPaint DEF ProgressivePdu,
     Pdu, Pictures, PaintIfThere
<1> QED
  BY <1>1, <1>2

LEMMA OrderOfAnswer ==
  ASSUME OrderInv, NEW m, OnProgressiveResult(m) \/ OnH264Submitted(m)
  PROVE  Queues' /\ Strict!Next
<1> DEFINE d == m.pdu
<1>1. /\ Typed /\ Messages /\ Queues /\ VideoOrder(owed, toPage) /\ toPage \in Seq(PostType)
      /\ queue \in Seq(QueueType)
  BY DEF OrderInv, PipelineInv, Typed, Videos
<1>2. /\ Typed' /\ Take(m) /\ worker' = worker /\ pending' = pending \ {d}
      /\ Messages' /\ count'.settled = count.settled + 1 /\ d \in pending
      /\ worker = "up" /\ \A p \in pending' : d.id < p.id
  BY <1>1, AnswerFacts, AnswerMessages
<1>3. PICK scr : /\ scr = Screen \/ (d \in ProgressivePdu /\ scr = PaintIfThere(Screen, d.dst, d.id))
                 /\ Redrawn(Screen, scr) /\ Drain(count', scr)
  BY <1>1, AnswerFacts
<1>4. /\ toPage # <<>> /\ toPage' = Tail(toPage)
      /\ UNCHANGED <<setting, host, owed>>
  BY <1>1, <1>2, TakeFacts
<1>5. d \in DecodePdu /\ d \in Pdu /\ d.id \in Nat /\ \A p \in pending : p.id \in Nat
  BY <1>1, <1>2, HostIds, KindsApart DEF Typed
<1> HIDE DEF d
<1>6. \A i \in 1..Len(queue) : Released(d, i)
  BY <1>1, <1>2, AnswerReleases DEF Messages
<1>7. scr \in ScreenType
  BY <1>3 DEF Redrawn
<1>8. PICK k \in 0..Len(queue) : \E h :
           /\ \A i \in 1..k : MayRun(count', i)
           /\ k = Len(queue) \/ ~MayRun(count', k + 1)
           /\ queue' = SubSeq(queue, k + 1, Len(queue))
           /\ Between(scr, SubSeq(queue, 1, k), h) /\ Len(SubSeq(queue, 1, k)) = k
           /\ surf' = h[k].surf /\ cache' = h[k].cache
           /\ \A i \in 0..k : Redrawn(scr, h[i])
  BY <1>1, <1>3, <1>7, DrainFacts
<1>9. PICK h :
           /\ \A i \in 1..k : MayRun(count', i)
           /\ k = Len(queue) \/ ~MayRun(count', k + 1)
           /\ queue' = SubSeq(queue, k + 1, Len(queue))
           /\ Between(scr, SubSeq(queue, 1, k), h)
           /\ surf' = h[k].surf /\ cache' = h[k].cache
           /\ \A i \in 0..k : Redrawn(scr, h[i])
  BY <1>8
<1>10. h[k] \in ScreenType /\ NextScreen = h[k] /\ Redrawn(Screen, h[k])
  <2>1. Redrawn(scr, h[k])
    BY <1>9
  <2>2. h[k] \in ScreenType
    BY <2>1 DEF Redrawn
  <2> QED
    BY <1>3, <1>9, <2>1, <2>2, ScreenParts, RedrawnTwice DEF NextScreen
<1>11. Queues'
  BY <1>10, DrawsKeep, <1>1, <1>2, <1>4, <1>6, <1>9, QueuesRest
<1>12. PICK o \in {0, 1} :
           /\ Pics(scr) = IF o = 0 THEN Pics(Screen) ELSE Strict!Effect(Pics(Screen), d)
           /\ o = 1 => d \in ProgressivePdu
  BY <1>1, <1>3, <1>5, AnsweredEffect
<1>13. AllExist(queue, scr) /\ Arranged(queue, host)
  BY <1>1, <1>3, DrawsKeep, ExistKept DEF Queues, AllExist
<1> DEFINE pic == Pics(Screen)
<1>14. PICK q \in Seq(Pdu) : RunIn(q, pic, d, o, k, h)
  <2>1. \A i \in 1..Len(queue) : d.id < queue[i].pdu.id
    BY <1>6 DEF Released
  <2>2. RunOf(d, k, scr, h)
    BY <1>9, <1>13, <2>1 DEF RunOf
  <2>3. Pics(scr) = IF o = 0 THEN pic ELSE Strict!Effect(pic, d)
    BY <1>12
  <2> HIDE DEF pic
  <2> QED
    BY <1>1, <1>5, <1>7, <2>2, <2>3, RunSteps
<1>15. PICK g : Sorted(q) /\ Steps(Pics(Screen), q, g) /\ g[Len(q)] = Pics(NextScreen)
  BY <1>10, <1>14 DEF RunIn
<1>16. \A x : x \in ToSet(q) <=> (o = 1 /\ x = d) \/ \E i \in 1..k : queue[i].pdu = x
  BY <1>14 DEF RunIn
<1>17. /\ Len(queue) \in Nat /\ k \in Nat /\ k <= Len(queue) /\ Len(queue') = Len(queue) - k
       /\ \A i \in 1..(Len(queue) - k) : queue'[i] = queue[k + i] /\ k + i \in 1..Len(queue)
  BY <1>1, <1>9, SplitAt
<1>18. \A i \in 1..Len(queue) : queue[i].pdu.id \in Nat /\ queue[i].pdu \in OrderedPdu /\ queue[i].pdu \in Pdu
  BY <1>1, QueueKinds
<1>19. \A w : Queued(queue', w) <=> \E j \in 1..Len(queue) : k < j /\ queue[j].pdu = w
  <2>1. ASSUME NEW w, NEW i \in 1..Len(queue'), queue'[i].pdu = w
        PROVE  \E j \in 1..Len(queue) : k < j /\ queue[j].pdu = w
    BY <1>17, <2>1
  <2>2. ASSUME NEW w, NEW j \in 1..Len(queue), k < j, queue[j].pdu = w
        PROVE  \E i \in 1..Len(queue') : queue'[i].pdu = w
    <3>1. j - k \in 1..(Len(queue) - k) /\ k + (j - k) = j
      BY <1>17, <2>2
    <3>2. queue'[j - k] = queue[j]
      BY <1>17, <3>1
    <3> QED
      BY <1>17, <2>2, <3>1, <3>2
  <2> QED
    BY <2>1, <2>2 DEF Queued
<1>20. \A w : Undrawn(owed', toPage', w) => Undrawn(owed, toPage, w)
  BY <1>1, <1>4, VideosTake
<1>21. /\ \A w : w \in Waiting <=> w \in pending \/ Queued(queue, w) \/ Undrawn(owed, toPage, w)
       /\ \A w : w \in Waiting' <=> WaitsNext(w)
       /\ \A w : WaitsNext(w) <=> w \in pending' \/ Queued(queue', w) \/ Undrawn(owed', toPage', w)
  BY <1>2, <1>1, WaitingIs DEF Counted, WaitsNext
<1>22. Arrived = {}
  BY <1>4 DEF Arrived
<1>23. Waiting' \subseteq Waiting \cup Arrived
  BY <1>19, <1>2, <1>20, <1>21 DEF Queued
<1>24. ASSUME NEW i \in 1..k
       PROVE  /\ i \in 1..Len(queue) /\ Older(pending', queue[i].pdu.id) = {}
              /\ \A j \in 1..Len(queue) : k < j => queue[i].pdu.id < queue[j].pdu.id
  <2>1. i \in 1..Len(queue) /\ \A j \in 1..Len(queue) : k < j => i < j
    BY <1>17
  <2> QED
    BY <1>6, <1>9, <1>13, <2>1 DEF Released, Arranged
<1>25. ToSet(q) \subseteq Gone
  <2>1. ASSUME o = 1 PROVE d \in Waiting /\ d \notin Waiting'
    BY <1>12, <2>1, <1>2, NextKinds, KindsApart, <1>21
  <2>2. ASSUME NEW i \in 1..k PROVE queue[i].pdu \in Waiting /\ queue[i].pdu \notin Waiting'
    <3> DEFINE p == queue[i].pdu
    <3>1. i \in 1..Len(queue) /\ p \in OrderedPdu /\ p.id \in Nat
      BY <1>18, <1>24
    <3>2. p \notin pending' /\ ~Undrawn(owed', toPage', p)
      BY <3>1, KindsApart, <1>2, NextKinds DEF Typed
    <3>3. ~Queued(queue', p)
      BY <1>18, <1>19, <1>24
    <3>4. Queued(queue, p)
      BY <3>1 DEF Queued
    <3> HIDE DEF p
    <3>5. p \in Waiting /\ p \notin Waiting'
      BY <1>21, <3>2, <3>3, <3>4
    <3> QED
      BY <3>5 DEF p
  <2> QED
    BY <1>16, <2>1, <2>2 DEF Gone
<1>26. \A p \in Gone : p \in ToSet(q) \/ p.kind \in Strict!Decodes
  <2> SUFFICES ASSUME NEW p \in Gone, p \notin ToSet(q) PROVE p.kind \in Strict!Decodes
    OBVIOUS
  <2>1. p \in Waiting /\ p \notin Waiting'
    BY <1>22 DEF Gone
  <2>2. ~Queued(queue, p)
    <3> SUFFICES ASSUME NEW i \in 1..Len(queue), queue[i].pdu = p PROVE FALSE
      BY DEF Queued
    <3>1. ~(k < i)
      BY <1>19, <1>21, <2>1
    <3>2. i \in 1..k
      BY <1>17, <3>1
    <3> QED
      BY <1>16, <3>2
  <2>3. p \in DecodePdu
    BY <1>1, WaitingKinds, KindsApart, <1>21, <2>1, <2>2 DEF Typed
  <2> QED
    BY <2>3, KindsApart
<1>27. \A p \in ToSet(q), w \in Waiting' : w.id < p.id => ~Strict!Conflict(p, w)
  <2> SUFFICES ASSUME NEW p \in ToSet(q), NEW w \in Waiting', w.id < p.id
               PROVE  ~Strict!Conflict(p, w)
    OBVIOUS
  <2>1. /\ p \in OrderedPdu \cup ProgressivePdu /\ p \in Pdu /\ p.id \in Nat
        /\ ~\E x \in pending' : x.id < p.id
        /\ \A j \in 1..Len(queue) : k < j => p.id < queue[j].pdu.id
    <3>1. CASE o = 1 /\ p = d
      BY <1>2, <1>5, <1>6, <1>12, <3>1 DEF Released
    <3>2. ASSUME NEW i \in 1..k, queue[i].pdu = p
          PROVE  /\ p \in OrderedPdu /\ p \in Pdu /\ p.id \in Nat
                 /\ ~\E x \in pending' : x.id < p.id
                 /\ \A j \in 1..Len(queue) : k < j => p.id < queue[j].pdu.id
      BY <1>18, <1>24, <3>2 DEF Older
    <3> QED
      BY <1>16, <3>1, <3>2
  <2>2. w \notin pending' /\ ~Queued(queue', w)
    BY <1>19, <1>18, <2>1
  <2>3. w \in VideoPdu
    BY <1>2, <1>21, <2>2, NextKinds
  <2> QED
    BY <2>1, <2>3, VideoConflicts
<1>28. host'.sent # host.sent => host'.sent.id > host.sent.id
  BY <1>4
<1>29. Strict!Next
  BY <1>15, <1>23, <1>25, <1>26, <1>27, <1>28, StrictQueue
<1> QED
  BY <1>11, <1>29

-----------------------------------------------------------------------------
(* The pipeline keeps the order of arrival.                                *)

LEMMA StepOrder ==
  ASSUME OrderInv, PipelineNext
  PROVE  (Queues' /\ Strict!Next) \/ UNCHANGED pipelineVars
<1>1. CASE HostStep
  BY OrderOfDispatch, OrderOfPlain, OrderOfDestroy, OrderOfAsk, OrderOfSync, OrderOfPageVideo, <1>1
     DEF HostStep
<1>2. CASE WorkerStep
  BY <1>2, OrderOfWorker
<1>3. CASE WorkerError \/ AckTimer \/ Flush \/ Destroy
  BY <1>3, OrderOfRest
<1>4. CASE PageMessage
  BY OrderOfAnswer, OrderOfFrame, OrderOfRest, <1>4 DEF PageMessage
<1>5. ASSUME NEW s \in Surfaces, VideoOutput(s) \/ VideoError(s)
      PROVE  Queues' /\ Strict!Next
  BY <1>5, OrderOfOutput, OrderOfRest
<1>6. CASE Rest
  BY <1>6 DEF Rest
<1> QED
  BY <1>1, <1>2, <1>3, <1>4, <1>5, <1>6 DEF PipelineNext

\* The environment is chosen once.
LEMMA StepSetting ==
  ASSUME Typed, PipelineNext
  PROVE  setting' = setting
<1>1. CASE HostStep
  BY <1>1, HostSends
<1>2. CASE PageMessage
  BY <1>2 DEF PageMessage, OnProgressiveResult, OnH264Submitted, OnH264Frame, OnNeedKeyframe,
              Take, OnUnsupported
<1>3. CASE WorkerStep \/ WorkerError \/ AckTimer \/ Flush \/ Destroy
  BY <1>3 DEF WorkerStep, WorkerError, AckTimer, Flush, Destroy
<1>4. ASSUME NEW s \in Surfaces, VideoOutput(s) \/ VideoError(s)
      PROVE  setting' = setting
  BY <1>4 DEF VideoOutput, VideoError
<1>5. CASE Rest
  BY <1>5 DEF Rest, pipelineVars
<1> QED
  BY <1>1, <1>2, <1>3, <1>4, <1>5 DEF PipelineNext

LEMMA InitOrder ==
  ASSUME PipelineInit
  PROVE  Videos /\ Queues /\ Strict!Init
<1>1. /\ \A s, i, p : ~Owes(owed, s, i, p)
      /\ \A i, p : ~Frames(toPage, i, p)
  BY DEF PipelineInit, Owes, Frames
<1>2. \A p : ~Undrawn(owed, toPage, p)
  BY <1>1 DEF Undrawn
<1>3. Videos
  BY <1>1, <1>2 DEF Videos, VideoOrder, VideoKnown, VideoAsked, PipelineInit
<1>4. queue = <<>> /\ pending = {} /\ setting \in Settings /\ worker = setting.worker
  BY DEF PipelineInit
<1>5. Queues
  BY <1>4, PipelineAssumption DEF Arranged, Barriers, AllExist, Queues, HeadWaits
<1>6. Strict!Init
  <2>1. Waiting = {}
    BY InitTyped, <1>4, <1>2, WaitingIs DEF Queued, Counted
  <2>2. [s \in Surfaces |-> surf[s].px] = [s \in Surfaces |-> 0]
    BY DEF PipelineInit, NoSurface
  <2> QED
    BY <2>1, <2>2 DEF Strict!Init, PipelineInit
<1> QED
  BY <1>3, <1>5, <1>6

\* A step keeps what the order rests on.
LEMMA NextOrder ==
  ASSUME PipelineInv, Orderly, Videos, Queues, [PipelineNext]_pipelineVars
  PROVE  Orderly' /\ Videos' /\ Queues' /\ [Strict!Next]_(Strict!vars)
BY StepOrder, StepVideos, StepSetting DEF Orderly, Given, pipelineVars, Videos, Queues, Screen,
   Strict!vars, Waiting, Unpainted, OrderInv, PipelineInv

\* Whatever the browser, the worker and the video decoders do, the PDUs of an
\* orderly host take effect as if they were performed one by one in the order of
\* their arrival: the pipeline implements OrderedGfx.
THEOREM PipelineKeepsOrder == PipelineSpec /\ Orderly => PdusInOrder
<1>1. PipelineInit /\ Orderly => Orderly /\ Videos /\ Queues /\ Strict!Init
  BY InitOrder
<1>2. ASSUME PipelineInv, Orderly, Videos, Queues, [PipelineNext]_pipelineVars
      PROVE  Orderly' /\ Videos' /\ Queues' /\ [Strict!Next]_(Strict!vars)
  BY <1>2, NextOrder
<1> QED
  BY <1>1, <1>2, PipelineInvHolds, PTL DEF PipelineSpec, PdusInOrder, Strict!Spec

-----------------------------------------------------------------------------
(* What an acknowledgement waits for.                                      *)

\* The video chunks that are neither painted nor dropped.
Films == {p \in VideoPdu : p \in pending \/ Undrawn(owed, toPage, p)}

\* A rebuilt video decoder writes pictures off, and so does a forced acknowledgement.
Spoilt == Given("videoThrows") \/ Given("videoFails")
Forced == \E i \in 1..Len(acked) : acked[i].forced
Steady == worker = "up" /\ ~Spoilt /\ ~Given("twoVideos")

\* Message i tells the worker to forget surface s, or the page that chunk p was taken or dropped.
Scraps(tw, i, s)   == i \in 1..Len(tw) /\ tw[i] \in DestroyType /\ tw[i].surface = s
Said(tp, i, p, o) == /\ i \in 1..Len(tp) /\ tp[i] \in AnswerType /\ tp[i].pdu = p
                     /\ tp[i].cmd = "h264-submitted" /\ tp[i].willOutput = o

\* Behind a chunk that was or will be taken there are only chunks of its surface, the one the
\* host has a stream on.
Leads(p) == p.kind = "avc-key" \/ Undrawn(owed, toPage, p)
OneStream ==
  /\ \A s, t \in host.keyed : s = t
  /\ \A p \in Films : Leads(p) =>
       p.dst \in host.keyed /\ \A r \in Films : p.id < r.id => r.dst = p.dst

\* A surface is forgotten before any chunk for it is taken that is still to come.
Behind ==
  \A i, p : p \in Films /\ Scraps(toWorker, i, p.dst) => \E j : i < j /\ Asks(toWorker, j, p)

\* A decoder that was started is that of the stream, unless it is about to go.
Started ==
  \A s \in Surfaces : dec[s] = "started" =>
    \/ \E i : Scraps(toWorker, i, s)
    \/ s \in host.keyed /\ \A j, p : Asks(toWorker, j, p) /\ p \in VideoPdu => p.dst = s

\* Only such a decoder owes pictures.
Drained == \A s \in Surfaces : dec[s] # "started" => owed[s] = <<>>

\* The picture of a chunk that was taken is to come, and before a chunk is dropped all older
\* ones have been put out.
Heard(ow, tp) ==
  /\ \A i \in 1..Len(tp) : tp[i].cmd # "h264-need-keyframe"
  /\ \A i, p : Said(tp, i, p, TRUE) => Undrawn(ow, tp, p)
  /\ \A i, p : Said(tp, i, p, FALSE) =>
       /\ \A s, j, q : Owes(ow, s, j, q) => p.id < q.id
       /\ \A j, q : Frames(tp, j, q) /\ q.id <= p.id => j < i

Stream == OneStream /\ Behind /\ Started /\ Drained /\ Heard(owed, toPage)

LEMMA ScrapsAppend ==
  ASSUME NEW tw \in Seq(AskType \cup DestroyType), NEW m \in AskType \cup DestroyType
  PROVE  \A i, s : Scraps(Append(tw, m), i, s) <=>
                     \/ Scraps(tw, i, s)
                     \/ i = Len(tw) + 1 /\ m \in DestroyType /\ m.surface = s
<1> DEFINE q == Append(tw, m)
<1>1. Len(q) = Len(tw) + 1 /\ Len(tw) \in Nat /\ q[Len(tw) + 1] = m
      /\ \A i \in 1..Len(tw) : q[i] = tw[i]
  BY AppendAt
<1> HIDE DEF q
<1>2. \A i : i \in 1..Len(q) <=> i \in 1..Len(tw) \/ i = Len(tw) + 1
  BY <1>1
<1>3. ~(Len(tw) + 1 \in 1..Len(tw))
  BY <1>1
<1>4. \A i, s : Scraps(q, i, s) <=>
                     \/ Scraps(tw, i, s)
                     \/ i = Len(tw) + 1 /\ m \in DestroyType /\ m.surface = s
  BY <1>1, <1>2, <1>3 DEF Scraps
<1> QED
  BY <1>4 DEF q

LEMMA ScrapsTail ==
  ASSUME NEW tw \in Seq(AskType \cup DestroyType), tw # <<>>
  PROVE  /\ \A i, s : Scraps(Tail(tw), i, s) => Scraps(tw, i + 1, s)
         /\ \A i, s : Scraps(tw, i, s) =>
              \/ i = 1 /\ Head(tw) \in DestroyType /\ Head(tw).surface = s
              \/ Scraps(Tail(tw), i - 1, s)
         /\ \A s : Head(tw) \in DestroyType /\ Head(tw).surface = s => Scraps(tw, 1, s)
<1> DEFINE q == Tail(tw)
<1>1. /\ Len(tw) \in Nat \ {0} /\ Len(q) = Len(tw) - 1 /\ Head(tw) = tw[1]
      /\ \A i \in 1..Len(q) : i + 1 \in 1..Len(tw) /\ q[i] = tw[i + 1]
  BY TailAt
<1> HIDE DEF q
<1>2. \A i \in 1..Len(tw) : i = 1 \/ (i - 1 \in 1..Len(q) /\ q[i - 1] = tw[i])
  BY <1>1
<1>3. 1 \in 1..Len(tw)
  BY <1>1
<1>4. /\ \A i, s : Scraps(q, i, s) => Scraps(tw, i + 1, s)
      /\ \A i, s : Scraps(tw, i, s) =>
              \/ i = 1 /\ Head(tw) \in DestroyType /\ Head(tw).surface = s
              \/ Scraps(q, i - 1, s)
      /\ \A s : Head(tw) \in DestroyType /\ Head(tw).surface = s => Scraps(tw, 1, s)
  BY <1>1, <1>2, <1>3 DEF Scraps
<1> QED
  BY <1>4 DEF q

\* A message about no picture is posted.
LEMMA HeardPosted ==
  ASSUME NEW ow, NEW tp \in Seq(PostType), NEW m \in PostType, m \notin FrameType,
         m.cmd # "h264-need-keyframe", Heard(ow, tp),
         m \in AnswerType /\ m.cmd = "h264-submitted" =>
           IF m.willOutput = TRUE THEN Undrawn(ow, tp, m.pdu)
           ELSE \A s, j, q : Owes(ow, s, j, q) => m.pdu.id < q.id
  PROVE  Heard(ow, Append(tp, m))
<1> DEFINE t == Append(tp, m)
<1>1. Len(t) = Len(tp) + 1 /\ Len(tp) \in Nat /\ t[Len(tp) + 1] = m
      /\ \A i \in 1..Len(tp) : t[i] = tp[i]
  BY AppendAt
<1>2. \A i, p : Frames(t, i, p) <=> Frames(tp, i, p)
  BY FramesAppend
<1> HIDE DEF t
<1>3. \A i : i \in 1..Len(t) <=> i \in 1..Len(tp) \/ i = Len(tp) + 1
  BY <1>1
<1>4. \A p : Undrawn(ow, t, p) <=> Undrawn(ow, tp, p)
  BY <1>2 DEF Undrawn
<1>5. \A i, p, o : Said(t, i, p, o) =>
        \/ Said(tp, i, p, o)
        \/ i = Len(tp) + 1 /\ m \in AnswerType /\ m.pdu = p /\ m.cmd = "h264-submitted" /\ m.willOutput = o
  BY <1>1, <1>3 DEF Said
<1>6. \A j, q : Frames(tp, j, q) => j < Len(tp) + 1
  BY <1>1 DEF Frames
<1>7. \A i \in 1..Len(t) : t[i].cmd # "h264-need-keyframe"
  BY <1>1, <1>3 DEF Heard
<1>8. \A i, p : Said(t, i, p, TRUE) => Undrawn(ow, t, p)
  BY <1>4, <1>5 DEF Heard
<1>9. ASSUME NEW i, NEW p, Said(t, i, p, FALSE)
      PROVE  /\ \A s, j, q : Owes(ow, s, j, q) => p.id < q.id
             /\ \A j, q : Frames(t, j, q) /\ q.id <= p.id => j < i
  BY <1>2, <1>5, <1>6, <1>9 DEF Heard
<1>10. Heard(ow, t)
  BY <1>7, <1>8, <1>9 DEF Heard
<1> QED
  BY <1>10 DEF t

\* A chunk is taken that is newer than all that was answered.
LEMMA HeardPut ==
  ASSUME NEW ow \in [Surfaces -> Seq(VideoPdu)], NEW s \in Surfaces, NEW p \in VideoPdu,
         NEW ow2, Puts(ow, s, p, ow2), NEW tp, Heard(ow, tp),
         \A i, q : Answers(tp, i, q) => q.id < p.id
  PROVE  Heard(ow2, tp)
<1>1. \A t, i, q : Owes(ow2, t, i, q) <=> Owes(ow, t, i, q) \/ (t = s /\ i = Len(ow[s]) + 1 /\ q = p)
  BY OwesPut
<1>2. \A q : Undrawn(ow, tp, q) => Undrawn(ow2, tp, q)
  BY <1>1 DEF Undrawn
<1>3. \A i, q, o : Said(tp, i, q, o) => q.id < p.id
  BY DEF Said, Answers
<1>4. \A i, q : Said(tp, i, q, TRUE) => Undrawn(ow2, tp, q)
  BY <1>2 DEF Heard
<1>5. ASSUME NEW i, NEW q, Said(tp, i, q, FALSE)
      PROVE  \A t, j, r : Owes(ow2, t, j, r) => q.id < r.id
  <2>1. q.id < p.id /\ \A t, j, r : Owes(ow, t, j, r) => q.id < r.id
    BY <1>3, <1>5 DEF Heard
  <2> QED
    BY <1>1, <2>1
<1> QED
  BY <1>4, <1>5 DEF Heard

\* A picture is posted.
LEMMA HeardOut ==
  ASSUME NEW ow \in [Surfaces -> Seq(VideoPdu)], NEW s \in Surfaces, NEW ow2, Outs(ow, s, ow2),
         NEW tp \in Seq(PostType), NEW m \in FrameType, m.pdu = Head(ow[s]), Heard(ow, tp)
  PROVE  /\ Heard(ow2, Append(tp, m))
         /\ \A p : Undrawn(ow2, Append(tp, m), p) <=> Undrawn(ow, tp, p)
<1> DEFINE t == Append(tp, m)
           v == Head(ow[s])
<1>0. m \in PostType /\ m.cmd = "h264-frame"
  BY DEF PostType, FrameType
<1>1. Len(t) = Len(tp) + 1 /\ Len(tp) \in Nat /\ t[Len(tp) + 1] = m
      /\ \A i \in 1..Len(tp) : t[i] = tp[i]
  BY <1>0, AppendAt
<1>2. \A i, p : Frames(t, i, p) <=> Frames(tp, i, p) \/ (i = Len(tp) + 1 /\ v = p)
  BY <1>0, FramesAppend
<1>3. /\ \A u, i, q : Owes(ow2, u, i, q) =>
              /\ u # s => Owes(ow, u, i, q)
              /\ u = s => Owes(ow, s, i + 1, q) /\ i \in Int /\ 1 < i + 1
      /\ Owes(ow, s, 1, v)
  BY OwesTail
<1>4. \A u, i, q : Owes(ow, u, i, q) => q = v \/ \E j : Owes(ow2, u, j, q)
  <2> SUFFICES ASSUME NEW u, NEW i, NEW q, Owes(ow, u, i, q), q # v
               PROVE  \E j : Owes(ow2, u, j, q)
    OBVIOUS
  <2>1. CASE u # s
    BY <2>1 DEF Owes, Outs
  <2>2. CASE u = s
    <3>1. ow[s] \in Seq(VideoPdu) /\ ow[s] # <<>> /\ ow2[s] = Tail(ow[s])
      BY DEF Outs
    <3>2. /\ Len(ow[s]) \in Nat \ {0} /\ Len(Tail(ow[s])) = Len(ow[s]) - 1 /\ v = ow[s][1]
          /\ \A k \in 1..Len(Tail(ow[s])) : Tail(ow[s])[k] = ow[s][k + 1]
      BY <3>1, TailAt
    <3>3. i \in 1..Len(ow[s]) /\ ow[s][i] = q /\ i # 1
      BY <2>2, <3>2 DEF Owes
    <3>4. i - 1 \in 1..Len(ow2[s]) /\ ow2[s][i - 1] = q
      BY <3>1, <3>2, <3>3
    <3> QED
      BY <2>2, <3>4 DEF Owes
  <2> QED
    BY <2>1, <2>2
<1> HIDE DEF t, v
<1>5. \A i : i \in 1..Len(t) <=> i \in 1..Len(tp) \/ i = Len(tp) + 1
  BY <1>1
<1>6. \A i, p, o : Said(t, i, p, o) => Said(tp, i, p, o)
  BY <1>0, PostCases, <1>1, <1>5 DEF Said
<1>7. \A p : Undrawn(ow2, t, p) <=> Undrawn(ow, tp, p)
  BY <1>2, <1>3, <1>4 DEF Undrawn
<1>8. \A i \in 1..Len(t) : t[i].cmd # "h264-need-keyframe"
  BY <1>0, <1>1, <1>5 DEF Heard
<1>9. ASSUME NEW i, NEW p, Said(t, i, p, FALSE)
      PROVE  /\ \A u, j, q : Owes(ow2, u, j, q) => p.id < q.id
             /\ \A j, q : Frames(t, j, q) /\ q.id <= p.id => j < i
  <2>1. \A u, j, q : Owes(ow, u, j, q) => p.id < q.id
    BY <1>6, <1>9 DEF Heard
  <2>2. \A j, q : Frames(tp, j, q) /\ q.id <= p.id => j < i
    BY <1>6, <1>9 DEF Heard
  <2>3. p.id < v.id /\ p.id \in Nat /\ v.id \in Nat
    BY <1>3, ElementOfSeq, <1>6, <1>9, PostCases, <2>1, PipelineAssumption DEF Owes, Said,
       PostType, DecodePdu, VideoPdu, ProgressivePdu, Pdu
  <2>4. ASSUME NEW u, NEW j, NEW q, Owes(ow2, u, j, q) PROVE p.id < q.id
    BY <1>3, <2>4, <2>1
  <2>5. ASSUME NEW j, NEW q, Frames(t, j, q), q.id <= p.id PROVE j < i
    BY <2>3, <2>5, <1>2, <2>2
  <2> QED
    BY <2>4, <2>5
<1>10. Heard(ow2, t)
  BY <1>6, <1>7, <1>8, <1>9 DEF Heard
<1> QED
  BY <1>7, <1>10 DEF t

\* The page takes a message.
LEMMA HeardTake ==
  ASSUME NEW ow, NEW tp \in Seq(PostType), tp # <<>>, Heard(ow, tp),
         NEW tw, NEW pd, Fifo(tp, tw, pd), VideoAsked(ow, tp, pd)
  PROVE  Heard(ow, Tail(tp))
<1> DEFINE t == Tail(tp)
<1>1. /\ Len(tp) \in Nat \ {0} /\ Len(t) = Len(tp) - 1
      /\ \A i \in 1..Len(t) : i + 1 \in 1..Len(tp) /\ t[i] = tp[i + 1]
  BY TailAt
<1>2. /\ \A i, p : Frames(t, i, p) => Frames(tp, i + 1, p) /\ i \in Int /\ 1 < i + 1
      /\ \A i, p : Frames(tp, i, p) =>
              \/ i = 1 /\ Head(tp) \in FrameType /\ Head(tp).pdu = p
              \/ Frames(t, i - 1, p)
  BY FramesTail
<1> HIDE DEF t
<1>3. \A i, p, o : Said(t, i, p, o) => Said(tp, i + 1, p, o) /\ i \in 1..Len(t)
  BY <1>1 DEF Said
<1>4. \A i \in 1..Len(t) : t[i].cmd # "h264-need-keyframe"
  BY <1>1 DEF Heard
<1>5. ASSUME NEW i, NEW p, Said(t, i, p, TRUE) PROVE Undrawn(ow, t, p)
  <2>1. Undrawn(ow, tp, p) /\ Answers(tp, i + 1, p)
    BY <1>3, <1>5 DEF Heard, Said, Answers
  <2>2. ~Frames(tp, 1, p)
    <3> SUFFICES ASSUME Frames(tp, 1, p) PROVE FALSE
      OBVIOUS
    <3>1. p \in pd
      BY <2>1 DEF Fifo
    <3>2. PICK j : j < 1 /\ Answers(tp, j, p)
      BY <3>1 DEF VideoAsked
    <3> QED
      BY <3>2 DEF Answers
  <2> QED
    BY <1>2, <2>1, <2>2 DEF Undrawn
<1>6. ASSUME NEW i, NEW p, Said(t, i, p, FALSE)
      PROVE  /\ \A s, j, q : Owes(ow, s, j, q) => p.id < q.id
             /\ \A j, q : Frames(t, j, q) /\ q.id <= p.id => j < i
  <2>1. i \in 1..Len(t) /\ Said(tp, i + 1, p, FALSE)
    BY <1>3, <1>6
  <2>2. i \in Int
    BY <1>1, <2>1
  <2>3. /\ \A s, j, q : Owes(ow, s, j, q) => p.id < q.id
        /\ \A j, q : Frames(tp, j, q) /\ q.id <= p.id => j < i + 1
    BY <2>1 DEF Heard
  <2>4. \A j, q : Frames(t, j, q) /\ q.id <= p.id => j \in Int /\ j + 1 < i + 1
    BY <1>2, <2>3
  <2>5. \A j, q : Frames(t, j, q) /\ q.id <= p.id => j < i
    BY <2>2, <2>4
  <2> QED
    BY <2>3, <2>5
<1>7. Heard(ow, t)
  BY <1>4, <1>5, <1>6 DEF Heard
<1> QED
  BY <1>7 DEF t

-----------------------------------------------------------------------------
(* The stream.                                                             *)

\* What the lemmas of the stream start from.
Streams == Typed /\ Messages /\ Videos /\ Steady /\ Stream

LEMMA StreamTypes ==
  ASSUME Streams
  PROVE  /\ owed \in [Surfaces -> Seq(VideoPdu)] /\ toPage \in Seq(PostType)
         /\ toWorker \in Seq(AskType \cup DestroyType)
         /\ dec \in [Surfaces -> {"none", "started", "unsupported"}]
         /\ worker = "up" /\ Fifo(toPage, toWorker, pending)
         /\ AllAsked(toPage, toWorker, pending)
         /\ VideoOrder(owed, toPage) /\ VideoAsked(owed, toPage, pending)
         /\ VideoKnown(owed, toPage, host)
         /\ host.sent.id \in Nat /\ \A p \in Films : p.id \in Nat /\ p.id <= host.sent.id
BY HostIds, VideoIds DEF Streams, Steady, Films, Typed, Messages, Known, Videos, VideoKnown

\* Nothing happens to the stream.
LEMMA StreamSame ==
  ASSUME Stream, UNCHANGED <<pending, owed, toPage, toWorker, dec>>, host'.keyed = host.keyed
  PROVE  Stream' /\ Films' = Films
BY DEF Films, Stream, OneStream, Leads, Behind, Started, Drained

\* A progressive decode is asked.
LEMMA StreamProgressive ==
  ASSUME Streams, NEW s \in Surfaces, DecodeProgressive(s)
  PROVE  Stream' /\ Films' = Films
<1>1. Asked(s) /\ Sends("progressive", NoPicture, s)
  BY AskFacts DEF Streams, DecodeProgressive
<1>2. /\ host'.sent \in ProgressivePdu /\ host'.keyed = host.keyed /\ toPage' = toPage
      /\ UNCHANGED <<owed, dec>> /\ pending' = pending \cup {host'.sent}
  BY <1>1 DEF Asked, Sends, DecodePdu, VideoPdu, Video
<1>3. PICK m \in AskType : m.pdu = host'.sent /\ toWorker' = Append(toWorker, m)
  BY <1>1 DEF Asked
<1>4. m \notin DestroyType
  BY AskCases DEF DestroyType
<1>5. /\ \A i, t : Scraps(toWorker', i, t) <=> Scraps(toWorker, i, t)
      /\ \A i, p : Asks(toWorker, i, p) => Asks(toWorker', i, p)
      /\ \A i, p : Asks(toWorker', i, p) /\ p \in VideoPdu => Asks(toWorker, i, p)
  BY <1>2, <1>3, <1>4, StreamTypes, ScrapsAppend, AsksAppend, KindsApart
<1>6. Films' = Films
  BY <1>2, KindsApart DEF Films
<1>7. OneStream'
  BY <1>2, <1>6 DEF Streams, Stream, OneStream, Leads
<1>8. Behind'
  BY <1>5, <1>6 DEF Streams, Stream, Behind
<1>9. Started'
  BY <1>2, <1>5 DEF Streams, Stream, Started
<1>10. Drained' /\ Heard(owed', toPage')
  BY <1>2 DEF Streams, Stream, Drained
<1> QED
  BY <1>6, <1>7, <1>8, <1>9, <1>10 DEF Stream

\* A chunk is asked: it is of the stream's surface.
LEMMA StreamVideo ==
  ASSUME Streams, NEW s \in Surfaces, NEW k \in Video, DecodeAvc420(k, s)
  PROVE  /\ Stream' /\ Films' = Films \cup {host'.sent} /\ host'.sent \notin Films
         /\ host'.sent.id = host.sent.id + 1
<1> DEFINE n == host'.sent
<1>1. Asked(s) /\ Sends(k, NoPicture, s)
  BY AskFacts DEF Streams, DecodeAvc420
<1>2. /\ n \in VideoPdu /\ n.kind = k /\ n.dst = s /\ n.id = host.sent.id + 1 /\ toPage' = toPage
      /\ UNCHANGED <<owed, dec>> /\ pending' = pending \cup {n}
      /\ host'.keyed = IF k = "avc-key" THEN host.keyed \cup {s} ELSE host.keyed
  BY <1>1 DEF Asked, Sends, DecodePdu, ProgressivePdu, Video
<1>3. PICK m \in AskType : m.pdu = n /\ toWorker' = Append(toWorker, m)
  BY <1>1 DEF Asked
<1>4. m \notin DestroyType
  BY AskCases DEF DestroyType
<1>5. host.keyed \subseteq {s} /\ host'.keyed \subseteq {s} /\ host.keyed \subseteq host'.keyed
  BY <1>1, <1>2 DEF Sends, Sendable, Video, Streams, Steady
<1> HIDE DEF n
<1>6. /\ \A i, t : Scraps(toWorker', i, t) <=> Scraps(toWorker, i, t)
      /\ \A i, p : Asks(toWorker', i, p) <=> Asks(toWorker, i, p) \/ (i = Len(toWorker) + 1 /\ p = n)
  BY <1>3, <1>4, StreamTypes, ScrapsAppend, AsksAppend
<1>7. Films' = Films \cup {n}
  BY <1>2 DEF Films
<1>8. \A p \in Films : p.id \in Nat /\ p.id < n.id /\ p # n
  BY <1>2, StreamTypes
<1>9. ~Undrawn(owed, toPage, n)
  BY <1>2, <1>8 DEF Films
<1>10. OneStream'
  <2>1. \A x, y \in host'.keyed : x = y
    BY <1>5
  <2>2. ASSUME NEW p \in Films', Leads(p)'
        PROVE  p.dst \in host'.keyed /\ \A r \in Films' : p.id < r.id => r.dst = p.dst
    BY <1>2, <1>9, <2>2, <1>7, <1>8, StreamTypes, <1>5 DEF Leads, Streams, Stream, OneStream
  <2> QED
    BY <2>1, <2>2 DEF OneStream
<1>11. Behind'
  <2> SUFFICES ASSUME NEW i, NEW p, p \in Films', Scraps(toWorker, i, p.dst)
               PROVE  \E j : i < j /\ Asks(toWorker', j, p)
    BY <1>6 DEF Behind
  <2>1. CASE p \in Films
    BY <1>6, <2>1 DEF Streams, Stream, Behind
  <2>2. CASE p = n
    <3>1. i < Len(toWorker) + 1
      BY StreamTypes DEF Scraps
    <3> QED
      BY <1>6, <2>2, <3>1
  <2> QED
    BY <1>7, <2>1, <2>2
<1>12. Started'
  BY <1>2, <1>6, <1>5 DEF Started, Streams, Stream
<1>13. Drained' /\ Heard(owed', toPage')
  BY <1>2 DEF Streams, Stream, Drained
<1> QED
  BY <1>2, <1>7, <1>8, <1>10, <1>11, <1>12, <1>13 DEF Stream, n

\* A surface is destroyed: it is not that of any chunk.
LEMMA StreamDestroy ==
  ASSUME Streams, Orderly, NEW s \in Surfaces, RecreateSurface(s) \/ DeleteSurface(s)
  PROVE  Stream' /\ Films' = Films
<1>1. /\ UNCHANGED <<pending, toPage>> /\ DestroySurface(s)
      /\ host'.keyed = host.keyed \ {s}
      /\ \E k \in {"recreate", "delete"} : Sendable(k, NoPicture, s)
  BY DEF RecreateSurface, DeleteSurface, Sends
<1>2. UNCHANGED <<owed, dec>>
      /\ toWorker' = Append(toWorker, [cmd |-> "destroy", surface |-> s])
  BY <1>1, StreamTypes DEF DestroySurface, videoVars
<1>3. ~Busy(s)
  BY <1>1, SendableFacts DEF Orderly
<1>4. \A p \in Films : p.dst # s
  BY WaitingIs, StreamTypes, <1>3 DEF Films, Counted, Streams, Busy, Touches
<1> DEFINE m == [cmd |-> "destroy", surface |-> s]
<1>5. m \in DestroyType /\ m \notin AskType /\ m.surface = s
  BY AskCases DEF DestroyType
<1>6. toWorker' = Append(toWorker, m)
  BY <1>2
<1> HIDE DEF m
<1>7. /\ \A i, t : Scraps(toWorker', i, t) <=> Scraps(toWorker, i, t) \/ (i = Len(toWorker) + 1 /\ t = s)
      /\ \A i, p : Asks(toWorker', i, p) <=> Asks(toWorker, i, p)
  BY <1>5, <1>6, StreamTypes, ScrapsAppend, AsksAppend
<1>8. Films' = Films
  BY <1>1, <1>2 DEF Films
<1>9. OneStream'
  BY <1>1, <1>2, <1>8, <1>4 DEF Streams, Stream, OneStream, Leads
<1>10. Behind'
  BY <1>4, <1>7, <1>8 DEF Streams, Stream, Behind
<1>11. Started'
  BY <1>1, <1>2, <1>7 DEF Streams, Stream, Started
<1>12. Drained' /\ Heard(owed', toPage')
  BY <1>1, <1>2 DEF Streams, Stream, Drained
<1> QED
  BY <1>8, <1>9, <1>10, <1>11, <1>12 DEF Stream

\* What the worker does with a chunk, when its decoder never throws.
LEMMA WorkerTakes ==
  ASSUME Typed, ~Given("videoThrows"), NEW m \in AskType, m.pdu \in VideoPdu, WorkerH264(m)
  PROVE  LET p == m.pdu
             s == m.pdu.dst
         IN \E o \in Outcomes(p) : \E a \in AnswerType :
              /\ o \in {"taken", "dropped", "unsupported"}
              /\ a.cmd = "h264-submitted" /\ a.pdu = p /\ a.willOutput = (o = "taken")
              /\ IF o = "unsupported"
                 THEN \E n \in NoteType : /\ n.cmd = "h264-unsupported"
                                          /\ toPage' = Append(Append(toPage, n), a)
                 ELSE toPage' = Append(toPage, a)
              /\ IF o = "taken" THEN Puts(owed, s, p, owed') ELSE owed' = owed
              /\ dec' = IF o = "dropped" THEN dec
                        ELSE [dec EXCEPT ![s] = IF o = "taken" THEN "started" ELSE "unsupported"]
<1> DEFINE p == m.pdu
           s == m.pdu.dst
<1>1. /\ owed \in [Surfaces -> Seq(VideoPdu)] /\ toPage \in Seq(PostType) /\ s \in Surfaces
      /\ dec \in [Surfaces -> {"none", "started", "unsupported"}]
  BY DEF Typed, VideoPdu
<1>2. PICK o \in Outcomes(p) :
        /\ Submit(p, o)
        /\ Post((CASE o = "threw" -> <<[cmd |-> "h264-need-keyframe"]>>
                   [] o = "unsupported" -> <<[cmd |-> "h264-unsupported"]>>
                   [] OTHER -> <<>>)
                \o <<[cmd |-> "h264-submitted", pdu |-> p, willOutput |-> o = "taken"]>>)
  BY DEF WorkerH264
<1>3. o \in {"taken", "dropped", "unsupported"}
  BY <1>2 DEF Outcomes
<1> DEFINE a  == [cmd |-> "h264-submitted", pdu |-> p, willOutput |-> o = "taken"]
           u  == [cmd |-> "h264-unsupported"]
           ns == CASE o = "threw" -> <<[cmd |-> "h264-need-keyframe"]>>
                   [] o = "unsupported" -> <<u>> [] OTHER -> <<>>
<1>4. a \in AnswerType /\ a.cmd = "h264-submitted" /\ a.pdu = p /\ a.willOutput = (o = "taken")
  BY DEF AnswerType
<1>5. u \in NoteType /\ u.cmd = "h264-unsupported"
  BY DEF NoteType
<1>6. toPage' = toPage \o (ns \o <<a>>)
  BY <1>2 DEF Post
<1>7. ns = IF o = "unsupported" THEN <<u>> ELSE <<>>
  BY <1>3
<1> HIDE DEF a, u, ns
<1>8. a \in PostType /\ u \in PostType
  BY <1>4, <1>5 DEF PostType
<1>9. IF o = "unsupported" THEN toPage' = Append(Append(toPage, u), a)
      ELSE toPage' = Append(toPage, a)
  <2>1. CASE o # "unsupported"
    BY <1>7, <1>8, <2>1, <1>1, <1>6, AppendIsConcat
  <2>2. CASE o = "unsupported"
    BY <1>1, <1>8, ConcatAssociative, AppendIsConcat, <1>6, <1>7, <2>2
  <2> QED
    BY <2>1, <2>2
<1>10. IF o = "taken" THEN Puts(owed, s, p, owed') ELSE owed' = owed
  BY <1>1, <1>2, <1>3 DEF Submit, Puts
<1>11. dec' = IF o = "dropped" THEN dec
              ELSE [dec EXCEPT ![s] = IF o = "taken" THEN "started" ELSE "unsupported"]
  BY <1>1, <1>2, <1>3 DEF Submit
<1> QED
  BY <1>3, <1>4, <1>5, <1>9, <1>10, <1>11

\* The worker has taken its first message.
LEMMA StreamTail ==
  ASSUME Streams, toWorker # <<>>, toWorker' = Tail(toWorker), Films' = Films
  PROVE  /\ Behind'
         /\ \A t \in Surfaces :
              dec[t] = "started" /\ ~(Head(toWorker) \in DestroyType /\ Head(toWorker).surface = t) =>
                \/ \E i : Scraps(toWorker', i, t)
                \/ /\ t \in host.keyed
                   /\ \A j, p : Asks(toWorker', j, p) /\ p \in VideoPdu => p.dst = t
<1>1. toWorker \in Seq(AskType \cup DestroyType)
  BY StreamTypes
<1>2. /\ \A i, s : Scraps(toWorker', i, s) => Scraps(toWorker, i + 1, s) /\ i \in Int /\ 1 <= i
      /\ \A i, s : Scraps(toWorker, i, s) =>
              \/ i = 1 /\ Head(toWorker) \in DestroyType /\ Head(toWorker).surface = s
              \/ Scraps(toWorker', i - 1, s)
  BY <1>1, TailAt, ScrapsTail DEF Scraps
<1>3. /\ \A i, p : Asks(toWorker', i, p) => Asks(toWorker, i + 1, p)
      /\ \A i, p : Asks(toWorker, i, p) =>
              \/ i = 1 /\ Head(toWorker) \in AskType /\ Head(toWorker).pdu = p
              \/ Asks(toWorker', i - 1, p)
  BY <1>1, AsksTail
<1>4. Behind'
  <2> SUFFICES ASSUME NEW i, NEW p, p \in Films, Scraps(toWorker', i, p.dst)
               PROVE  \E j : i < j /\ Asks(toWorker', j, p)
    BY DEF Behind
  <2>1. Scraps(toWorker, i + 1, p.dst) /\ i \in Int /\ 1 <= i
    BY <1>2
  <2>2. PICK j : i + 1 < j /\ Asks(toWorker, j, p)
    BY <2>1 DEF Streams, Stream, Behind
  <2>3. j \in Int /\ j # 1
    BY <2>1, <2>2, Indices
  <2>4. Asks(toWorker', j - 1, p) /\ i < j - 1
    BY <1>3, <2>1, <2>2, <2>3
  <2> QED
    BY <2>4
<1>5. ASSUME NEW t \in Surfaces, dec[t] = "started",
             ~(Head(toWorker) \in DestroyType /\ Head(toWorker).surface = t)
      PROVE  \/ \E i : Scraps(toWorker', i, t)
             \/ /\ t \in host.keyed
                /\ \A j, p : Asks(toWorker', j, p) /\ p \in VideoPdu => p.dst = t
  BY <1>2, <1>5, <1>3 DEF Streams, Stream, Started
<1> QED
  BY <1>4, <1>5

\* The chunk that the worker takes next is newer than all that was taken.
LEMMA HeadChunk ==
  ASSUME Streams, toWorker # <<>>, Head(toWorker) \in AskType, NEW p, p = Head(toWorker).pdu,
         p \in VideoPdu
  PROVE  /\ p \in Films /\ p \in pending
         /\ \A j, q : Answers(toPage, j, q) => q.id < p.id
         /\ \A q : Undrawn(owed, toPage, q) => q.id < p.id
         /\ \A i : ~Scraps(toWorker, i, p.dst)
         /\ \A j, q : Asks(toWorker, j, q) => q = p \/ p.id < q.id
         /\ \A r \in Films : p.id < r.id => \E j : Asks(toWorker, j, r)
<1>1. Asks(toWorker, 1, p)
  BY StreamTypes, AsksTail
<1>2. p \in pending /\ p \in Films /\ p.id \in Nat
  BY <1>1, StreamTypes DEF Fifo, Films
<1>3. \A j, q : Answers(toPage, j, q) => q.id < p.id
  BY <1>1, StreamTypes DEF Fifo
<1>4. ASSUME NEW q, Undrawn(owed, toPage, q) PROVE q.id < p.id
  BY <1>2, <1>4, StreamTypes, <1>3 DEF VideoAsked, Undrawn
<1>5. \A j, q : Asks(toWorker, j, q) => q = p \/ p.id < q.id
  <2> SUFFICES ASSUME NEW j, NEW q, Asks(toWorker, j, q), j # 1 PROVE p.id < q.id
    BY <1>1 DEF Asks
  <2>1. j \in Int /\ 1 < j
    BY StreamTypes DEF Asks
  <2> QED
    BY <1>1, <2>1, StreamTypes DEF Fifo
<1>6. ASSUME NEW i, Scraps(toWorker, i, p.dst) PROVE FALSE
  <2>1. PICK j : i < j /\ Asks(toWorker, j, p)
    BY <1>2, <1>6 DEF Streams, Stream, Behind
  <2>2. i \in Int /\ 1 <= i /\ j \in Int
    BY StreamTypes, <1>6, <2>1, Indices DEF Scraps
  <2>3. \A k, l, x, y : Asks(toWorker, k, x) /\ Asks(toWorker, l, y) /\ k < l => x.id < y.id
    BY StreamTypes DEF Fifo
  <2>4. 1 < j
    BY <2>1, <2>2
  <2>5. p.id < p.id
    BY <1>1, <2>1, <2>3, <2>4
  <2> QED
    BY <1>2, <2>5
<1>7. ASSUME NEW r \in Films, p.id < r.id PROVE \E j : Asks(toWorker, j, r)
  BY <1>2, <1>4, <1>7, StreamTypes, <1>3 DEF Films, AllAsked
<1> QED
  BY <1>2, <1>3, <1>4, <1>5, <1>6, <1>7

\* The decoder of the stream takes a chunk.
LEMMA StreamTaken ==
  ASSUME Streams, toWorker # <<>>, toWorker' = Tail(toWorker), NEW p \in VideoPdu,
         Head(toWorker) \in AskType, p = Head(toWorker).pdu,
         NEW a \in AnswerType, a.cmd = "h264-submitted", a.pdu = p, a.willOutput = TRUE,
         toPage' = Append(toPage, a), Puts(owed, p.dst, p, owed'),
         dec' = [dec EXCEPT ![p.dst] = "started"], dec[p.dst] = "started" \/ p.kind = "avc-key",
         UNCHANGED <<host, pending>>
  PROVE  Stream' /\ Films' = Films
<1> DEFINE s == p.dst
<1>0. s \in Surfaces /\ p.id \in Nat
  BY PipelineAssumption DEF VideoPdu, Pdu
<1>1. /\ p \in Films /\ p \in pending
      /\ \A j, q : Answers(toPage, j, q) => q.id < p.id
      /\ \A q : Undrawn(owed, toPage, q) => q.id < p.id
      /\ \A i : ~Scraps(toWorker, i, s)
      /\ \A j, q : Asks(toWorker, j, q) => q = p \/ p.id < q.id
      /\ \A r \in Films : p.id < r.id => \E j : Asks(toWorker, j, r)
  BY HeadChunk
<1>2. a \in PostType /\ a \notin FrameType
  BY PostCases DEF PostType
<1>3. \A q : Undrawn(owed', toPage', q) <=> Undrawn(owed, toPage, q) \/ q = p
  <2>1. \A q : Undrawn(owed', toPage, q) <=> Undrawn(owed, toPage, q) \/ q = p
    BY <1>0, <1>1, StreamTypes, VideosPut
  <2> QED
    BY <1>2, <2>1, StreamTypes, VideosPosted
<1>4. Films' = Films
  BY <1>1, <1>3 DEF Films
<1>5. s \in host.keyed /\ \A r \in Films : p.id < r.id => r.dst = s
  BY <1>1, <1>0 DEF Streams, Stream, OneStream, Leads, Started, Films
<1>6. OneStream'
  BY <1>3, <1>4, <1>5 DEF Leads, Streams, Stream, OneStream
<1>7. Behind'
  BY <1>4, StreamTail
<1>8. Started'
  <2> SUFFICES ASSUME NEW t \in Surfaces, dec'[t] = "started"
               PROVE  \/ \E i : Scraps(toWorker', i, t)
                      \/ /\ t \in host.keyed
                         /\ \A j, q : Asks(toWorker', j, q) /\ q \in VideoPdu => q.dst = t
    BY DEF Started
  <2>1. CASE t = s
    BY StreamTypes, AsksTail, <1>1, <1>5, <2>1 DEF Fifo, Films
  <2>2. CASE t # s
    BY AskCases, <2>2, StreamTypes, <1>4, StreamTail DEF DestroyType
  <2> QED
    BY <2>1, <2>2
<1>9. Drained'
  BY <1>0, StreamTypes DEF Streams, Stream, Drained, Puts
<1>10. Heard(owed', toPage')
  BY <1>0, <1>1, StreamTypes, HeardPut, <1>2, <1>3, VideosPosted, HeardPosted DEF Streams, Stream
<1> QED
  BY <1>4, <1>6, <1>7, <1>8, <1>9, <1>10 DEF Stream

\* The worker answers and its decoders keep what they have: a progressive decode,
\* or a chunk that it drops, maybe after a note that H.264 is not supported.
LEMMA StreamAnswered ==
  ASSUME Streams, toWorker # <<>>, toWorker' = Tail(toWorker),
         Head(toWorker) \in AskType,
         NEW a \in AnswerType, a.pdu = Head(toWorker).pdu,
         \/ toPage' = Append(toPage, a)
         \/ \E n \in NoteType : n.cmd = "h264-unsupported" /\ toPage' = Append(Append(toPage, n), a),
         a.cmd = "h264-submitted" => /\ a.pdu \in VideoPdu /\ a.willOutput = FALSE
                                     /\ dec[a.pdu.dst] # "started",
         \A t \in Surfaces : dec'[t] = dec[t] \/ (dec[t] # "started" /\ dec'[t] = "unsupported"),
         owed' = owed, UNCHANGED <<host, pending>>
  PROVE  Stream' /\ Films' = Films
<1>1. a \in PostType /\ a \notin FrameType
      /\ \A n \in NoteType : n \in PostType /\ n \notin FrameType /\ n \notin AnswerType
  BY PostCases DEF PostType
<1>2. \A s, j, q : a.cmd = "h264-submitted" => ~Owes(owed, s, j, q)
  <2> SUFFICES ASSUME a.cmd = "h264-submitted", NEW s, NEW j, NEW q, Owes(owed, s, j, q)
               PROVE  FALSE
    OBVIOUS
  <2> DEFINE p == a.pdu
  <2>1. /\ p \in Films /\ \A x : Undrawn(owed, toPage, x) => x.id < p.id
    BY HeadChunk
  <2>2. Undrawn(owed, toPage, q) /\ q \in VideoPdu /\ q.dst = s /\ s \in Surfaces
    BY StreamTypes, VideoIds DEF VideoOrder, Owes
  <2>3. dec[s] = "started"
    BY <2>2, StreamTypes DEF Owes, Streams, Stream, Drained
  <2>4. q \in Films /\ Leads(q) /\ q.id < p.id
    BY <2>1, <2>2 DEF Films, Leads
  <2>5. p.dst = q.dst
    BY <2>1, <2>4 DEF Streams, Stream, OneStream
  <2> QED
    BY <2>2, <2>3, <2>5
<1>3. \A tp \in Seq(PostType) : (Heard(owed, tp) =>
         Heard(owed, Append(tp, a)))
  BY <1>2, <1>1, HeardPosted DEF AnswerType
<1>4. Heard(owed, toPage') /\ \A q : Undrawn(owed, toPage', q) <=> Undrawn(owed, toPage, q)
  <2>1. CASE toPage' = Append(toPage, a)
    BY <1>1, <1>3, <2>1, StreamTypes, VideosPosted DEF Streams, Stream
  <2>2. ASSUME NEW n \in NoteType, n.cmd = "h264-unsupported",
               toPage' = Append(Append(toPage, n), a)
        PROVE  Heard(owed, toPage') /\ \A q : Undrawn(owed, toPage', q) <=> Undrawn(owed, toPage, q)
    <3> DEFINE t == Append(toPage, n)
    <3>1. Heard(owed, t)
      BY <2>2, <1>1, StreamTypes, HeardPosted DEF Streams, Stream
    <3>2. t \in Seq(PostType) /\ \A q : Undrawn(owed, t, q) <=> Undrawn(owed, toPage, q)
      BY <1>1, StreamTypes, VideosPosted
    <3>3. toPage' = Append(t, a)
      BY <2>2
    <3> HIDE DEF t
    <3> QED
      BY <1>1, <1>3, <3>1, <3>2, <3>3, VideosPosted
  <2> QED
    BY <2>1, <2>2
<1>5. Films' = Films
  BY <1>4 DEF Films
<1>6. OneStream'
  BY <1>4, <1>5 DEF Leads, Streams, Stream, OneStream
<1>7. Head(toWorker) \notin DestroyType
  BY AskCases DEF DestroyType
<1>8. Behind' /\ Started'
  BY <1>5, <1>7, StreamTail DEF Started
<1>9. Drained'
  BY DEF Streams, Stream, Drained
<1> QED
  BY <1>4, <1>5, <1>6, <1>8, <1>9 DEF Stream

\* The worker forgets a surface: its decoder owes nothing.
LEMMA StreamForgotten ==
  ASSUME Streams, toWorker # <<>>, toWorker' = Tail(toWorker),
         Head(toWorker) \in DestroyType, NEW s \in Surfaces, s = Head(toWorker).surface,
         toPage' = toPage, owed' = [owed EXCEPT ![s] = <<>>], dec' = [dec EXCEPT ![s] = "none"],
         UNCHANGED <<host, pending>>
  PROVE  Stream' /\ Films' = Films
<1>1. Scraps(toWorker, 1, s)
  BY StreamTypes, ScrapsTail
<1>2. owed[s] = <<>>
  <2> SUFFICES ASSUME owed[s] # <<>> PROVE FALSE
    OBVIOUS
  <2> DEFINE q == owed[s][1]
  <2>1. Owes(owed, s, 1, q)
    BY StreamTypes, EmptySeq DEF Owes
  <2>2. Undrawn(owed, toPage, q) /\ q \in VideoPdu /\ q.dst = s /\ q.id \in Nat
    BY <2>1, StreamTypes, VideoIds DEF VideoOrder
  <2> HIDE DEF q
  <2>3. PICK j : 1 < j /\ Asks(toWorker, j, q)
    BY <1>1, <2>2 DEF Streams, Stream, Behind, Films
  <2>4. PICK i : Answers(toPage, i, q)
    BY <2>1, <2>3, StreamTypes DEF VideoAsked, Fifo
  <2> QED
    BY <2>2, <2>3, <2>4, StreamTypes DEF Fifo
<1>3. owed' = owed
  BY <1>2, StreamTypes
<1>4. Films' = Films
  BY <1>3 DEF Films
<1>5. OneStream' /\ Heard(owed', toPage')
  BY <1>3, <1>4 DEF Streams, Stream, OneStream, Leads
<1>6. \A t \in Surfaces : dec'[t] = IF t = s THEN "none" ELSE dec[t]
  BY StreamTypes
<1>7. Behind' /\ Started'
  BY <1>4, <1>6, StreamTail DEF Started
<1>8. Drained'
  BY <1>2, <1>3, <1>6 DEF Streams, Stream, Drained
<1> QED
  BY <1>4, <1>5, <1>7, <1>8 DEF Stream

LEMMA StreamWorker ==
  ASSUME Streams, WorkerStep
  PROVE  Stream' /\ Films' = Films
<1> DEFINE m == Head(toWorker)
<1>1. /\ toWorker # <<>> /\ toWorker' = Tail(toWorker) /\ m \in AskType \cup DestroyType
      /\ WorkerProgressive(m) \/ WorkerH264(m) \/ WorkerDestroySurface(m)
      /\ UNCHANGED <<host, pending>> /\ Typed /\ ~Given("videoThrows")
  BY StreamTypes, TailAt DEF WorkerStep, Streams, Steady, Spoilt
<1> HIDE DEF m
<1>2. CASE WorkerProgressive(m)
  <2>1. m \in AskType /\ m.pdu \in ProgressivePdu
    BY <1>1, <1>2, AskCases DEF WorkerProgressive
  <2>2. PICK ok \in BOOLEAN :
          toPage' = toPage \o <<[cmd |-> "progressive-result", pdu |-> m.pdu, ok |-> ok]>>
    BY <1>2 DEF WorkerProgressive, Post
  <2> DEFINE a == [cmd |-> "progressive-result", pdu |-> m.pdu, ok |-> ok]
  <2>3. a \in AnswerType /\ a.pdu = m.pdu /\ a.cmd # "h264-submitted" /\ a \in PostType
    BY <2>1 DEF AnswerType, PostType
  <2>4. toPage' = toPage \o <<a>>
    BY <2>2
  <2> HIDE DEF a
  <2>5. toPage' = Append(toPage, a)
    BY <2>3, <2>4, StreamTypes, AppendIsConcat
  <2>6. dec' = dec /\ owed' = owed
    BY <1>2 DEF WorkerProgressive, videoVars
  <2> QED
    BY <1>1, <2>1, <2>3, <2>5, <2>6, StreamAnswered DEF m
<1>3. CASE WorkerH264(m)
  <2>1. m \in AskType /\ m.pdu \in VideoPdu
    BY <1>1, <1>3, AskCases DEF WorkerH264
  <2> DEFINE p == m.pdu
             s == m.pdu.dst
  <2>2. PICK o \in Outcomes(p), a \in AnswerType :
              /\ o \in {"taken", "dropped", "unsupported"}
              /\ a.cmd = "h264-submitted" /\ a.pdu = p /\ a.willOutput = (o = "taken")
              /\ IF o = "unsupported"
                 THEN \E n \in NoteType : /\ n.cmd = "h264-unsupported"
                                          /\ toPage' = Append(Append(toPage, n), a)
                 ELSE toPage' = Append(toPage, a)
              /\ IF o = "taken" THEN Puts(owed, s, p, owed') ELSE owed' = owed
              /\ dec' = IF o = "dropped" THEN dec
                        ELSE [dec EXCEPT ![s] = IF o = "taken" THEN "started" ELSE "unsupported"]
    BY <1>1, <1>3, <2>1, WorkerTakes
  <2>3. dec[s] \in {"none", "started", "unsupported"} /\ s \in Surfaces
    BY <2>1, StreamTypes DEF VideoPdu
  <2>4. CASE o = "taken"
    BY <2>2, <2>3, <2>4, <1>1, <2>1, StreamTaken DEF Outcomes, m
  <2>5. CASE o # "taken"
    BY <2>2, <2>3, <2>5, StreamTypes, <1>1, <2>1, StreamAnswered DEF Outcomes, m
  <2> QED
    BY <2>4, <2>5
<1>4. CASE WorkerDestroySurface(m)
  BY <1>1, <1>4, AskCases, StreamForgotten DEF WorkerDestroySurface, m
<1> QED
  BY <1>1, <1>2, <1>3, <1>4

\* A decoder puts out a picture.
LEMMA StreamOutput ==
  ASSUME Streams, NEW s \in Surfaces, VideoOutput(s)
  PROVE  Stream' /\ Films' = Films
<1>1. /\ owed[s] # <<>> /\ owed' = [owed EXCEPT ![s] = Tail(owed[s])]
      /\ toPage' = Append(toPage, [cmd |-> "h264-frame", pdu |-> Head(owed[s])])
      /\ Head(owed[s]) \in VideoPdu /\ UNCHANGED <<host, pending, toWorker>>
  BY VideoOutputFacts, StreamTypes DEF Streams
<1>2. dec' = dec
  BY DEF VideoOutput
<1> DEFINE m == [cmd |-> "h264-frame", pdu |-> Head(owed[s])]
<1>3. m \in FrameType /\ m.pdu = Head(owed[s])
  BY <1>1 DEF FrameType
<1>4. toPage' = Append(toPage, m)
  BY <1>1
<1> HIDE DEF m
<1>5. Outs(owed, s, owed')
  BY <1>1, StreamTypes DEF Outs
<1>6. Heard(owed', toPage') /\ \A p : Undrawn(owed', toPage', p) <=> Undrawn(owed, toPage, p)
  BY <1>3, <1>4, <1>5, StreamTypes, HeardOut DEF Streams, Stream
<1>7. Films' = Films
  BY <1>1, <1>6 DEF Films
<1>8. OneStream'
  BY <1>6, <1>1, <1>7 DEF Leads, Streams, Stream, OneStream
<1>9. Behind' /\ Started'
  BY <1>1, <1>2, <1>7 DEF Streams, Stream, Behind, Started
<1>10. Drained'
  BY <1>1, <1>2, StreamTypes DEF Streams, Stream, Drained
<1> QED
  BY <1>6, <1>7, <1>8, <1>9, <1>10 DEF Stream

\* The page takes a message.
LEMMA StreamTakes ==
  ASSUME Streams, NEW m, Take(m), Films' \subseteq Films
  PROVE  Stream'
<1>1. toPage # <<>> /\ toPage' = Tail(toPage) /\ UNCHANGED <<host, toWorker, dec, owed>>
  BY TakeFacts DEF Streams
<1>2. Heard(owed', toPage')
  BY <1>1, StreamTypes, HeardTake DEF Streams, Stream
<1>3. \A q : Undrawn(owed', toPage', q) => Undrawn(owed, toPage, q)
  BY <1>1, StreamTypes, VideosTake
<1>4. OneStream'
  BY <1>3, <1>1 DEF Leads, Streams, Stream, OneStream
<1>5. Behind' /\ Started' /\ Drained'
  BY <1>1 DEF Streams, Stream, Behind, Started, Drained
<1> QED
  BY <1>2, <1>4, <1>5 DEF Stream

\* The chunk that was taken or dropped is the oldest.
Oldest(p) == p \in Films /\ Films' = Films \ {p} /\ \A r \in Films' : p.id < r.id

\* Only a picture's own message takes it from what is to come.
LEMMA UndrawnTake ==
  ASSUME NEW ow, NEW tp \in Seq(PostType), tp # <<>>
  PROVE  \A q : Undrawn(ow, tp, q) =>
                  Undrawn(ow, Tail(tp), q) \/ (Head(tp) \in FrameType /\ Head(tp).pdu = q)
BY FramesTail DEF Undrawn

LEMMA FilmsOfProgressive ==
  ASSUME Streams, NEW m, OnProgressiveResult(m)
  PROVE  Films' = Films
<1>1. /\ Take(m) /\ m.cmd = "progressive-result" /\ pending' = pending \ {m.pdu}
  BY DEF OnProgressiveResult
<1>2. /\ toPage # <<>> /\ m = Head(toPage) /\ toPage' = Tail(toPage) /\ owed' = owed
      /\ m \in PostType
  BY <1>1, TakeFacts DEF Streams
<1>3. m.pdu \in ProgressivePdu /\ m \notin FrameType
  BY <1>1, <1>2, PostCases
<1>4. \A q : Undrawn(owed', toPage', q) <=> Undrawn(owed, toPage, q)
  BY <1>2, <1>3, StreamTypes, UndrawnTake, VideosTake
<1> QED
  BY <1>1, <1>3, <1>4, KindsApart DEF Films

LEMMA FilmsOfSubmitted ==
  ASSUME Streams, NEW m, OnH264Submitted(m)
  PROVE  /\ m.willOutput \in BOOLEAN
         /\ m.willOutput => Films' = Films
         /\ ~m.willOutput => Oldest(m.pdu)
<1> DEFINE d == m.pdu
<1>1. /\ Take(m) /\ m.cmd = "h264-submitted" /\ pending' = pending \ {d}
  BY DEF OnH264Submitted
<1>2. /\ toPage # <<>> /\ m = Head(toPage) /\ toPage' = Tail(toPage) /\ owed' = owed
      /\ m \in PostType /\ m = toPage[1] /\ 1 \in 1..Len(toPage)
  BY <1>1, TakeFacts, StreamTypes, TailAt DEF Streams
<1>3. d \in VideoPdu /\ m \notin FrameType /\ m \in AnswerType /\ m.willOutput \in BOOLEAN
  BY <1>1, <1>2, PostCases DEF AnswerType
<1>4. \A q : Undrawn(owed', toPage', q) <=> Undrawn(owed, toPage, q)
  <2>1. \A q : Undrawn(owed, Tail(toPage), q) => Undrawn(owed, toPage, q)
    BY <1>2, StreamTypes, VideosTake
  <2>2. \A q : Undrawn(owed, toPage, q) => Undrawn(owed, Tail(toPage), q)
    BY <1>2, <1>3, StreamTypes, UndrawnTake
  <2> QED
    BY <1>2, <2>1, <2>2
<1>5. d \in pending /\ d \in Films /\ \A p \in pending' : d.id < p.id
  BY <1>3, AnswerMessages DEF Streams, Films
<1>6. Said(toPage, 1, d, m.willOutput)
  BY <1>1, <1>2, <1>3 DEF Said
<1>7. CASE m.willOutput
  BY <1>3, <1>6, <1>7, <1>1, <1>4 DEF Streams, Stream, Heard, Films
<1>8. CASE ~m.willOutput
  <2>1. /\ \A s, j, q : Owes(owed, s, j, q) => d.id < q.id
        /\ \A j, q : Frames(toPage, j, q) /\ q.id <= d.id => j < 1
    BY <1>3, <1>6, <1>8 DEF Streams, Stream, Heard
  <2>2. \A q : Undrawn(owed, toPage, q) => d.id < q.id
    <3> SUFFICES ASSUME NEW q, Undrawn(owed, toPage, q) PROVE d.id < q.id
      OBVIOUS
    <3>1. d.id \in Nat /\ q.id \in Nat
      BY <1>5, StreamTypes, VideoIds
    <3>2. \A j : Frames(toPage, j, q) => ~(j < 1)
      BY StreamTypes DEF Frames
    <3> QED
      BY <2>1, <3>1, <3>2 DEF Undrawn
  <2>3. ~Undrawn(owed, toPage, d)
    BY <1>5, StreamTypes, <2>2
  <2>4. Films' = Films \ {d}
    BY <1>1, <1>4, <2>3 DEF Films
  <2>5. \A r \in Films' : d.id < r.id
    BY <1>4, <1>5, <2>2 DEF Films
  <2> QED
    BY <1>3, <1>5, <1>8, <2>4, <2>5 DEF Oldest
<1> QED
  BY <1>3, <1>7, <1>8

LEMMA FilmsOfFrame ==
  ASSUME Streams, NEW m, OnH264Frame(m)
  PROVE  Oldest(m.pdu)
<1> DEFINE d == m.pdu
<1>1. /\ Take(m) /\ m.cmd = "h264-frame" /\ pending' = pending
  BY DEF OnH264Frame
<1>2. /\ toPage # <<>> /\ m = Head(toPage) /\ toPage' = Tail(toPage) /\ owed' = owed
      /\ m \in PostType
  BY <1>1, TakeFacts DEF Streams
<1>3. d \in VideoPdu /\ m \in FrameType /\ Frames(toPage, 1, d)
  BY <1>1, <1>2, PostCases, StreamTypes, FramesTail
<1>4. Undrawn(owed, toPage, d) /\ d \in Films /\ d.id \in Nat
  BY <1>3, StreamTypes DEF Undrawn, Films
<1>5. d \notin pending
  BY <1>3, StreamTypes DEF VideoAsked, Answers
<1>6. \A q \in Films : Leads(q) => q.dst = d.dst
  BY <1>4 DEF Streams, Stream, OneStream, Leads
<1>7. \A q : Undrawn(owed', toPage', q) => d.id < q.id
  <2> SUFFICES ASSUME NEW q, Undrawn(owed, Tail(toPage), q) PROVE d.id < q.id
    BY <1>2
  <2>1. Undrawn(owed, toPage, q)
    BY <1>2, StreamTypes, VideosTake
  <2>2. q.dst = d.dst
    BY <1>6, <2>1, StreamTypes, VideoIds DEF Films, Leads
  <2>3. CASE \E i : Frames(Tail(toPage), i, q)
    BY <1>2, <2>3, StreamTypes, FramesTail, <1>3, <2>2 DEF VideoOrder
  <2>4. CASE \E s, i : Owes(owed, s, i, q)
    <3>1. PICK s, i : Owes(owed, s, i, q)
      BY <2>4
    <3>2. q.dst = s
      BY <3>1, StreamTypes DEF VideoOrder
    <3> QED
      BY <1>3, <2>2, <3>1, <3>2, StreamTypes DEF VideoOrder
  <2> QED
    BY <2>3, <2>4 DEF Undrawn
<1>8. ~Undrawn(owed', toPage', d)
  BY <1>4, <1>7
<1>9. \A q : q # d => (Undrawn(owed', toPage', q) <=> Undrawn(owed, toPage, q))
  BY <1>2, StreamTypes, UndrawnTake, VideosTake
<1>10. Films' = Films \ {d}
  BY <1>1, <1>5, <1>8, <1>9 DEF Films
<1>11. \A r \in Films' : d.id < r.id
  BY <1>4, <1>5, StreamTypes, <1>1, <1>7 DEF VideoAsked, Films
<1> QED
  BY <1>4, <1>10, <1>11 DEF Oldest

\* No picture was written off.
LEMMA NoNote ==
  ASSUME Streams, NEW m
  PROVE  ~OnNeedKeyframe(m)
BY StreamTypes, TailAt DEF OnNeedKeyframe, Take, Streams, Stream, Heard

-----------------------------------------------------------------------------
(* The counters of the acknowledgements.                                   *)

\* What acknowledgement a waits for: the decodes pd and the chunks fl that are older.
DueOf(a, c, pd, fl, last) ==
  /\ a.at <= last
  /\ Older(pd, a.at) # {} => a.barrier = c.settled + Cardinality(Older(pd, a.at))
  /\ Older(fl, a.at) # {} => a.video = c.painted + Cardinality(Older(fl, a.at))

\* The chunks that were counted and are not painted are those that are to come.
Balance ==
  /\ IsFiniteSet(Films) /\ count.submitted = count.painted + Cardinality(Films)
  /\ \A i \in 1..Len(acks) : DueOf(acks[i], count, pending, Films, host.sent.id)

\* What is acknowledged in a step has landed and waits for nothing.
Punctual ==
  \A i \in DOMAIN acked' \ DOMAIN acked : \E a \in AckType :
    /\ a.at = acked'[i].at /\ Landed(count', a)
    /\ DueOf(a, count', pending', Films', host'.sent.id)

\* Receipts are appended.
LEMMA ReceiptsAdded ==
  ASSUME acked \in Seq(ReceiptType), NEW n \in Nat, NEW r \in [1..n -> ReceiptType],
         acked' = acked \o r
  PROVE  /\ \A i \in DOMAIN acked' \ DOMAIN acked : \E j \in 1..n : acked'[i] = r[j]
         /\ \A i \in 1..Len(acked) : i \in 1..Len(acked') /\ acked'[i] = acked[i]
         /\ \A j \in 1..n : \E i \in 1..Len(acked') : acked'[i] = r[j]
         /\ Forced => Forced'
<1>1. r \in Seq(ReceiptType) /\ Len(r) = n /\ Len(acked) \in Nat
  OBVIOUS
<1>2. /\ Len(acked') = Len(acked) + n
      /\ \A i \in 1..(Len(acked) + n) :
           acked'[i] = IF i <= Len(acked) THEN acked[i] ELSE r[i - Len(acked)]
  BY <1>1, ConcatProperties
<1>3. acked' \in Seq(ReceiptType)
  BY <1>1
<1>4. DOMAIN acked' = 1..Len(acked') /\ DOMAIN acked = 1..Len(acked)
  BY <1>3
<1>5. \A i \in DOMAIN acked' \ DOMAIN acked : \E j \in 1..n : acked'[i] = r[j]
  BY <1>1, <1>2, <1>4
<1>6. \A i \in 1..Len(acked) : i \in 1..Len(acked') /\ acked'[i] = acked[i]
  BY <1>1, <1>2
<1>7. \A j \in 1..n : \E i \in 1..Len(acked') : acked'[i] = r[j]
  <2> SUFFICES ASSUME NEW j \in 1..n PROVE \E i \in 1..Len(acked') : acked'[i] = r[j]
    OBVIOUS
  <2>1. /\ Len(acked) + j \in 1..(Len(acked) + n) /\ ~(Len(acked) + j <= Len(acked))
        /\ Len(acked) + j - Len(acked) = j
    BY <1>1
  <2>2. acked'[Len(acked) + j] = r[j]
    BY <1>2, <2>1
  <2> QED
    BY <1>2, <2>1, <2>2
<1>8. Forced => Forced'
  BY <1>6 DEF Forced
<1> QED
  BY <1>5, <1>6, <1>7, <1>8

\* The first k of frames fs are acknowledged, with receipts r.
FirstAcks(c, fs, k, r) ==
  /\ k \in 0..Len(fs) /\ r \in [1..k -> ReceiptType]
  /\ count' = c /\ acks' = SubSeq(fs, k + 1, Len(fs)) /\ acked' = acked \o r
  /\ \A i \in 1..k : fs[i] \in AckType /\ r[i].at = fs[i].at /\ Landed(c, fs[i])

LEMMA AcksFirst ==
  ASSUME Typed, NEW c \in CountType, NEW fs \in Seq(AckType), TryAckFrames(c, fs)
  PROVE  \E k, r : FirstAcks(c, fs, k, r)
<1> DEFINE n == Len(fs)
           Bad == {i \in 1..n : ~Landed(c, fs[i])}
           k == PrefixOf(n, LAMBDA i : Landed(c, fs[i]))
<1>1. n \in Nat /\ Bad \in SUBSET Nat
  OBVIOUS
<1>2. \E j \in 0..n : (\A i \in 1..j : i \notin Bad) /\ (j = n \/ j + 1 \in Bad)
  <2> HIDE DEF Bad, n
  <2> QED
    BY <1>1, PrefixExists
<1>3. \E j \in 0..n : (\A i \in 1..j : Landed(c, fs[i])) /\ (j = n \/ ~Landed(c, fs[j + 1]))
  BY <1>1, <1>2
<1>4. k \in 0..n /\ \A i \in 1..k : Landed(c, fs[i])
  <2> HIDE DEF n
  <2> QED
    BY <1>3 DEF PrefixOf
<1>5. /\ count' = c /\ acks' = SubSeq(fs, k + 1, n)
      /\ acked' = acked \o [i \in 1..k |-> Receipt(fs[i], FALSE)]
  BY DEF TryAckFrames
<1> HIDE DEF k
<1>6. k \in Nat /\ \A i \in 1..k : i \in 1..n /\ fs[i] \in AckType
  BY <1>1, <1>4, ElementOfSeq
<1> DEFINE r == [i \in 1..k |-> Receipt(fs[i], FALSE)]
<1>7. r \in [1..k -> ReceiptType] /\ \A i \in 1..k : r[i].at = fs[i].at
  BY <1>6 DEF AckType, ReceiptType, Receipt
<1>8. acked' = acked \o r
  BY <1>5
<1>9. \A i \in 1..k : fs[i] \in AckType /\ r[i].at = fs[i].at /\ Landed(c, fs[i])
  BY <1>4, <1>6, <1>7
<1> HIDE DEF r
<1> QED
  BY <1>4, <1>5, <1>7, <1>8, <1>9 DEF FirstAcks

LEMMA AcksForce ==
  ASSUME Typed, NEW c \in CountType, NEW fs \in Seq(AckType), TryAckFrames(c, fs)
  PROVE  Forced => Forced'
<1>1. PICK k, r : FirstAcks(c, fs, k, r)
  BY AcksFirst
<1>2. k \in Nat /\ r \in [1..k -> ReceiptType] /\ acked' = acked \o r
  BY <1>1 DEF FirstAcks
<1> QED
  BY <1>2, ReceiptsAdded DEF Typed

\* Frames are acknowledged from the head of the list.
LEMMA AcksTried ==
  ASSUME Typed, NEW c \in CountType, NEW fs \in Seq(AckType), TryAckFrames(c, fs),
         \A i \in 1..Len(fs) : DueOf(fs[i], c, pending', Films', host'.sent.id)
  PROVE  /\ count' = c /\ Punctual
         /\ \A i \in 1..Len(acks') : DueOf(acks'[i], c, pending', Films', host'.sent.id)
<1> DEFINE n == Len(fs)
<1>0. PICK k, r : FirstAcks(c, fs, k, r)
  BY AcksFirst
<1>1. /\ k \in 0..n /\ r \in [1..k -> ReceiptType]
      /\ count' = c /\ acks' = SubSeq(fs, k + 1, n) /\ acked' = acked \o r
      /\ \A i \in 1..k : fs[i] \in AckType /\ r[i].at = fs[i].at /\ Landed(c, fs[i])
  BY <1>0 DEF FirstAcks
<1>2. n \in Nat /\ k \in Nat /\ \A i \in 1..k : i \in 1..n
  BY <1>1
<1>9. \A i \in DOMAIN acked' \ DOMAIN acked : \E j \in 1..k : acked'[i] = r[j]
  BY <1>1, <1>2, ReceiptsAdded DEF Typed
<1>10. Punctual
  <2> SUFFICES ASSUME NEW i \in DOMAIN acked' \ DOMAIN acked
               PROVE  \E a \in AckType : /\ a.at = acked'[i].at /\ Landed(count', a)
                                         /\ DueOf(a, count', pending', Films', host'.sent.id)
    BY DEF Punctual
  <2>1. PICK j \in 1..k : acked'[i] = r[j]
    BY <1>9
  <2>2. fs[j] \in AckType /\ fs[j].at = acked'[i].at /\ Landed(count', fs[j])
    BY <1>1, <2>1
  <2>3. DueOf(fs[j], count', pending', Films', host'.sent.id)
    BY <1>1, <1>2
  <2> QED
    BY <2>2, <2>3
<1>11. \A i \in 1..Len(acks') : \E j \in 1..n : acks'[i] = fs[j]
  BY <1>1, SplitAt
<1> QED
  BY <1>1, <1>10, <1>11

\* The timer acknowledges the first e frames, the first k of them as they are.
TimerAcks(k, e, r) ==
  LET c == WriteOff(count, acks[k].video)
  IN /\ k \in 1..Len(acks) /\ e \in 0..Len(acks) /\ r \in [1..e -> ReceiptType]
     /\ k <= e /\ count' = c /\ acks' = SubSeq(acks, e + 1, Len(acks)) /\ acked' = acked \o r
     /\ \A i \in 1..e : /\ acks[i] \in AckType /\ r[i].at = acks[i].at
                        /\ r[i].forced <=> i <= k /\ ~Landed(count, acks[i])
                        /\ ~(i <= k) => Landed(c, acks[i])

LEMMA TimerFirst ==
  ASSUME Typed, AckTimer
  PROVE  \E k, e, r : TimerAcks(k, e, r)
<1>1. PICK k \in 1..Len(acks) :
        LET c    == WriteOff(count, acks[k].video)
            more == PrefixOf(Len(acks) - k, LAMBDA i : Landed(c, acks[k + i]))
        IN /\ count' = c
           /\ acks' = SubSeq(acks, k + more + 1, Len(acks))
           /\ acked' = acked \o
                [i \in 1..(k + more) |-> Receipt(acks[i], i <= k /\ ~Landed(count, acks[i]))]
  BY DEF AckTimer
<1> DEFINE c == WriteOff(count, acks[k].video)
           n == Len(acks) - k
           Bad == {i \in 1..n : ~Landed(c, acks[k + i])}
           more == PrefixOf(n, LAMBDA i : Landed(c, acks[k + i]))
           r == [i \in 1..(k + more) |-> Receipt(acks[i], i <= k /\ ~Landed(count, acks[i]))]
<1>2. acks \in Seq(AckType) /\ acked \in Seq(ReceiptType) /\ count \in CountType
  BY DEF Typed
<1>3. acks[k] \in AckType /\ n \in Nat /\ Bad \in SUBSET Nat /\ k \in Nat /\ Len(acks) \in Nat
  BY <1>2, ElementOfSeq
<1>4. /\ count' = c /\ acks' = SubSeq(acks, k + more + 1, Len(acks)) /\ acked' = acked \o r
  BY <1>1
<1> HIDE DEF c
<1>5. \E j \in 0..n : (\A i \in 1..j : i \notin Bad) /\ (j = n \/ j + 1 \in Bad)
  <2> HIDE DEF Bad, n
  <2> QED
    BY <1>3, PrefixExists
<1>6. \E j \in 0..n : (\A i \in 1..j : Landed(c, acks[k + i])) /\ (j = n \/ ~Landed(c, acks[k + (j + 1)]))
  <2>1. \A j \in 0..n : j + 1 \in Bad => ~Landed(c, acks[k + (j + 1)])
    OBVIOUS
  <2>2. \A j \in 0..n : (\A i \in 1..j : i \notin Bad) => \A i \in 1..j : Landed(c, acks[k + i])
    BY <1>3
  <2> HIDE DEF Bad, n
  <2> QED
    BY <1>5, <2>1, <2>2
<1>7. more \in 0..n /\ \A i \in 1..more : Landed(c, acks[k + i])
  <2> HIDE DEF n
  <2> QED
    BY <1>6 DEF PrefixOf
<1> HIDE DEF more
<1>8. /\ k + more \in 0..Len(acks) /\ k + more \in Nat
      /\ \A i \in 1..(k + more) : i \in 1..Len(acks) /\ acks[i] \in AckType /\ i \in Int
      /\ \A i \in 1..(k + more) : i <= k \/ (i - k \in 1..more /\ k + (i - k) = i)
  BY <1>2, <1>3, <1>7, ElementOfSeq
<1>9. /\ r \in [1..(k + more) -> ReceiptType]
      /\ \A i \in 1..(k + more) : r[i].at = acks[i].at /\ (r[i].forced <=> i <= k /\ ~Landed(count, acks[i]))
  BY <1>8 DEF AckType, ReceiptType, Receipt
<1> HIDE DEF r
<1> DEFINE e == k + more
<1>10. e \in 0..Len(acks) /\ k <= e /\ k \in 1..Len(acks)
  BY <1>3, <1>7, <1>8
<1>11. \A i \in 1..e : ~(i <= k) => Landed(c, acks[i])
  BY <1>7, <1>8
<1>12. /\ acks' = SubSeq(acks, e + 1, Len(acks)) /\ r \in [1..e -> ReceiptType]
       /\ \A i \in 1..e : /\ acks[i] \in AckType /\ r[i].at = acks[i].at
                          /\ r[i].forced <=> i <= k /\ ~Landed(count, acks[i])
  BY <1>4, <1>8, <1>9
<1> HIDE DEF e
<1> QED
  BY <1>4, <1>10, <1>11, <1>12 DEF c, TimerAcks

LEMMA TimerForce ==
  ASSUME Typed, AckTimer
  PROVE  Forced => Forced'
<1>1. PICK k, e, r : TimerAcks(k, e, r)
  BY TimerFirst
<1>2. e \in Nat /\ r \in [1..e -> ReceiptType] /\ acked' = acked \o r
  BY <1>1 DEF TimerAcks
<1> QED
  BY <1>2, ReceiptsAdded DEF Typed

\* The timer has not forced anything: what it acknowledges has landed.
LEMMA TimerTried ==
  ASSUME Typed, AckTimer, ~Forced',
         \A i \in 1..Len(acks) : DueOf(acks[i], count, pending', Films', host'.sent.id)
  PROVE  /\ count' = count /\ Punctual
         /\ \A i \in 1..Len(acks') : DueOf(acks'[i], count, pending', Films', host'.sent.id)
<1>0. PICK k, e, r : TimerAcks(k, e, r)
  BY TimerFirst
<1> DEFINE c == WriteOff(count, acks[k].video)
<1>1. /\ k \in 1..Len(acks) /\ e \in 0..Len(acks) /\ r \in [1..e -> ReceiptType]
      /\ k <= e /\ count' = c /\ acks' = SubSeq(acks, e + 1, Len(acks)) /\ acked' = acked \o r
      /\ \A i \in 1..e : /\ acks[i] \in AckType /\ r[i].at = acks[i].at
                         /\ r[i].forced <=> i <= k /\ ~Landed(count, acks[i])
                         /\ ~(i <= k) => Landed(c, acks[i])
  BY <1>0 DEF TimerAcks
<1>2. acks \in Seq(AckType) /\ acked \in Seq(ReceiptType) /\ count \in CountType
  BY DEF Typed
<1>3. acks[k] \in AckType /\ e \in Nat /\ k \in 1..e /\ \A i \in 1..e : i \in 1..Len(acks)
  BY <1>1, <1>2, ElementOfSeq
<1> HIDE DEF c
<1>10. /\ \A i \in DOMAIN acked' \ DOMAIN acked : \E j \in 1..e : acked'[i] = r[j]
       /\ \A j \in 1..e : \E i \in 1..Len(acked') : acked'[i] = r[j]
  BY <1>1, <1>2, <1>3, ReceiptsAdded
<1>11. ASSUME NEW i \in 1..e, i <= k PROVE Landed(count, acks[i])
  BY <1>10, <1>1, <1>11 DEF Forced
<1>12. c = count
  <2>1. k \in 1..e /\ k <= k
    BY <1>3
  <2>2. count.painted >= acks[k].video
    BY <1>11, <2>1 DEF Landed
  <2> DEFINE v == acks[k].video
  <2>3. count.painted \in Nat /\ v \in Nat
    BY <1>2, <1>3 DEF CountType, AckType
  <2> HIDE DEF v
  <2>4. (IF count.painted < v THEN v ELSE count.painted) = count.painted
    BY <2>2, <2>3 DEF v
  <2>5. c = [count EXCEPT !.painted = IF count.painted < v THEN v ELSE count.painted]
    BY DEF c, WriteOff, v
  <2> QED
    BY <1>2, <2>4, <2>5 DEF CountType
<1>13. \A i \in 1..e : Landed(count, acks[i])
  BY <1>1, <1>11, <1>12 DEF c
<1>14. Punctual
  <2> SUFFICES ASSUME NEW i \in DOMAIN acked' \ DOMAIN acked
               PROVE  \E a \in AckType : /\ a.at = acked'[i].at /\ Landed(count', a)
                                         /\ DueOf(a, count', pending', Films', host'.sent.id)
    BY DEF Punctual
  <2>1. PICK j \in 1..e : acked'[i] = r[j]
    BY <1>10
  <2>2. acks[j] \in AckType /\ acks[j].at = acked'[i].at /\ Landed(count', acks[j])
    BY <1>1, <1>12, <1>13, <2>1 DEF c
  <2>3. DueOf(acks[j], count', pending', Films', host'.sent.id)
    BY <1>1, <1>3, <1>12 DEF c
  <2> QED
    BY <2>2, <2>3
<1>15. \A i \in 1..Len(acks') : \E j \in 1..Len(acks) : acks'[i] = acks[j]
  <2>2. /\ Len(SubSeq(acks, e + 1, Len(acks))) = Len(acks) - e
        /\ \A i \in 1..(Len(acks) - e) : SubSeq(acks, e + 1, Len(acks))[i] = acks[e + i] /\ e + i \in 1..Len(acks)
    BY <1>1, <1>2, SplitAt
  <2> QED
    BY <1>1, <2>2
<1> QED
  BY <1>1, <1>12, <1>14, <1>15 DEF c

\* A step keeps the stream, and the balance unless an acknowledgement was forced.
CalmNext ==
  Stream' /\ (Forced => Forced') /\ (Balance /\ ~Forced' => Balance' /\ Punctual)

LEMMA AckTyped ==
  ASSUME Typed, NEW i \in 1..Len(acks)
  PROVE  acks[i] \in AckType /\ acks[i].at \in Nat
<1>1. acks \in Seq(AckType)
  BY DEF Typed
<1>2. acks[i] \in AckType
  BY <1>1, ElementOfSeq
<1> QED
  BY <1>2 DEF AckType

\* A step that has no part in the counters.
LEMMA BalanceKept ==
  ASSUME Streams, Stream', Films' = Films, UNCHANGED <<pending, acks, acked, count>>,
         host'.sent.id \in Nat, host.sent.id <= host'.sent.id
  PROVE  CalmNext
<1>1. Forced' <=> Forced
  BY DEF Forced
<1>2. Punctual
  BY DEF Punctual
<1>3. ASSUME Balance PROVE Balance'
  <2>1. ASSUME NEW i \in 1..Len(acks)
        PROVE  DueOf(acks[i], count, pending, Films, host'.sent.id)
    <3>1. DueOf(acks[i], count, pending, Films, host.sent.id)
      BY <1>3 DEF Balance
    <3>2. acks[i].at \in Nat /\ host.sent.id \in Nat
      BY AckTyped, StreamTypes DEF Streams
    <3> QED
      BY <3>1, <3>2 DEF DueOf
  <2> QED
    BY <1>3, <2>1 DEF Balance
<1> QED
  BY <1>1, <1>2, <1>3 DEF CalmNext

\* One decode more is awaited, and it is the newest.
LEMMA BalanceAsked ==
  ASSUME Streams, Stream', UNCHANGED <<acks, acked>>, NEW n,
         n.id = host.sent.id + 1, host'.sent.id = host.sent.id + 1,
         pending' = pending \cup {n},
         count'.settled = count.settled, count'.painted = count.painted,
         \/ Films' = Films /\ count'.submitted = count.submitted
         \/ Films' = Films \cup {n} /\ n \notin Films /\ count'.submitted = count.submitted + 1,
         count \in CountType
  PROVE  CalmNext
<1>1. Forced' <=> Forced
  BY DEF Forced
<1>2. Punctual
  BY DEF Punctual
<1>3. ASSUME Balance PROVE Balance'
  <2>1. host.sent.id \in Nat /\ n.id \in Nat
    BY StreamTypes
  <2>2. IsFiniteSet(Films') /\ count'.submitted = count'.painted + Cardinality(Films')
    <3>1. IsFiniteSet(Films) /\ count.submitted = count.painted + Cardinality(Films)
      BY <1>3 DEF Balance
    <3>2. Cardinality(Films) \in Nat /\ count.painted \in Nat
      BY <3>1, FS_CardinalityType DEF CountType
    <3>3. CASE Films' = Films \cup {n} /\ n \notin Films
      <4>1. IsFiniteSet(Films') /\ Cardinality(Films') = Cardinality(Films) + 1
        BY <3>1, <3>3, FS_AddElement
      <4>2. count'.submitted = count.submitted + 1
        BY <3>3
      <4> QED
        BY <3>1, <3>2, <4>1, <4>2
    <3> QED
      BY <3>1, <3>3
  <2>3. ASSUME NEW i \in 1..Len(acks)
        PROVE  DueOf(acks[i], count', pending', Films', host'.sent.id)
    <3> DEFINE at == acks[i].at
    <3>1. DueOf(acks[i], count, pending, Films, host.sent.id)
      BY <1>3 DEF Balance
    <3>2. at \in Nat /\ at <= host.sent.id /\ at < n.id
      BY <2>1, <3>1, AckTyped DEF Streams, DueOf
    <3> HIDE DEF at
    <3>3. Older(pending', at) = Older(pending, at)
      BY <2>1, <3>2, OlderAdd
    <3>4. Older(Films', at) = Older(Films, at)
      <4>1. Older(Films \cup {n}, at) = Older(Films, at)
        BY <2>1, <3>2, OlderAdd
      <4> QED
        BY <4>1
    <3> QED
      BY <2>1, <3>1, <3>2, <3>3, <3>4 DEF DueOf, at
  <2> QED
    BY <2>2, <2>3 DEF Balance
<1> QED
  BY <1>1, <1>2, <1>3 DEF CalmNext

\* A frame ends: it waits for all that is awaited.
LEMMA CalmEndFrame ==
  ASSUME Streams, EndFrame
  PROVE  CalmNext
<1>1. /\ Sends("end", NoPicture, NoPicture)
      /\ TryAckFrames(count, Append(acks, [from |-> host.frame, at |-> host'.frame,
                                           barrier |-> count.decodes,
                                           video |-> count.submitted]))
      /\ UNCHANGED <<queue, pending, toWorker, dec, owed>>
  BY DEF EndFrame, videoVars
<1>2. /\ host'.frame = host.sent.id + 1 /\ host'.keyed = host.keyed /\ toPage' = toPage
      /\ host'.sent.id = host.sent.id + 1
  BY <1>1 DEF Sends
<1>3. Stream' /\ Films' = Films
  BY <1>1, <1>2, StreamSame DEF Streams
<1> DEFINE e == [from |-> host.frame, at |-> host'.frame, barrier |-> count.decodes,
                 video |-> count.submitted]
           fs == Append(acks, e)
<1>4. host.sent.id \in Nat /\ acks \in Seq(AckType) /\ count \in CountType /\ host.frame \in Nat
  BY StreamTypes DEF Streams, Typed, HostType
<1>5. e \in AckType /\ e.at = host.sent.id + 1 /\ e.barrier = count.decodes /\ e.video = count.submitted
  BY <1>2, <1>4 DEF AckType, CountType
<1>6. TryAckFrames(count, fs)
  BY <1>1
<1> HIDE DEF e
<1>7. /\ fs \in Seq(AckType) /\ Len(fs) = Len(acks) + 1 /\ Len(acks) \in Nat
      /\ fs[Len(acks) + 1] = e /\ \A i \in 1..Len(acks) : fs[i] = acks[i]
  BY <1>4, <1>5, AppendAt
<1> HIDE DEF fs
<1>8. ASSUME Balance
      PROVE  \A i \in 1..Len(fs) : DueOf(fs[i], count, pending', Films', host'.sent.id)
  <2>1. ASSUME NEW i \in 1..Len(acks)
        PROVE  DueOf(acks[i], count, pending, Films, host'.sent.id)
    <3>1. DueOf(acks[i], count, pending, Films, host.sent.id)
      BY <1>8 DEF Balance
    <3>2. acks[i].at \in Nat
      BY AckTyped DEF Streams
    <3> QED
      BY <1>2, <1>4, <3>1, <3>2 DEF DueOf
  <2>2. DueOf(e, count, pending, Films, host'.sent.id)
    <3>1. Older(Films, e.at) = Films
      BY <1>4, <1>5, StreamTypes DEF Older
    <3>2. Older(pending, e.at) = pending
      BY HostIds, <1>4, <1>5 DEF Streams, Messages, Known, Older
    <3>3. count.decodes = count.settled + Cardinality(pending)
      BY DEF Streams, Messages, BarrierExact
    <3>4. e.at <= host'.sent.id
      BY <1>2, <1>4, <1>5
    <3> QED
      BY <1>5, <1>8, <3>1, <3>2, <3>3, <3>4 DEF DueOf, Balance
  <2>3. \A i \in 1..Len(fs) : i \in 1..Len(acks) \/ i = Len(acks) + 1
    BY <1>7
  <2> QED
    BY <1>1, <1>3, <1>7, <2>1, <2>2, <2>3
<1>9. Forced => Forced'
  BY <1>4, <1>6, <1>7, AcksForce DEF Streams
<1>10. ASSUME Balance PROVE Balance' /\ Punctual
  BY <1>4, <1>6, <1>7, <1>8, <1>10, AcksTried, <1>3 DEF Streams, Balance
<1> QED
  BY <1>3, <1>9, <1>10 DEF CalmNext

LEMMA CalmTimer ==
  ASSUME Streams, AckTimer
  PROVE  CalmNext
BY AckTimerTyped, StreamSame, TimerTried, TimerForce DEF Streams, Balance, CalmNext

\* The oldest of set S goes and the counter v moves on by one.
LEMMA DueLess ==
  ASSUME NEW S, IsFiniteSet(S), \A p \in S : p.id \in Nat, NEW d \in S,
         \A p \in S \ {d} : d.id < p.id, NEW at \in Nat, NEW v \in Nat, NEW x,
         Older(S, at) # {} => x = v + Cardinality(Older(S, at)), Older(S \ {d}, at) # {}
  PROVE  x = v + 1 + Cardinality(Older(S \ {d}, at))
<1>1. Older(S, at) # {}
  BY DEF Older
<1>2. /\ Cardinality(Older(S, at)) = Cardinality(Older(S \ {d}, at)) + 1
      /\ Cardinality(Older(S \ {d}, at)) \in Nat
  BY <1>1, OlderLess
<1> QED
  BY <1>1, <1>2

\* The page takes a message: a decode less is awaited, a chunk less, or both.
LEMMA CalmMessage ==
  ASSUME Streams, NEW m, Take(m), UNCHANGED worker, NEW d, NEW c \in CountType,
         TryAckFrames(c, acks), c.submitted = count.submitted,
         \/ pending' = pending /\ c.settled = count.settled
         \/ /\ pending' = pending \ {d} /\ d \in pending /\ c.settled = count.settled + 1
            /\ \A p \in pending' : d.id < p.id,
         \/ Films' = Films /\ c.painted = count.painted
         \/ Oldest(d) /\ c.painted = count.painted + 1
  PROVE  CalmNext
<1>1. UNCHANGED <<setting, host, toWorker, dec, owed>>
  BY TakeFacts DEF Streams
<1>2. Stream'
  BY StreamTakes DEF Oldest
<1>3. acks \in Seq(AckType) /\ count \in CountType /\ IsFiniteSet(pending)
      /\ \A p \in pending : p.id \in Nat
  BY HostIds DEF Streams, Typed
<1>4. ASSUME Balance, NEW i \in 1..Len(acks)
      PROVE  DueOf(acks[i], c, pending', Films', host'.sent.id)
  <2> DEFINE at == acks[i].at
  <2>1. DueOf(acks[i], count, pending, Films, host.sent.id) /\ IsFiniteSet(Films)
    BY <1>4 DEF Balance
  <2>2. at \in Nat /\ count.settled \in Nat /\ count.painted \in Nat
    BY <1>3, AckTyped DEF Streams, CountType
  <2>3. Older(pending', at) # {} => acks[i].barrier = c.settled + Cardinality(Older(pending', at))
    <3>1. CASE pending' = pending /\ c.settled = count.settled
      BY <2>1, <3>1 DEF DueOf
    <3>2. CASE /\ pending' = pending \ {d} /\ d \in pending /\ c.settled = count.settled + 1
               /\ \A p \in pending' : d.id < p.id
      <4>1. Older(pending, at) # {} => acks[i].barrier = count.settled + Cardinality(Older(pending, at))
        BY <2>1 DEF DueOf
      <4> QED
        BY <1>3, <2>2, <3>2, <4>1, DueLess
    <3> QED
      BY <3>1, <3>2
  <2>4. Older(Films', at) # {} => acks[i].video = c.painted + Cardinality(Older(Films', at))
    <3>1. CASE Films' = Films /\ c.painted = count.painted
      BY <2>1, <3>1 DEF DueOf
    <3>2. CASE Oldest(d) /\ c.painted = count.painted + 1
      <4>1. Older(Films, at) # {} => acks[i].video = count.painted + Cardinality(Older(Films, at))
        BY <2>1 DEF DueOf
      <4>2. d \in Films /\ Films' = Films \ {d} /\ \A r \in Films \ {d} : d.id < r.id
        BY <3>2 DEF Oldest
      <4>3. \A p \in Films : p.id \in Nat
        BY StreamTypes
      <4> QED
        BY <2>1, <2>2, <3>2, <4>1, <4>2, <4>3, DueLess
    <3> QED
      BY <3>1, <3>2
  <2> QED
    BY <1>1, <2>1, <2>3, <2>4 DEF DueOf
<1>5. Forced => Forced'
  BY <1>3, AcksForce DEF Streams
<1>6. ASSUME Balance PROVE Balance' /\ Punctual
  <2>1. /\ count' = c /\ Punctual
        /\ \A i \in 1..Len(acks') : DueOf(acks'[i], c, pending', Films', host'.sent.id)
    BY <1>3, <1>4, <1>6, AcksTried DEF Streams
  <2>2. IsFiniteSet(Films') /\ c.submitted = c.painted + Cardinality(Films')
    <3>1. IsFiniteSet(Films) /\ count.submitted = count.painted + Cardinality(Films)
          /\ Cardinality(Films) \in Nat /\ count.painted \in Nat
      BY <1>3, <1>6, FS_CardinalityType DEF Balance, CountType
    <3>2. CASE Films' = Films /\ c.painted = count.painted
      BY <3>1, <3>2
    <3>3. CASE Oldest(d) /\ c.painted = count.painted + 1
      <4>1. d \in Films /\ Films' = Films \ {d}
        BY <3>3 DEF Oldest
      <4>2. IsFiniteSet(Films') /\ Cardinality(Films') = Cardinality(Films) - 1
        BY <3>1, <4>1, FS_RemoveElement
      <4> QED
        BY <3>1, <3>3, <4>2
    <3> QED
      BY <3>2, <3>3
  <2> QED
    BY <2>1, <2>2 DEF Balance
<1> QED
  BY <1>2, <1>5, <1>6 DEF CalmNext

\* What the host sends.
LEMMA CalmHost ==
  ASSUME Streams, Orderly, HostStep
  PROVE  CalmNext
<1>1. /\ host'.sent.id = host.sent.id + 1 /\ host'.sent.id \in Nat /\ host.sent.id \in Nat
      /\ host.sent.id <= host'.sent.id /\ toPage' = toPage /\ worker = "up"
      /\ count \in CountType
  BY HostSends, StreamTypes DEF Streams, Typed
<1>2. ASSUME NEW k \in Kinds \ {"avc-key", "delete", "recreate"}, NEW a, NEW b, Sends(k, a, b),
             UNCHANGED <<count, pending, toWorker, acks, acked, dec, owed>>
      PROVE  CalmNext
  BY <1>2, <1>1, StreamSame, BalanceKept DEF Sends, Streams
<1>3. ASSUME NEW k \in Ordered,
             NEW a \in Surfaces \cup Slots \cup {NoPicture},
             NEW b \in Surfaces \cup Slots \cup {NoPicture}, DispatchOrdered(k, a, b)
      PROVE  CalmNext
  BY <1>2, <1>3 DEF DispatchOrdered, ackVars, videoVars, Ordered, Kinds
<1>4. CASE ResetGraphics
  BY <1>2, <1>4 DEF ResetGraphics, ackVars, videoVars, Kinds
<1>5. ASSUME NEW s \in Surfaces, CreateSurface(s) \/ MapSurfaceToOutput(s)
      PROVE  CalmNext
  BY <1>2, <1>5 DEF CreateSurface, MapSurfaceToOutput, ackVars, videoVars, Kinds
<1>6. CASE EndFrame
  BY <1>6, CalmEndFrame
<1>7. ASSUME NEW s \in Surfaces, RecreateSurface(s) \/ DeleteSurface(s)
      PROVE  CalmNext
  BY <1>7, <1>1, StreamDestroy, BalanceKept DEF RecreateSurface, DeleteSurface, ackVars
<1>8. ASSUME NEW s \in Surfaces, DecodeProgressive(s)
      PROVE  CalmNext
  BY <1>8, <1>1, StreamProgressive, BalanceAsked DEF DecodeProgressive, ackVars, CountType
<1>9. ASSUME NEW s \in Surfaces, NEW k \in Video, DecodeAvc420(k, s)
      PROVE  CalmNext
  BY <1>9, <1>1, StreamVideo, BalanceAsked DEF DecodeAvc420, ackVars, CountType
<1>10. \A s, k : ~DecodeProgressiveSync(s) /\ ~DecodeAvc420Page(k, s)
  BY <1>1 DEF DecodeProgressiveSync, DecodeAvc420Page
<1> QED
  BY <1>3, <1>4, <1>5, <1>6, <1>7, <1>8, <1>9, <1>10 DEF HostStep

\* What the page takes from the worker.
LEMMA CalmAnswer ==
  ASSUME Streams, NEW m, OnProgressiveResult(m) \/ OnH264Submitted(m), NEW c \in CountType,
         TryAckFrames(Settle(c), acks), c.submitted = count.submitted,
         c.decodes = count.decodes, c.settled = count.settled,
         \/ Films' = Films /\ c.painted = count.painted
         \/ Oldest(m.pdu) /\ c.painted = count.painted + 1
  PROVE  CalmNext
<1>1. /\ Take(m) /\ UNCHANGED worker /\ pending' = pending \ {m.pdu} /\ m.pdu \in pending
      /\ \A p \in pending' : m.pdu.id < p.id
      /\ count'.settled = count.settled + 1
  BY AnswerFacts, AnswerMessages DEF Streams
<1> DEFINE n == Settle(c)
<1>2. /\ n \in CountType /\ n.submitted = count.submitted /\ n.painted = c.painted
      /\ TryAckFrames(n, acks)
  BY SettleFacts
<1>3. n.settled = count.settled + 1
  BY <1>1, <1>2 DEF TryAckFrames
<1> HIDE DEF n
<1> QED
  BY <1>1, <1>2, <1>3, CalmMessage

LEMMA CalmMessages ==
  ASSUME Streams, NEW m, OnProgressiveResult(m) \/ OnH264Submitted(m) \/ OnH264Frame(m)
  PROVE  CalmNext
<1>1. count \in CountType /\ count.painted \in Nat
  BY DEF Streams, Typed, CountType
<1>2. CASE OnProgressiveResult(m)
  BY <1>2, FilmsOfProgressive, <1>1, CalmAnswer DEF OnProgressiveResult
<1>3. CASE OnH264Submitted(m)
  <2> DEFINE c == IF m.willOutput THEN count ELSE [count EXCEPT !.painted = @ + 1]
  <2>1. TryAckFrames(Settle(c), acks)
    BY <1>3 DEF OnH264Submitted
  <2>2. /\ c \in CountType /\ c.submitted = count.submitted
        /\ c.decodes = count.decodes /\ c.settled = count.settled
        /\ c.painted = IF m.willOutput THEN count.painted ELSE count.painted + 1
    BY <1>1 DEF CountType
  <2>3. IF m.willOutput THEN Films' = Films ELSE Oldest(m.pdu)
    BY <1>3, FilmsOfSubmitted
  <2> HIDE DEF c
  <2>4. \/ Films' = Films /\ c.painted = count.painted
        \/ Oldest(m.pdu) /\ c.painted = count.painted + 1
    BY <2>2, <2>3
  <2> QED
    BY <1>3, <2>1, <2>2, <2>4, CalmAnswer
<1>4. CASE OnH264Frame(m)
  <2> DEFINE c == [count EXCEPT !.painted = @ + 1]
  <2>1. Take(m) /\ TryAckFrames(c, acks) /\ UNCHANGED <<pending, worker>>
    BY <1>4 DEF OnH264Frame
  <2>2. /\ c \in CountType /\ c.submitted = count.submitted /\ c.settled = count.settled
        /\ c.painted = count.painted + 1
    BY <1>1 DEF CountType
  <2>3. Oldest(m.pdu)
    BY <1>4, FilmsOfFrame
  <2> HIDE DEF c
  <2> QED
    BY <2>1, <2>2, <2>3, CalmMessage
<1> QED
  BY <1>2, <1>3, <1>4

\* The worker does not come back, and nothing is acknowledged when it goes.
LEMMA StepWorker ==
  ASSUME Typed, PipelineNext
  PROVE  worker' = worker \/ (worker' \in {"lost", "closed"} /\ acked' = acked)
BY HostSends, ShutFacts, WorkerStepFacts, AckTimerTyped, FlushTyped, WorkerErrorFacts
   DEF PageMessage, OnProgressiveResult, OnH264Submitted, OnH264Frame, OnNeedKeyframe, VideoOutput,
   VideoError, Rest, pipelineVars, PipelineNext

\* A step from a stream to a stream.
LEMMA CalmStep ==
  ASSUME Streams, Orderly, Steady', PipelineNext
  PROVE  CalmNext
<1>1. host.sent.id \in Nat /\ host.sent.id <= host.sent.id /\ worker' = "up"
  BY StreamTypes DEF Steady
<1>2. ASSUME UNCHANGED <<host, pending, owed, toPage, toWorker, dec, acks, acked, count>>
      PROVE  CalmNext
  BY <1>2, StreamSame, <1>1, BalanceKept DEF Streams
<1>3. CASE HostStep
  BY <1>3, CalmHost
<1>4. CASE WorkerStep
  BY <1>4, WorkerStepFacts, <1>1, StreamWorker, BalanceKept DEF Streams
<1>5. CASE PageMessage
  BY <1>1, NoNote, ShutFacts, <1>5, CalmMessages DEF Streams, PageMessage
<1>6. ASSUME NEW s \in Surfaces, VideoOutput(s)
      PROVE  CalmNext
  BY <1>6, VideoOutputFacts, <1>1, StreamOutput, BalanceKept DEF Streams
<1>7. \A s \in Surfaces : ~VideoError(s)
  BY DEF VideoError, Streams, Steady, Spoilt
<1>8. ~WorkerError /\ ~Destroy
  BY <1>1, WorkerErrorFacts, ShutFacts DEF Streams
<1>9. CASE AckTimer
  BY <1>9, CalmTimer
<1>10. CASE Flush
  BY <1>2, <1>10, FlushTyped DEF Streams
<1>11. CASE Rest
  BY <1>2, <1>11 DEF Rest, pipelineVars
<1> QED
  BY <1>3, <1>4, <1>5, <1>6, <1>7, <1>8, <1>9, <1>10, <1>11 DEF PipelineNext

\* While the worker runs, shows one stream and no picture is written off, the
\* counters say what is still to come.
Calm == (Steady => Stream) /\ (Steady /\ ~Forced => Balance)

LEMMA InitCalm ==
  ASSUME PipelineInit
  PROVE  Calm
<1>1. /\ pending = {} /\ acks = <<>> /\ toWorker = <<>> /\ toPage = <<>> /\ host.keyed = {}
      /\ dec = [s \in Surfaces |-> "none"] /\ owed = [s \in Surfaces |-> <<>>]
      /\ count.submitted = 0 /\ count.painted = 0
  BY DEF PipelineInit
<1>2. Len(<<>>) = 0 /\ 1..0 = {}
  OBVIOUS
<1>3. /\ \A s, i, p : ~Owes(owed, s, i, p)
      /\ \A i, p : ~Frames(toPage, i, p)
      /\ \A i, p, o : ~Said(toPage, i, p, o)
      /\ \A i, s : ~Scraps(toWorker, i, s)
  BY <1>1, <1>2 DEF Owes, Frames, Said, Scraps
<1>4. Films = {}
  BY <1>1, <1>3 DEF Films, Undrawn
<1>5. OneStream
  BY <1>1, <1>4 DEF OneStream
<1>6. Behind
  BY <1>4 DEF Behind
<1>7. Started /\ Drained
  BY <1>1 DEF Started, Drained
<1>8. Heard(owed, toPage)
  BY <1>1, <1>2, <1>3 DEF Heard
<1>9. Balance
  BY <1>1, <1>2, <1>4, FS_EmptySet DEF Balance
<1> QED
  BY <1>5, <1>6, <1>7, <1>8, <1>9 DEF Calm, Stream

LEMMA NextCalm ==
  ASSUME PipelineInv, Videos, Orderly, Calm, PipelineNext
  PROVE  Calm' /\ (Steady' /\ ~Forced' => IsFiniteSet(Films') /\ Punctual)
<1>1. CASE ~Steady'
  BY <1>1 DEF Calm
<1>2. CASE Steady'
  BY StepSetting, <1>2, StepWorker, CalmStep DEF PipelineInv, Steady, Spoilt, Given, Streams, Calm,
     CalmNext, Balance
<1> QED
  BY <1>1, <1>2

\* What an acknowledgement has waited for is not among the older ones.
LEMMA OlderNone ==
  ASSUME NEW S, IsFiniteSet(S), NEW at, NEW v \in Nat, NEW x, v >= x,
         Older(S, at) # {} => x = v + Cardinality(Older(S, at))
  PROVE  Older(S, at) = {}
BY FS_Subset, FS_CardinalityType, FS_EmptySet DEF Older

\* Nothing older than a frame that is acknowledged waits.
LEMMA NothingOlder ==
  ASSUME Typed', Queues', Punctual, IsFiniteSet(Films'), NEW a \in NewAcks, NEW p \in Waiting',
         p.id < a.at
  PROVE  FALSE
<1>1. PICK f \in AckType : /\ f.at = a.at /\ Landed(count', f)
                           /\ DueOf(f, count', pending', Films', host'.sent.id)
  BY DEF NewAcks, Punctual
<1>2. /\ count' \in CountType /\ IsFiniteSet(pending') /\ pending' \subseteq DecodePdu
      /\ queue' \in Seq(QueueType) /\ owed' \in [Surfaces -> Seq(VideoPdu)] /\ toPage' \in Seq(PostType)
  BY DEF Typed
<1>3. f.at \in Nat /\ count'.settled \in Nat /\ count'.painted \in Nat
  BY <1>2 DEF AckType, CountType
<1>4. Older(pending', f.at) = {}
  BY <1>1, <1>2, <1>3, OlderNone DEF Landed, DueOf
<1>5. Older(Films', f.at) = {}
  BY <1>1, <1>3, OlderNone DEF Landed, DueOf
<1>6. p \in Counted' \/ Queued(queue', p) \/ Undrawn(owed', toPage', p)
  BY WaitingIs
<1>7. p \notin Counted'
  BY <1>1, <1>4 DEF Counted, Older
<1>8. ~Undrawn(owed', toPage', p)
  BY <1>2, VideoIds, <1>1, <1>5 DEF Films, Older
<1>9. ~Queued(queue', p)
  BY <1>2, QueueKinds, <1>1, <1>3, <1>4 DEF Queued, Queues, Arranged, HeadWaits, Older, DecodePdu,
     VideoPdu, ProgressivePdu, Pdu
<1> QED
  BY <1>6, <1>7, <1>8, <1>9

\* One surface at a time shows a stream, where no decoder is rebuilt.
OneVideo == Given("twoVideos") => Spoilt

\* The frames that the page acknowledges have landed, unless pictures were written off:
\* nothing that came before the end of such a frame still waits, for a host that is
\* orderly and shows one H.264 stream at a time.
THEOREM FramesHaveLanded == PipelineSpec /\ Orderly /\ OneVideo => NoEarlyAck
<1> DEFINE Lands == \A a \in NewAcks :
                      \/ worker # "up"
                      \/ Given("videoThrows") \/ Given("videoFails")
                      \/ \E i \in DOMAIN acked' : acked'[i].forced
                      \/ ~\E p \in Waiting' : a.from < p.id /\ p.id < a.at
<1>1. PipelineInit /\ Orderly => Videos /\ Queues /\ Calm
  BY InitOrder, InitCalm
<1>2. ASSUME PipelineInv, PipelineInv', Orderly, OneVideo, Videos, Queues, Calm,
             [PipelineNext]_pipelineVars
      PROVE  Orderly' /\ OneVideo' /\ Videos' /\ Queues' /\ Calm' /\ [Lands]_pipelineVars
  <2>1. Orderly' /\ Videos' /\ Queues'
    BY <1>2, NextOrder
  <2>2. CASE UNCHANGED pipelineVars
    <3>1. Steady' = Steady /\ Forced' = Forced /\ Films' = Films /\ OneVideo' = OneVideo
      BY <2>2 DEF pipelineVars, Steady, Spoilt, Given, Forced, Films, OneVideo
    <3>2. Stream' = Stream /\ Balance' = Balance
      BY <2>2, <3>1 DEF pipelineVars, Stream, OneStream, Leads, Behind, Started, Drained, Balance
    <3> QED
      BY <1>2, <2>1, <2>2, <3>1, <3>2 DEF Calm
  <2>3. CASE PipelineNext
    <3>1. setting' = setting
      BY <1>2, <2>3, StepSetting DEF PipelineInv
    <3>2. OneVideo'
      BY <1>2, <3>1 DEF OneVideo, Spoilt, Given
    <3>3. Calm' /\ (Steady' /\ ~Forced' => IsFiniteSet(Films') /\ Punctual)
      BY <1>2, <2>3, NextCalm
    <3>4. Lands
      <4> SUFFICES ASSUME NEW a \in NewAcks, worker = "up", ~Spoilt, ~Forced',
                          NEW p \in Waiting', p.id < a.at
                   PROVE  FALSE
        <5>1. acked' \in Seq(ReceiptType)
          BY <1>2 DEF PipelineInv, Typed
        <5>2. DOMAIN acked' = 1..Len(acked')
          BY <5>1
        <5> QED
          BY <5>2 DEF Spoilt, Forced
      <4>1. worker' = "up"
        BY <1>2, <2>3, StepWorker DEF NewAcks, PipelineInv
      <4>2. Steady'
        BY <1>2, <3>1, <4>1 DEF Steady, OneVideo, Spoilt, Given
      <4> QED
        BY <1>2, <2>1, <3>3, <4>2, NothingOlder DEF PipelineInv
    <3> QED
      BY <2>1, <3>2, <3>3, <3>4
  <2> QED
    BY <1>2, <2>2, <2>3
<1>3. NoEarlyAck <=> [][Lands]_pipelineVars
  BY DEF NoEarlyAck
<1> HIDE DEF Lands
<1> QED
  BY <1>1, <1>2, <1>3, PipelineInvHolds, PTL DEF PipelineSpec

================================================================================
