----------------------------- MODULE ConnectorHub -----------------------------
(***************************************************************************)
(* One connector: the gateway's registry of its control channels and the   *)
(* requests correlated over them (RDP/ConnectorHub.cs), the endpoints the  *)
(* agent dials (RDP/ConnectorAgentEndpoints.cs) and the agent itself       *)
(* (KSol.ZeroVDI.Connector/Agent.cs).                                      *)
(*                                                                         *)
(* The gateway works on concurrent dictionaries from many threads, so a    *)
(* step is one dictionary operation or one message.                        *)
(* Connectors do not interact; the payload of a tunnel is left out.        *)
(***************************************************************************)
EXTENDS Integers, FiniteSets

CONSTANTS
  Opens,         \* OpenTcpAsync calls
  Probes,        \* ProbeAsync calls
  MaxChannels,   \* bound: control channels the agent opens in a behaviour
  Environments   \* each is a set of things that may go wrong, see Hazards

Hazards ==
  { "drop",       \* the control channel breaks, or the agent process stops and starts again
    "freeze",     \* the agent hangs with its sockets open
    "refuse",     \* the target host does not answer the agent
    "dataFails",  \* the agent cannot open the data channel
    "late",       \* an answer takes longer than the gateway waits
    "cancel",     \* the caller of a request goes away
    "overlap" }   \* the agent reconnects while its last channel is still being registered

Requests == Opens \cup Probes
Channels == 1..MaxChannels    \* in the order the agent opens them

ASSUME ConstantsAssumption ==
  /\ Opens \cap Probes = {}
  /\ MaxChannels \in Nat
  /\ \A e \in Environments : e \subseteq Hazards

None == 0    \* no channel

VARIABLES
  env,           \* the environment of this behaviour, chosen at the start
  current,       \* _connections[connectorId]
  chan,          \* where the thread serving each control channel is: [at, victim]
  pending,       \* _pending of each channel
  dataChannels,  \* _dataChannels of each channel
  pc,            \* where each request is
  conn,          \* the channel a request works on
  ack,           \* the completion of a request's reply
  data,          \* the completion of a request's data channel
  sock,          \* the control WebSocket; "half" when only the agent knows it is gone
  agent,         \* what the agent does about a request
  reply,         \* the ack on the wire
  frozen         \* the agent hangs

hubVars   == <<current, chan>>
tables    == <<pending, dataChannels>>
callVars  == <<pc, conn>>
agentVars == <<agent, reply>>
vars == <<env, current, chan, pending, dataChannels, pc, conn, ack, data,
          sock, agent, reply, frozen>>

May(h) == h \in env

Waiting(r) ==
  \/ pc[r] = "send"
  \/ pc[r] = "reply" /\ ack[r] = "wait"
  \/ pc[r] = "data" /\ data[r] = "wait"

-----------------------------------------------------------------------------
\* Control channels: RunControlChannelAsync.

Registering == {"accepted", "register", "fault", "clear"}

At(c, l)       == chan' = [chan EXCEPT ![c].at = l]
FaultNext(c, v) == chan' = [chan EXCEPT ![c] = [at |-> "fault", victim |-> v]]

\* The agent dials a control channel when it has none, and the endpoint accepts it.
Connect(c) ==
  /\ chan[c].at = "none" /\ ~frozen
  /\ \A d \in Channels : d < c => chan[d].at # "none" /\ sock[d] # "open"
  /\ May("overlap")
     \/ \A d \in Channels : d < c => chan[d].at \notin Registering \/ chan[d].victim = d
  /\ At(c, "accepted")
  /\ sock' = [sock EXCEPT ![c] = "open"]
  /\ UNCHANGED <<env, current, tables, callVars, ack, data, agentVars, frozen>>

\* The old connection is read first, faulted, and overwritten at last.
Replace(c) ==
  /\ chan[c].at = "accepted"
  /\ IF current = None THEN At(c, "register") ELSE FaultNext(c, current)
  /\ UNCHANGED <<env, current, tables, callVars, ack, data, sock, agentVars, frozen>>

Register(c) ==
  /\ chan[c].at = "register"
  /\ current' = c
  /\ At(c, "serving")
  /\ UNCHANGED <<env, tables, callVars, ack, data, sock, agentVars, frozen>>

\* Fault completes every pending reply and data channel with an exception ...
Fault(c) ==
  LET v == chan[c].victim IN
  /\ chan[c].at = "fault"
  /\ ack' = [r \in Requests |->
               IF r \in pending[v] /\ ack[r] = "wait" THEN "fault" ELSE ack[r]]
  /\ data' = [r \in Requests |->
                IF r \in dataChannels[v] /\ data[r] = "wait" THEN "fault" ELSE data[r]]
  /\ At(c, "clear")
  /\ UNCHANGED <<env, current, tables, callVars, sock, agentVars, frozen>>

\* ... and clears both tables: what was added in between is dropped.
Clear(c) ==
  LET v == chan[c].victim IN
  /\ chan[c].at = "clear"
  /\ pending' = [pending EXCEPT ![v] = {}]
  /\ dataChannels' = [dataChannels EXCEPT ![v] = {}]
  /\ At(c, IF v = c THEN "gone" ELSE "register")
  /\ UNCHANGED <<env, current, callVars, ack, data, sock, agentVars, frozen>>

\* CompleteRequest, called from the receive loop.
CompleteRequest(c, r) ==
  /\ chan[c].at = "serving" /\ sock[c] # "down"
  /\ conn[r] = c /\ reply[r] \in {"ok", "refused"}
  /\ reply' = [reply EXCEPT ![r] = "read"]
  /\ pending' = [pending EXCEPT ![c] = @ \ {r}]
  /\ ack' = [ack EXCEPT ![r] = IF r \in pending[c] /\ @ = "wait" THEN reply[r] ELSE @]
  /\ UNCHANGED <<env, hubVars, dataChannels, callVars, data, sock, agent, frozen>>

\* Mutant: whatever is registered is removed.
UnregisterAny(c) ==
  /\ chan[c].at = "serving" /\ sock[c] = "down"
  /\ current' = None
  /\ FaultNext(c, c)
  /\ UNCHANGED <<env, tables, callVars, ack, data, sock, agentVars, frozen>>

\* Mutant: the entry stays.
UnregisterNone(c) ==
  /\ chan[c].at = "serving" /\ sock[c] = "down"
  /\ FaultNext(c, c)
  /\ UNCHANGED <<env, current, tables, callVars, ack, data, sock, agentVars, frozen>>

\* Mutant: the connection in the registry is faulted instead of its own.
UnregisterFaultsCurrent(c) ==
  /\ chan[c].at = "serving" /\ sock[c] = "down"
  /\ current' = IF current = c THEN None ELSE current
  /\ FaultNext(c, IF current = None THEN c ELSE current)
  /\ UNCHANGED <<env, tables, callVars, ack, data, sock, agentVars, frozen>>

\* The receive loop ends; only its own entry is removed from the registry.
Unregister(c) ==
  /\ chan[c].at = "serving" /\ sock[c] = "down"
  /\ current' = IF current = c THEN None ELSE current
  /\ FaultNext(c, c)
  /\ UNCHANGED <<env, tables, callVars, ack, data, sock, agentVars, frozen>>

ChannelStep(c) == Replace(c) \/ Register(c) \/ Fault(c) \/ Clear(c) \/ Unregister(c)

-----------------------------------------------------------------------------
\* Requests: OpenTcpAsync, ProbeAsync and SendRequestAsync.

Goto(r, l) == pc' = [pc EXCEPT ![r] = l]

\* Mutant: a probe registers a data channel too.
BeginAll(r) ==
  /\ pc[r] = "idle"
  /\ conn' = [conn EXCEPT ![r] = current]
  /\ Goto(r, IF current = None THEN "failed" ELSE "register")
  /\ UNCHANGED <<env, hubVars, tables, ack, data, sock, agentVars, frozen>>

\* The channel is looked up once, at the start.
Begin(r) ==
  /\ pc[r] = "idle"
  /\ conn' = [conn EXCEPT ![r] = current]
  /\ Goto(r, IF current = None THEN "failed" ELSE IF r \in Opens THEN "register" ELSE "pend")
  /\ UNCHANGED <<env, hubVars, tables, ack, data, sock, agentVars, frozen>>

RegisterDataChannel(r) ==
  /\ pc[r] = "register"
  /\ dataChannels' = [dataChannels EXCEPT ![conn[r]] = @ \cup {r}]
  /\ Goto(r, "pend")
  /\ UNCHANGED <<env, hubVars, pending, conn, ack, data, sock, agentVars, frozen>>

AddPending(r) ==
  /\ pc[r] = "pend"
  /\ pending' = [pending EXCEPT ![conn[r]] = @ \cup {r}]
  /\ Goto(r, "send")
  /\ UNCHANGED <<env, hubVars, dataChannels, conn, ack, data, sock, agentVars, frozen>>

\* SendControlAsync, one send at a time (_sendLock).  A message sent into a half-open
\* channel is lost; sending on a broken one throws an exception that is not caught.
Send(r) ==
  /\ pc[r] = "send"
  /\ \/ /\ sock[conn[r]] # "down"
        /\ agent' = [agent EXCEPT ![r] = "asked"]
        /\ Goto(r, "reply")
     \/ /\ sock[conn[r]] # "open"
        /\ Goto(r, "thrown") /\ UNCHANGED agent
  /\ UNCHANGED <<env, hubVars, tables, conn, ack, data, sock, reply, frozen>>

CancelDataChannel(r) ==
  /\ dataChannels' = [dataChannels EXCEPT ![conn[r]] = @ \ {r}]
  /\ data' = [data EXCEPT ![r] =
                IF r \in dataChannels[conn[r]] /\ @ = "wait" THEN "cancelled" ELSE @]

\* Mutant: an ack counts whatever it says.
ReplyAny(r) ==
  /\ pc[r] = "reply"
  /\ \/ /\ ack[r] \in {"ok", "refused"}
        /\ Goto(r, IF r \in Opens THEN "data" ELSE "done")
        /\ UNCHANGED <<data, dataChannels>>
     \/ /\ ack[r] = "fault"
        /\ Goto(r, "failed")
        /\ UNCHANGED <<data, dataChannels>>
  /\ UNCHANGED <<env, hubVars, pending, conn, ack, sock, agentVars, frozen>>

\* The reply arrives, or Fault has failed the request.
Reply(r) ==
  /\ pc[r] = "reply"
  /\ \/ /\ ack[r] = "ok"
        /\ Goto(r, IF r \in Opens THEN "data" ELSE "done")
        /\ UNCHANGED <<data, dataChannels>>
     \/ /\ ack[r] = "refused"
        /\ Goto(r, "failed")
        /\ CancelDataChannel(r)
     \/ /\ ack[r] = "fault"
        /\ Goto(r, "failed")
        /\ UNCHANGED <<data, dataChannels>>
  /\ UNCHANGED <<env, hubVars, pending, conn, ack, sock, agentVars, frozen>>

Data(r) ==
  /\ pc[r] = "data"
  /\ \/ data[r] = "attached" /\ Goto(r, "done")
     \/ data[r] = "fault" /\ Goto(r, "failed")
  /\ UNCHANGED <<env, hubVars, tables, conn, ack, data, sock, agentVars, frozen>>

\* Something may still come for a request: its turn to send, or an answer.
Coming(r) ==
  \/ pc[r] = "send"
  \/ /\ sock[conn[r]] = "open" /\ ~frozen
     /\ agent[r] \in {"asked", "reached", "unreachable"}
  \/ /\ sock[conn[r]] # "down" /\ chan[conn[r]].at = "serving"
     /\ reply[r] \in {"ok", "refused"}
  \/ pc[r] = "data" /\ agent[r] = "acked" /\ ~frozen

\* Mutant: the data channel is awaited without a timeout.
TimeoutReply(r) ==
  /\ Waiting(r) /\ pc[r] # "data" /\ (May("late") \/ ~Coming(r))
  /\ ack' = [ack EXCEPT ![r] = IF pc[r] = "reply" THEN "cancelled" ELSE @]
  /\ Goto(r, IF r \in Opens THEN "giveUp" ELSE "failed")
  /\ UNCHANGED <<env, hubVars, tables, conn, data, sock, agentVars, frozen>>

\* 15 seconds (5 for a probe) are over.  Unless something is late they outlast
\* all the agent does for a request.
Timeout(r) ==
  /\ Waiting(r) /\ (May("late") \/ ~Coming(r))
  /\ ack' = [ack EXCEPT ![r] = IF pc[r] = "reply" THEN "cancelled" ELSE @]
  /\ Goto(r, IF r \in Opens THEN "giveUp" ELSE "failed")
  /\ UNCHANGED <<env, hubVars, tables, conn, data, sock, agentVars, frozen>>

GiveUp(r) ==
  /\ pc[r] = "giveUp"
  /\ Goto(r, "failed")
  /\ CancelDataChannel(r)
  /\ UNCHANGED <<env, hubVars, pending, conn, ack, sock, agentVars, frozen>>

\* The caller's token: the data channel stays in the table.
Cancel(r) ==
  /\ May("cancel") /\ Waiting(r)
  /\ ack' = [ack EXCEPT ![r] = IF pc[r] = "reply" THEN "cancelled" ELSE @]
  /\ Goto(r, "failed")
  /\ UNCHANGED <<env, hubVars, tables, conn, data, sock, agentVars, frozen>>

\* The caller disposes the stream, which closes the data channel.
Dispose(r) ==
  /\ pc[r] = "done" /\ r \in Opens
  /\ Goto(r, "closed")
  /\ agent' = [agent EXCEPT ![r] = IF @ = "tunnel" THEN "ended" ELSE @]
  /\ UNCHANGED <<env, hubVars, tables, conn, ack, data, sock, reply, frozen>>

RequestStep(r) ==
  \/ Begin(r) \/ RegisterDataChannel(r) \/ AddPending(r) \/ Send(r)
  \/ Reply(r) \/ Data(r) \/ Timeout(r) \/ GiveUp(r)

-----------------------------------------------------------------------------
\* The agent: HandleRequestAsync.  It outlives the control channel it came on.

Become(r, a) == agent' = [agent EXCEPT ![r] = a]

\* A request is read off the channel and its target dialled: HandleProbeAsync and the
\* first half of HandleOpenTcpAsync.
Dial(r) ==
  /\ agent[r] = "asked" /\ sock[conn[r]] = "open"
  /\ Become(r, "reached") \/ (May("refuse") /\ Become(r, "unreachable"))
  /\ UNCHANGED <<env, hubVars, tables, callVars, ack, data, sock, reply, frozen>>

\* The ack goes over the channel the request came on, or its handler ends.
SendAck(r) ==
  /\ agent[r] \in {"reached", "unreachable"}
  /\ IF sock[conn[r]] = "open"
     THEN /\ reply' = [reply EXCEPT ![r] = IF agent[r] = "reached" THEN "ok" ELSE "refused"]
          /\ Become(r, IF agent[r] = "reached" THEN "acked" ELSE "refused")
     ELSE Become(r, "ended") /\ UNCHANGED reply
  /\ UNCHANGED <<env, hubVars, tables, callVars, ack, data, sock, frozen>>

Offered == IF current = None THEN {} ELSE dataChannels[current]

\* The agent dials the data channel; TryAttachDataChannel looks for the request on the
\* connector's current channel and turns the socket away when it is not there.
TryAttachDataChannel(r) ==
  /\ agent[r] = "acked" /\ r \in Opens
  /\ \/ /\ r \in Offered
        /\ dataChannels' = [dataChannels EXCEPT ![current] = @ \ {r}]
        /\ IF data[r] = "wait"
           THEN data' = [data EXCEPT ![r] = "attached"] /\ Become(r, "tunnel")
           ELSE Become(r, "turnedAway") /\ UNCHANGED data
     \/ /\ r \notin Offered
        /\ Become(r, "turnedAway")
        /\ UNCHANGED <<data, dataChannels>>
     \/ /\ May("dataFails")
        /\ Become(r, "ended")
        /\ UNCHANGED <<data, dataChannels>>
  /\ UNCHANGED <<env, hubVars, pending, callVars, ack, sock, reply, frozen>>

AgentStep(r) == ~frozen /\ (Dial(r) \/ SendAck(r) \/ TryAttachDataChannel(r))

-----------------------------------------------------------------------------
\* The surroundings.

\* The control channel breaks, noticed on both ends or by the agent only; the agent
\* process may have stopped, with all it was doing.
Drop(c) ==
  /\ May("drop") /\ sock[c] = "open"
  /\ \E s \in {"half", "down"} : sock' = [sock EXCEPT ![c] = s]
  /\ \/ UNCHANGED agent
     \/ agent' = [r \in Requests |->
                    IF agent[r] \in {"reached", "unreachable", "acked", "tunnel"}
                    THEN "ended" ELSE agent[r]]
  /\ UNCHANGED <<env, hubVars, tables, callVars, ack, data, reply, frozen>>

\* The gateway's end of a half-open channel notices in the end.
Notice(c) ==
  /\ sock[c] = "half"
  /\ sock' = [sock EXCEPT ![c] = "down"]
  /\ UNCHANGED <<env, hubVars, tables, callVars, ack, data, agentVars, frozen>>

Freeze ==
  /\ May("freeze") /\ ~frozen
  /\ frozen' = TRUE
  /\ UNCHANGED <<env, hubVars, tables, callVars, ack, data, sock, agentVars>>

-----------------------------------------------------------------------------
Init ==
  /\ env \in Environments
  /\ current = None
  /\ chan = [c \in Channels |-> [at |-> "none", victim |-> None]]
  /\ pending = [c \in Channels |-> {}]
  /\ dataChannels = [c \in Channels |-> {}]
  /\ pc = [r \in Requests |-> "idle"]
  /\ conn = [r \in Requests |-> None]
  /\ ack = [r \in Requests |-> "wait"]
  /\ data = [r \in Requests |-> "wait"]
  /\ sock = [c \in Channels |-> "none"]
  /\ agent = [r \in Requests |-> "none"]
  /\ reply = [r \in Requests |-> "none"]
  /\ frozen = FALSE

Next ==
  \/ \E c \in Channels :
       \/ Connect(c) \/ ChannelStep(c) \/ Drop(c) \/ Notice(c)
       \/ \E r \in Requests : CompleteRequest(c, r)
  \/ \E r \in Requests : RequestStep(r) \/ Cancel(r) \/ Dispose(r) \/ AgentStep(r)
  \/ Freeze

Spec == Init /\ [][Next]_vars

\* The gateway's threads run on, timers fire, and an agent that does not hang works on
\* its requests.
Fairness ==
  /\ \A c \in Channels : WF_vars(ChannelStep(c))
  /\ \A r \in Requests :
       /\ WF_vars(pc[r] # "idle" /\ RequestStep(r))
       /\ WF_vars(AgentStep(r))
       /\ WF_vars(\E c \in Channels : CompleteRequest(c, r))

FairSpec == Spec /\ Fairness

-----------------------------------------------------------------------------
TypeOK ==
  /\ env \in Environments
  /\ current \in Channels \cup {None}
  /\ chan \in [Channels -> [at : {"none", "accepted", "fault", "clear", "register",
                                  "serving", "gone"},
                            victim : Channels \cup {None}]]
  /\ pending \in [Channels -> SUBSET Requests]
  /\ dataChannels \in [Channels -> SUBSET Opens]
  /\ pc \in [Requests -> {"idle", "register", "pend", "send", "reply", "data",
                          "giveUp", "done", "failed", "thrown", "closed"}]
  /\ conn \in [Requests -> Channels \cup {None}]
  /\ ack \in [Requests -> {"wait", "ok", "refused", "fault", "cancelled"}]
  /\ data \in [Requests -> {"wait", "attached", "fault", "cancelled"}]
  /\ sock \in [Channels -> {"none", "open", "half", "down"}]
  /\ agent \in [Requests -> {"none", "asked", "reached", "unreachable", "acked",
                             "refused", "tunnel", "turnedAway", "ended"}]
  /\ reply \in [Requests -> {"none", "ok", "refused", "read"}]
  /\ frozen \in BOOLEAN

Newest(c) == \A d \in Channels : d > c => chan[d].at = "none"

\* The newest channel serves the connector as long as it is open, whenever the older
\* ones end ("a reconnect replaces the previous"), if channels are registered one
\* after the other.
NewestServes ==
  "overlap" \notin env =>
    \A c \in Channels : Newest(c) /\ chan[c].at = "serving" => current = c

\* A channel whose clean-up has begun is not offered to requests.
OnlineIsServed == current # None => chan[current].at = "serving"

\* The registry is well formed, names the newest channel as long as it is open, and
\* never one whose clean-up has begun.
RegistryConsistent == TypeOK /\ NewestServes /\ OnlineIsServed

\* A request succeeds only if the agent reached the target for it.
SuccessIsReal ==
  \A r \in Requests :
    pc[r] = "done" => agent[r] \notin {"none", "asked", "unreachable", "refused"}

\* The data channel of a request that still waits is turned away only if the control
\* channel it was asked for on has been closed or replaced, if channels are registered
\* one after the other.
TurnedAwayIsOver ==
  "overlap" \notin env =>
    \A r \in Opens : agent[r] = "turnedAway" /\ Waiting(r) => conn[r] # current

\* The agent's part and the gateway's of a request agree, for success and failure.
AnswersAreReal == SuccessIsReal /\ TurnedAwayIsOver

\* Every request ends, whatever happens to the agent and its channels.
RequestsEnd ==
  \A r \in Requests :
    pc[r] # "idle" ~> pc[r] \in {"done", "failed", "thrown", "closed"}

\* A probe never throws: an unreachable host is an answer.
ProbeNeverThrows == \A r \in Probes : pc[r] # "thrown"

=============================================================================
