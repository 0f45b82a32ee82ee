-------------------------- MODULE ConnectorHubProofs --------------------------
(***************************************************************************)
(* Proofs about ConnectorHub, for any number of requests and channels and  *)
(* for any environment.                                                    *)
(***************************************************************************)
EXTENDS ConnectorHub, TLAPS

-----------------------------------------------------------------------------
\* Type correctness.

\* A channel is a number and never None; the requests of a kind are requests.
LEMMA Constants ==
  /\ \A c \in Channels : c \in Int /\ c # None
  /\ Opens \subseteq Requests /\ Probes \subseteq Requests
  BY ConstantsAssumption DEF Channels, Requests, None

\* Of two channels one is newer.
LEMMA Trichotomy ==
  \A c, d \in Channels : (c = d \/ c < d \/ d < c) /\ (c < d => c # d)
  BY Constants

\* For numbers > and < are the converse of each other.
LEMMA Converse == \A c, d \in Channels : c > d <=> d < c
  BY Constants

\* A request past its first step works on a channel: what its channel table entries
\* are written through is defined.
Working == {"register", "pend", "send", "reply", "data", "giveUp"}
ConnIsChannel == \A r \in Requests : pc[r] \in Working => conn[r] \in Channels

\* A channel that is torn down has somebody to fault, and the registry names only
\* channels.
VictimIsChannel ==
  \A c \in Channels : chan[c].at \in {"fault", "clear"} => chan[c].victim \in Channels

\* Only an open-tcp registers a data channel.
OnlyOpensRegister == \A r \in Requests : pc[r] \in {"register", "giveUp"} => r \in Opens

TypeInv == TypeOK /\ ConnIsChannel /\ VictimIsChannel /\ OnlyOpensRegister

USE DEF tables, hubVars, callVars, agentVars

\* The initial state is typed.
LEMMA InitTyped == Init => TypeInv
<1> SUFFICES ASSUME Init PROVE TypeInv
  OBVIOUS
<1>1. TypeOK
  BY DEF Init, TypeOK
<1>2. ConnIsChannel /\ VictimIsChannel /\ OnlyOpensRegister
  BY DEF Init, ConnIsChannel, VictimIsChannel, OnlyOpensRegister, Working
<1> QED BY <1>1, <1>2 DEF TypeInv

\* Every step of the thread of a channel keeps the types.
LEMMA ChannelTyped ==
  ASSUME TypeInv, NEW c \in Channels, Connect(c) \/ ChannelStep(c)
  PROVE  TypeInv'
<1> USE DEF TypeInv, TypeOK, ConnIsChannel, VictimIsChannel, OnlyOpensRegister, At, FaultNext
<1>1. CASE Connect(c)
  BY <1>1 DEF Connect
<1>2. CASE Replace(c)
  <2>1. CASE current = None
    <3>1. chan' = [chan EXCEPT ![c].at = "register"]
      BY <1>2, <2>1 DEF Replace
    <3> QED BY <1>2, <3>1 DEF Replace
  <2>2. CASE current # None
    <3>1. [at |-> "fault", victim |-> current] \in
            [at : {"none", "accepted", "fault", "clear", "register", "serving", "gone"},
             victim : Channels \cup {None}]
      BY <2>2
    <3>2. chan' = [chan EXCEPT ![c] = [at |-> "fault", victim |-> current]]
      BY <1>2, <2>2 DEF Replace
    <3>3. TypeOK'
      BY <1>2, <2>2, <3>1, <3>2 DEF Replace
    <3>4. VictimIsChannel'
      BY <2>2, <3>2
    <3> QED BY <1>2, <3>3, <3>4 DEF Replace
  <2> QED BY <2>1, <2>2
<1>3. CASE Register(c)
  BY <1>3 DEF Register
<1>4. CASE Fault(c)
  BY <1>4 DEF Fault
<1>5. CASE Clear(c)
  BY <1>5 DEF Clear
<1>6. CASE Unregister(c)
  BY <1>6 DEF Unregister
<1> QED BY <1>1, <1>2, <1>3, <1>4, <1>5, <1>6 DEF ChannelStep

\* So does an ack that is read off a channel.
LEMMA CompleteTyped ==
  ASSUME TypeInv, NEW c \in Channels, NEW r \in Requests, CompleteRequest(c, r)
  PROVE  TypeInv'
  BY DEF CompleteRequest, TypeInv, TypeOK, ConnIsChannel, VictimIsChannel, OnlyOpensRegister

\* So does every step of a request.
LEMMA RequestTyped ==
  ASSUME TypeInv, NEW r \in Requests, RequestStep(r) \/ Cancel(r) \/ Dispose(r)
  PROVE  TypeInv'
<1> USE Constants DEF TypeInv, TypeOK, ConnIsChannel, VictimIsChannel, OnlyOpensRegister,
                      Goto, Working
<1>1. CASE Begin(r)
  BY <1>1 DEF Begin
<1>2. CASE RegisterDataChannel(r)
  BY <1>2 DEF RegisterDataChannel
<1>3. CASE AddPending(r)
  BY <1>3 DEF AddPending
<1>4. CASE Send(r)
  BY <1>4 DEF Send
<1>5. CASE Reply(r)
  BY <1>5 DEF Reply, CancelDataChannel
<1>6. CASE Data(r)
  BY <1>6 DEF Data
<1>7. CASE Timeout(r)
  BY <1>7 DEF Timeout, Waiting
<1>8. CASE GiveUp(r)
  BY <1>8 DEF GiveUp, CancelDataChannel
<1>9. CASE Cancel(r)
  BY <1>9 DEF Cancel
<1>10. CASE Dispose(r)
  BY <1>10 DEF Dispose
<1> QED BY <1>1, <1>2, <1>3, <1>4, <1>5, <1>6, <1>7, <1>8, <1>9, <1>10 DEF RequestStep

\* So does every step of the agent.
LEMMA AgentTyped ==
  ASSUME TypeInv, NEW r \in Requests, AgentStep(r)
  PROVE  TypeInv'
<1> USE DEF TypeInv, TypeOK, ConnIsChannel, VictimIsChannel, OnlyOpensRegister, Become
<1>1. CASE Dial(r)
  BY <1>1 DEF Dial
<1>2. CASE SendAck(r)
  BY <1>2 DEF SendAck
<1>3. CASE TryAttachDataChannel(r)
  <2>1. CASE r \in Offered /\ dataChannels' = [dataChannels EXCEPT ![current] = @ \ {r}]
    <3>1. current \in Channels
      BY <2>1 DEF Offered
    <3>2. dataChannels' \in [Channels -> SUBSET Opens]
      BY <2>1, <3>1
    <3> QED BY <1>3, <2>1, <3>2 DEF TryAttachDataChannel
  <2>2. CASE UNCHANGED <<data, dataChannels>>
    BY <1>3, <2>2 DEF TryAttachDataChannel
  <2> QED BY <1>3, <2>1, <2>2 DEF TryAttachDataChannel
<1> QED BY <1>1, <1>2, <1>3 DEF AgentStep

\* So does whatever happens around them.
LEMMA SurroundingsTyped ==
  ASSUME TypeInv, NEW c \in Channels, Drop(c) \/ Notice(c) \/ Freeze
  PROVE  TypeInv'
<1> USE DEF TypeInv, TypeOK, ConnIsChannel, VictimIsChannel, OnlyOpensRegister
<1>1. CASE Drop(c)
  BY <1>1 DEF Drop
<1>2. CASE Notice(c)
  BY <1>2 DEF Notice
<1>3. CASE Freeze
  BY <1>3 DEF Freeze
<1> QED BY <1>1, <1>2, <1>3

\* So does every step.
LEMMA StepTyped == TypeInv /\ [Next]_vars => TypeInv'
<1> SUFFICES ASSUME TypeInv, [Next]_vars PROVE TypeInv'
  OBVIOUS
<1>1. ASSUME NEW c \in Channels, Connect(c) \/ ChannelStep(c) PROVE TypeInv'
  BY <1>1, ChannelTyped
<1>2. ASSUME NEW c \in Channels, Drop(c) \/ Notice(c) PROVE TypeInv'
  BY <1>2, SurroundingsTyped
<1>3. ASSUME NEW c \in Channels, NEW r \in Requests, CompleteRequest(c, r) PROVE TypeInv'
  BY <1>3, CompleteTyped
<1>4. ASSUME NEW r \in Requests, RequestStep(r) \/ Cancel(r) \/ Dispose(r) PROVE TypeInv'
  BY <1>4, RequestTyped
<1>5. ASSUME NEW r \in Requests, AgentStep(r) PROVE TypeInv'
  BY <1>5, AgentTyped
<1>6. CASE Freeze
  BY <1>6 DEF Freeze, TypeInv, TypeOK, ConnIsChannel, VictimIsChannel, OnlyOpensRegister
<1>7. CASE UNCHANGED vars
  BY <1>7 DEF vars, TypeInv, TypeOK, ConnIsChannel, VictimIsChannel, OnlyOpensRegister
<1> QED BY <1>1, <1>2, <1>3, <1>4, <1>5, <1>6, <1>7 DEF Next

\* The state of the registry, the channels and the requests is always of the types the
\* code declares (ConnectorHub.cs:20-31, 62-66).
THEOREM TypeCorrect == Spec => []TypeOK
<1>1. TypeInv => TypeOK
  BY DEF TypeInv
<1> QED BY <1>1, InitTyped, StepTyped, PTL DEF Spec

-----------------------------------------------------------------------------
\* What the registry names.

\* Only Connect and the thread of a channel write the registry and the channels.
ChannelsKept == UNCHANGED <<env, current, chan>>

\* A step either leaves the channels alone or is one of a channel's thread.
LEMMA WhoWritesChannels ==
  ASSUME [Next]_vars
  PROVE  ChannelsKept \/ \E c \in Channels : Connect(c) \/ ChannelStep(c)
<1>1. ASSUME NEW c \in Channels, Drop(c) \/ Notice(c) PROVE ChannelsKept
  BY <1>1 DEF Drop, Notice, ChannelsKept
<1>2. ASSUME NEW c \in Channels, NEW r \in Requests, CompleteRequest(c, r) PROVE ChannelsKept
  BY <1>2 DEF CompleteRequest, ChannelsKept
<1>3. ASSUME NEW r \in Requests, RequestStep(r) PROVE ChannelsKept
  BY <1>3 DEF RequestStep, Begin, RegisterDataChannel, AddPending, Send, Reply, Data,
              Timeout, GiveUp, ChannelsKept
<1>4. ASSUME NEW r \in Requests, Cancel(r) \/ Dispose(r) PROVE ChannelsKept
  BY <1>4 DEF Cancel, Dispose, ChannelsKept
<1>5. ASSUME NEW r \in Requests, AgentStep(r) PROVE ChannelsKept
  BY <1>5 DEF AgentStep, Dial, SendAck, TryAttachDataChannel, ChannelsKept
<1>6. CASE Freeze
  BY <1>6 DEF Freeze, ChannelsKept
<1>7. CASE UNCHANGED vars
  BY <1>7 DEF vars, ChannelsKept
<1> QED BY <1>1, <1>2, <1>3, <1>4, <1>5, <1>6, <1>7 DEF Next

\* A step keeps OnlineIsServed: a channel is registered by the step that lets it serve, and
\* removed by the step that begins its clean-up.
LEMMA StepServed == TypeInv /\ OnlineIsServed /\ [Next]_vars => OnlineIsServed'
<1> SUFFICES ASSUME TypeInv, OnlineIsServed, [Next]_vars PROVE OnlineIsServed'
  OBVIOUS
<1> USE DEF TypeInv, TypeOK, OnlineIsServed, At, FaultNext
<1>1. CASE ChannelsKept
  BY <1>1 DEF ChannelsKept
<1>2. ASSUME NEW c \in Channels, Connect(c) PROVE OnlineIsServed'
  BY <1>2 DEF Connect
<1>3. ASSUME NEW c \in Channels, Replace(c) PROVE OnlineIsServed'
  BY <1>3 DEF Replace
<1>4. ASSUME NEW c \in Channels, Register(c) PROVE OnlineIsServed'
  BY <1>4 DEF Register
<1>5. ASSUME NEW c \in Channels, Fault(c) PROVE OnlineIsServed'
  BY <1>5 DEF Fault
<1>6. ASSUME NEW c \in Channels, Clear(c) PROVE OnlineIsServed'
  BY <1>6 DEF Clear
<1>7. ASSUME NEW c \in Channels, Unregister(c) PROVE OnlineIsServed'
  BY <1>7 DEF Unregister
<1> QED BY <1>1, <1>2, <1>3, <1>4, <1>5, <1>6, <1>7, WhoWritesChannels DEF ChannelStep

\* A connector shown as online has a channel whose receive loop runs: none whose clean-up
\* has begun (ConnectorHub.cs:38-58) is ever offered to a request.
THEOREM OnlineServed == Spec => []OnlineIsServed
<1>1. Init => OnlineIsServed
  BY DEF Init, OnlineIsServed
<1> QED BY <1>1, InitTyped, StepTyped, StepServed, PTL DEF Spec

-----------------------------------------------------------------------------
\* The newest channel serves.

\* The agent opens its channels in their order.
OpenedInOrder ==
  \A c, d \in Channels : d < c /\ chan[c].at # "none" => chan[d].at # "none"

\* A channel that is not registered yet faults somebody else, if anybody.
VictimIsOther ==
  \A c \in Channels :
    /\ chan[c].at \in {"none", "accepted"} => chan[c].victim = None
    /\ chan[c].at = "register" => chan[c].victim # c

\* Without overlap the channel that is being registered is the newest one, so no older one
\* overwrites its entry afterwards.
NewestRegisters ==
  "overlap" \notin env =>
    \A c \in Channels : chan[c].at \in Registering /\ chan[c].victim # c => Newest(c)

NewestInv == OpenedInOrder /\ VictimIsOther /\ NewestRegisters /\ NewestServes

\* The channel a step moves, and where to: all others stay.
LEMMA NewestMoves ==
  ASSUME TypeInv, NewestInv, NEW c \in Channels, UNCHANGED env,
         \A d \in Channels \ {c} : chan'[d] = chan[d],
         chan[c].at # "none", chan'[c].at # "none",
         chan'[c].at = "accepted" => FALSE,
         chan'[c].at = "register" => chan'[c].victim # c,
         chan'[c].at \in Registering /\ chan'[c].victim # c =>
           chan[c].at \in Registering /\ chan[c].victim # c
  PROVE  /\ OpenedInOrder' /\ VictimIsOther' /\ NewestRegisters'
         /\ \A d \in Channels : Newest(d)' <=> Newest(d)
<1> USE DEF NewestInv
<1>1. \A d \in Channels : chan'[d].at = "none" <=> chan[d].at = "none"
  OBVIOUS
<1>2. OpenedInOrder'
  BY <1>1 DEF OpenedInOrder
<1>3. VictimIsOther'
  BY DEF VictimIsOther
<1>4. \A d \in Channels : Newest(d)' <=> Newest(d)
  BY <1>1 DEF Newest
<1>5. NewestRegisters'
  BY <1>4 DEF NewestRegisters
<1> QED BY <1>2, <1>3, <1>4, <1>5

\* Every step keeps NewestInv.
LEMMA StepNewest ==
  TypeInv /\ OnlineIsServed /\ NewestInv /\ [Next]_vars => NewestInv'
<1> SUFFICES ASSUME TypeInv, OnlineIsServed, NewestInv, [Next]_vars PROVE NewestInv'
  OBVIOUS
<1> USE DEF TypeInv, TypeOK, At, FaultNext
<1>1. CASE ChannelsKept
  BY <1>1 DEF ChannelsKept, NewestInv, OpenedInOrder, VictimIsOther, NewestRegisters,
              NewestServes, Newest
<1>2. ASSUME NEW c \in Channels, Connect(c) PROVE NewestInv'
  <2>1. /\ chan' = [chan EXCEPT ![c].at = "accepted"] /\ chan[c].at = "none"
        /\ UNCHANGED <<env, current>>
        /\ \A d \in Channels : d < c => chan[d].at # "none"
    BY <1>2 DEF Connect
  <2>2. \A d \in Channels : d > c => chan[d].at = "none"
    BY <2>1, Constants DEF NewestInv, OpenedInOrder
  <2>3. Newest(c)'
    BY <2>1, <2>2, Constants DEF Newest
  <2>4. OpenedInOrder'
    BY <2>1, <2>2, Constants DEF NewestInv, OpenedInOrder
  <2>5. VictimIsOther'
    BY <2>1 DEF NewestInv, VictimIsOther
  <2>6. ASSUME "overlap" \notin env, NEW d \in Channels, d # c,
               chan[d].at \in Registering, chan[d].victim # d
        PROVE  FALSE
    <3>1. d < c
      BY <2>2, <2>6, Trichotomy, Converse DEF Registering
    <3> QED BY <1>2, <2>6, <3>1 DEF Connect, May
  <2>7. NewestRegisters'
    BY <2>1, <2>3, <2>6 DEF NewestRegisters
  <2>8. NewestServes'
    <3> SUFFICES ASSUME "overlap" \notin env, NEW d \in Channels,
                        Newest(d)', chan'[d].at = "serving"
                 PROVE  current' = d
      BY <2>1 DEF NewestServes
    <3>1. d # c /\ chan[d].at = "serving"
      BY <2>1
    <3>2. Newest(d)
      BY <2>1, Constants DEF Newest
    <3> QED BY <2>1, <3>1, <3>2 DEF NewestInv, NewestServes
  <2> QED BY <2>4, <2>5, <2>7, <2>8 DEF NewestInv
<1>3. ASSUME NEW c \in Channels, Replace(c) PROVE NewestInv'
  <2>1. /\ chan[c].at = "accepted" /\ UNCHANGED <<env, current>>
        /\ \/ chan' = [chan EXCEPT ![c].at = "register"]
           \/ /\ chan' = [chan EXCEPT ![c] = [at |-> "fault", victim |-> current]]
              /\ current # None
    BY <1>3 DEF Replace
  <2>2. chan[c].victim # c /\ (current # None => current # c)
    BY <2>1, Constants DEF NewestInv, VictimIsOther, OnlineIsServed
  <2>3. /\ \A d \in Channels \ {c} : chan'[d] = chan[d]
        /\ chan'[c].at \in {"register", "fault"} /\ chan'[c].victim # c
    BY <2>1, <2>2
  <2>4. /\ OpenedInOrder' /\ VictimIsOther' /\ NewestRegisters'
        /\ \A d \in Channels : Newest(d)' <=> Newest(d)
    BY <2>1, <2>2, <2>3, NewestMoves DEF Registering
  <2>5. NewestServes'
    BY <2>1, <2>3, <2>4 DEF NewestInv, NewestServes
  <2> QED BY <2>4, <2>5 DEF NewestInv
<1>4. ASSUME NEW c \in Channels, Register(c) PROVE NewestInv'
  <2>1. /\ chan[c].at = "register" /\ chan' = [chan EXCEPT ![c].at = "serving"]
        /\ current' = c /\ UNCHANGED env
    BY <1>4 DEF Register
  <2>2. chan[c].victim # c
    BY <2>1 DEF NewestInv, VictimIsOther
  <2>3. /\ OpenedInOrder' /\ VictimIsOther' /\ NewestRegisters'
        /\ \A d \in Channels : Newest(d)' <=> Newest(d)
    BY <2>1, <2>2, NewestMoves DEF Registering
  <2>4. ASSUME "overlap" \notin env, NEW d \in Channels, Newest(d), chan[d].at # "none"
        PROVE  d = c
    <3>1. Newest(c)
      BY <2>1, <2>2, <2>4 DEF NewestInv, NewestRegisters, Registering
    <3> QED BY <2>1, <2>4, <3>1, Trichotomy, Converse DEF Newest
  <2>5. NewestServes'
    BY <2>1, <2>3, <2>4 DEF NewestServes
  <2> QED BY <2>3, <2>5 DEF NewestInv
<1>5. ASSUME NEW c \in Channels, Fault(c) \/ Clear(c) PROVE NewestInv'
  <2>1. /\ chan[c].at \in {"fault", "clear"} /\ UNCHANGED <<env, current>>
        /\ chan' = [chan EXCEPT ![c].at = chan'[c].at]
        /\ \/ chan'[c].at \in {"clear", "gone"}
           \/ chan'[c].at = "register" /\ chan[c].victim # c
    BY <1>5 DEF Fault, Clear
  <2>2. /\ \A d \in Channels \ {c} : chan'[d] = chan[d]
        /\ chan'[c].victim = chan[c].victim
    BY <2>1
  <2>3. /\ OpenedInOrder' /\ VictimIsOther' /\ NewestRegisters'
        /\ \A d \in Channels : Newest(d)' <=> Newest(d)
    BY <2>1, <2>2, NewestMoves DEF Registering
  <2>4. NewestServes'
    BY <2>1, <2>2, <2>3 DEF NewestInv, NewestServes
  <2> QED BY <2>3, <2>4 DEF NewestInv
<1>6. ASSUME NEW c \in Channels, Unregister(c) PROVE NewestInv'
  <2>1. /\ chan[c].at = "serving" /\ UNCHANGED env
        /\ chan' = [chan EXCEPT ![c] = [at |-> "fault", victim |-> c]]
        /\ current' = IF current = c THEN None ELSE current
    BY <1>6 DEF Unregister
  <2>2. /\ OpenedInOrder' /\ VictimIsOther' /\ NewestRegisters'
        /\ \A d \in Channels : Newest(d)' <=> Newest(d)
    BY <2>1, NewestMoves DEF Registering
  <2>3. NewestServes'
    BY <2>1, <2>2 DEF NewestInv, NewestServes
  <2> QED BY <2>2, <2>3 DEF NewestInv
<1> QED BY <1>1, <1>2, <1>3, <1>4, <1>5, <1>6, WhoWritesChannels DEF ChannelStep

\* A reconnect replaces the previous connection (ConnectorHub.cs:34-35): whenever the older
\* channels end, the newest one stays in the registry while it is open, if the agent opens
\* it when the last one has been registered.
THEOREM NewestServed == Spec => []NewestServes
<1>1. Init => NewestInv
  BY DEF Init, NewestInv, OpenedInOrder, VictimIsOther, NewestRegisters, NewestServes,
         Registering
<1>2. Init => OnlineIsServed
  BY DEF Init, OnlineIsServed
<1>3. NewestInv => NewestServes
  BY DEF NewestInv
<1> QED BY <1>1, <1>2, <1>3, InitTyped, StepTyped, StepServed, StepNewest, PTL DEF Spec

-----------------------------------------------------------------------------
\* Success is the agent's.

\* What the agent can be doing about a request it has sent a good ack for.
Reached == {"acked", "tunnel", "turnedAway", "ended"}

\* The agent knows nothing of a request that has not been sent, and a good ack, on the wire
\* or taken, is there only if it has reached the target.
AckIsReal ==
  \A r \in Requests :
    /\ pc[r] \in {"idle", "register", "pend", "send"} =>
         agent[r] = "none" /\ reply[r] = "none" /\ ack[r] # "ok"
    /\ reply[r] = "ok" \/ ack[r] = "ok" \/ pc[r] \in {"data", "done", "closed"} =>
         agent[r] \in Reached

\* Every step keeps AckIsReal.
LEMMA StepReal == TypeInv /\ AckIsReal /\ [Next]_vars => AckIsReal'
<1> SUFFICES ASSUME TypeInv, AckIsReal, [Next]_vars PROVE AckIsReal'
  OBVIOUS
<1> USE DEF TypeInv, TypeOK, AckIsReal, Reached
<1>1. ASSUME NEW c \in Channels, Connect(c) \/ ChannelStep(c) PROVE AckIsReal'
  <2>1. CASE Fault(c)
    BY <2>1 DEF Fault
  <2>2. CASE Connect(c) \/ Replace(c) \/ Register(c) \/ Clear(c) \/ Unregister(c)
    BY <2>2 DEF Connect, Replace, Register, Clear, Unregister
  <2> QED BY <1>1, <2>1, <2>2 DEF ChannelStep
<1>2. ASSUME NEW c \in Channels, Drop(c) \/ Notice(c) PROVE AckIsReal'
  BY <1>2 DEF Drop, Notice
<1>3. ASSUME NEW c \in Channels, NEW r \in Requests, CompleteRequest(c, r) PROVE AckIsReal'
  BY <1>3 DEF CompleteRequest
<1>4. ASSUME NEW r \in Requests, RequestStep(r) PROVE AckIsReal'
  <2> USE DEF Goto
  <2>1. CASE Begin(r) \/ RegisterDataChannel(r) \/ AddPending(r)
    BY <2>1 DEF Begin, RegisterDataChannel, AddPending
  <2>2. CASE Send(r)
    BY <2>2 DEF Send
  <2>3. CASE Reply(r)
    BY <2>3 DEF Reply
  <2>4. CASE Data(r)
    BY <2>4 DEF Data
  <2>5. CASE Timeout(r) \/ GiveUp(r)
    BY <2>5 DEF Timeout, GiveUp
  <2> QED BY <1>4, <2>1, <2>2, <2>3, <2>4, <2>5 DEF RequestStep
<1>5. ASSUME NEW r \in Requests, Cancel(r) \/ Dispose(r) PROVE AckIsReal'
  BY <1>5 DEF Cancel, Dispose, Goto
<1>6. ASSUME NEW r \in Requests, AgentStep(r) PROVE AckIsReal'
  <2> USE DEF Become
  <2>1. CASE Dial(r)
    BY <2>1 DEF Dial
  <2>2. CASE SendAck(r)
    BY <2>2 DEF SendAck
  <2>3. CASE TryAttachDataChannel(r)
    BY <2>3 DEF TryAttachDataChannel
  <2> QED BY <1>6, <2>1, <2>2, <2>3 DEF AgentStep
<1>7. CASE Freeze
  BY <1>7 DEF Freeze
<1>8. CASE UNCHANGED vars
  BY <1>8 DEF vars
<1> QED BY <1>1, <1>2, <1>3, <1>4, <1>5, <1>6, <1>7, <1>8 DEF Next

\* A tunnel or a positive probe (ConnectorHub.cs:114-160) is never the answer to another
\* request, to none, or to one the agent has refused.
THEOREM SuccessReal == Spec => []SuccessIsReal
<1>1. Init => AckIsReal
  BY DEF Init, AckIsReal
<1>2. AckIsReal => SuccessIsReal
  BY DEF AckIsReal, SuccessIsReal, Reached
<1> QED BY <1>1, <1>2, InitTyped, StepTyped, StepReal, PTL DEF Spec

-----------------------------------------------------------------------------
\* A data channel is not turned away.

\* A channel is opened when the older ones have broken.
OlderClosed ==
  \A c, d \in Channels : d < c /\ chan[c].at # "none" => sock[d] # "open"

\* A request works on a channel that has been registered.
ConnRegistered ==
  \A r \in Requests, c \in Channels : conn[r] = c =>
    \/ chan[c].at \in {"serving", "gone"}
    \/ chan[c].at \in {"fault", "clear"} /\ chan[c].victim = c

\* A request is in the tables of its own channel only, from when it enters them.
OwnTables ==
  \A r \in Requests, c \in Channels :
    /\ r \in pending[c] => conn[r] = c /\ pc[r] # "idle"
    /\ r \in dataChannels[c] => conn[r] = c /\ pc[r] \notin {"idle", "register"}

\* A channel that is faulted has been opened before ...
VictimOpened ==
  \A c, d \in Channels :
    chan[c].at \in {"fault", "clear"} /\ chan[c].victim = d => chan[d].at # "none"

\* ... and without overlap it has broken.
VictimClosed ==
  "overlap" \notin env =>
    \A c \in Channels : chan[c].at \in {"fault", "clear"} => sock[chan[c].victim] # "open"

PlaceInv == OlderClosed /\ ConnRegistered /\ OwnTables /\ VictimOpened /\ VictimClosed

\* A step of a channel's thread keeps PlaceInv.
LEMMA ChannelPlace ==
  ASSUME TypeInv, OnlineIsServed, NewestInv, PlaceInv,
         NEW c \in Channels, Connect(c) \/ ChannelStep(c)
  PROVE  PlaceInv'
<1> USE DEF TypeInv, TypeOK, At, FaultNext
<1>1. CASE Connect(c)
  <2>1. /\ chan' = [chan EXCEPT ![c].at = "accepted"] /\ chan[c].at = "none"
        /\ sock' = [sock EXCEPT ![c] = "open"]
        /\ UNCHANGED <<env, conn, pc, pending, dataChannels>>
        /\ \A d \in Channels : d < c => sock[d] # "open"
    BY <1>1 DEF Connect
  <2>2. \A d \in Channels : c < d => chan[d].at = "none"
    BY <2>1 DEF NewestInv, OpenedInOrder
  <2>3. OlderClosed'
    BY <2>1, <2>2, Trichotomy, Converse DEF PlaceInv, OlderClosed
  <2>4. ConnRegistered'
    BY <2>1 DEF PlaceInv, ConnRegistered
  <2>5. OwnTables'
    BY <2>1 DEF PlaceInv, OwnTables
  <2>6. VictimOpened'
    BY <2>1 DEF PlaceInv, VictimOpened
  <2>7. VictimClosed'
    BY <2>1 DEF PlaceInv, VictimOpened, VictimClosed, VictimIsChannel
  <2> QED BY <2>3, <2>4, <2>5, <2>6, <2>7 DEF PlaceInv
<1>2. CASE Replace(c)
  <2>1. /\ chan[c].at = "accepted"
        /\ UNCHANGED <<env, current, conn, pc, sock, pending, dataChannels>>
        /\ \/ chan' = [chan EXCEPT ![c].at = "register"]
           \/ /\ chan' = [chan EXCEPT ![c] = [at |-> "fault", victim |-> current]]
              /\ current \in Channels
    BY <1>2 DEF Replace
  <2>2a. /\ \A d \in Channels \ {c} : chan'[d] = chan[d]
         /\ chan'[c].at # "none"
    BY <2>1
  <2>2b. OlderClosed'
    BY <2>1, <2>2a DEF PlaceInv, OlderClosed
  <2>2c. ConnRegistered'
    BY <2>1, <2>2a DEF PlaceInv, ConnRegistered
  <2>2d. OwnTables'
    BY <2>1 DEF PlaceInv, OwnTables
  <2>2. OlderClosed' /\ ConnRegistered' /\ OwnTables'
    BY <2>2b, <2>2c, <2>2d
  <2>3. current \in Channels => chan[current].at = "serving"
    BY Constants DEF OnlineIsServed
  <2>4. VictimOpened'
    BY <2>1, <2>3 DEF PlaceInv, VictimOpened
  <2>5. ASSUME "overlap" \notin env, current \in Channels PROVE sock[current] # "open"
    <3>1. Newest(c)
      BY <2>1, <2>5, Constants DEF NewestInv, NewestRegisters, VictimIsOther, Registering
    <3>2. current < c
      BY <2>1, <2>3, <2>5, <3>1, Trichotomy, Converse DEF Newest
    <3> QED BY <2>1, <2>5, <3>2 DEF PlaceInv, OlderClosed
  <2>6. VictimClosed'
    BY <2>1, <2>5 DEF PlaceInv, VictimClosed
  <2> QED BY <2>2, <2>4, <2>6 DEF PlaceInv
<1>3. CASE Register(c)
  BY <1>3 DEF Register, PlaceInv, OlderClosed, ConnRegistered, OwnTables, VictimOpened, VictimClosed
<1>4. CASE Fault(c)
  BY <1>4 DEF Fault, PlaceInv, OlderClosed, ConnRegistered, OwnTables, VictimOpened, VictimClosed
<1>5. CASE Clear(c)
  <2>1. /\ chan[c].at = "clear" /\ UNCHANGED <<env, conn, pc, sock>>
        /\ chan' = [chan EXCEPT ![c].at = IF chan[c].victim = c THEN "gone" ELSE "register"]
        /\ pending' = [pending EXCEPT ![chan[c].victim] = {}]
        /\ dataChannels' = [dataChannels EXCEPT ![chan[c].victim] = {}]
    BY <1>5 DEF Clear
  <2>2. OlderClosed' /\ ConnRegistered' /\ VictimOpened' /\ VictimClosed'
    BY <2>1 DEF PlaceInv, OlderClosed, ConnRegistered, VictimOpened, VictimClosed
  <2>3. OwnTables'
    BY <2>1 DEF PlaceInv, OwnTables
  <2> QED BY <2>2, <2>3 DEF PlaceInv
<1>6. CASE Unregister(c)
  BY <1>6 DEF Unregister, PlaceInv, OlderClosed, ConnRegistered, OwnTables, VictimOpened,
              VictimClosed
<1> QED BY <1>1, <1>2, <1>3, <1>4, <1>5, <1>6 DEF ChannelStep

\* So does every other step.
LEMMA StepPlace ==
  TypeInv /\ OnlineIsServed /\ NewestInv /\ PlaceInv /\ [Next]_vars => PlaceInv'
<1> SUFFICES ASSUME TypeInv, OnlineIsServed, NewestInv, PlaceInv, [Next]_vars PROVE PlaceInv'
  OBVIOUS
<1>1. ASSUME NEW c \in Channels, Connect(c) \/ ChannelStep(c) PROVE PlaceInv'
  BY <1>1, ChannelPlace
<1> USE DEF TypeInv, TypeOK, PlaceInv, OlderClosed, ConnRegistered, OwnTables,
            VictimOpened, VictimClosed
<1>2. ASSUME NEW c \in Channels, Drop(c) \/ Notice(c) PROVE PlaceInv'
  <2>1. /\ UNCHANGED <<env, chan, conn, pc, pending, dataChannels>>
        /\ \A d \in Channels : sock'[d] = "open" => sock[d] = "open"
    BY <1>2 DEF Drop, Notice
  <2>2. OlderClosed' /\ VictimOpened' /\ VictimClosed'
    BY <2>1 DEF VictimIsChannel
  <2>3. ConnRegistered' /\ OwnTables'
    BY <2>1
  <2> QED BY <2>2, <2>3
<1>3. ASSUME NEW c \in Channels, NEW r \in Requests, CompleteRequest(c, r) PROVE PlaceInv'
  BY <1>3 DEF CompleteRequest
<1>4. ASSUME NEW r \in Requests, RequestStep(r) \/ Cancel(r) \/ Dispose(r) PROVE PlaceInv'
  <2> USE DEF Goto
  <2>1. CASE Begin(r)
    <3>1. /\ conn' = [conn EXCEPT ![r] = current] /\ pc[r] = "idle"
          /\ pc' = [pc EXCEPT ![r] = pc'[r]]
          /\ UNCHANGED <<env, current, chan, sock, pending, dataChannels>>
      BY <2>1 DEF Begin
    <3>2. current \in Channels => chan[current].at = "serving"
      BY Constants DEF OnlineIsServed
    <3> QED BY <3>1, <3>2
  <2>2. CASE RegisterDataChannel(r)
    BY <2>2 DEF RegisterDataChannel, ConnIsChannel, Working
  <2>3. CASE AddPending(r)
    BY <2>3 DEF AddPending, ConnIsChannel, Working
  <2>4. CASE Send(r)
    BY <2>4 DEF Send
  <2>5. CASE Reply(r)
    BY <2>5 DEF Reply, CancelDataChannel
  <2>6. CASE Data(r)
    BY <2>6 DEF Data
  <2>7. CASE Timeout(r) \/ Cancel(r)
    BY <2>7 DEF Timeout, Cancel, Waiting
  <2>8. CASE GiveUp(r)
    BY <2>8 DEF GiveUp, CancelDataChannel
  <2>9. CASE Dispose(r)
    BY <2>9 DEF Dispose
  <2> QED BY <1>4, <2>1, <2>2, <2>3, <2>4, <2>5, <2>6, <2>7, <2>8, <2>9 DEF RequestStep
<1>5. ASSUME NEW r \in Requests, AgentStep(r) PROVE PlaceInv'
  <2>1. /\ UNCHANGED <<env, chan, conn, pc, sock, pending>>
        /\ \A c \in Channels : dataChannels'[c] \subseteq dataChannels[c]
    BY <1>5 DEF AgentStep, Dial, SendAck, TryAttachDataChannel
  <2> QED BY <2>1
<1>6. CASE Freeze
  BY <1>6 DEF Freeze
<1>7. CASE UNCHANGED vars
  BY <1>7 DEF vars
<1> QED BY <1>1, <1>2, <1>3, <1>4, <1>5, <1>6, <1>7 DEF Next

\* A request whose answer may still be good: both completions are open, or the ack is in.
Hopeful(r) ==
  \/ pc[r] = "reply" /\ ack[r] = "wait"
  \/ pc[r] \in {"reply", "data"} /\ ack[r] = "ok" /\ data[r] = "wait"

\* The completion of a data channel is made with the request.
FreshData == \A r \in Opens : pc[r] \in {"idle", "register"} => data[r] = "wait"

\* A good ack is in before a data channel is waited for.
AckBeforeData == \A r \in Opens : pc[r] = "data" => ack[r] = "ok"

\* While its channel is open a request keeps what it has put into the tables ...
OpenHeld ==
  \A r \in Opens, c \in Channels :
    /\ pc[r] \in {"pend", "send", "reply"} /\ conn[r] = c /\ sock[c] = "open"
    /\ agent[r] \in {"none", "asked", "reached"}
    => /\ r \in dataChannels[c] /\ data[r] = "wait"
       /\ pc[r] \in {"send", "reply"} /\ ack[r] = "wait" => r \in pending[c]

\* ... and once it has been acked, until it is no longer hopeful.
AckedHeld ==
  \A r \in Opens, c \in Channels :
    agent[r] = "acked" /\ Hopeful(r) /\ conn[r] = c =>
      /\ r \in dataChannels[c] /\ data[r] = "wait"
      /\ ack[r] = "wait" => r \in pending[c]

\* None is after its channel has been faulted.
ClearedIsOver ==
  \A c \in Channels, r \in Opens :
    chan[c].at = "clear" /\ agent[r] = "acked" /\ conn[r] = chan[c].victim => ~Hopeful(r)

\* TurnedAwayIsOver for the hopeful ones.
TurnedAway == \A r \in Opens : agent[r] = "turnedAway" /\ Hopeful(r) => conn[r] # current

HeldInv ==
  /\ FreshData /\ AckBeforeData
  /\ "overlap" \notin env => OpenHeld /\ AckedHeld /\ ClearedIsOver /\ TurnedAway

\* A step of a channel's thread keeps HeldInv.
LEMMA ChannelHeld ==
  ASSUME TypeInv, OnlineIsServed, NewestInv, AckIsReal, PlaceInv, HeldInv,
         NEW c \in Channels, Connect(c) \/ ChannelStep(c)
  PROVE  HeldInv'
<1> USE DEF TypeInv, TypeOK, At, FaultNext, HeldInv
<1>1. CASE Connect(c)
  <2>1. /\ chan' = [chan EXCEPT ![c].at = "accepted"] /\ chan[c].at = "none"
        /\ sock' = [sock EXCEPT ![c] = "open"]
        /\ UNCHANGED <<env, current, conn, pc, ack, data, agent, pending, dataChannels>>
    BY <1>1 DEF Connect
  <2>2. \A r \in Requests : conn[r] # c
    BY <2>1 DEF PlaceInv, ConnRegistered
  <2>3. \A r \in Opens : r \in Requests
    BY Constants
  <2>4. FreshData' /\ AckBeforeData'
    BY <2>1 DEF FreshData, AckBeforeData
  <2>5. "overlap" \notin env => OpenHeld'
    BY <2>1, <2>2, <2>3 DEF OpenHeld
  <2>6. "overlap" \notin env => AckedHeld' /\ ClearedIsOver' /\ TurnedAway'
    BY <2>1, <2>2, <2>3 DEF AckedHeld, ClearedIsOver, TurnedAway, Hopeful
  <2> QED BY <2>1, <2>4, <2>5, <2>6
<1>2. CASE Replace(c) \/ Unregister(c)
  <2>1. /\ chan'[c].at \in {"register", "fault"}
        /\ \A d \in Channels \ {c} : chan'[d] = chan[d]
        /\ current' \in {current, None}
        /\ UNCHANGED <<env, conn, pc, ack, data, agent, sock, pending, dataChannels>>
    BY <1>2 DEF Replace, Unregister
  <2>2. FreshData' /\ AckBeforeData'
    BY <2>1 DEF FreshData, AckBeforeData
  <2>3. "overlap" \notin env => OpenHeld' /\ AckedHeld'
    BY <2>1 DEF OpenHeld, AckedHeld, Hopeful
  <2>4. "overlap" \notin env => ClearedIsOver'
    BY <2>1 DEF ClearedIsOver, Hopeful
  <2>5. \A r \in Opens : Hopeful(r) => conn[r] \in Channels
    BY Constants DEF Hopeful, ConnIsChannel, Working
  <2>6. "overlap" \notin env => TurnedAway'
    BY <2>1, <2>5, Constants DEF TurnedAway, Hopeful
  <2> QED BY <2>1, <2>2, <2>3, <2>4, <2>6
<1>3. CASE Register(c)
  <2>1. /\ chan[c].at = "register" /\ chan' = [chan EXCEPT ![c].at = "serving"]
        /\ current' = c
        /\ UNCHANGED <<env, conn, pc, ack, data, agent, sock, pending, dataChannels>>
    BY <1>3 DEF Register
  <2>2. \A r \in Opens : conn[r] # c
    BY <2>1, Constants DEF PlaceInv, ConnRegistered
  <2>3. FreshData' /\ AckBeforeData'
    BY <2>1 DEF FreshData, AckBeforeData
  <2>4. "overlap" \notin env => OpenHeld' /\ AckedHeld' /\ ClearedIsOver'
    BY <2>1 DEF OpenHeld, AckedHeld, ClearedIsOver, Hopeful
  <2>5. TurnedAway'
    BY <2>1, <2>2 DEF TurnedAway
  <2> QED BY <2>1, <2>3, <2>4, <2>5
<1>4. CASE Fault(c)
  <2> DEFINE v == chan[c].victim
  <2>1. /\ chan[c].at = "fault" /\ chan' = [chan EXCEPT ![c].at = "clear"]
        /\ ack' = [r \in Requests |->
                     IF r \in pending[v] /\ ack[r] = "wait" THEN "fault" ELSE ack[r]]
        /\ data' = [r \in Requests |->
                      IF r \in dataChannels[v] /\ data[r] = "wait" THEN "fault" ELSE data[r]]
        /\ UNCHANGED <<env, current, conn, pc, agent, sock, pending, dataChannels>>
    BY <1>4 DEF Fault
  <2>2. v \in Channels /\ \A r \in Opens : r \in Requests
    BY <2>1, Constants DEF VictimIsChannel
  <2>3. \A r \in Opens : Hopeful(r)' => Hopeful(r)
    BY <2>1, <2>2 DEF Hopeful
  <2>4. \A r \in Opens : conn[r] # v => ack'[r] = ack[r] /\ data'[r] = data[r]
    BY <2>1, <2>2 DEF PlaceInv, OwnTables
  <2>5a. FreshData'
    BY <2>1, <2>2 DEF FreshData, PlaceInv, OwnTables
  <2>5. FreshData' /\ AckBeforeData'
    BY <2>1, <2>2, <2>5a DEF AckBeforeData
  <2>6. "overlap" \notin env => OpenHeld'
    <3>1. "overlap" \notin env => sock[v] # "open"
      BY <2>1 DEF PlaceInv, VictimClosed
    <3>2. ASSUME "overlap" \notin env, NEW r \in Opens, conn[r] # v, sock[conn[r]] = "open"
          PROVE  UNCHANGED <<pc[r], ack[r], data[r], agent[r], conn[r]>>
      BY <2>1, <2>4, <3>2
    <3>3. UNCHANGED <<conn, sock, pc, agent, pending, dataChannels>>
      BY <2>1
    <3> QED BY <3>1, <3>2, <3>3 DEF OpenHeld
  <2>7. ASSUME "overlap" \notin env, NEW r \in Opens, agent[r] = "acked", conn[r] = v
        PROVE  ~Hopeful(r)'
    <3> SUFFICES ASSUME Hopeful(r) PROVE ~Hopeful(r)'
      BY <2>3
    <3>1. /\ r \in dataChannels[v] /\ data[r] = "wait"
          /\ ack[r] = "wait" => r \in pending[v]
      BY <2>2, <2>7 DEF AckedHeld
    <3>2. data'[r] = "fault" /\ ack'[r] # "wait"
      BY <2>1, <2>2, <3>1
    <3>3. pc'[r] = "data" => ack'[r] = "ok"
      BY <2>5 DEF AckBeforeData
    <3> QED BY <3>2, <3>3 DEF Hopeful
  <2>8. "overlap" \notin env => AckedHeld'
    BY <2>1, <2>2, <2>3, <2>4, <2>7 DEF AckedHeld
  <2>9. "overlap" \notin env => ClearedIsOver'
    BY <2>1, <2>3, <2>7 DEF ClearedIsOver
  <2>10. "overlap" \notin env => TurnedAway'
    BY <2>1, <2>3 DEF TurnedAway
  <2> QED BY <2>1, <2>5, <2>6, <2>8, <2>9, <2>10
<1>5. CASE Clear(c)
  <2> DEFINE v == chan[c].victim
  <2>1. /\ chan[c].at = "clear" /\ chan'[c].at \in {"gone", "register"}
        /\ \A d \in Channels \ {c} : chan'[d] = chan[d]
        /\ pending' = [pending EXCEPT ![v] = {}]
        /\ dataChannels' = [dataChannels EXCEPT ![v] = {}]
        /\ UNCHANGED <<env, current, conn, pc, ack, data, agent, sock>>
    BY <1>5 DEF Clear
  <2>2. v \in Channels
    BY <2>1 DEF VictimIsChannel
  <2>3. FreshData' /\ AckBeforeData'
    BY <2>1 DEF FreshData, AckBeforeData
  <2>4. "overlap" \notin env => OpenHeld'
    BY <2>1, <2>2 DEF OpenHeld, PlaceInv, VictimClosed
  <2>5. "overlap" \notin env => AckedHeld'
    BY <2>1, <2>2 DEF AckedHeld, ClearedIsOver, Hopeful
  <2>6. "overlap" \notin env => ClearedIsOver' /\ TurnedAway'
    BY <2>1 DEF ClearedIsOver, TurnedAway, Hopeful
  <2> QED BY <2>1, <2>3, <2>4, <2>5, <2>6
<1> QED BY <1>1, <1>2, <1>3, <1>4, <1>5 DEF ChannelStep

\* What a step of request q leaves alone: everything of the other requests, and what it does
\* to the tables does not concern them.
OthersKept(q) ==
  /\ UNCHANGED <<env, current, chan>>
  /\ \A r \in Requests \ {q} : UNCHANGED <<pc[r], conn[r], ack[r], data[r], agent[r]>>
  /\ \A r \in Requests \ {q}, c \in Channels :
       /\ r \in pending'[c] <=> r \in pending[c]
       /\ r \in dataChannels'[c] <=> r \in dataChannels[c]
  /\ \A c \in Channels : sock'[c] = "open" => sock[c] = "open"

\* HeldInv of one request.
HeldBy(r) ==
  /\ pc[r] \in {"idle", "register"} => data[r] = "wait"
  /\ pc[r] = "data" => ack[r] = "ok"
  /\ "overlap" \notin env =>
       /\ \A c \in Channels :
            /\ /\ pc[r] \in {"pend", "send", "reply"} /\ conn[r] = c /\ sock[c] = "open"
               /\ agent[r] \in {"none", "asked", "reached"}
               => /\ r \in dataChannels[c] /\ data[r] = "wait"
                  /\ pc[r] \in {"send", "reply"} /\ ack[r] = "wait" => r \in pending[c]
            /\ agent[r] = "acked" /\ Hopeful(r) /\ conn[r] = c =>
                 /\ r \in dataChannels[c] /\ data[r] = "wait"
                 /\ ack[r] = "wait" => r \in pending[c]
            /\ chan[c].at = "clear" /\ agent[r] = "acked" /\ conn[r] = chan[c].victim =>
                 ~Hopeful(r)
       /\ agent[r] = "turnedAway" /\ Hopeful(r) => conn[r] # current

HeldByAll == \A r \in Opens : HeldBy(r)

\* HeldInv is that of every open-tcp.
LEMMA HeldParts == HeldInv <=> HeldByAll
<1> USE DEF HeldByAll
<1>1. FreshData /\ AckBeforeData <=>
        \A r \in Opens : /\ pc[r] \in {"idle", "register"} => data[r] = "wait"
                         /\ pc[r] = "data" => ack[r] = "ok"
  BY DEF FreshData, AckBeforeData
<1>2. CASE "overlap" \in env
  BY <1>1, <1>2 DEF HeldInv, HeldBy
<1>3. CASE "overlap" \notin env
  <2>1. HeldInv => \A r \in Opens : HeldBy(r)
    BY <1>1, <1>3 DEF HeldInv, HeldBy, OpenHeld, AckedHeld, ClearedIsOver, TurnedAway
  <2>2. (\A r \in Opens : HeldBy(r)) => OpenHeld /\ AckedHeld
    BY <1>3 DEF HeldBy, OpenHeld, AckedHeld
  <2>3. (\A r \in Opens : HeldBy(r)) => ClearedIsOver /\ TurnedAway
    BY <1>3 DEF HeldBy, ClearedIsOver, TurnedAway
  <2> QED BY <1>1, <2>1, <2>2, <2>3 DEF HeldInv, HeldBy
<1> QED BY <1>2, <1>3

\* A step of one request keeps HeldInv if it keeps its own part.
LEMMA HeldKept ==
  ASSUME HeldInv, NEW q \in Requests, OthersKept(q), q \in Opens => HeldBy(q)'
  PROVE  HeldInv'
<1>1. ASSUME NEW r \in Opens, r # q PROVE HeldBy(r)'
  <2>1. HeldBy(r) /\ r \in Requests
    BY HeldParts, Constants DEF HeldByAll
  <2>2. Hopeful(r)' <=> Hopeful(r)
    BY <1>1, <2>1 DEF Hopeful, OthersKept
  <2> QED BY <1>1, <2>1, <2>2 DEF HeldBy, OthersKept
<1>2. HeldByAll'
  BY <1>1 DEF HeldByAll
<1> QED BY <1>2, HeldParts, PTL

\* A step of a request keeps HeldInv.
LEMMA RequestHeld ==
  ASSUME TypeInv, AckIsReal, PlaceInv, HeldInv,
         NEW q \in Requests, RequestStep(q) \/ Cancel(q) \/ Dispose(q)
  PROVE  HeldInv'
<1> USE DEF TypeInv, TypeOK, Goto
<1>1. SUFFICES OthersKept(q) /\ (q \in Opens => HeldBy(q)')
  BY HeldKept
<1>2. q \in Opens => HeldBy(q)
  BY HeldParts DEF HeldByAll
<1>3. CASE Begin(q)
  BY <1>2, <1>3 DEF Begin, OthersKept, HeldBy, Hopeful
<1>4. CASE RegisterDataChannel(q)
  <2>1. conn[q] \in Channels
    BY <1>4 DEF RegisterDataChannel, ConnIsChannel, Working
  <2> QED BY <1>2, <1>4, <2>1 DEF RegisterDataChannel, OthersKept, HeldBy, Hopeful, AckIsReal
<1>5. CASE AddPending(q)
  <2>1. conn[q] \in Channels
    BY <1>5 DEF AddPending, ConnIsChannel, Working
  <2> QED BY <1>2, <1>5, <2>1 DEF AddPending, OthersKept, HeldBy, Hopeful, AckIsReal
<1>6. CASE Send(q)
  BY <1>2, <1>6 DEF Send, OthersKept, HeldBy, Hopeful, AckIsReal
<1>7. CASE Reply(q)
  <2>1. conn[q] \in Channels
    BY <1>7 DEF Reply, ConnIsChannel, Working
  <2>2. OthersKept(q)
    BY <1>7, <2>1 DEF Reply, CancelDataChannel, OthersKept
  <2>3. q \in Opens => HeldBy(q)'
    BY <1>2, <1>7 DEF Reply, HeldBy, Hopeful, AckIsReal, Reached
  <2> QED BY <2>2, <2>3
<1>8. CASE Data(q)
  BY <1>2, <1>8 DEF Data, OthersKept, HeldBy, Hopeful
<1>9. CASE Timeout(q) \/ Cancel(q)
  BY <1>2, <1>9 DEF Timeout, Cancel, OthersKept, HeldBy, Hopeful
<1>10. CASE GiveUp(q)
  <2>1. conn[q] \in Channels
    BY <1>10 DEF GiveUp, ConnIsChannel, Working
  <2> QED BY <1>2, <1>10, <2>1 DEF GiveUp, CancelDataChannel, OthersKept, HeldBy, Hopeful
<1>11. CASE Dispose(q)
  BY <1>2, <1>11 DEF Dispose, OthersKept, HeldBy, Hopeful
<1> QED BY <1>3, <1>4, <1>5, <1>6, <1>7, <1>8, <1>9, <1>10, <1>11 DEF RequestStep

\* So does a step of the agent: it acks on an open channel only, whose tables still hold the
\* request, and the data channel of a hopeful request is found unless its channel is not the
\* current one.
LEMMA AgentHeld ==
  ASSUME TypeInv, AckIsReal, PlaceInv, HeldInv, NEW q \in Requests, AgentStep(q)
  PROVE  HeldInv'
<1> USE DEF TypeInv, TypeOK, Become
<1>1. SUFFICES OthersKept(q) /\ (q \in Opens => HeldBy(q)')
  BY HeldKept
<1>2. q \in Opens => HeldBy(q)
  BY HeldParts DEF HeldByAll
<1>3. CASE Dial(q)
  BY <1>2, <1>3 DEF Dial, OthersKept, HeldBy, Hopeful
<1>4. CASE SendAck(q)
  <2>1. OthersKept(q)
    BY <1>4 DEF SendAck, OthersKept
  <2>2. ASSUME q \in Opens, agent'[q] = "acked" PROVE HeldBy(q)'
    <3>1. /\ agent[q] = "reached" /\ sock[conn[q]] = "open"
          /\ UNCHANGED <<env, chan, current, conn, pc, ack, data, sock, pending, dataChannels>>
      BY <1>4, <2>2 DEF SendAck
    <3>2. ack[q] # "ok" /\ pc[q] # "data"
      BY <3>1 DEF AckIsReal, Reached
    <3>3. ASSUME Hopeful(q), "overlap" \notin env
          PROVE  /\ pc[q] = "reply" /\ conn[q] \in Channels
                 /\ q \in dataChannels[conn[q]] /\ data[q] = "wait" /\ q \in pending[conn[q]]
      <4>1. pc[q] = "reply" /\ ack[q] = "wait"
        BY <3>2, <3>3 DEF Hopeful
      <4>2. conn[q] \in Channels
        BY <4>1 DEF ConnIsChannel, Working
      <4>3. PICK c \in Channels : c = conn[q]
        BY <4>2
      <4>4. q \in dataChannels[c] /\ data[q] = "wait" /\ q \in pending[c]
        <5>1. HeldBy(q)
          BY <1>2, <2>2
        <5> HIDE DEF TypeInv, TypeOK
        <5> QED BY <3>1, <3>3, <4>1, <4>3, <5>1 DEF HeldBy
      <4> QED BY <4>1, <4>2, <4>3, <4>4
    <3>4. Hopeful(q)' <=> Hopeful(q)
      BY <3>1 DEF Hopeful
    <3>5. "overlap" \notin env =>
            \A c \in Channels : chan[c].at = "clear" /\ conn[q] = chan[c].victim => FALSE
      BY <3>1 DEF PlaceInv, VictimClosed
    <3> HIDE DEF TypeInv, TypeOK
    <3> QED BY <1>2, <2>2, <3>1, <3>2, <3>3, <3>4, <3>5 DEF HeldBy
  <2>3. ASSUME q \in Opens, agent'[q] # "acked" PROVE HeldBy(q)'
    BY <1>2, <1>4, <2>3 DEF SendAck, HeldBy, Hopeful
  <2> QED BY <2>1, <2>2, <2>3
<1>5. CASE TryAttachDataChannel(q)
  <2>1. q \in Offered => current \in Channels /\ q \in dataChannels[current]
    BY DEF Offered
  <2>2. OthersKept(q)
    BY <1>5, <2>1 DEF TryAttachDataChannel, OthersKept
  <2>3. /\ agent[q] = "acked" /\ agent'[q] \in {"tunnel", "turnedAway", "ended"}
        /\ UNCHANGED <<env, chan, current, conn, pc, ack>>
        /\ data'[q] # data[q] => data'[q] = "attached"
    BY <1>5 DEF TryAttachDataChannel
  <2>4. ASSUME q \in Opens, "overlap" \notin env, agent'[q] = "turnedAway", Hopeful(q)
        PROVE  conn[q] # current
    <3>1. conn[q] \in Channels
      BY <2>4 DEF Hopeful, ConnIsChannel, Working
    <3>2. q \in dataChannels[conn[q]] /\ data[q] = "wait"
      BY <1>2, <2>3, <2>4, <3>1 DEF HeldBy
    <3>3. conn[q] = current => q \in Offered
      BY <3>1, <3>2, Constants DEF Offered
    <3> QED BY <1>5, <2>4, <3>2, <3>3 DEF TryAttachDataChannel
  <2>5. Hopeful(q)' => Hopeful(q)
    BY <2>3 DEF Hopeful
  <2>6. q \in Opens => HeldBy(q)'
    BY <1>2, <2>3, <2>4, <2>5 DEF HeldBy, AckIsReal
  <2> QED BY <2>2, <2>6
<1> QED BY <1>3, <1>4, <1>5 DEF AgentStep

\* So does every step.
LEMMA StepHeld ==
  /\ TypeInv /\ OnlineIsServed /\ NewestInv /\ AckIsReal /\ PlaceInv /\ HeldInv /\ [Next]_vars
  => HeldInv'
<1> SUFFICES ASSUME TypeInv, OnlineIsServed, NewestInv, AckIsReal, PlaceInv, HeldInv,
                    [Next]_vars
             PROVE  HeldInv'
  OBVIOUS
<1>1. ASSUME NEW c \in Channels, Connect(c) \/ ChannelStep(c) PROVE HeldInv'
  BY <1>1, ChannelHeld
<1>2. ASSUME NEW r \in Requests, RequestStep(r) \/ Cancel(r) \/ Dispose(r) PROVE HeldInv'
  BY <1>2, RequestHeld
<1>3. ASSUME NEW r \in Requests, AgentStep(r) PROVE HeldInv'
  BY <1>3, AgentHeld
<1> USE DEF TypeInv, TypeOK
<1>4. ASSUME NEW c \in Channels, NEW q \in Requests, CompleteRequest(c, q) PROVE HeldInv'
  <2>1. SUFFICES OthersKept(q) /\ (q \in Opens => HeldBy(q)')
    BY HeldKept
  <2>2. q \in Opens => HeldBy(q)
    BY HeldParts DEF HeldByAll
  <2>3. OthersKept(q)
    BY <1>4 DEF CompleteRequest, OthersKept
  <2>4. /\ conn[q] = c /\ reply[q] \in {"ok", "refused"}
        /\ ack' = [ack EXCEPT ![q] =
                      IF q \in pending[c] /\ ack[q] = "wait" THEN reply[q] ELSE ack[q]]
        /\ UNCHANGED <<env, current, chan, pc, conn, data, agent, sock, dataChannels>>
    BY <1>4 DEF CompleteRequest
  <2>5. pending' = [pending EXCEPT ![c] = pending[c] \ {q}]
    BY <1>4 DEF CompleteRequest
  <2>6. ack'[q] = "wait" => q \notin pending[c]
    BY <2>4
  <2> QED BY <2>2, <2>3, <2>4, <2>5, <2>6 DEF HeldBy, Hopeful
<1>5. ASSUME NEW c \in Channels, Drop(c) \/ Notice(c) PROVE HeldInv'
  <2>1. /\ UNCHANGED <<env, current, chan, pc, conn, ack, data, pending, dataChannels>>
        /\ \A d \in Channels : sock'[d] = "open" => sock[d] = "open"
        /\ \A r \in Requests : agent'[r] \in {agent[r], "ended"}
    BY <1>5 DEF Drop, Notice
  <2>2. ASSUME NEW r \in Opens PROVE HeldBy(r)'
    <3>1. HeldBy(r) /\ r \in Requests
      BY HeldParts, Constants DEF HeldByAll
    <3> QED BY <2>1, <3>1 DEF HeldBy, Hopeful
  <2>3. HeldByAll'
    BY <2>2 DEF HeldByAll
  <2> QED BY <2>3, HeldParts, PTL
<1>6. CASE Freeze \/ UNCHANGED vars
  BY <1>6 DEF Freeze, vars, HeldInv, FreshData, AckBeforeData, OpenHeld, AckedHeld,
              ClearedIsOver, TurnedAway, Hopeful
<1> QED BY <1>1, <1>2, <1>3, <1>4, <1>5, <1>6 DEF Next

\* A data channel the agent dials for a request that still waits is found
\* (ConnectorHub.cs:170-180), unless the control channel it was asked for on has been closed
\* or replaced, if channels are registered one after the other.
THEOREM TurnedAwayOver == Spec => []TurnedAwayIsOver
<1>1. Init => OnlineIsServed /\ AckIsReal
  BY DEF Init, OnlineIsServed, AckIsReal
<1>2. Init => NewestInv
  BY DEF Init, NewestInv, OpenedInOrder, VictimIsOther, NewestRegisters, NewestServes,
         Registering
<1>3. Init => PlaceInv
  BY Constants DEF Init, PlaceInv, OlderClosed, ConnRegistered, OwnTables, VictimOpened,
                   VictimClosed
<1>4. Init => HeldInv
  BY Constants DEF Init, HeldInv, FreshData, AckBeforeData, OpenHeld, AckedHeld,
                   ClearedIsOver, TurnedAway
<1>5. AckIsReal /\ HeldInv => TurnedAwayIsOver
  BY Constants DEF AckIsReal, HeldInv, TurnedAway, AckBeforeData, Hopeful, Waiting,
                   TurnedAwayIsOver
<1> QED BY <1>1, <1>2, <1>3, <1>4, <1>5, InitTyped, StepTyped, StepServed, StepNewest,
           StepReal, StepPlace, StepHeld, PTL DEF Spec

\* Both together: what the gateway answers is what the agent did.
THEOREM AnswersReal == Spec => []AnswersAreReal
<1>1. SuccessIsReal /\ TurnedAwayIsOver => AnswersAreReal
  BY DEF AnswersAreReal
<1> QED BY <1>1, SuccessReal, TurnedAwayOver, PTL

\* In every state the registry is well formed, and the connection it names is one that
\* serves, the newest if that is open.
THEOREM RegistryIsConsistent == Spec => []RegistryConsistent
<1>1. TypeOK /\ NewestServes /\ OnlineIsServed => RegistryConsistent
  BY DEF RegistryConsistent
<1> QED BY <1>1, TypeCorrect, NewestServed, OnlineServed, PTL

=============================================================================
