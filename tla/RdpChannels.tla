----------------------------- MODULE RdpChannels -----------------------------
(***************************************************************************)
(* Virtual channels of the browser client (RdpProtocol in                  *)
(* wwwroot/lib/rdpweb/protocol.js): messages of the static channels, put   *)
(* together from chunks; device redirection, which redirects nothing but   *)
(* has to be set up for the host to offer sound; and the dynamic channels  *)
(* of drdynvc, whose ids the host uses again.                              *)
(*                                                                         *)
(* Every creation of a dynamic channel is an instance, numbered from 1.  A *)
(* chunk is a part of a message of one instance or static channel; what it *)
(* says is left out.                                                       *)
(***************************************************************************)
EXTENDS Integers, FiniteSets, Sequences, SequencesExt

CONSTANTS
  Ids,           \* dynamic channel ids
  MaxInstances,  \* how many dynamic channels the host creates
  MaxDown,       \* how many PDUs are on the way to the client
  Settings       \* each [names, messages, may]: what the host does

ChannelHazards ==
  { "splits",    \* the host sends messages in two chunks
    "copies",    \* it sends clipboard messages, of two chunks
    "noSetup",   \* it does not set up device redirection
    "closes",    \* it closes channels, also in the middle of a message
    "takesOver", \* it creates a channel on an id that is in use
    "noGfx" }    \* the graphics pipeline is turned off in the client

Roles  == {"display", "audio", "audin", "camEnum", "gfx"}
Names  == Roles \cup {"camDevice", "geometry", "other"}
Static == {"rdpdr", "cliprdr"}
NoName == "none"
NoId   == 0

SettingType == [names : SUBSET Names, messages : Nat, may : SUBSET ChannelHazards]

ASSUME ChannelsAssumption ==
  /\ NoId \notin Ids /\ MaxInstances \in Nat /\ MaxDown \in Nat
  /\ Settings \subseteq SettingType

Instances == 1..MaxInstances

VARIABLES
  setting,  \* the one of this behaviour
  byId,     \* dvcById: the name of the channel on an id
  role,     \* displayControlChannelId, audioDvcChannelId, ...
  handler,  \* rdpsnd, audin, camEnum, gfx: the instance a handler was made for
  cams,     \* camDevices: the instance of the device handler on an id
  camName,  \* camDeviceChannelName is known
  svc,      \* _svcReasm: the chunks of an unfinished message of a static channel
  reasm,    \* _dvcReasm: those of a dynamic channel
  zgfx,     \* _dvcZgfx: the last chunk that an id's context has inflated
  heard,    \* the messages given to the handler of a static channel
  got,      \* the messages given to the handler of an instance
  down, up, \* PDUs to the client and to the host
  host      \* the host's channels, and how far device redirection is set up

tables == <<byId, role, handler, cams>>
channelsVars == <<setting, tables, camName, svc, reasm, zgfx, heard, got, down, up, host>>

Given(h) == h \in setting.may

Idle == [name |-> NoName, inst |-> 0, st |-> "none", msg |-> 0, chunk |-> 0, half |-> FALSE]
Fresh == [inst |-> 0, chunk |-> 0]
SetupSteps == {"announce", "capability", "confirm", "logon", "ready"}

ChannelsTypeOK ==
  /\ setting \in SettingType
  /\ byId \in [Ids -> Names \cup {NoName}] /\ role \in [Roles -> Ids \cup {NoId}]
  /\ handler \in [Roles -> 0..MaxInstances] /\ cams \in [Ids -> 0..MaxInstances]
  /\ camName \in BOOLEAN
  /\ zgfx \in [Ids -> [inst : 0..MaxInstances, chunk : Nat]]
  /\ DOMAIN reasm = Ids /\ DOMAIN svc = Static /\ DOMAIN heard = Static /\ DOMAIN got = Instances
  /\ host.step \in SetupSteps /\ host.made \in 0..MaxInstances
  /\ \A i \in Ids : host.chan[i].st \in {"none", "asked", "open", "refused"}
  /\ \A r \in Roles \ {"display"} : handler[r] # 0 => role[r] # NoId

ChannelsInit ==
  /\ setting \in Settings
  /\ byId = [i \in Ids |-> NoName] /\ role = [r \in Roles |-> NoId]
  /\ handler = [r \in Roles |-> 0] /\ cams = [i \in Ids |-> 0] /\ camName = FALSE
  /\ svc = [s \in Static |-> <<>>] /\ reasm = [i \in Ids |-> <<>>]
  /\ zgfx = [i \in Ids |-> Fresh]
  /\ heard = [s \in Static |-> <<>>] /\ got = [n \in Instances |-> <<>>]
  /\ down = <<>> /\ up = <<>>
  /\ host = [chan |-> [i \in Ids |-> Idle], made |-> 0,
             step |-> "announce", sent |-> [s \in Static |-> 0]]

-----------------------------------------------------------------------------
(* The client: static channels.                                            *)

Send(kinds, id) == up' = up \o [k \in DOMAIN kinds |-> [kind |-> kinds[k], id |-> id]]

Takes(kind) ==
  /\ down # <<>> /\ Head(down).kind = kind
  /\ down' = Tail(down) /\ UNCHANGED <<setting, host>>

\* Mutant: the device list goes out with the capabilities.
DeviceRedirectionVariant(what) ==
  CASE what = "announce"   -> <<"announce-reply", "client-name">>
    [] what = "capability" -> <<"capability-reply", "device-list">>
    [] OTHER               -> <<>>

\* _onRdpdrData: the answers to the host's device redirection PDUs.
DeviceRedirection(what) ==
  CASE what = "announce"   -> <<"announce-reply", "client-name">>
    [] what = "capability" -> <<"capability-reply">>
    [] what = "logon"      -> <<"device-list">>
    [] OTHER               -> <<>>

\* _reassembleSvc, then the handler: a chunk that neither begins a message nor
\* continues one is dropped.
OnStatic ==
  /\ Takes("static")
  /\ LET c     == Head(down).channel
         part  == Head(down).part
         begun == IF part.no = 1 THEN <<part>> ELSE Append(svc[c], part)
         lost  == part.no > 1 /\ svc[c] = <<>>
         whole == ~lost /\ part.no = part.of
     IN /\ svc' = [svc EXCEPT ![c] =
                       IF part.of = 1 \/ lost THEN @ ELSE IF whole THEN <<>> ELSE begun]
        /\ heard' = IF whole THEN [heard EXCEPT ![c] = Append(@, begun)] ELSE heard
        /\ Send(IF whole /\ c = "rdpdr" THEN DeviceRedirection(part.msg) ELSE <<>>, NoId)
  /\ UNCHANGED <<tables, camName, reasm, zgfx, got>>

-----------------------------------------------------------------------------
(* The client: dynamic channels.                                           *)

Accepts(name) ==
  /\ name # "other"
  /\ name = "camDevice" => camName
  /\ name = "geometry"  => handler["gfx"] # 0

\* Mutant: the reference to Display Control is kept.
LosesDisplayVariant(id, name) == FALSE

\* A channel that is refused has taken the id of Display Control over.
LosesDisplay(id, name) == role["display"] = id /\ ~Accepts(name)

\* _dvcOnCreate: the answer, and the handler of an accepted channel.
OnCreate ==
  /\ Takes("create")
  /\ LET id == Head(down).id  name == Head(down).name  inst == Head(down).inst
         ok   == Accepts(name)
         gone == LosesDisplay(id, name)
         made == IF name = "gfx" /\ Given("noGfx") THEN 0 ELSE inst
     IN /\ Send(<<IF ok THEN "accept" ELSE "refuse">>, id)
        /\ byId' = IF ok THEN [byId EXCEPT ![id] = name]
                   ELSE IF gone THEN [byId EXCEPT ![id] = NoName] ELSE byId
        /\ role' = IF ok /\ name \in Roles THEN [role EXCEPT ![name] = id]
                   ELSE IF gone THEN [role EXCEPT !["display"] = NoId] ELSE role
        /\ handler' = IF ok /\ name \in Roles THEN [handler EXCEPT ![name] = made] ELSE handler
        /\ cams' = IF ok /\ name = "camDevice" THEN [cams EXCEPT ![id] = inst] ELSE cams
  /\ UNCHANGED <<camName, svc, reasm, zgfx, heard, got>>

\* Mutant: the chunks of an unfinished message stay.
ForgetVariant(id) == zgfx' = [zgfx EXCEPT ![id] = Fresh] /\ UNCHANGED reasm

Forget(id) == zgfx' = [zgfx EXCEPT ![id] = Fresh] /\ reasm' = [reasm EXCEPT ![id] = <<>>]

\* The handlers that are left when a channel goes.
Kept(id) == [r \in Roles |-> IF role[r] = id THEN 0 ELSE handler[r]]

\* _dvcOnClose.
OnClose ==
  /\ Takes("close")
  /\ LET id == Head(down).id
     IN /\ byId' = [byId EXCEPT ![id] = NoName]
        /\ role' = [r \in Roles |-> IF role[r] = id THEN NoId ELSE role[r]]
        /\ handler' = Kept(id)
        /\ cams' = [cams EXCEPT ![id] = 0]
        /\ Forget(id)
  /\ UNCHANGED <<camName, svc, heard, got, up>>

\* The handler that the data of an id goes to: the roles are asked in order,
\* Display Control without its own handler object.
HandlerOf(id) ==
  LET asked == <<"display", "audio", "audin", "camEnum">>
      k     == SelectInSeq(asked, LAMBDA r : role[r] = id /\ handler[r] # 0)
  IN IF k # 0 THEN handler[asked[k]]
     ELSE IF cams[id] # 0 THEN cams[id]
     ELSE IF role["gfx"] = id THEN handler["gfx"] ELSE 0

\* The compressor's history is the channel's: a chunk can be inflated when the
\* context has seen all chunks of the channel before it.
Inflatable(id, part) ==
  part.chunk = 1 \/ (zgfx[id].inst = part.inst /\ zgfx[id].chunk = part.chunk - 1)

Context(part, whole) == [inst |-> part.inst, chunk |-> part.chunk]

\* _dvcOnData.  Only a message of several chunks begins with DATA_FIRST, which
\* has the length; DATA goes to the message that was begun, if there is one.
\* The camera's enumerator announces the device once it is answered.
OnData ==
  /\ Takes("data")
  /\ LET id    == Head(down).id
         part  == Head(down).part
         parts == IF part.no = 1 /\ part.of > 1 THEN <<part>> ELSE Append(reasm[id], part)
         ok    == Inflatable(id, part)
         whole == ok /\ Len(parts) >= Head(parts).of
         h     == HandlerOf(id)
     IN /\ zgfx' = [zgfx EXCEPT ![id] = IF ok THEN Context(part, whole) ELSE @]
        /\ reasm' = [reasm EXCEPT ![id] = IF ok /\ ~whole THEN parts ELSE <<>>]
        /\ got' = IF whole /\ h # 0 THEN [got EXCEPT ![h] = Append(@, parts)] ELSE got
        /\ camName' = (camName \/ (whole /\ h # 0 /\ h = handler["camEnum"]))
  /\ UNCHANGED <<tables, svc, heard, up>>

Client == OnStatic \/ OnCreate \/ OnClose \/ OnData

-----------------------------------------------------------------------------
(* The host.                                                               *)

Emit(m) == Len(down) < MaxDown /\ down' = Append(down, m)
HostOnly == UNCHANGED <<tables, camName, svc, reasm, zgfx, heard, got>>

Part(inst, msg, no, of, chunk) ==
  [inst |-> inst, msg |-> msg, no |-> no, of |-> of, chunk |-> chunk]

\* Sound is offered when device redirection is set up; of the camera's device
\* channels there may be several.
Offers(name) ==
  /\ name \in setting.names
  /\ name = "audio" => host.step = "ready"
  /\ name = "camDevice" \/ \A i \in Ids : host.chan[i].name # name

HostCreates(id, name) ==
  /\ Offers(name) /\ host.made < MaxInstances
  /\ host.chan[id].st \in {"none", "refused"} \/ (host.chan[id].st = "open" /\ Given("takesOver"))
  /\ host' = [host EXCEPT !.made = @ + 1,
       !.chan[id] = [Idle EXCEPT !.name = name, !.inst = host.made + 1, !.st = "asked"]]
  /\ Emit([kind |-> "create", id |-> id, name |-> name, inst |-> host.made + 1])
  /\ HostOnly /\ UNCHANGED <<setting, up>>

\* A chunk: a message of one or two begins, or one ends.
HostWrites(id) ==
  LET c == host.chan[id] IN
  /\ c.st = "open"
  /\ \/ /\ c.half
        /\ Emit([kind |-> "data", id |-> id, part |-> Part(c.inst, c.msg, 2, 2, c.chunk + 1)])
        /\ host' = [host EXCEPT !.chan[id].chunk = @ + 1, !.chan[id].half = FALSE]
        /\ UNCHANGED setting
     \/ /\ ~c.half /\ setting.messages > 0
        /\ \E of \in IF Given("splits") THEN {1, 2} ELSE {1} :
             /\ Emit([kind |-> "data", id |-> id,
                      part |-> Part(c.inst, c.msg + 1, 1, of, c.chunk + 1)])
             /\ host' = [host EXCEPT !.chan[id].chunk = @ + 1, !.chan[id].msg = @ + 1,
                                     !.chan[id].half = (of = 2)]
        /\ setting' = [setting EXCEPT !.messages = @ - 1]
  /\ HostOnly /\ UNCHANGED up

HostClosesChannel(id) ==
  /\ host.chan[id].st = "open" /\ Given("closes")
  /\ host' = [host EXCEPT !.chan[id] = Idle]
  /\ Emit([kind |-> "close", id |-> id])
  /\ HostOnly /\ UNCHANGED <<setting, up>>

\* A step of device redirection, in one chunk or two; the confirmation of the
\* client's id has no answer.
HostRedirects ==
  /\ host.step # "ready" /\ host.sent["rdpdr"] < 2 /\ ~Given("noSetup")
  /\ LET no == host.sent["rdpdr"] + 1 IN
     \E of \in IF no = 2 THEN {2} ELSE {1, 2} :
       /\ of = 2 => Given("copies")
       /\ Emit([kind |-> "static", channel |-> "rdpdr", part |-> Part(0, host.step, no, of, 0)])
       /\ host' = IF no < of THEN [host EXCEPT !.sent["rdpdr"] = 1]
                  ELSE IF host.step = "confirm"
                  THEN [host EXCEPT !.step = "logon", !.sent["rdpdr"] = 0]
                  ELSE [host EXCEPT !.sent["rdpdr"] = 2]
  /\ HostOnly /\ UNCHANGED <<setting, up>>

\* The clipboard's messages go on between them.
HostCopies ==
  /\ Given("copies")
  /\ LET no == host.sent["cliprdr"] + 1
     IN /\ no = 2 \/ setting.messages > 0
        /\ Emit([kind |-> "static", channel |-> "cliprdr", part |-> Part(0, "copy", no, 2, 0)])
        /\ host' = [host EXCEPT !.sent["cliprdr"] = no % 2]
        /\ setting' = [setting EXCEPT !.messages = IF no = 1 THEN @ - 1 ELSE @]
  /\ HostOnly /\ UNCHANGED up

HostTakes ==
  /\ up # <<>> /\ up' = Tail(up)
  /\ LET kind == Head(up).kind  id == Head(up).id
         step(from, to) == IF host.step = from THEN [host EXCEPT !.step = to, !.sent["rdpdr"] = 0]
                           ELSE host
     IN host' = CASE kind = "accept"           -> [host EXCEPT !.chan[id].st = "open"]
                  [] kind = "refuse"           -> [host EXCEPT !.chan[id].st = "refused"]
                  [] kind = "client-name"      -> step("announce", "capability")
                  [] kind = "capability-reply" -> step("capability", "confirm")
                  [] kind = "device-list"      -> step("logon", "ready")
                  [] OTHER                     -> host
  /\ HostOnly /\ UNCHANGED <<setting, down>>

-----------------------------------------------------------------------------

Quiescent == up = <<>> /\ down = <<>>
ChannelsRest == Quiescent /\ UNCHANGED channelsVars

ChannelsNext ==
  \/ Client \/ HostRedirects \/ HostCopies \/ HostTakes
  \/ \E id \in Ids : HostWrites(id) \/ HostClosesChannel(id) \/ \E n \in Names : HostCreates(id, n)
  \/ ChannelsRest

ChannelsSpec == ChannelsInit /\ [][ChannelsNext]_channelsVars

\* What the socket delivers is taken, and the host goes on with the set-up.
FairChannelsSpec == ChannelsSpec /\ WF_channelsVars(Client) /\ WF_channelsVars(HostTakes) /\ SF_channelsVars(HostRedirects)

-----------------------------------------------------------------------------
(* Properties.                                                             *)

\* All parts of one message of one sender, in order.
IsMessage(parts, inst, msg) ==
  /\ Len(parts) = Head(parts).of
  /\ \A k \in DOMAIN parts : parts[k].inst = inst /\ parts[k].msg = msg /\ parts[k].no = k

\* Nothing is given to a handler but messages of its own channel, whole and in
\* order.
OnlyMessages ==
  /\ \A n \in Instances : \A k \in DOMAIN got[n] : IsMessage(got[n][k], n, k)
  /\ \A s \in Static : \A k \in DOMAIN heard[s] :
       IsMessage(heard[s][k], 0, heard[s][k][1].msg)

\* The channels that have a handler.
Served(name) == name \in Roles \cup {"camDevice"} /\ ~(name = "gfx" /\ Given("noGfx"))

\* With nothing on the way every message that was finished has been given.
AllMessages ==
  Quiescent => \A i \in Ids :
    LET c == host.chan[i]
    IN c.st = "open" /\ Served(c.name) => Len(got[c.inst]) = c.msg - (IF c.half THEN 1 ELSE 0)

\* Every handler is given the messages of its own channel, all of them, whole
\* and in order, however the chunks of the channels are mixed, and also when an
\* id had a channel before that was closed in the middle of a message.
Delivered == OnlyMessages /\ AllMessages

\* With nothing on the way, what the client holds for a role is a channel that
\* the host has under that name: Display Control layouts, sound and pictures go
\* to no other one ("otherwise we'd keep sending MONITOR_LAYOUT to a now-defunct
\* channel", _dvcOnCreate).
RolesMatch ==
  Quiescent => \A r \in Roles : role[r] # NoId => host.chan[role[r]].name = r

\* What is kept of the channels is of its types and of the host's channels.
ChannelsCoherent == ChannelsTypeOK /\ RolesMatch

\* The set-up of device redirection, without which the host offers no sound,
\* comes to its end ("which is what gates the AUDIO_PLAYBACK_DVC").
SoundIsOffered == Given("noSetup") \/ <>(host.step = "ready")

=============================================================================
