---------------------------- MODULE RdpConnection ----------------------------
(***************************************************************************)
(* The RDP connection of the browser client: RdpProtocol in                *)
(* wwwroot/lib/rdpweb/protocol.js, from MCS Connect Initial to the active  *)
(* session, its deactivation and reactivation, the size negotiated on the  *)
(* Display Control channel, and its end.  The relay carries PDUs in order  *)
(* both ways; the host is modelled from the PDUs the code expects.         *)
(*                                                                         *)
(* A step takes one whole PDU.  A chunk of the WebSocket may hold several  *)
(* or a part of one: feed then does several of these steps or none, and    *)
(* other steps between them only add behaviours.                           *)
(***************************************************************************)
EXTENDS Integers, FiniteSets, Sequences, SequencesExt

CONSTANTS
  NoSize,        \* no size is pending
  Channels,      \* static virtual channels, drdynvc among them
  Environments   \* each a record: what the host and the user do, see May

Hazards ==
  { "skipsJoin",       \* the host lets the client skip the channel joins
    "messageChannel",  \* it grants an MCS message channel
    "noLicence",       \* it sends Demand Active without a licence PDU
    "earlyDeactivate", \* it deactivates before its first Demand Active
    "midDeactivate",   \* it deactivates while the share is being finalized
    "redemands",       \* it demands active without deactivating
    "reactivates",     \* it deactivates when the layout changes
    "probes",          \* it measures the network
    "types",           \* the user types
    "displayCloses",   \* it closes the Display Control channel
    "ignoresScale",    \* it ignores a layout that changes only the scale
    "gfx",             \* graphics go over the graphics pipeline
    "scales",          \* the session is to have a scale of its own
    "slowSteps",       \* a step of the initial scale takes the host longer than 600 ms
    "early",           \* the user resizes while the session starts or reactivates
    "ends",            \* it ends the session with an error info PDU
    "dies" }           \* it ends the session with an ultimatum only

\* Desktop sizes, by one of their dimensions, with their scale factors.
Sizes == [res : Nat, scale : Nat]

ASSUME ConnectionAssumption ==
  /\ NoSize \notin Sizes /\ IsFiniteSet(Channels)
  /\ Environments \subseteq [may : SUBSET Hazards, shares : Nat, draws : Nat, resizes : Nat, size : Sizes]

VARIABLES
  env,       \* the environment, with what it still may do
  st,        \* state
  join,      \* joinQueue
  fin,       \* fin: the finalization PDUs received
  share,     \* shareID
  desk,      \* width and height, pendingWidth and -Height, _monitorLayoutSent
  again,     \* _reactivating
  display,   \* displayControlChannelId is set, displayControlActive
  page,      \* the callbacks made: onActive, onClose, the last onResize; output drawn and lost
  up,        \* PDUs to the host
  down,      \* PDUs to the client
  host       \* the host: phase, share, size, what it has sent and received

clientVars == <<st, join, fin, share, desk, again, display, page>>
connVars == <<env, clientVars, up, down, host>>

May(h) == h \in env.may

States == {"basic", "attach", "join", "licensing", "capabilities", "finalization",
           "active", "closed"}
Final  == {"sync", "coop", "granted", "fontmap"}

-----------------------------------------------------------------------------
(* PDUs.                                                                   *)

Up(kind, sh, size)   == [kind |-> kind, share |-> sh, size |-> size]
Down(kind, sh)       == [kind |-> kind, share |-> sh]
Just(kind)           == Up(kind, 0, NoSize)

Send(ms) == up' = up \o ms

ConnTypeOK ==
  /\ env \in [may : SUBSET Hazards, shares : Nat, draws : Nat, resizes : Nat, size : Sizes]
  /\ st \in States /\ join \in Seq({"user", "io", "message"} \cup Channels)
  /\ fin \in SUBSET Final /\ share \in Nat /\ again \in BOOLEAN
  /\ desk \in [size : Sizes, pending : Sizes \cup {NoSize}, sent : BOOLEAN]
  /\ display \in [open : BOOLEAN, caps : BOOLEAN]
  /\ page \in [active : Nat, closed : Nat, drawn : Nat, lost : SUBSET Nat, size : Sizes]
  /\ host \in [ph : {"mcs", "licence", "caps", "demanded", "finalizing", "active", "gone"},
               share : Nat, size : Sizes, drawn : Nat, probes : Nat, replies : Nat,
               display : {"none", "open", "ready"}]

\* Right after start(): Connect Initial is on its way.
ConnInit ==
  /\ env \in Environments
  /\ st = "basic" /\ join = <<>> /\ fin = {} /\ share = 0 /\ again = FALSE
  /\ desk = [size |-> env.size, pending |-> NoSize, sent |-> FALSE]
  /\ display = [open |-> FALSE, caps |-> FALSE]
  /\ page = [active |-> 0, closed |-> 0, drawn |-> 0, lost |-> {}, size |-> env.size]
  /\ up = <<Just("connect-initial")>> /\ down = <<>>
  /\ host = [ph |-> "mcs", share |-> 0, size |-> env.size, drawn |-> 0,
             probes |-> 0, replies |-> 0, display |-> "none"]

-----------------------------------------------------------------------------
(* The client takes a PDU.                                                 *)

Take(kind) ==
  /\ down # <<>> /\ Head(down).kind = kind
  /\ down' = Tail(down) /\ UNCHANGED <<env, host>>

Slow == {"licensing", "capabilities", "finalization", "active"}

OnConnectResponse ==
  /\ Take("connect-response") /\ st = "basic"
  /\ Send(<<Just("erect-domain"), Just("attach-user")>>)
  /\ st' = "attach"
  /\ UNCHANGED <<join, fin, share, desk, again, display, page>>

\* The channels to join; with skipChannelJoin there are none.
Joins == <<"user", "io">> \o SetToSeq(Channels)
         \o (IF May("messageChannel") THEN <<"message">> ELSE <<>>)

OnAttachUserConfirm ==
  /\ Take("attach-confirm") /\ st = "attach"
  /\ IF May("skipsJoin")
     THEN st' = "licensing" /\ Send(<<Just("client-info")>>) /\ UNCHANGED join
     ELSE st' = "join" /\ join' = Joins /\ Send(<<Just("join")>>)
  /\ UNCHANGED <<fin, share, desk, again, display, page>>

OnChannelJoinConfirm ==
  /\ Take("join-confirm") /\ st = "join"
  /\ join' = Tail(join)
  /\ IF Len(join) > 1
     THEN Send(<<Just("join")>>) /\ UNCHANGED st
     ELSE Send(<<Just("client-info")>>) /\ st' = "licensing"
  /\ UNCHANGED <<fin, share, desk, again, display, page>>

\* A licence PDU, whatever it says, ends the licensing phase; in later states
\* it is not understood.
OnLicensing ==
  /\ Take("licence") /\ st \in Slow
  /\ st' = IF st = "licensing" THEN "capabilities" ELSE st
  /\ UNCHANGED <<join, fin, share, desk, again, display, page, up>>

\* Confirm Active and the finalization PDUs; a reactivation does not wait for
\* the host's.
ConfirmActive(sh, re) ==
  /\ share' = sh /\ fin' = {} /\ again' = FALSE
  /\ Send(<<Up("confirm-active", sh, desk.size), Up("finalize", sh, NoSize)>>)
  /\ IF re THEN st' = "active" /\ page' = [page EXCEPT !.active = @ + 1]
           ELSE st' = "finalization" /\ UNCHANGED page

\* Demand Active outside the active state.  In the licensing phase its first
\* four bytes are taken for a security header and the rest is not recognised;
\* while finalizing it is no data PDU.
OnDemandActive ==
  /\ Take("demand-active") /\ st \in Slow \ {"active"}
  /\ IF st = "capabilities"
     THEN ConfirmActive(Head(down).share, again)
     ELSE /\ st' = IF st = "licensing" THEN "capabilities" ELSE st
          /\ UNCHANGED <<fin, share, again, page, up>>
  /\ UNCHANGED <<join, desk, display>>

\* Mutant: a Demand Active of an active session is not answered.
OnRedemandVariant ==
  /\ Take("demand-active") /\ st = "active"
  /\ UNCHANGED <<clientVars, up>>

\* While active: a reactivation without Deactivate-All.
OnRedemand ==
  /\ Take("demand-active") /\ st = "active"
  /\ ConfirmActive(Head(down).share, TRUE)
  /\ UNCHANGED <<join, desk, display>>

\* One of the host's finalization PDUs: the last makes the session active;
\* after a reactivation they come when it is active already.
OnFinalization ==
  /\ st \in Slow
  /\ \E k \in Final :
       /\ Take(k)
       /\ IF st = "finalization"
          THEN /\ fin' = fin \cup {k}
               /\ st' = IF fin' = Final THEN "active" ELSE st
               /\ page' = IF fin' = Final THEN [page EXCEPT !.active = @ + 1] ELSE page
          ELSE UNCHANGED <<fin, st, page>>
  /\ UNCHANGED <<join, share, desk, again, display, up>>

\* _beginReactivation.
OnDeactivateAll ==
  /\ Take("deactivate-all") /\ st = "active"
  /\ st' = "capabilities" /\ again' = TRUE
  /\ IF desk.pending # NoSize
     THEN /\ desk' = [desk EXCEPT !.size = desk.pending, !.pending = NoSize]
          /\ page' = [page EXCEPT !.size = desk.pending]
     ELSE UNCHANGED <<desk, page>>
  /\ UNCHANGED <<join, fin, share, display, up>>

\* Before the capabilities it is absorbed; while finalizing it is ignored.
OnLostDeactivate ==
  /\ Take("deactivate-all") /\ st \in Slow \ {"active"}
  /\ st' = IF st = "licensing" THEN "capabilities" ELSE st
  /\ UNCHANGED <<join, fin, share, desk, again, display, page, up>>

\* _close.
Close ==
  /\ st' = "closed"
  /\ page' = IF st = "closed" THEN page ELSE [page EXCEPT !.closed = @ + 1]

\* It is read while finalizing and later; before, it is some data PDU.
OnErrorInfo ==
  /\ Take("error-info") /\ st \in Slow
  /\ IF st \in {"finalization", "active"}
     THEN Close
     ELSE st' = "capabilities" /\ UNCHANGED page
  /\ UNCHANGED <<join, fin, share, desk, again, display, up>>

\* Mutant: the ultimatum is looked for in the active session only.
OnUltimatumVariant ==
  /\ Take("ultimatum")
  /\ IF st = "active" THEN Close ELSE UNCHANGED <<st, page>>
  /\ UNCHANGED <<join, fin, share, desk, again, display, up>>

\* MCS Disconnect Provider Ultimatum: recognised once channels are joined.
OnUltimatum ==
  /\ Take("ultimatum")
  /\ IF st \in Slow THEN Close ELSE UNCHANGED <<st, page>>
  /\ UNCHANGED <<join, fin, share, desk, again, display, up>>

\* Mutant: a measurement while licensing is taken for a licence PDU.
OnAutoDetectVariant ==
  /\ Take("probe") /\ st \in Slow
  /\ IF st = "licensing"
     THEN st' = "capabilities" /\ UNCHANGED up
     ELSE Send(<<Just("probe-reply")>>) /\ UNCHANGED st
  /\ UNCHANGED <<join, fin, share, desk, again, display, page>>

\* A network measurement, in any state after Client Info.
OnAutoDetect ==
  /\ Take("probe") /\ st \in Slow
  /\ Send(<<Just("probe-reply")>>)
  /\ UNCHANGED clientVars

Renders == st \in {"finalization", "active"}

\* connected of the page: onUpdate returns until the first onActive.
Connected == page.active > 0

\* _handleFastPath and onUpdate; of output that is dropped the page is missing
\* what the host drew after the share the PDU names.
OnFastPath ==
  /\ Take("output")
  /\ page' = IF Renders /\ Connected THEN [page EXCEPT !.drawn = @ + 1]
             ELSE [page EXCEPT !.lost = @ \cup {Head(down).share}]
  /\ UNCHANGED <<st, join, fin, share, desk, again, display, up>>

\* The Display Control channel is created, announces its capabilities, closes.
OnDisplayCreate ==
  /\ Take("display-create") /\ st \in Slow
  /\ display' = [display EXCEPT !.open = TRUE]
  /\ UNCHANGED <<st, join, fin, share, desk, again, page, up>>

OnDisplayCaps ==
  /\ Take("display-caps") /\ st \in Slow
  /\ display' = IF display.open THEN [display EXCEPT !.caps = TRUE] ELSE display
  /\ UNCHANGED <<st, join, fin, share, desk, again, page, up>>

OnDisplayClose ==
  /\ Take("display-close") /\ st \in Slow
  /\ display' = [display EXCEPT !.open = FALSE]
  /\ UNCHANGED <<st, join, fin, share, desk, again, page, up>>

\* After _close no slow-path PDU is looked at.
OnIgnored ==
  /\ st = "closed" /\ down # <<>> /\ Head(down).kind # "output"
  /\ down' = Tail(down) /\ UNCHANGED <<env, host, clientVars, up>>

Feed ==
  \/ OnConnectResponse \/ OnAttachUserConfirm \/ OnChannelJoinConfirm
  \/ OnLicensing \/ OnDemandActive \/ OnRedemand
  \/ OnFinalization \/ OnDeactivateAll \/ OnLostDeactivate
  \/ OnErrorInfo \/ OnUltimatum \/ OnAutoDetect \/ OnFastPath
  \/ OnDisplayCreate \/ OnDisplayCaps \/ OnDisplayClose \/ OnIgnored

-----------------------------------------------------------------------------
(* The page.                                                               *)

canResize == st = "active" /\ display.open /\ display.caps

\* The first layout is sent even when it changes nothing.
WorthSending(s) == ~desk.sent \/ s # desk.size

\* Mutant: the size in use changes only when the host reactivates.
SendMonitorLayoutVariant(s) ==
  IF WorthSending(s)
  THEN desk' = [desk EXCEPT !.pending = s, !.sent = TRUE] /\ Send(<<Up("layout", 0, s)>>)
  ELSE UNCHANGED <<desk, up>>

\* sendMonitorLayout.
SendMonitorLayout(s) ==
  IF WorthSending(s)
  THEN desk' = [size |-> s, pending |-> s, sent |-> TRUE] /\ Send(<<Up("layout", 0, s)>>)
  ELSE UNCHANGED <<desk, up>>

\* sendInputEvent, sendInputSync and sendRefreshRect: the page has input.
SendInput ==
  /\ st = "active" /\ May("types") /\ ~ \E i \in DOMAIN up : up[i].kind = "input"
  /\ Send(<<Up("input", share, NoSize)>>)
  /\ UNCHANGED <<env, clientVars, down, host>>

-----------------------------------------------------------------------------
(* The host.                                                               *)

Emit(ms) == down' = down \o ms

HostTakes(kind) ==
  /\ up # <<>> /\ Head(up).kind = kind /\ up' = Tail(up)
  /\ UNCHANGED clientVars

HostReplies(kind, reply) ==
  /\ HostTakes(kind) /\ Emit(reply) /\ UNCHANGED <<env, host>>

HostClientInfo ==
  /\ HostTakes("client-info")
  /\ host' = [host EXCEPT !.ph = "licence"]
  /\ UNCHANGED <<env, down>>

HostConfirmed ==
  /\ HostTakes("confirm-active")
  /\ host' = IF host.ph = "demanded" /\ Head(up).share = host.share
             THEN [host EXCEPT !.ph = "finalizing"] ELSE host
  /\ UNCHANGED <<env, down>>

HostFinalized ==
  /\ HostTakes("finalize")
  /\ IF host.ph = "finalizing" /\ Head(up).share = host.share
     THEN /\ host' = [host EXCEPT !.ph = "active"]
          /\ Emit([i \in 1..4 |-> Down(<<"sync", "coop", "granted", "fontmap">>[i], 0)])
     ELSE UNCHANGED <<host, down>>
  /\ UNCHANGED env

\* A layout is applied, by a reactivation if the host works that way.
HostLayout ==
  /\ HostTakes("layout")
  /\ LET size    == Head(up).size
         ignored == May("ignoresScale") /\ size.res = host.size.res
         applied == host.display # "none" /\ host.ph # "gone" /\ ~ignored
         re      == applied /\ May("reactivates") /\ host.ph = "active" /\ env.shares > 0
     IN /\ host' = [host EXCEPT !.size = IF applied THEN size ELSE @,
                                !.ph = IF re THEN "caps" ELSE @]
        /\ Emit(IF re THEN <<Down("deactivate-all", 0)>> ELSE <<>>)
  /\ UNCHANGED env

HostProbed ==
  /\ HostTakes("probe-reply")
  /\ host' = [host EXCEPT !.replies = @ + 1]
  /\ UNCHANGED <<env, down>>

HostReceives ==
  \/ HostReplies("connect-initial", <<Down("connect-response", 0)>>)
  \/ HostReplies("erect-domain", <<>>)
  \/ HostReplies("attach-user", <<Down("attach-confirm", 0)>>)
  \/ HostReplies("join", <<Down("join-confirm", 0)>>)
  \/ HostReplies("input", <<>>)
  \/ HostClientInfo \/ HostConfirmed \/ HostFinalized \/ HostLayout \/ HostProbed

HostSends(ms) == Emit(ms) /\ UNCHANGED <<clientVars, up>>

HostLicenses ==
  /\ host.ph = "licence" /\ host.probes = host.replies
  /\ host' = [host EXCEPT !.ph = "caps"]
  /\ HostSends(IF May("noLicence") THEN <<>> ELSE <<Down("licence", 0)>>)
  /\ UNCHANGED env

\* A share is demanded when every measurement has been answered.
HostDemands ==
  /\ host.ph = "caps" /\ env.shares > 0 /\ host.probes = host.replies
  /\ host' = [host EXCEPT !.ph = "demanded", !.share = @ + 1]
  /\ env' = [env EXCEPT !.shares = @ - 1]
  /\ HostSends(<<Down("demand-active", host'.share)>>)

\* The phases in which the host may deactivate, leaving a share to demand.
Deactivable ==
  \/ host.ph = "active"
  \/ host.ph = "caps" /\ host.share = 0 /\ May("earlyDeactivate")
  \/ host.ph = "finalizing" /\ May("midDeactivate")

HostDeactivates ==
  /\ Deactivable /\ env.shares > 0
  /\ host' = [host EXCEPT !.ph = "caps"]
  /\ env' = [env EXCEPT !.may = @ \ {"earlyDeactivate"}]
  /\ HostSends(<<Down("deactivate-all", 0)>>)

HostRedemands ==
  /\ host.ph = "active" /\ May("redemands") /\ env.shares > 0
  /\ host' = [host EXCEPT !.ph = "demanded", !.share = @ + 1]
  /\ env' = [env EXCEPT !.shares = @ - 1]
  /\ HostSends(<<Down("demand-active", host'.share)>>)

\* The last share that the host has finalized, 0 before the first.
LastFinalized == IF host.ph = "active" THEN host.share ELSE host.share - 1

HostDraws ==
  /\ host.ph \in {"finalizing", "active"} /\ env.draws > 0
  /\ host' = [host EXCEPT !.drawn = @ + 1]
  /\ env' = [env EXCEPT !.draws = @ - 1]
  /\ HostSends(<<Down("output", LastFinalized)>>)

HostProbes ==
  /\ host.ph \in {"licence", "caps", "active"} /\ May("probes") /\ host.probes < 2
  /\ host' = [host EXCEPT !.probes = @ + 1]
  /\ HostSends(<<Down("probe", 0)>>) /\ UNCHANGED env

\* The channel is opened and, a bounded number of times, closed again.
HostDisplay ==
  /\ host.ph = "active"
  /\ \/ /\ host.display = "none" /\ (env.resizes > 0 \/ May("scales"))
        /\ host' = [host EXCEPT !.display = "open"]
        /\ HostSends(<<Down("display-create", 0)>>) /\ UNCHANGED env
     \/ /\ host.display = "open"
        /\ host' = [host EXCEPT !.display = "ready"]
        /\ HostSends(<<Down("display-caps", 0)>>) /\ UNCHANGED env
     \/ /\ host.display = "ready" /\ May("displayCloses") /\ env.draws > 0
        /\ host' = [host EXCEPT !.display = "none"]
        /\ env' = [env EXCEPT !.draws = @ - 1]
        /\ HostSends(<<Down("display-close", 0)>>)

HostEnds ==
  /\ host.ph \notin {"mcs", "gone"}
  /\ \/ May("ends") /\ HostSends(<<Down("error-info", 0), Down("ultimatum", 0)>>)
     \/ May("dies") /\ HostSends(<<Down("ultimatum", 0)>>)
  /\ host' = [host EXCEPT !.ph = "gone"]
  /\ UNCHANGED env

-----------------------------------------------------------------------------

\* Neither side has anything to say.
Quiescent == up = <<>> /\ down = <<>>

HostNext ==
  \/ HostReceives \/ HostLicenses \/ HostDemands
  \/ HostDeactivates \/ HostRedemands \/ HostDraws \/ HostProbes
  \/ HostDisplay \/ HostEnds

-----------------------------------------------------------------------------
(* Properties.                                                             *)

\* With nothing on the way both sides agree on whether the session is active
\* and on its share, after any chain of deactivations and demands.
EndsAgree ==
  Quiescent => /\ (st = "active") <=> (host.ph = "active")
               /\ st = "active" => share = host.share

\* With nothing on the way the size the client works with is the host's, and
\* the page was told it when the host reactivates for a layout ("adopt the new
\* size as current", sendMonitorLayout), unless a layout met a closed channel or
\* changes only what the host ignores.
SizesAgree ==
  Quiescent /\ st = "active" /\ ~May("displayCloses") =>
    /\ IF May("ignoresScale") THEN desk.size.res = host.size.res ELSE desk.size = host.size
    /\ May("reactivates") /\ desk.pending = NoSize => page.size.res = host.size.res

\* Nothing is lost of what the host draws once the session has been active, also
\* while a later share is being finalized and between the shares (comment in
\* _handleFastPath: dropping it makes the screen freeze after a resize).
LaterOutputDrawn == st # "closed" => page.lost \subseteq {0}

\* Output is rendered as soon as Confirm Active was sent ("Render once we've sent
\* Confirm Active (FINALIZATION) or are fully ACTIVE", _handleFastPath).
NoOutputLost == st # "closed" => page.lost = {}

\* onClose is called once, whatever the host sends at the end.
CloseOnce == page.closed = (IF st = "closed" THEN 1 ELSE 0)

\* The page is told that the session is active once for every share that it
\* confirmed, except one that is still being finalized.
ActiveOncePerShare ==
  LET finalizing == \/ st = "finalization"
                    \/ st = "closed" /\ share = 1 /\ fin # Final
  IN page.active = IF finalizing THEN share - 1 ELSE share

\* The session becomes active, and again after every deactivation, or ends
\* ("otherwise it waits forever for our Confirm Active", _onActiveSlowPath;
\* "treat anything that isn't a license packet as the start of the
\* capabilities exchange", _onLicensing).
ReachesActive == []<>(st \in {"active", "closed"})

\* The end of the session is reported, in whatever state it meets the client.
EndReported == host.ph = "gone" ~> page.closed = 1

=============================================================================
