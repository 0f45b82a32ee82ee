--------------------------- MODULE SideChannelsProofs ---------------------------
(***************************************************************************)
(* Proofs about SideChannels, for any texts, formats and environments.     *)
(*                                                                         *)
(* The five redirections share nothing but the environment, the link and,  *)
(* for the mouse, the state of the keyboard's session; each has an         *)
(* invariant of its own, which the steps of the others leave alone.        *)
(***************************************************************************)
EXTENDS SideChannels, SequenceTheorems, TLAPS

-----------------------------------------------------------------------------
(* The environment.                                                        *)

LinkInv == env \in EnvironmentType /\ link \in {"up", "down", "left"}

\* What no step changes of the environment.
SameMay == env'.may = env.may /\ env'.keys = env.keys

\* A step of one redirection leaves the link alone.
SameLink == SameMay /\ link' = link

LEMMA LinkInit == Init => LinkInv
BY SessionAssumption DEF Init, LinkInv

LEMMA LinkClip ==
  ASSUME LinkInv, ClipNext
  PROVE  LinkInv' /\ SameLink
<1> USE DEF LinkInv, SameLink, SameMay, EnvironmentType
<1>0. UNCHANGED <<env, link>> => LinkInv' /\ SameLink
  OBVIOUS
<1>1. CASE ClientTakes
  BY <1>1, <1>0 DEF ClientTakes, OnMonitorReady, OnFormatList, OnFormatDataRequest,
     OnFormatDataResponse
<1>2. CASE Return \/ ReadThen \/ WriteThen \/ HostTakes
  <2>1. UNCHANGED <<env, link>>
    BY <1>2, Zenon DEF Return, ReadThen, WriteThen, HostTakes
  <2> QED
    BY <1>0, <2>1
<1>3. CASE HostPastes
  <2>1. env' = [env EXCEPT !.pastes = @ - 1] /\ env.pastes > 0 /\ UNCHANGED link
    BY <1>3 DEF HostPastes
  <2> QED
    BY <2>1
<1>4. ASSUME NEW t \in Texts, UserSends(t) PROVE LinkInv' /\ SameLink
  <2>1. /\ env' = [env EXCEPT !.pastes = @ - 1,
                             !.texts = IF May("repeats") THEN @ ELSE @ \ {t}]
    BY <1>4 DEF UserSends
  <2>4. env.pastes > 0 /\ UNCHANGED link
    BY <1>4 DEF UserSends
  <2>2. (IF May("repeats") THEN env.texts ELSE env.texts \ {t}) \in SUBSET Texts
    OBVIOUS
  <2>3. PICK T \in SUBSET Texts : env' = [env EXCEPT !.pastes = @ - 1, !.texts = T]
    BY <2>1, <2>2, Zenon
  <2>5. env.pastes - 1 \in Nat
    BY <2>4
  <2>6. env' \in EnvironmentType
    BY <2>3, <2>5
  <2>7. SameMay
    BY <2>3
  <2> QED
    BY <2>4, <2>6, <2>7
<1>5. ASSUME NEW t \in Texts, CopyElsewhere(t) PROVE LinkInv' /\ SameLink
  BY <1>5 DEF CopyElsewhere, Used
<1>6. ASSUME NEW t \in Texts, NEW k \in Kinds, HostCopies(t, k) PROVE LinkInv' /\ SameLink
  BY <1>6 DEF HostCopies, Used
<1> QED
  BY <1>1, <1>2, <1>3, <1>4, <1>5, <1>6 DEF ClipNext

LEMMA LinkMic ==
  ASSUME LinkInv, MicNext
  PROVE  LinkInv' /\ SameLink /\ env'.texts = env.texts
<1> USE DEF LinkInv, SameLink, SameMay, EnvironmentType
<1>1. CASE HostCreates
  BY <1>1 DEF HostCreates
<1>2. CASE ~HostCreates
  BY <1>2 DEF MicNext, MicGranted, MicDenied, MicBlock, HostOffers, HostClosesMic, Loaded, HostOpens
<1> QED
  BY <1>1, <1>2

LEMMA LinkSound ==
  ASSUME LinkInv, SoundNext
  PROVE  LinkInv' /\ SameLink /\ env'.texts = env.texts
<1> USE DEF LinkInv, SameLink, SameMay, EnvironmentType
<1>1. CASE ClientHears
  BY <1>1 DEF ClientHears, OnServerFormats, OnTraining, OnWaveInfo, OnWave2, OnWaveBody,
              SoundDropped, OnAudioChannel, Handled, TakesSound
<1>2. CASE HostHears \/ Tick \/ PrimeAudio
  <2>1. UNCHANGED <<env, link>>
    BY <1>2, Zenon DEF HostHears, Tick, PrimeAudio
  <2> QED
    BY <2>1
<1>5. CASE HostMovesSound
  <2>1. /\ \/ env' = [env EXCEPT !.opens = @ - 1] /\ env.opens > 0
           \/ env' = env
        /\ UNCHANGED link
    BY <1>5 DEF HostMovesSound
  <2> QED
    BY <2>1
<1>3. ASSUME NEW o \in Offers, HostOffersSound(o) PROVE LinkInv' /\ SameLink /\ env'.texts = env.texts
  <2>1. env' = [env EXCEPT !.opens = @ - 1] /\ env.opens > 0 /\ UNCHANGED link
    BY <1>3 DEF HostOffersSound
  <2> QED
    BY <2>1
<1>4. ASSUME NEW f \in DOMAIN source.agreed, HostSends(f) PROVE UNCHANGED <<env, link>>
  BY <1>4, Zenon DEF HostSends
<1> QED
  BY <1>1, <1>2, <1>3, <1>4, <1>5 DEF SoundNext

LEMMA LinkKeys ==
  ASSUME LinkInv, KeyNext
  PROVE  LinkInv' /\ SameLink /\ env'.texts = env.texts
<1> USE DEF LinkInv, SameLink, SameMay, EnvironmentType
<1>1. CASE PageHandles \/ SendCtrlAltDel \/ Elapse \/ FocusMoves \/ OverlayMoves
  <2>1. CASE PageHandles \/ Elapse
    <3>1. UNCHANGED <<env, link>>
      BY <2>1, Zenon DEF PageHandles, Elapse
    <3> QED
      BY <3>1
  <2>2. CASE SendCtrlAltDel
    BY <2>2 DEF SendCtrlAltDel
  <2>3. CASE FocusMoves \/ OverlayMoves
    BY <2>3 DEF FocusMoves, OverlayMoves
  <2> QED
    BY <1>1, <2>1, <2>2, <2>3
<1>2. ASSUME NEW k \in env.keys, Press(k) \/ Repeat(k) \/ Release(k)
      PROVE  LinkInv' /\ SameLink /\ env'.texts = env.texts
  BY <1>2 DEF Press, Repeat, Release, Stroke
<1> QED
  BY <1>1, <1>2 DEF KeyNext

LEMMA LinkPointer ==
  ASSUME LinkInv, PointerNext
  PROVE  LinkInv' /\ SameLink /\ env'.texts = env.texts
<1> USE DEF LinkInv, SameLink, SameMay, EnvironmentType
<1>1. ASSUME NEW p \in Places, MoveTo(p) PROVE LinkInv' /\ SameLink /\ env'.texts = env.texts
  BY <1>1 DEF MoveTo, Uses
<1>2. ASSUME NEW b \in Buttons, ButtonDown(b) \/ ButtonUp(b)
      PROVE  LinkInv' /\ SameLink /\ env'.texts = env.texts
  BY <1>2 DEF ButtonDown, ButtonUp, Uses
<1>3. ASSUME NEW p \in {0, 1, 400}, NEW n \in BOOLEAN, Wheel(p, n)
      PROVE  LinkInv' /\ SameLink /\ env'.texts = env.texts
  BY <1>3 DEF Wheel, Uses
<1>4. CASE Flush \/ MouseLeaves \/ Relayout \/ Announce \/ OnUpdate
  BY <1>4 DEF Flush, MouseLeaves, Relayout, Announce, OnUpdate, Uses
<1>5. ASSUME NEW u, NEW look, Points(u, look) PROVE LinkInv' /\ SameLink /\ env'.texts = env.texts
  <2>1. env' = [env EXCEPT !.pointers = @ - 1] /\ env.pointers > 0 /\ UNCHANGED link
    BY <1>5 DEF Points
  <2> QED
    BY <2>1
<1> QED
  BY <1>1, <1>2, <1>3, <1>4, <1>5 DEF PointerNext, HostShows, HostRecalls, HostHides

LEMMA LinkEnds ==
  ASSUME LinkInv, Ends, link' \in {"down", "left"}
  PROVE  LinkInv' /\ SameMay /\ env'.texts = env.texts
BY DEF LinkInv, Ends, SameMay, EnvironmentType

LEMMA LinkOthers ==
  ASSUME LinkInv, Drop \/ Redirect \/ Disconnect \/ StartProtocol \/ Activate \/ Reactivate
  PROVE  LinkInv' /\ SameMay /\ env'.texts = env.texts
<1>1. CASE Drop \/ Redirect \/ Disconnect
  BY <1>1, LinkEnds DEF Drop, Redirect, Disconnect
<1>2. CASE StartProtocol
  BY <1>2 DEF StartProtocol, LinkInv, SameMay
<1>3. CASE Activate \/ Reactivate
  BY <1>3 DEF Activate, OnActive, Reactivate, BeginReactivation, LinkInv, SameMay, EnvironmentType
<1> QED
  BY <1>1, <1>2, <1>3

LEMMA LinkNext ==
  ASSUME LinkInv, [Next]_vars
  PROVE  LinkInv' /\ SameMay
BY LinkClip, LinkMic, LinkSound, LinkKeys, LinkPointer, LinkOthers DEF vars, LinkInv, SameMay,
   Next, Rest, SameLink

\* What a step of no concern to a redirection leaves it.
Elsewhere == SameLink /\ env'.texts = env.texts

-----------------------------------------------------------------------------
(* The microphone.                                                         *)

\* A host that has opened the device is sent its format; a context belongs to a stream.
MicInv ==
  /\ MicTypeOK /\ SoundFits
  /\ audin.open # None => mic.fmt = audin.open /\ audin.channel
  /\ mic.loads \subseteq 1..mic.made
  /\ mic.ctx # 0 => mic.stream
  /\ mic.node => mic.stream

\* No redirection, and the session ends only when nobody is asked.
Asks == ~May("redirects") /\ ~May("endsAsked")

\* Then who is asked is asked in a session.
AskInv ==
  Asks => /\ mic.starting => Up
          /\ mic.stream => Up /\ audin.proto /\ audin.open # None

LEMMA MicInvInit == Init => MicInv /\ AskInv
BY SessionAssumption DEF Init, MicInit, MicInv, AskInv, MicTypeOK, SoundFits, NoAudin, Format0, None

LEMMA MicInvStep ==
  ASSUME LinkInv, MicInv, AskInv, MicNext
  PROVE  MicInv' /\ AskInv'
<1> USE DEF MicInv, AskInv, Asks, MicTypeOK, SoundFits, Format0, May, Up
<1>0. SameLink
  BY LinkMic
<1>1. CASE MicGranted
  <2>1. CASE MicWanted
    <3>1. /\ mic' = [mic EXCEPT !.starting = FALSE, !.stream = TRUE, !.made = @ + 1,
                                !.ctx = mic.made + 1, !.loads = @ \cup {mic.made + 1}]
          /\ UNCHANGED <<audin, blocks, link>> /\ mic.starting
      BY <1>1, <2>1 DEF MicGranted
    <3>2. audin.proto /\ audin.open # None
      BY <2>1 DEF MicWanted, MicFormat
    <3>3. mic.made + 1 \in Nat /\ 1..mic.made \subseteq 1..(mic.made + 1)
      OBVIOUS
    <3>4. MicTypeOK'
      BY <3>1, <3>3
    <3>5. /\ ~mic'.starting /\ mic'.stream /\ mic'.node = mic.node /\ mic'.fmt = mic.fmt
          /\ mic'.loads = mic.loads \cup {mic.made + 1} /\ mic'.made = mic.made + 1
      BY <3>1
    <3> QED
      BY <1>0, <3>1, <3>2, <3>3, <3>4, <3>5 DEF SameLink, SameMay
  <2>2. CASE ~MicWanted
    BY <1>0, <1>1, <2>2 DEF MicGranted, SameLink, SameMay
  <2> QED
    BY <2>1, <2>2
<1>2. CASE MicDenied
  BY <1>0, <1>2 DEF MicDenied, SameLink, SameMay
<1>3. CASE MicBlock
  BY <1>0, <1>3 DEF MicBlock, MicFormat, SameLink, SameMay
<1>4. CASE HostOffers
  BY <1>0, <1>4 DEF HostOffers, SameLink, SameMay
<1>8. CASE HostCreates
  BY <1>8, <1>0 DEF HostCreates, NoAudin, SameLink, SameMay
<1>5. CASE HostClosesMic
  BY <1>0, <1>5 DEF HostClosesMic, NoAudin, Released, SameLink, SameMay
<1>6. ASSUME NEW c \in mic.loads, Loaded(c) PROVE MicInv' /\ AskInv'
  <2>1. /\ c \in 1..mic.made
        /\ mic' = [mic EXCEPT !.loads = @ \ {c}, !.node = @ \/ c = mic.ctx]
        /\ UNCHANGED <<audin, blocks, link>>
    BY <1>6 DEF Loaded
  <2>2. /\ mic'.starting = mic.starting /\ mic'.stream = mic.stream /\ mic'.ctx = mic.ctx
        /\ mic'.made = mic.made /\ mic'.fmt = mic.fmt /\ mic'.loads = mic.loads \ {c}
    BY <2>1
  <2>3. mic'.node \in BOOLEAN /\ (mic'.node => mic.node \/ c = mic.ctx)
    BY <2>1
  <2>4. MicTypeOK'
    BY <2>1, <2>3
  <2>5. mic'.node => mic.stream
    BY <2>1, <2>3
  <2> QED
    BY <1>0, <2>1, <2>2, <2>4, <2>5 DEF SameLink, SameMay
<1>7. ASSUME NEW f \in Formats, HostOpens(f) PROVE MicInv' /\ AskInv'
  BY <1>7, SessionAssumption, <1>0 DEF HostOpens, StartMicCapture, SameLink, SameMay
<1> QED
  BY <1>1, <1>2, <1>3, <1>4, <1>5, <1>6, <1>7, <1>8 DEF MicNext

LEMMA MicInvNext ==
  ASSUME LinkInv, MicInv, AskInv, [Next]_vars
  PROVE  MicInv' /\ AskInv'
<1> USE DEF MicInv, AskInv, Asks, MicTypeOK, SoundFits, Format0, May, Up
<1>1. CASE MicNext
  BY <1>1, MicInvStep
<1>2. CASE UNCHANGED <<link, micVars>>
  BY <1>2, LinkNext DEF micVars, SameMay
<1>3. CASE Drop
  BY <1>3, LinkNext DEF Drop, Ends, Released, SameMay
<1>4. CASE Redirect
  BY <1>4, LinkNext DEF Redirect, Ends, NoAudin, SameMay
<1>5. CASE Disconnect
  BY <1>5, LinkNext DEF Disconnect, Ends, Released, SameMay
<1>6. CASE StartProtocol
  BY <1>6, LinkNext DEF StartProtocol, NoAudin, SameMay
<1>7. CASE Activate \/ Reactivate
  BY <1>2, <1>7 DEF Activate, Reactivate, OnActive, BeginReactivation
<1> QED
  BY <1>1, <1>2, <1>3, <1>4, <1>5, <1>6, <1>7, LinkClip, LinkSound, LinkKeys, LinkPointer
  DEF Next, Rest, vars, SameLink

-----------------------------------------------------------------------------

LinkMicInv == LinkInv /\ MicInv /\ AskInv

LEMMA MicInvariant == Spec => []LinkMicInv
<1>1. Init => LinkMicInv
  BY LinkInit, MicInvInit DEF LinkMicInv
<1>2. LinkMicInv /\ [Next]_vars => LinkMicInv'
  BY LinkNext, MicInvNext DEF LinkMicInv
<1> QED
  BY <1>1, <1>2, PTL DEF Spec

\* The microphone runs only while the host has it open in a present session, whatever
\* the user answers and when, unless the session is redirected or ends while the user
\* is asked.
THEOREM MicIsReleased == Spec => [](Asks => MicReleased)
<1>1. LinkMicInv => (Asks => MicReleased)
  BY DEF LinkMicInv, MicInv, AskInv, MicReleased
<1> QED
  BY <1>1, MicInvariant, PTL

-----------------------------------------------------------------------------
(* The clipboard: messages and what they are read as.                      *)

TextKinds == {"unicode", "ansi"}

Announcements == [kind : {"list"}, form : {None, "unicode"}, text : {None}]
Requests      == [kind : {"request"}, form : TextKinds, text : {None}]
ToHost   == Announcements \cup Requests
              \cup [kind : {"response"}, form : {None, "unicode"}, text : Text0]
ToClient == [kind : {"ready"}, form : {None}, text : {None}]
              \cup [kind : {"list"}, form : Kinds, text : {None}]
              \cup [kind : {"request"}, form : {"unicode"}, text : {None}]
              \cup [kind : {"response"}, form : TextKinds \cup {None}, text : Text0]

ClipTypes ==
  /\ clip \in [text : Text0, asked : TextKinds \cup {None}, last : Text0]
  /\ page \in [box : Text0, exchanged : Text0, reads : Seq(Text0), writes : Seq(Text0)]
  /\ local \in [text : Text0, focus : BOOLEAN]
  /\ host \in [open : BOOLEAN, owner : {"host", "client", None}, text : Text0,
               kind : Kinds, pasting : BOOLEAN]
  /\ up \in Seq(ToHost) /\ down \in Seq(ToClient)
  /\ ~Up => up = <<>> /\ down = <<>>

IsList(m) == m.kind = "list"
Answer(m) == m.kind = "response" /\ m.form # None

\* The j-th message is the last list before the i-th.
LastList(q, j, i) == IsList(q[j]) /\ \A k \in (j + 1)..(i - 1) : ~IsList(q[k])
NoList(q, i)      == \A k \in 1..(i - 1) : ~IsList(q[k])

\* When the client has taken what is before the i-th message, and asked for w by then, the
\* text it waits for, if any, is of kind f.
ReadAs(q, i, w, f) ==
  /\ \A j \in 1..(i - 1) : LastList(q, j, i) => q[j].form = f
  /\ NoList(q, i) => w \in {None, f} \/ f = "files"

\* Every answer is read as what it is, and so is the next one the host gives.
ReadInv ==
  Up => /\ ReadAs(down, Len(down) + 1, clip.asked, host.kind)
        /\ \A i \in 1..Len(down) : Answer(down[i]) => ReadAs(down, i, clip.asked, down[i].form)

-----------------------------------------------------------------------------
(* The clipboard: what a paste yields.                                     *)

\* No departure of ClipboardsAgree.
InStep == env.may \cap {"repeats", "mixes", "crosses", "redirects", "drops"} = {}

IsOffer(m) == m.kind = "list" /\ m.form = "unicode"
Announced  == \E i \in 1..Len(up) : IsOffer(up[i])

\* The clipboard is the client's, or will be.
Mine == host.owner = "client" \/ Announced

NoAnswer == \A i \in 1..Len(down) : ~Answer(down[i])

\* What the client sends is in the order that makes the last word the last one.
OrderInv ==
  /\ \A i \in 1..Len(up) : up[i].kind = "request" => up[i].form = "unicode"
  /\ \A i \in 1..Len(down) : IsList(down[i]) => down[i].form # "ansi"
  /\ \A i, j \in 1..Len(up) : j < i /\ IsOffer(up[i]) => up[j].kind # "request"
  /\ \A i \in 1..Len(up) : up[i].kind = "list" /\ ~IsOffer(up[i]) =>
       host.owner # "client" /\ \A j \in 1..(i - 1) : ~IsOffer(up[j])
  /\ \A i \in 1..Len(down) : down[i].kind = "ready" =>
       /\ i = 1 /\ (clip.text # None => page.box = clip.text)
       /\ \A j \in 1..Len(up) : up[j].kind # "request"
       /\ \A j \in 1..Len(down) : down[j].kind # "response"

MineInv == Mine => page.box = clip.text /\ clip.text # None /\ NoAnswer

\* Every answer after the last list is the host's text.
AllTheirs(q) ==
  \A i \in 1..Len(q) :
    q[i].kind = "response" /\ (\A k \in (i + 1)..Len(q) : ~IsList(q[k]))
      => Answer(q[i]) /\ q[i].text = host.text

\* The host's text is in the box, or on its way.
TheirsInv ==
  /\ host.owner = "host" /\ host.kind = "unicode" =>
       /\ AllTheirs(down)
       /\ NoList(down, Len(down) + 1) =>
            \/ Announced \/ page.box = host.text
            \/ /\ clip.asked # None
               /\ \/ \E i \in 1..Len(up) : up[i].kind = "request"
                  \/ \E i \in 1..Len(down) : down[i].kind = "response"
  /\ host.owner = None => NoAnswer /\ (Announced \/ page.box = None)
  /\ host.kind # "ansi"

\* Texts of the user, and texts of the host.
NotTheirs(t) ==
  /\ t \in Texts /\ t # clip.last /\ t # host.text
  /\ \A i \in 1..Len(down) : Answer(down[i]) => t # down[i].text

FreshInv ==
  /\ \A t \in env.texts : NotTheirs(t)
  /\ \A i \in 1..Len(page.reads) : NotTheirs(page.reads[i]) /\ page.reads[i] \notin env.texts
  /\ ~local.focus => NotTheirs(local.text) /\ local.text \notin env.texts

AgreeInv ==
  InStep => /\ link # "down"
            /\ FreshInv
            /\ Up => OrderInv /\ MineInv /\ TheirsInv


LEMMA Popped ==
  ASSUME NEW S, NEW q \in Seq(S), q # <<>>
  PROVE  /\ Len(q) \in Nat \ {0} /\ Head(q) = q[1] /\ Head(q) \in S
         /\ Tail(q) \in Seq(S) /\ Len(Tail(q)) = Len(q) - 1
         /\ \A i \in 1..Len(Tail(q)) : i + 1 \in 1..Len(q) /\ Tail(q)[i] = q[i + 1]
BY EmptySeq, HeadTailProperties

LEMMA Pushed ==
  ASSUME NEW S, NEW q \in Seq(S), NEW e \in S
  PROVE  /\ Append(q, e) \in Seq(S) /\ Len(Append(q, e)) = Len(q) + 1 /\ Len(q) \in Nat
         /\ \A i \in 1..Len(q) : Append(q, e)[i] = q[i]
         /\ Append(q, e)[Len(q) + 1] = e
BY AppendProperties, LenProperties

\* A message is taken.
LEMMA ReadTail ==
  ASSUME NEW S, NEW q \in Seq(S), q # <<>>, NEW i \in 2..(Len(q) + 1), NEW w, NEW f, NEW v,
         ReadAs(q, i, w, f),
         IsList(q[1]) => v = IF q[1].form = "files" THEN w ELSE q[1].form,
         ~IsList(q[1]) => v \in {w, None}
  PROVE  ReadAs(Tail(q), i - 1, v, f)
<1>1. /\ Len(q) \in Nat \ {0} /\ Len(Tail(q)) = Len(q) - 1
      /\ \A k \in 1..Len(Tail(q)) : Tail(q)[k] = q[k + 1]
  BY Popped
<1>2. ASSUME NEW j \in 1..(i - 2), LastList(Tail(q), j, i - 1)
      PROVE  Tail(q)[j].form = f
  <2>1. Tail(q)[j] = q[j + 1] /\ j + 1 \in 1..(i - 1)
    BY <1>1
  <2>2. \A k \in (j + 2)..(i - 1) : k - 1 \in (j + 1)..(i - 2) /\ Tail(q)[k - 1] = q[k]
    BY <1>1
  <2>3. LastList(q, j + 1, i)
    BY <1>2, <2>1, <1>1, <2>2 DEF LastList
  <2> QED
    BY <2>1, <2>3 DEF ReadAs
<1>3. ASSUME NoList(Tail(q), i - 1)
      PROVE  v \in {None, f} \/ f = "files"
  <2>1. \A k \in 2..(i - 1) : ~IsList(q[k])
    <3> TAKE k \in 2..(i - 1)
    <3>1. k - 1 \in 1..(i - 2) /\ Tail(q)[k - 1] = q[k]
      BY <1>1
    <3> QED
      BY <1>3, <3>1 DEF NoList
  <2>2. CASE IsList(q[1])
    BY <2>1, <2>2 DEF LastList, ReadAs
  <2>3. CASE ~IsList(q[1])
    BY <2>1, <2>3 DEF NoList, ReadAs
  <2> QED
    BY <2>2, <2>3
<1> QED
  BY <1>2, <1>3 DEF ReadAs

\* What comes before a message does not change when others are sent.
LEMMA ReadPrefix ==
  ASSUME NEW q, NEW r, NEW i \in Nat, NEW w, NEW f, ReadAs(q, i, w, f),
         \A k \in 1..(i - 1) : r[k] = q[k]
  PROVE  ReadAs(r, i, w, f)
<1>1. \A j \in 1..(i - 1) : LastList(r, j, i) => LastList(q, j, i)
  <2> TAKE j \in 1..(i - 1)
  <2>1. \A k \in (j + 1)..(i - 1) : r[k] = q[k]
    OBVIOUS
  <2> QED
    BY <2>1 DEF LastList
<1>2. NoList(r, i) => NoList(q, i)
  BY DEF NoList
<1> QED
  BY <1>1, <1>2 DEF ReadAs

\* Something else than a list is sent.
LEMMA ReadBeyond ==
  ASSUME NEW S, NEW q \in Seq(S), NEW e \in S, NEW w, NEW f, ~IsList(e),
         ReadAs(q, Len(q) + 1, w, f)
  PROVE  ReadAs(Append(q, e), Len(q) + 2, w, f)
<1> DEFINE r == Append(q, e)
<1>1. /\ Len(q) \in Nat /\ r[Len(q) + 1] = e
      /\ \A k \in 1..Len(q) : r[k] = q[k]
  BY Pushed
<1> HIDE DEF r
<1>2. ASSUME NEW j \in 1..(Len(q) + 1), LastList(r, j, Len(q) + 2)
      PROVE  r[j].form = f
  BY <1>1, <1>2 DEF LastList, ReadAs
<1>3. NoList(r, Len(q) + 2) => NoList(q, Len(q) + 1)
  BY <1>1 DEF NoList
<1> QED
  BY <1>1, <1>2, <1>3 DEF ReadAs, r

\* Lists are sent.
LEMMA ReadLists ==
  ASSUME NEW r, NEW n \in Nat \ {0}, NEW w, NEW f, IsList(r[n]) /\ r[n].form = f
  PROVE  ReadAs(r, n + 1, w, f)
BY DEF NoList, LastList, ReadAs

\* A message is announced once, or several times.
LEMMA Repeated ==
  ASSUME NEW S, NEW q \in Seq(S), NEW e \in S, NEW n \in Nat
  PROVE  LET r == q \o [i \in 1..n |-> e]
         IN /\ r \in Seq(S) /\ Len(r) = Len(q) + n /\ Len(q) \in Nat
            /\ \A k \in 1..Len(q) : r[k] = q[k]
            /\ \A k \in (Len(q) + 1)..(Len(q) + n) : r[k] = e
<1> DEFINE x == [i \in 1..n |-> e]
<1>1. x \in Seq(S) /\ Len(x) = n
  BY IsASeq
<1>2. Len(q) \in Nat
  BY LenProperties
<1>3. x \in Seq(S) => /\ q \o x \in Seq(S) /\ Len(q \o x) = Len(q) + Len(x)
                      /\ \A k \in 1..(Len(q) + Len(x)) :
                           (q \o x)[k] = IF k <= Len(q) THEN q[k] ELSE x[k - Len(q)]
  <2> HIDE DEF x
  <2> QED
    BY ConcatProperties
<1>4. \A k \in 1..n : x[k] = e
  OBVIOUS
<1> HIDE DEF x
<1>5. \A k \in (Len(q) + 1)..(Len(q) + n) : (q \o x)[k] = e
  <2> TAKE k \in (Len(q) + 1)..(Len(q) + n)
  <2>1. k - Len(q) \in 1..n /\ ~(k <= Len(q)) /\ k \in 1..(Len(q) + n)
    BY <1>2
  <2> QED
    BY <1>1, <1>3, <1>4, <2>1
<1>6. \A k \in 1..Len(q) : (q \o x)[k] = q[k]
  BY <1>1, <1>2, <1>3
<1>7. /\ q \o x \in Seq(S) /\ Len(q \o x) = Len(q) + n /\ Len(q) \in Nat
      /\ \A k \in 1..Len(q) : (q \o x)[k] = q[k]
      /\ \A k \in (Len(q) + 1)..(Len(q) + n) : (q \o x)[k] = e
  BY <1>1, <1>2, <1>3, <1>5, <1>6
<1> QED
  BY <1>7 DEF x

\* The client takes a message, and remembers what it asks for.
LEMMA ReadTaken ==
  ASSUME ClipTypes, ReadInv, Took, host'.kind = host.kind,
         clip'.asked = IF IsList(Head(down))
                       THEN IF Head(down).form = "files" THEN clip.asked ELSE Head(down).form
                       ELSE IF Head(down).kind = "response" THEN None ELSE clip.asked
  PROVE  ReadInv'
<1>1. /\ down \in Seq(ToClient) /\ down # <<>> /\ down' = Tail(down) /\ Up
  BY DEF ClipTypes, Took
<1>2. /\ Len(down) \in Nat \ {0} /\ Head(down) = down[1]
      /\ Len(Tail(down)) = Len(down) - 1
      /\ \A i \in 1..Len(Tail(down)) : i + 1 \in 1..Len(down) /\ Tail(down)[i] = down[i + 1]
  BY <1>1, Popped
<1>3. /\ IsList(down[1]) => clip'.asked = IF down[1].form = "files" THEN clip.asked ELSE down[1].form
      /\ ~IsList(down[1]) => clip'.asked \in {clip.asked, None}
  BY <1>2 DEF IsList
<1>4. ASSUME NEW i \in 2..(Len(down) + 1), NEW f, ReadAs(down, i, clip.asked, f)
      PROVE  ReadAs(Tail(down), i - 1, clip'.asked, f)
  BY <1>1, <1>3, <1>4, ReadTail
<1>5. ReadAs(down', Len(down') + 1, clip'.asked, host'.kind)
  BY <1>1, <1>2, <1>4 DEF ReadInv
<1>6. ASSUME NEW i \in 1..Len(down'), Answer(down'[i])
      PROVE  ReadAs(down', i, clip'.asked, down'[i].form)
  BY <1>1, <1>2, <1>6, <1>4 DEF ReadInv
<1> QED
  BY <1>5, <1>6 DEF ReadInv

\* The host sends a message that is no list.
LEMMA ReadMore ==
  ASSUME ClipTypes, ReadInv, NEW e \in ToClient, ~IsList(e), down' = Append(down, e),
         Answer(e) => e.form = host.kind,
         Up, host'.kind = host.kind, clip' = clip
  PROVE  ReadInv'
<1>1. /\ down \in Seq(ToClient) /\ Len(down) \in Nat
      /\ Len(down') = Len(down) + 1 /\ down'[Len(down) + 1] = e
      /\ \A i \in 1..Len(down) : down'[i] = down[i]
  BY Pushed DEF ClipTypes
<1>2. ReadAs(down, Len(down) + 1, clip.asked, host.kind)
  BY DEF ReadInv
<1>3. ReadAs(down', Len(down') + 1, clip'.asked, host'.kind)
  BY <1>1, <1>2, ReadBeyond
<1>4. ASSUME NEW i \in 1..Len(down'), Answer(down'[i])
      PROVE  ReadAs(down', i, clip'.asked, down'[i].form)
  <2>0. i \in Nat /\ \A k \in 1..(i - 1) : down'[k] = down[k]
    BY <1>1
  <2>1. CASE i \in 1..Len(down)
    BY <1>1, <1>4, <2>1, <2>0, ReadPrefix DEF ReadInv
  <2>2. CASE i = Len(down) + 1
    BY <1>2, <2>0, <2>2, ReadPrefix, <1>1, <1>4
  <2> QED
    BY <1>1, <2>1, <2>2
<1> QED
  BY <1>3, <1>4 DEF ReadInv

\* It announces a text or files.
LEMMA ReadCopied ==
  ASSUME ClipTypes, ReadInv, NEW k \in Kinds, NEW n \in Nat \ {0},
         down' = down \o [i \in 1..n |-> Msg("list", k, None)],
         Up, host'.kind = k, clip' = clip
  PROVE  ReadInv' /\ down' \in Seq(ToClient)
<1> DEFINE e == Msg("list", k, None)
<1>0. e \in ToClient /\ e.kind = "list" /\ e.form = k
  BY DEF Msg, ToClient
<1> HIDE DEF e
<1>1. /\ down \in Seq(ToClient) /\ down' \in Seq(ToClient) /\ Len(down) \in Nat
      /\ Len(down') = Len(down) + n
      /\ \A i \in 1..Len(down) : down'[i] = down[i]
      /\ \A i \in (Len(down) + 1)..(Len(down) + n) : down'[i] = e
  BY <1>0, Repeated DEF e, ClipTypes
<1>2. ReadAs(down', Len(down') + 1, clip'.asked, host'.kind)
  <2>1. Len(down') \in Nat \ {0} /\ down'[Len(down')] = e
    BY <1>1
  <2> QED
    BY <1>0, <2>1, ReadLists DEF IsList
<1>4. ASSUME NEW i \in 1..Len(down'), Answer(down'[i])
      PROVE  ReadAs(down', i, clip'.asked, down'[i].form)
  <2>1. i \in 1..Len(down)
    BY <1>0, <1>1, <1>4 DEF Answer
  <2>0. i \in Nat /\ \A j \in 1..(i - 1) : down'[j] = down[j]
    BY <1>1, <2>1
  <2>2. ReadAs(down, i, clip.asked, down[i].form)
    BY <1>1, <1>4, <2>1 DEF ReadInv
  <2>3. ReadAs(down', i, clip.asked, down[i].form)
    BY <2>0, <2>2, ReadPrefix
  <2> QED
    BY <1>1, <2>1, <2>3
<1> QED
  BY <1>1, <1>2, <1>4 DEF ReadInv

ClipReads == ClipTypes /\ ReadInv

\* What a text is read as.
LEMMA ReadRight ==
  ASSUME ClipReads, Took, Head(down).kind = "response", clip.asked # None, Head(down).form # None
  PROVE  Decoded(Head(down), clip.asked) = Head(down).text /\ Head(down).text \in Text0
BY Popped DEF ClipReads, ClipTypes, Took, ReadInv, Answer, NoList, ReadAs, ToClient, TextKinds,
   None, Decoded

LEMMA TypesSendText ==
  ASSUME ClipTypes, NEW t \in Text0, SendText(t), Up
  PROVE  /\ clip' \in [text : Text0, asked : TextKinds \cup {None}, last : Text0]
         /\ up' \in Seq(ToHost) /\ clip'.asked = clip.asked /\ clip'.last = clip.last
<1>1. List(t) \in ToHost
  BY DEF List, Msg, ToHost, Announcements
<1>2. Append(up, List(t)) \in Seq(ToHost)
  BY <1>1, Pushed DEF ClipTypes
<1> QED
  BY <1>2 DEF SendText, ClipTypes

LEMMA ReadsTaken ==
  ASSUME LinkInv, ClipReads, ClientTakes
  PROVE  ClipReads'
<1>0. Took /\ down' \in Seq(ToClient) /\ Head(down) \in ToClient /\ down \in Seq(ToClient) /\ down # <<>>
  <2>1. Took
    BY DEF ClientTakes, OnMonitorReady, OnFormatList, OnFormatDataRequest, OnFormatDataResponse
  <2> QED
    BY <2>1, Popped DEF Took, ClipReads, ClipTypes
<1>1. UNCHANGED <<link, local, host>>
  BY DEF ClientTakes, OnMonitorReady, OnFormatList, OnFormatDataRequest, OnFormatDataResponse
<1>2. SUFFICES /\ clip' \in [text : Text0, asked : TextKinds \cup {None}, last : Text0]
               /\ page' \in [box : Text0, exchanged : Text0, reads : Seq(Text0), writes : Seq(Text0)]
               /\ up' \in Seq(ToHost)
               /\ clip'.asked = IF IsList(Head(down))
                       THEN IF Head(down).form = "files" THEN clip.asked ELSE Head(down).form
                       ELSE IF Head(down).kind = "response" THEN None ELSE clip.asked
  BY <1>0, <1>1, ReadTaken DEF ClipReads, ClipTypes, Took, Up
<1> USE DEF ClipReads, ClipTypes
<1>3. CASE OnMonitorReady
  BY Pushed, <1>3 DEF List, Msg, ToHost, Announcements, OnMonitorReady, IsList
<1>4. CASE OnFormatList
  <2>0. IsList(Head(down)) /\ UNCHANGED page
    BY <1>4 DEF OnFormatList, IsList
  <2>1. CASE Head(down).form = "files"
    BY <1>4, <2>0, <2>1 DEF OnFormatList
  <2>2. CASE Head(down).form # "files"
    <3>1. Head(down).form \in TextKinds
      BY <1>0, <2>0, <2>2 DEF ToClient, Kinds, TextKinds, IsList
    <3>2. Msg("request", Head(down).form, None) \in ToHost
      BY <3>1 DEF Msg, ToHost, Requests
    <3>3. Append(up, Msg("request", Head(down).form, None)) \in Seq(ToHost)
      BY <3>2, Pushed
    <3>4. clip' = [clip EXCEPT !.asked = Head(down).form] /\ up' = Append(up, Msg("request", Head(down).form, None))
      BY <1>4, <2>2 DEF OnFormatList
    <3> QED
      BY <2>0, <2>2, <3>1, <3>3, <3>4
  <2> QED
    BY <2>1, <2>2
<1>5. CASE OnFormatDataRequest
  <2> DEFINE m == IF clip.text = None THEN Fail ELSE Msg("response", "unicode", clip.text)
  <2>1. m \in ToHost
    BY DEF Msg, Fail, ToHost, Text0
  <2>2. Append(up, m) \in Seq(ToHost)
    BY <2>1, Pushed
  <2>3. up' = Append(up, m) /\ Head(down).kind = "request" /\ UNCHANGED <<clip, page>>
    BY <1>5 DEF OnFormatDataRequest
  <2> QED
    BY <2>2, <2>3 DEF IsList
<1>6. CASE OnFormatDataResponse
  <2>0. Head(down).kind = "response" /\ UNCHANGED up
    BY <1>6 DEF OnFormatDataResponse
  <2>1. CASE clip.asked = None \/ Head(down).form = None
    BY <1>6, <2>0, <2>1 DEF OnFormatDataResponse, IsList
  <2>2. CASE ~(clip.asked = None \/ Head(down).form = None)
    <3>1. RemoteText(Decoded(Head(down), clip.asked))
      BY <1>6, <2>2 DEF OnFormatDataResponse
    <3>2. Head(down).text \in Text0 /\ RemoteText(Head(down).text)
      BY <1>0, <2>0, <2>2, <3>1, ReadRight
    <3>3. clip' = [clip EXCEPT !.asked = None, !.last = Head(down).text]
      BY <3>2 DEF RemoteText
    <3>4. Append(page.writes, Head(down).text) \in Seq(Text0)
      BY <3>2, Pushed
    <3>5. page' = [page EXCEPT !.box = Head(down).text,
                          !.writes = IF local.focus THEN Append(@, Head(down).text) ELSE @]
      BY <3>2 DEF RemoteText
    <3>6. (IF local.focus THEN Append(page.writes, Head(down).text) ELSE page.writes) \in Seq(Text0)
      BY <3>4
    <3>7. page' \in [box : Text0, exchanged : Text0, reads : Seq(Text0), writes : Seq(Text0)]
      BY <3>2, <3>5, <3>6
    <3> QED
      BY <2>0, <3>2, <3>3, <3>7 DEF IsList
  <2> QED
    BY <2>1, <2>2
<1> QED
  BY <1>3, <1>4, <1>5, <1>6 DEF ClientTakes

LEMMA ReadsKept ==
  ASSUME ReadInv, UNCHANGED <<link, down>>, clip'.asked = clip.asked, host'.kind = host.kind
  PROVE  ReadInv'
BY DEF ReadInv, Up, ReadAs, LastList, NoList, Answer, IsList

LEMMA ReadsHost ==
  ASSUME LinkInv, ClipReads, HostTakes \/ HostPastes
  PROVE  ClipReads'
<1> USE DEF ClipReads, ClipTypes
<1>1. CASE HostPastes
  <2> DEFINE m == Msg("request", "unicode", None)
  <2>1. m \in ToClient /\ ~IsList(m) /\ ~Answer(m)
    BY DEF Msg, ToClient, IsList, Answer
  <2> HIDE DEF m
  <2>2. /\ Up /\ down' = Append(down, m) /\ UNCHANGED <<link, clip, page, local, up>>
        /\ host' = [host EXCEPT !.pasting = TRUE]
    BY <1>1 DEF HostPastes, m
  <2>3. ReadInv'
    BY <2>1, <2>2, ReadMore
  <2>4. down' \in Seq(ToClient)
    BY <2>1, <2>2, Pushed
  <2> QED
    BY <2>2, <2>3, <2>4 DEF Up
<1>2. CASE HostTakes
  <2>0. /\ up # <<>> /\ up' = Tail(up) /\ up' \in Seq(ToHost) /\ Head(up) \in ToHost
        /\ Up /\ UNCHANGED <<env, link, clip, page, local>>
    BY <1>2, Popped DEF HostTakes
  <2>1. CASE Head(up).kind = "list"
    <3>1. /\ host' = [host EXCEPT !.open = TRUE, !.owner =
                    IF Head(up).form # None THEN "client" ELSE IF @ = "client" THEN None ELSE @]
          /\ UNCHANGED down
      BY <1>2, <2>1 DEF HostTakes
    <3> QED
      BY <2>0, <3>1, ReadsKept DEF Up
  <2>2. CASE Head(up).kind = "request"
    <3> DEFINE m == IF host.owner = "host" /\ host.kind = Head(up).form
                    THEN Msg("response", Head(up).form, host.text) ELSE Fail
    <3>1. Head(up).form \in TextKinds
      BY <2>0, <2>2 DEF ToHost, Announcements, Requests
    <3>2. m \in ToClient /\ ~IsList(m) /\ (Answer(m) => m.form = host.kind)
      <4>1. CASE host.owner = "host" /\ host.kind = Head(up).form
        <5>1. m = Msg("response", Head(up).form, host.text) /\ host.text \in Text0
          BY <4>1
        <5> HIDE DEF m
        <5> QED
          BY <3>1, <4>1, <5>1 DEF Msg, ToClient, IsList, Answer
      <4>2. CASE ~(host.owner = "host" /\ host.kind = Head(up).form)
        <5>1. m = Fail
          BY <4>2
        <5> HIDE DEF m
        <5> QED
          BY <5>1 DEF Msg, Fail, ToClient, IsList, Answer, Text0
      <4> QED
        BY <4>1, <4>2
    <3>3. down' = Append(down, m) /\ UNCHANGED host
      BY <1>2, <2>2 DEF HostTakes
    <3> HIDE DEF m
    <3>4. ReadInv'
      BY <2>0, <3>2, <3>3, ReadMore
    <3>5. down' \in Seq(ToClient)
      BY <3>2, <3>3, Pushed
    <3> QED
      BY <2>0, <3>3, <3>4, <3>5 DEF Up
  <2>3. CASE Head(up).kind = "response"
    <3>1. host' = [host EXCEPT !.pasting = FALSE] /\ UNCHANGED down
      BY <1>2, <2>3 DEF HostTakes
    <3> QED
      BY <2>0, <3>1, ReadsKept DEF Up
  <2> QED
    BY <2>0, <2>1, <2>2, <2>3 DEF ToHost, Announcements, Requests
<1> QED
  BY <1>1, <1>2

LEMMA ReadsGrown ==
  ASSUME ClipTypes, NEW n \in Nat
  PROVE  page.reads \o [i \in 1..n |-> local.text] \in Seq(Text0)
BY Repeated DEF ClipTypes

LEMMA ReadsPage ==
  ASSUME LinkInv, ClipReads,
         \/ Return \/ ReadThen \/ WriteThen
         \/ \E t \in Texts : UserSends(t) \/ CopyElsewhere(t) \/ \E k \in Kinds : HostCopies(t, k)
  PROVE  ClipReads'
<1> USE DEF ClipReads, ClipTypes
<1>1. CASE Return
  <2>1. PICK n \in 1..2 : page' = [page EXCEPT !.reads =
            IF Up THEN @ \o [i \in 1..n |-> local.text] ELSE @]
    BY <1>1 DEF Return
  <2>2. page.reads \o [i \in 1..n |-> local.text] \in Seq(Text0)
    <3>1. n \in Nat
      OBVIOUS
    <3>2. ClipTypes
      OBVIOUS
    <3> QED
      BY <3>1, <3>2, ReadsGrown
  <2>3. (IF Up THEN page.reads \o [i \in 1..n |-> local.text] ELSE page.reads) \in Seq(Text0)
    BY <2>2
  <2>4. page' \in [box : Text0, exchanged : Text0, reads : Seq(Text0), writes : Seq(Text0)]
    BY <2>1, <2>3
  <2>5. local' \in [text : Text0, focus : BOOLEAN] /\ UNCHANGED <<link, clip, host, up, down>>
    BY <1>1 DEF Return
  <2> QED
    BY <2>4, <2>5, ReadsKept DEF Up
<1>2. CASE ReadThen
  <2>0. page.reads # <<>> /\ UNCHANGED <<link, local, host, down>>
    BY <1>2 DEF ReadThen
  <2>1. Head(page.reads) \in Text0 /\ Tail(page.reads) \in Seq(Text0)
    BY <2>0, Popped
  <2>2. CASE page' = [page EXCEPT !.reads = Tail(@)] /\ UNCHANGED <<clip, up>>
    BY <2>0, <2>1, <2>2, ReadsKept DEF Up
  <2>3. CASE /\ page' = [page EXCEPT !.reads = Tail(@), !.exchanged = Head(page.reads),
                                     !.box = Head(page.reads)]
             /\ SendText(Head(page.reads))
    BY <2>1, <2>3, <2>0, ReadsKept, TypesSendText DEF Up, SendText
  <2> QED
    BY <1>2, <2>2, <2>3, Zenon DEF ReadThen
<1>3. CASE WriteThen
  <2>0. page.writes # <<>> /\ UNCHANGED <<link, clip, host, up, down>>
    BY <1>3 DEF WriteThen
  <2>1. Head(page.writes) \in Text0 /\ Tail(page.writes) \in Seq(Text0)
    BY <2>0, Popped
  <2>2. CASE local.focus
    BY <1>3, <2>2, <2>0, <2>1, ReadsKept DEF WriteThen, Up
  <2>3. CASE ~local.focus
    BY <1>3, <2>3, <2>0, <2>1, ReadsKept DEF WriteThen, Up
  <2> QED
    BY <2>2, <2>3
<1>4. ASSUME NEW t \in Texts, UserSends(t) PROVE ClipReads'
  BY <1>4, ReadsKept, TypesSendText DEF UserSends, Text0, Up
<1>5. ASSUME NEW t \in Texts, CopyElsewhere(t) PROVE ClipReads'
  BY <1>5, ReadsKept DEF CopyElsewhere, Up, Text0
<1>6. ASSUME NEW t \in Texts, NEW k \in Kinds, HostCopies(t, k) PROVE ClipReads'
  <2>1. /\ Up /\ host' = [host EXCEPT !.owner = "host", !.text = t, !.kind = k]
        /\ UNCHANGED <<link, clip, page, local, up>>
    BY <1>6 DEF HostCopies
  <2>2. PICK n \in 1..(IF May("again") THEN 2 ELSE 1) :
               down' = down \o [i \in 1..n |-> Msg("list", k, None)]
    BY <1>6, Zenon DEF HostCopies
  <2>4. n \in Nat \ {0}
    BY <2>2
  <2>5. clip' = clip /\ host'.kind = k /\ ClipTypes /\ ReadInv
    BY <2>1
  <2>3. ReadInv' /\ down' \in Seq(ToClient)
    BY <2>1, <2>2, <2>4, <2>5, ReadCopied
  <2> QED
    BY <2>1, <2>3 DEF Up, Text0
<1> QED
  BY <1>1, <1>2, <1>3, <1>4, <1>5, <1>6

LEMMA OneMessage ==
  ASSUME NEW S, NEW m \in S
  PROVE  <<m>> \in Seq(S) /\ Len(<<m>>) = 1 /\ \A i \in 1..Len(<<m>>) : i = 1 /\ <<m>>[i] = m
OBVIOUS

LEMMA ReadsEnds ==
  ASSUME LinkInv, ClipReads, Drop \/ Redirect \/ Disconnect \/ StartProtocol
  PROVE  ClipReads'
<1> USE DEF ClipReads, ClipTypes
<1>0. <<>> \in Seq(ToHost) /\ <<>> \in Seq(ToClient)
  OBVIOUS
<1>1. CASE Drop \/ Redirect \/ Disconnect
  BY <1>1, <1>0 DEF Drop, Redirect, Disconnect, Up, ClipDown, ReadInv
<1>2. CASE StartProtocol
  <2>1. ClipUp /\ Up' /\ ~Up
    BY <1>2 DEF StartProtocol, Up
  <2> DEFINE m == Msg("ready", None, None)
  <2>2. m \in ToClient /\ ~IsList(m) /\ ~Answer(m)
    BY DEF Msg, ToClient, IsList, Answer
  <2>3. down' = <<m>> \/ down' = <<>>
    BY <2>1 DEF ClipUp
  <2> HIDE DEF m
  <2>4. down' \in Seq(ToClient) /\ \A i \in 1..Len(down') : ~IsList(down'[i]) /\ ~Answer(down'[i])
    <3>1. /\ <<m>> \in Seq(ToClient)
          /\ \A i \in 1..Len(<<m>>) : <<m>>[i] = m
      BY <2>2, OneMessage
    <3>2. CASE down' = <<m>>
      BY <2>2, <3>1, <3>2, Zenon
    <3>3. CASE down' = <<>>
      BY <3>3, <1>0
    <3> QED
      BY <2>3, <3>2, <3>3
  <2>5. clip' = [clip EXCEPT !.text = None, !.asked = None] /\ UNCHANGED <<page, local, host, up>>
    BY <2>1 DEF ClipUp
  <2>6. Len(down') \in Nat /\ clip'.asked = None
    BY <2>4, <2>5, LenProperties
  <2>7. ReadInv'
    BY <2>4, <2>6 DEF ReadInv, ReadAs, LastList, IsList
  <2>8. clip' \in [text : Text0, asked : TextKinds \cup {None}, last : Text0]
    BY <2>5 DEF Text0
  <2> QED
    BY <2>1, <2>4, <2>5, <2>7, <2>8
<1> QED
  BY <1>1, <1>2

LEMMA ReadsInit == Init => ClipReads
<1> SUFFICES ASSUME Init PROVE ClipReads
  OBVIOUS
<1> DEFINE m == Msg("ready", None, None)
<1>1. m \in ToClient /\ ~IsList(m) /\ ~Answer(m)
  BY DEF Msg, ToClient, IsList, Answer
<1>2. down = <<m>> \/ down = <<>>
  BY DEF Init, ClipInit
<1> HIDE DEF m
<1>3. down \in Seq(ToClient) /\ \A i \in 1..Len(down) : ~IsList(down[i]) /\ ~Answer(down[i])
  <2>1. /\ <<m>> \in Seq(ToClient)
        /\ \A i \in 1..Len(<<m>>) : <<m>>[i] = m
    BY <1>1, OneMessage
  <2>2. CASE down = <<m>>
    BY <1>1, <2>1, <2>2, Zenon
  <2>3. CASE down = <<>>
    BY <2>3
  <2> QED
    BY <1>2, <2>2, <2>3
<1>4. ClipTypes
  BY <1>3 DEF Init, ClipInit, ClipTypes, Text0, Up, Kinds
<1>5. ReadInv
  BY <1>3 DEF Init, ClipInit, ReadInv, ReadAs, LastList, IsList
<1> QED
  BY <1>4, <1>5 DEF ClipReads

LEMMA ReadsSame ==
  ASSUME ClipReads, UNCHANGED <<link, clip, page, local, host, up, down>>
  PROVE  ClipReads'
BY ReadsKept DEF ClipReads, ClipTypes, Up

LEMMA ReadsNext ==
  ASSUME LinkInv, ClipReads, [Next]_vars
  PROVE  ClipReads'
<1>1. CASE ClipNext
  BY <1>1, ReadsTaken, ReadsHost, ReadsPage DEF ClipNext
<1>2. CASE UNCHANGED <<link, clipVars>>
  BY <1>2, ReadsSame DEF clipVars
<1>3. CASE Activate \/ Reactivate
  BY <1>2, <1>3 DEF Activate, Reactivate, OnActive, BeginReactivation
<1> QED
  BY <1>1, <1>2, <1>3, ReadsEnds, LinkMic, LinkSound, LinkKeys, LinkPointer
  DEF Next, Rest, vars, SameLink

-----------------------------------------------------------------------------
(* The clipboard: the steps of a session in which nothing crosses.         *)

Taking(q, r) ==
  /\ Len(q) \in Nat \ {0} /\ Len(r) = Len(q) - 1
  /\ \A i \in 1..Len(r) : i + 1 \in 1..Len(q) /\ r[i] = q[i + 1]

Sending(q, r, e) ==
  /\ Len(q) \in Nat /\ Len(r) = Len(q) + 1 /\ r[Len(q) + 1] = e
  /\ \A i \in 1..Len(q) : r[i] = q[i]

LEMMA TakenFrom ==
  ASSUME NEW S, NEW q \in Seq(S), q # <<>>
  PROVE  Taking(q, Tail(q)) /\ Head(q) = q[1] /\ Head(q) \in S
BY Popped DEF Taking

LEMMA SentTo ==
  ASSUME NEW S, NEW q \in Seq(S), NEW e \in S
  PROVE  Sending(q, Append(q, e), e)
BY Pushed DEF Sending

LEMMA AnswersTaken ==
  ASSUME NEW q, NEW r, Taking(q, r), AllTheirs(q)
  PROVE  AllTheirs(r)
<1> SUFFICES ASSUME NEW i \in 1..Len(r), r[i].kind = "response",
                    \A k \in (i + 1)..Len(r) : ~IsList(r[k])
             PROVE  Answer(r[i]) /\ r[i].text = host.text
  BY DEF AllTheirs
<1>1. i + 1 \in 1..Len(q) /\ r[i] = q[i + 1]
  BY DEF Taking
<1>2. ASSUME NEW k \in (i + 2)..Len(q) PROVE ~IsList(q[k])
  <2>1. k - 1 \in (i + 1)..Len(r) /\ k - 1 \in 1..Len(r) /\ (k - 1) + 1 = k
    BY DEF Taking
  <2> QED
    BY <2>1 DEF Taking
<1>3. (i + 1) + 1 = i + 2
  BY DEF Taking
<1> QED
  BY <1>1, <1>2, <1>3 DEF AllTheirs

LEMMA ListsTaken ==
  ASSUME NEW q, NEW r, Taking(q, r), NoList(r, Len(r) + 1), ~IsList(q[1])
  PROVE  NoList(q, Len(q) + 1)
<1> SUFFICES ASSUME NEW k \in 1..Len(q), IsList(q[k])
             PROVE  FALSE
  BY DEF NoList, Taking
<1>1. k # 1
  OBVIOUS
<1>2. k - 1 \in 1..Len(r) /\ r[k - 1] = q[k]
  BY <1>1 DEF Taking
<1> QED
  BY <1>2 DEF NoList, Taking

Agreed == FreshInv /\ OrderInv /\ MineInv /\ TheirsInv

LEMMA FreshKept ==
  ASSUME FreshInv, \A t : NotTheirs(t) => NotTheirs(t)', env'.texts \subseteq env.texts,
         page'.reads = page.reads, local'.focus \/ local' = local
  PROVE  FreshInv'
BY DEF FreshInv

LEMMA AgreeReady ==
  ASSUME ClipTypes, Agreed, OnMonitorReady
  PROVE  Agreed'
<1> DEFINE e == List(clip.text)
<1>1. e \in ToHost /\ e.kind = "list" /\ (IsOffer(e) <=> clip.text # None)
  BY DEF List, Msg, ToHost, Announcements, IsOffer, None
<1>2. /\ up' = Append(up, e) /\ UNCHANGED <<env, link, clip, page, local, host>>
      /\ down # <<>> /\ down' = Tail(down) /\ Head(down).kind = "ready"
  BY DEF OnMonitorReady, Took
<1> HIDE DEF e
<1>3. Sending(up, up', e) /\ Taking(down, down') /\ down[1].kind = "ready"
  BY <1>1, <1>2, SentTo, TakenFrom DEF ClipTypes
<1>4. /\ clip.text # None => page.box = clip.text
      /\ \A j \in 1..Len(up) : up[j].kind # "request"
      /\ \A j \in 1..Len(down) : down[j].kind # "response"
      /\ \A j \in 1..Len(down) : down[j].kind = "ready" => j = 1
  BY <1>3 DEF Agreed, OrderInv, Taking
<1>5. NoAnswer /\ NoAnswer' /\ \A j \in 1..Len(down') : down'[j].kind # "response"
  BY <1>3, <1>4 DEF NoAnswer, Answer, Taking
<1>6. Announced' <=> Announced \/ clip.text # None
  BY <1>3, <1>1 DEF Announced, Sending
<1>7. FreshInv'
  BY <1>2, <1>3, FreshKept DEF NotTheirs, Taking, Agreed
<1>8. MineInv'
  BY <1>2, <1>4, <1>5, <1>6 DEF Agreed, MineInv, Mine
<1>9. OrderInv'
  BY <1>1, <1>3, <1>4, <1>2 DEF Sending, Agreed, OrderInv, Taking, MineInv, Mine, Announced
<1>10. TheirsInv'
  BY <1>3, ListsTaken, <1>4, <1>6, <1>2, <1>5 DEF IsList, Agreed, TheirsInv, AllTheirs
<1> QED
  BY <1>7, <1>8, <1>9, <1>10 DEF Agreed

LEMMA AgreeList ==
  ASSUME ClipReads, Agreed, OnFormatList
  PROVE  Agreed'
<1> DEFINE form == Head(down).form
           e == Msg("request", form, None)
<1>0. /\ down # <<>> /\ down' = Tail(down) /\ Head(down).kind = "list" /\ Up
      /\ UNCHANGED <<env, link, page, local, host>>
  BY DEF OnFormatList, Took
<1>1. Taking(down, down') /\ down[1].kind = "list" /\ form = down[1].form /\ Head(down) \in ToClient
  BY <1>0, TakenFrom DEF ClipReads, ClipTypes
<1>2. form \in {"files", "unicode"}
  BY <1>0, <1>1 DEF Agreed, OrderInv, Taking, IsList, ToClient, Kinds
<1>3. CASE form = "files"
  <2>1. UNCHANGED <<clip, up>>
    BY <1>3 DEF OnFormatList
  <2>2. ~(host.kind = "unicode" /\ NoList(down', Len(down') + 1))
    <3> SUFFICES ASSUME host.kind = "unicode", NoList(down', Len(down') + 1)
                 PROVE  FALSE
      OBVIOUS
    <3>1. \A k \in 2..Len(down) : ~IsList(down[k])
      <4> TAKE k \in 2..Len(down)
      <4>1. k - 1 \in 1..Len(down') /\ down'[k - 1] = down[k]
        BY <1>1 DEF Taking
      <4> QED
        BY <1>1, <4>1 DEF NoList, Taking
    <3>2. LastList(down, 1, Len(down) + 1) /\ 1 \in 1..Len(down)
      BY <1>1, <3>1 DEF LastList, IsList, Taking
    <3>3. down[1].form = host.kind
      BY <1>0, <1>1, <3>2 DEF ClipReads, ReadInv, ReadAs, Taking
    <3> QED
      BY <1>1, <1>3, <3>3
  <2>3. NoAnswer => NoAnswer'
    BY <1>1 DEF NoAnswer, Taking
  <2>4. Announced' <=> Announced
    BY <2>1 DEF Announced
  <2>5. FreshInv'
    BY <1>0, <1>1, <2>1, FreshKept DEF NotTheirs, Taking, Agreed
  <2>6. MineInv'
    BY <1>0, <2>1, <2>3, <2>4 DEF Agreed, MineInv, Mine
  <2>7. OrderInv'
    BY <1>0, <1>1, <2>1 DEF Agreed, OrderInv, Taking
  <2>8. TheirsInv'
    <3>1. AllTheirs(down) => AllTheirs(down')
      BY <1>1, AnswersTaken
    <3>2. AllTheirs(down') => AllTheirs(down)'
      BY <1>0 DEF AllTheirs
    <3> QED
      BY <1>0, <2>1, <2>2, <2>3, <2>4, <3>1, <3>2 DEF Agreed, TheirsInv
  <2> QED
    BY <2>5, <2>6, <2>7, <2>8 DEF Agreed
<1>4. CASE form = "unicode"
  <2>0. clip' = [clip EXCEPT !.asked = "unicode"] /\ up' = Append(up, e)
    BY <1>4 DEF OnFormatList
  <2>1. e \in ToHost /\ e.kind = "request" /\ ~IsOffer(e) /\ e.form = "unicode"
    BY <1>4 DEF Msg, ToHost, Requests, TextKinds, IsOffer
  <2> HIDE DEF e
  <2>2. Sending(up, up', e)
    BY <2>0, <2>1, SentTo DEF ClipReads, ClipTypes
  <2>3. /\ NoAnswer => NoAnswer'
        /\ \A j \in 1..Len(down) : down[j].kind # "ready"
    BY <1>1 DEF NoAnswer, Taking, Agreed, OrderInv
  <2>4. Announced' <=> Announced
    BY <2>1, <2>2 DEF Announced, Sending
  <2>9. /\ clip'.text = clip.text /\ clip'.last = clip.last /\ clip'.asked # None
    BY <2>0 DEF ClipReads, ClipTypes, None
  <2>5. FreshInv'
    BY <1>0, <1>1, <2>9, FreshKept DEF NotTheirs, Taking, Agreed
  <2>6. MineInv'
    BY <1>0, <2>3, <2>4, <2>9 DEF Agreed, MineInv, Mine
  <2>7. OrderInv'
    <3>1. \A i, j \in 1..Len(up') : j < i /\ IsOffer(up'[i]) => up'[j].kind # "request"
      BY <2>1, <2>2 DEF Agreed, OrderInv, Sending
    <3>2. \A i \in 1..Len(up') : up'[i].kind = "list" /\ ~IsOffer(up'[i]) =>
             host'.owner # "client" /\ \A j \in 1..(i - 1) : ~IsOffer(up'[j])
      BY <1>0, <2>1, <2>2 DEF Agreed, OrderInv, Sending
    <3>3. \A i \in 1..Len(up') : up'[i].kind = "request" => up'[i].form = "unicode"
      BY <2>1, <2>2 DEF Agreed, OrderInv, Sending
    <3>4. \A i \in 1..Len(down') : /\ IsList(down'[i]) => down'[i].form # "ansi"
                                   /\ down'[i].kind # "ready"
      BY <1>1, <2>3 DEF Agreed, OrderInv, Taking
    <3> QED
      BY <3>1, <3>2, <3>3, <3>4 DEF OrderInv
  <2>8. TheirsInv'
    <3>1. \E i \in 1..Len(up') : up'[i].kind = "request"
      BY <2>1, <2>2 DEF Sending
    <3> QED
      <4>1. AllTheirs(down) => AllTheirs(down')
        BY <1>1, AnswersTaken
      <4>2. AllTheirs(down') => AllTheirs(down)'
        BY <1>0 DEF AllTheirs
      <4> QED
        BY <1>0, <2>3, <2>4, <2>9, <3>1, <4>1, <4>2 DEF Agreed, TheirsInv
  <2> QED
    BY <2>5, <2>6, <2>7, <2>8 DEF Agreed
<1> QED
  BY <1>2, <1>3, <1>4

LEMMA AgreeRequest ==
  ASSUME ClipReads, Agreed, OnFormatDataRequest
  PROVE  Agreed'
<1> DEFINE e == IF clip.text = None THEN Fail ELSE Msg("response", "unicode", clip.text)
<1>1. e \in ToHost /\ e.kind = "response" /\ ~IsOffer(e)
  BY DEF Msg, Fail, ToHost, Text0, ClipReads, ClipTypes, IsOffer
<1>2. /\ up' = Append(up, e) /\ UNCHANGED <<env, link, clip, page, local, host>>
      /\ down # <<>> /\ down' = Tail(down) /\ Head(down).kind = "request"
  BY DEF OnFormatDataRequest, Took
<1> HIDE DEF e
<1>3. Sending(up, up', e) /\ Taking(down, down') /\ down[1].kind = "request"
  BY <1>1, <1>2, SentTo, TakenFrom DEF ClipReads, ClipTypes
<1>4. /\ NoAnswer => NoAnswer'
      /\ Announced' <=> Announced
      /\ NoList(down', Len(down') + 1) => NoList(down, Len(down) + 1)
      /\ AllTheirs(down) => AllTheirs(down)'
  <2>1. NoAnswer => NoAnswer'
    BY <1>3 DEF NoAnswer, Taking
  <2>2. Announced' <=> Announced
    BY <1>1, <1>3 DEF Announced, Sending
  <2>3. NoList(down', Len(down') + 1) => NoList(down, Len(down) + 1)
    BY <1>3, ListsTaken DEF IsList
  <2>4. AllTheirs(down) => AllTheirs(down')
    BY <1>3, AnswersTaken
  <2>5. AllTheirs(down') => AllTheirs(down)'
    BY <1>2 DEF AllTheirs
  <2> QED
    BY <2>1, <2>2, <2>3, <2>4, <2>5
<1>5. \A t : NotTheirs(t) => NotTheirs(t)'
  BY <1>2, <1>3 DEF NotTheirs, Taking
<1>6. FreshInv'
  BY <1>2, <1>5, FreshKept DEF Agreed
<1>7. MineInv'
  BY <1>2, <1>4 DEF Agreed, MineInv, Mine
<1>8. OrderInv'
  BY <1>1, <1>3, <1>2 DEF Agreed, OrderInv, Sending, Taking
<1>9. TheirsInv'
  <2>1. (\E i \in 1..Len(up) : up[i].kind = "request") =>
          \E i \in 1..Len(up') : up'[i].kind = "request"
    BY <1>3 DEF Sending
  <2>2. (\E i \in 1..Len(down) : down[i].kind = "response") =>
          \E i \in 1..Len(down') : down'[i].kind = "response"
    <3> SUFFICES ASSUME NEW i \in 1..Len(down), down[i].kind = "response"
                 PROVE  \E k \in 1..Len(down') : down'[k].kind = "response"
      OBVIOUS
    <3>1. i # 1
      BY <1>3
    <3>2. i - 1 \in 1..Len(down') /\ down'[i - 1] = down[i]
      BY <1>3, <3>1 DEF Taking
    <3> QED
      BY <3>2
  <2> QED
    BY <1>2, <1>4, <2>1, <2>2 DEF Agreed, TheirsInv
<1> QED
  BY <1>6, <1>7, <1>8, <1>9 DEF Agreed

LEMMA AgreeResponse ==
  ASSUME ClipReads, Agreed, OnFormatDataResponse
  PROVE  Agreed'
<1>1. /\ UNCHANGED <<env, link, local, host, up>> /\ Took
      /\ down # <<>> /\ down' = Tail(down) /\ Head(down).kind = "response"
  BY DEF OnFormatDataResponse, Took
<1>2. Taking(down, down') /\ down[1] = Head(down) /\ down[1].kind = "response"
  BY <1>1, TakenFrom DEF ClipReads, ClipTypes
<1>3. /\ NoAnswer => NoAnswer'
      /\ Announced' <=> Announced
      /\ NoList(down', Len(down') + 1) => NoList(down, Len(down) + 1)
      /\ AllTheirs(down) => AllTheirs(down)'
  <2>1. NoAnswer => NoAnswer'
    BY <1>2 DEF NoAnswer, Taking
  <2>2. Announced' <=> Announced
    BY <1>1 DEF Announced
  <2>3. NoList(down', Len(down') + 1) => NoList(down, Len(down) + 1)
    BY <1>2, ListsTaken DEF IsList
  <2>4. AllTheirs(down) => AllTheirs(down')
    BY <1>2, AnswersTaken
  <2>5. AllTheirs(down') => AllTheirs(down)'
    BY <1>1 DEF AllTheirs
  <2> QED
    BY <2>1, <2>2, <2>3, <2>4, <2>5
<1>4. OrderInv'
  BY <1>2, <1>1 DEF Agreed, OrderInv, Taking
<1>5. CASE clip.asked = None \/ Head(down).form = None
  <2>1. clip' = [clip EXCEPT !.asked = None] /\ UNCHANGED page
    BY <1>5 DEF OnFormatDataResponse
  <2>2. clip'.text = clip.text /\ clip'.last = clip.last
    BY <2>1
  <2>3. \A t : NotTheirs(t) => NotTheirs(t)'
    BY <1>1, <1>2, <2>2 DEF NotTheirs, Taking
  <2>4. FreshInv'
    BY <1>1, <2>1, <2>3, FreshKept DEF Agreed
  <2>5. MineInv'
    BY <1>1, <1>3, <2>1, <2>2 DEF Agreed, MineInv, Mine
  <2>6. TheirsInv'
    BY <1>2, <1>5, <1>1, <1>3, <2>1 DEF NoList, Taking, Agreed, TheirsInv, AllTheirs, Answer
  <2> QED
    BY <1>4, <2>4, <2>5, <2>6 DEF Agreed
<1>6. CASE ~(clip.asked = None \/ Head(down).form = None)
  <2>0. RemoteText(Head(down).text)
    BY <1>6, <1>1, ReadRight DEF OnFormatDataResponse
  <2> DEFINE t0 == down[1].text
  <2>1. /\ clip' = [clip EXCEPT !.asked = None, !.last = t0]
        /\ page' = [page EXCEPT !.box = t0,
                          !.writes = IF local.focus THEN Append(@, t0) ELSE @]
    BY <1>2, <2>0 DEF RemoteText
  <2>2. clip'.text = clip.text /\ clip'.last = t0 /\ page'.box = t0 /\ page'.reads = page.reads
    BY <2>1 DEF ClipReads, ClipTypes
  <2> HIDE DEF t0
  <2>3. Answer(down[1]) /\ ~NoAnswer
    BY <1>2, <1>6 DEF Answer, NoAnswer, Taking
  <2>4. \A t : NotTheirs(t) => NotTheirs(t)'
    BY <1>1, <1>2, <2>2, <2>3 DEF NotTheirs, Taking, t0
  <2>5. FreshInv'
    BY <1>1, <2>2, <2>4, FreshKept DEF Agreed
  <2>6. MineInv'
    BY <1>1, <1>3, <2>3 DEF Agreed, MineInv, Mine
  <2>7. TheirsInv'
    BY <1>2, <1>1, <1>3, <2>2, <2>3 DEF NoList, Taking, Agreed, TheirsInv, AllTheirs, t0
  <2> QED
    BY <1>4, <2>5, <2>6, <2>7 DEF Agreed
<1> QED
  BY <1>5, <1>6

\* A text of the user's is sent.
LEMMA AgreeSend ==
  ASSUME ClipReads, Agreed, Up, NEW t, NotTheirs(t), ~May("crosses"), Uncrossed, SendText(t),
         page'.box = t, UNCHANGED <<host, down>>
  PROVE  OrderInv' /\ MineInv' /\ TheirsInv' /\ clip'.last = clip.last
<1> DEFINE e == List(t)
<1>1. t \in Texts /\ t # clip.last /\ t # None
  BY SessionAssumption DEF NotTheirs
<1>2. e \in ToHost /\ e.kind = "list" /\ IsOffer(e)
  BY <1>1 DEF List, Msg, ToHost, Announcements, IsOffer
<1>3. clip' = [clip EXCEPT !.text = t] /\ up' = Append(up, e)
  BY <1>1 DEF SendText
<1> HIDE DEF e
<1>4. Sending(up, up', e)
  BY <1>2, <1>3, SentTo DEF ClipReads, ClipTypes
<1>5. clip'.text = t /\ clip'.asked = clip.asked /\ clip'.last = clip.last
  BY <1>3 DEF ClipReads, ClipTypes
<1>6. /\ \A i \in 1..Len(up) : up[i].kind # "request"
      /\ \A i \in 1..Len(down) : down[i].kind \notin {"list", "response"}
  BY DEF Uncrossed
<1>7. NoAnswer' /\ Announced'
  BY <1>2, <1>4, <1>6 DEF NoAnswer, Answer, Announced, Sending
<1>8. MineInv'
  BY <1>1, <1>5, <1>7 DEF MineInv
<1>9. OrderInv'
  <2>1. \A i \in 1..Len(up') : up'[i].kind # "request"
    BY <1>2, <1>4, <1>6 DEF Sending
  <2>2. \A i \in 1..Len(up') : up'[i].kind = "list" /\ ~IsOffer(up'[i]) =>
             host'.owner # "client" /\ \A j \in 1..(i - 1) : ~IsOffer(up'[j])
    BY <1>2, <1>4 DEF Agreed, OrderInv, Sending
  <2>3. \A i \in 1..Len(down) : /\ IsList(down[i]) => down[i].form # "ansi"
                                /\ down[i].kind = "ready" => i = 1
    BY DEF Agreed, OrderInv
  <2> QED
    BY <1>5, <1>6, <2>1, <2>2, <2>3 DEF OrderInv
<1>10. TheirsInv'
  BY <1>6, <1>7 DEF AllTheirs, Agreed, TheirsInv
<1> QED
  BY <1>5, <1>8, <1>9, <1>10

LEMMA AgreeCopies ==
  ASSUME LinkInv, ClipReads, Agreed, InStep, NEW t \in Texts, NEW k \in Kinds, HostCopies(t, k)
  PROVE  Agreed'
<1> DEFINE e == Msg("list", k, None)
<1>1. PICK n \in 1..(IF May("again") THEN 2 ELSE 1) : down' = down \o [i \in 1..n |-> e]
  BY Zenon DEF HostCopies
<1>2. /\ host' = [host EXCEPT !.owner = "host", !.text = t, !.kind = k]
      /\ UNCHANGED <<link, clip, page, local, up>>
      /\ t \in env.texts /\ Used(t) /\ (k # "unicode" => May(IF k = "ansi" THEN "mixes" ELSE "again"))
  BY DEF HostCopies, Fresh
<1>3. ~May("mixes") /\ ~May("repeats")
  BY DEF InStep, May
<1>4. k # "ansi" /\ env' = [env EXCEPT !.texts = @ \ {t}]
  BY <1>2, <1>3 DEF Used
<1>5. env'.texts = env.texts \ {t}
  BY <1>4 DEF LinkInv, EnvironmentType
<1>6. host'.owner = "host" /\ host'.text = t /\ host'.kind = k
  BY <1>2 DEF ClipReads, ClipTypes
<1>7. e \in ToClient /\ e.kind = "list" /\ e.form = k /\ ~Answer(e)
  BY DEF Msg, ToClient, Answer
<1> HIDE DEF e
<1>8. /\ n \in 1..2 /\ Len(down) \in Nat /\ Len(down') = Len(down) + n
      /\ \A i \in 1..Len(down) : down'[i] = down[i]
      /\ \A i \in (Len(down) + 1)..(Len(down) + n) : down'[i] = e
  BY <1>1, <1>7, Repeated DEF ClipReads, ClipTypes
<1>9. Len(down') \in 1..Len(down') /\ IsList(down'[Len(down')])
  BY <1>7, <1>8 DEF IsList
<1>10. \A i \in 1..Len(down') : (i \in 1..Len(down) /\ down'[i] = down[i]) \/ down'[i] = e
  BY <1>8
<1>11. NoAnswer => NoAnswer'
  BY <1>7, <1>10 DEF NoAnswer
<1>12. FreshInv'
  BY <1>2, <1>6, <1>7, <1>10, <1>5 DEF NotTheirs, Agreed, FreshInv
<1>13. MineInv'
  BY <1>2, <1>6, <1>11 DEF Mine, Announced, Agreed, MineInv
<1>14. OrderInv'
  BY <1>4, <1>7, <1>10, <1>6, <1>2 DEF Agreed, OrderInv
<1>15. TheirsInv'
  BY <1>8, <1>9, <1>4, <1>6 DEF NoList, AllTheirs, IsList, TheirsInv, None
<1> QED
  BY <1>12, <1>13, <1>14, <1>15 DEF Agreed

LEMMA AgreePastes ==
  ASSUME LinkInv, ClipReads, Agreed, HostPastes
  PROVE  Agreed'
<1> DEFINE e == Msg("request", "unicode", None)
<1>1. e \in ToClient /\ e.kind = "request" /\ ~IsList(e) /\ ~Answer(e)
  BY DEF Msg, ToClient, IsList, Answer
<1>2. /\ host.owner = "client" /\ host' = [host EXCEPT !.pasting = TRUE]
      /\ env' = [env EXCEPT !.pastes = @ - 1]
      /\ down' = Append(down, e) /\ UNCHANGED <<link, clip, page, local, up>>
  BY DEF HostPastes
<1> HIDE DEF e
<1>3. Sending(down, down', e)
  BY <1>1, <1>2, SentTo DEF ClipReads, ClipTypes
<1>4. host'.owner = "client" /\ host'.kind = host.kind /\ host'.text = host.text /\ env'.texts = env.texts
  BY <1>2 DEF ClipReads, ClipTypes, LinkInv, EnvironmentType
<1>5. NoAnswer /\ NoAnswer'
  BY <1>1, <1>2, <1>3 DEF NoAnswer, Agreed, MineInv, Mine, Sending
<1>6. FreshInv'
  BY <1>2, <1>4, <1>5, FreshKept DEF NotTheirs, NoAnswer, Agreed
<1>7. MineInv'
  BY <1>2, <1>5 DEF Agreed, MineInv, Mine
<1>8. OrderInv'
  BY <1>1, <1>3, <1>2 DEF Agreed, OrderInv, Sending
<1>9. TheirsInv'
  BY <1>4 DEF Agreed, TheirsInv, None
<1> QED
  BY <1>6, <1>7, <1>8, <1>9 DEF Agreed

LEMMA AgreeHost ==
  ASSUME LinkInv, ClipReads, Agreed, HostTakes
  PROVE  Agreed'
<1>0. /\ up # <<>> /\ up' = Tail(up) /\ UNCHANGED <<env, link, clip, page, local>>
  BY DEF HostTakes
<1>1. Taking(up, up') /\ up[1] = Head(up) /\ Head(up) \in ToHost
  BY <1>0, TakenFrom DEF ClipReads, ClipTypes
<1>2. /\ \A i \in 1..Len(up') : up'[i].kind = "request" => up'[i].form = "unicode"
      /\ \A i, j \in 1..Len(up') : j < i /\ IsOffer(up'[i]) => up'[j].kind # "request"
  <2>1. \A i \in 1..Len(up') : up'[i].kind = "request" => up'[i].form = "unicode"
    BY <1>1 DEF Agreed, OrderInv, Taking
  <2>2. \A i, j \in 1..Len(up') : j < i /\ IsOffer(up'[i]) => up'[j].kind # "request"
    BY <1>1 DEF Agreed, OrderInv, Taking
  <2> QED
    BY <2>1, <2>2
<1>3. \A i \in 1..Len(up') : up'[i].kind = "list" /\ ~IsOffer(up'[i]) =>
             /\ host.owner # "client" /\ ~IsOffer(up[1])
             /\ \A j \in 1..(i - 1) : ~IsOffer(up'[j])
  <2> SUFFICES ASSUME NEW i \in 1..Len(up'), up'[i].kind = "list", ~IsOffer(up'[i])
               PROVE  /\ host.owner # "client" /\ ~IsOffer(up[1])
                      /\ \A j \in 1..(i - 1) : ~IsOffer(up'[j])
    OBVIOUS
  <2>1. i + 1 \in 1..Len(up) /\ up'[i] = up[i + 1]
    BY <1>1 DEF Taking
  <2>2. host.owner # "client" /\ \A j \in 1..i : ~IsOffer(up[j])
    BY <2>1 DEF Agreed, OrderInv
  <2>3. \A j \in 1..(i - 1) : up'[j] = up[j + 1] /\ j + 1 \in 1..i
    BY <1>1 DEF Taking
  <2> QED
    BY <1>1, <2>2, <2>3 DEF Taking
<1>4. Announced' => Announced
  BY <1>1 DEF Announced, Taking
<1>5. ~IsOffer(up[1]) /\ Announced => Announced'
  <2> SUFFICES ASSUME ~IsOffer(up[1]), NEW i \in 1..Len(up), IsOffer(up[i]) PROVE Announced'
    BY DEF Announced
  <2>1. i - 1 \in 1..Len(up') /\ up'[i - 1] = up[i]
    BY <1>1 DEF Taking
  <2> QED
    BY <2>1 DEF Announced
<1>6. CASE IsOffer(up[1])
  <2>1. host' = [host EXCEPT !.open = TRUE, !.owner = "client"] /\ UNCHANGED down
    BY <1>1, <1>6 DEF HostTakes, IsOffer, None
  <2>2. host'.owner = "client" /\ host'.text = host.text /\ host'.kind = host.kind
    BY <2>1 DEF ClipReads, ClipTypes
  <2>3. Mine /\ NoAnswer /\ NoAnswer'
    BY <1>1, <1>6, <2>1 DEF Mine, Announced, Agreed, MineInv, Taking, NoAnswer
  <2>4. FreshInv'
    BY <1>0, <2>1, <2>2, FreshKept DEF NotTheirs, Agreed
  <2>5. MineInv'
    BY <1>0, <2>3 DEF Agreed, MineInv
  <2>6. OrderInv'
    BY <1>1, <1>0, <1>2, <1>3, <1>6, <2>1 DEF Agreed, OrderInv, Taking
  <2>7. TheirsInv'
    BY <2>2 DEF Agreed, TheirsInv, None
  <2> QED
    BY <2>4, <2>5, <2>6, <2>7 DEF Agreed
<1>7. CASE (up[1].kind = "list" /\ ~IsOffer(up[1])) \/ up[1].kind = "response"
  <2>0. up[1].kind = "list" /\ ~IsOffer(up[1]) => host.owner # "client" /\ up[1].form = None
    BY <1>1 DEF Agreed, OrderInv, Taking, ToHost, Announcements, Requests, IsOffer
  <2>1. /\ \/ host' = [host EXCEPT !.open = TRUE, !.owner = IF @ = "client" THEN None ELSE @]
              /\ host.owner # "client"
           \/ host' = [host EXCEPT !.pasting = FALSE]
        /\ UNCHANGED down
    BY <1>1, <1>7, <2>0 DEF HostTakes
  <2>2. host'.owner = host.owner /\ host'.text = host.text /\ host'.kind = host.kind
    BY <2>1 DEF ClipReads, ClipTypes
  <2>3. Announced' <=> Announced
    BY <1>4, <1>5, <1>7 DEF IsOffer
  <2>4. FreshInv'
    BY <1>0, <2>1, <2>2, FreshKept DEF NotTheirs, Agreed
  <2>5. MineInv'
    BY <1>0, <2>1, <2>2, <2>3 DEF Agreed, MineInv, Mine, NoAnswer
  <2>6. OrderInv'
    BY <1>1, <1>0, <1>2, <1>3, <2>1, <2>2 DEF Agreed, OrderInv, Taking
  <2>7. TheirsInv'
    <3>1. (\E i \in 1..Len(up) : up[i].kind = "request") => \E i \in 1..Len(up') : up'[i].kind = "request"
      <4> SUFFICES ASSUME NEW i \in 1..Len(up), up[i].kind = "request"
                   PROVE  \E j \in 1..Len(up') : up'[j].kind = "request"
        OBVIOUS
      <4>1. i - 1 \in 1..Len(up') /\ up'[i - 1] = up[i]
        BY <1>1, <1>7 DEF Taking
      <4> QED
        BY <4>1
    <3>2. AllTheirs(down) => AllTheirs(down)'
      BY <2>1, <2>2 DEF AllTheirs
    <3> QED
      BY <1>0, <2>1, <2>2, <2>3, <3>1, <3>2 DEF Agreed, TheirsInv, NoAnswer
  <2> QED
    BY <2>4, <2>5, <2>6, <2>7 DEF Agreed
<1>8. CASE up[1].kind = "request"
  <2> DEFINE e == IF host.owner = "host" /\ host.kind = Head(up).form
                  THEN Msg("response", Head(up).form, host.text) ELSE Fail
  <2>0. Head(up).form = "unicode" /\ 1 \in 1..Len(up)
    BY <1>1, <1>8 DEF Agreed, OrderInv, Taking
  <2>1. e \in ToClient /\ e.kind = "response" /\ ~IsList(e)
    BY <2>0 DEF Msg, ToClient, IsList, TextKinds, ClipReads, ClipTypes, Fail, Text0
  <2>2. /\ host.owner = "host" /\ host.kind = "unicode" => Answer(e) /\ e.text = host.text
        /\ Answer(e) => host.owner = "host" /\ host.kind = "unicode" /\ e.text = host.text
    BY <2>0 DEF Msg, Fail, Answer, None
  <2>3. down' = Append(down, e) /\ UNCHANGED host
    BY <1>1, <1>8 DEF HostTakes
  <2> HIDE DEF e
  <2>4. Sending(down, down', e)
    BY <2>1, <2>3, SentTo DEF ClipReads, ClipTypes
  <2>5. ~Announced
    BY <1>8, <2>0, <1>1 DEF Announced, Agreed, OrderInv, IsOffer, Taking
  <2>6. \A i \in 1..Len(down) : down[i].kind # "ready"
    BY <1>8, <2>0 DEF Agreed, OrderInv
  <2>7. NoAnswer /\ ~Answer(e) => NoAnswer'
    BY <2>4 DEF NoAnswer, Sending
  <2>8. FreshInv'
    BY <1>0, <2>2, <2>3, <2>4, FreshKept DEF NotTheirs, Sending, Agreed
  <2>9. MineInv'
    BY <1>0, <1>4, <2>2, <2>3, <2>5, <2>7 DEF Agreed, MineInv, Mine
  <2>10. OrderInv'
    BY <2>1, <2>4, <2>6, <1>0, <1>2, <1>3, <2>3 DEF Agreed, OrderInv, Sending
  <2>11. TheirsInv'
    <3>1. \E i \in 1..Len(down') : down'[i].kind = "response"
      BY <2>1, <2>4 DEF Sending
    <3>2. NoList(down', Len(down') + 1) => NoList(down, Len(down) + 1)
      BY <2>4 DEF NoList, Sending
    <3>3. ASSUME host.owner = "host", host.kind = "unicode" PROVE AllTheirs(down)'
      BY <2>3, <2>4, <3>3, <2>2 DEF AllTheirs, Sending, Agreed, TheirsInv
    <3>4. ASSUME host.owner = None PROVE NoAnswer' /\ page.box = None
      BY <2>2, <2>5, <2>7, <3>4 DEF Agreed, TheirsInv, None
    <3>5. ASSUME host.owner = "host", host.kind = "unicode", NoList(down, Len(down) + 1)
          PROVE  page.box = host.text \/ clip.asked # None
      BY <2>5, <3>5 DEF Agreed, TheirsInv
    <3> QED
      BY <1>0, <2>3, <3>1, <3>2, <3>3, <3>4, <3>5 DEF Agreed, TheirsInv
  <2> QED
    BY <2>8, <2>9, <2>10, <2>11 DEF Agreed
<1> QED
  BY <1>1, <1>6, <1>7, <1>8 DEF ToHost, Announcements, Requests, IsOffer

\* The page reads and writes the local clipboard.
LEMMA FreshReads ==
  ASSUME LinkInv, ClipReads, FreshInv, InStep,
         Return \/ ReadThen \/ WriteThen \/ \E t \in Texts : UserSends(t) \/ CopyElsewhere(t),
         clip'.last = clip.last, UNCHANGED <<host, down>>
  PROVE  FreshInv'
<1>0. \A t : NotTheirs(t) => NotTheirs(t)'
  BY DEF NotTheirs
<1>1. CASE Return
  <2>1. PICK n \in 1..2 : page' = [page EXCEPT !.reads =
            IF Up THEN @ \o [i \in 1..n |-> local.text] ELSE @]
    BY <1>1 DEF Return
  <2>2. /\ ~local.focus /\ UNCHANGED env /\ local'.focus
        /\ NotTheirs(local.text) /\ local.text \notin env.texts
    BY <1>1 DEF Return, FreshInv, ClipReads, ClipTypes
  <2> DEFINE r == page.reads \o [i \in 1..n |-> local.text]
  <2>3. /\ Len(page.reads) \in Nat /\ n \in Nat /\ Len(r) = Len(page.reads) + n
        /\ \A k \in 1..Len(page.reads) : r[k] = page.reads[k]
        /\ \A k \in (Len(page.reads) + 1)..(Len(page.reads) + n) : r[k] = local.text
    BY Repeated DEF ClipReads, ClipTypes
  <2>4. page'.reads = IF Up THEN r ELSE page.reads
    BY <2>1 DEF ClipReads, ClipTypes
  <2> HIDE DEF r
  <2>5. \A i \in 1..Len(page'.reads) :
          \/ (i \in 1..Len(page.reads) /\ page'.reads[i] = page.reads[i])
          \/ page'.reads[i] = local.text
    BY <2>3, <2>4
  <2>6. \A i \in 1..Len(page'.reads) : NotTheirs(page'.reads[i]) /\ page'.reads[i] \notin env.texts
    BY <2>2, <2>5 DEF FreshInv
  <2>7. \A i \in 1..Len(page'.reads) : NotTheirs(page.reads[i])'
    BY <2>6 DEF NotTheirs
  <2> QED
    BY <1>0, <2>2, <2>6, <2>7 DEF FreshInv
<1>2. CASE ReadThen
  <2>1. page.reads # <<>> /\ page'.reads = Tail(page.reads) /\ UNCHANGED <<env, local>>
    BY <1>2 DEF ReadThen, ClipReads, ClipTypes
  <2>2. Taking(page.reads, page'.reads)
    BY <2>1, TakenFrom DEF ClipReads, ClipTypes
  <2>3. \A i \in 1..Len(page'.reads) : NotTheirs(page.reads[i])' /\ page'.reads[i] \notin env.texts
    <3> TAKE i \in 1..Len(page'.reads)
    <3>1. i + 1 \in 1..Len(page.reads) /\ page'.reads[i] = page.reads[i + 1]
      BY <2>2 DEF Taking
    <3>2. NotTheirs(page.reads[i + 1]) /\ page.reads[i + 1] \notin env.texts
      BY <3>1 DEF FreshInv
    <3> QED
      BY <3>1, <3>2 DEF NotTheirs
  <2> QED
    BY <1>0, <2>1, <2>3 DEF FreshInv
<1>3. CASE WriteThen
  BY <1>3, <1>0, FreshKept DEF WriteThen, ClipReads, ClipTypes
<1>4. ASSUME NEW t \in Texts, UserSends(t) PROVE FreshInv'
  BY <1>4, <1>0, FreshKept DEF InStep, May, UserSends, LinkInv, EnvironmentType, ClipReads,
     ClipTypes
<1>5. ASSUME NEW t \in Texts, CopyElsewhere(t) PROVE FreshInv'
  BY <1>5, <1>0 DEF InStep, May, CopyElsewhere, Used, Fresh, LinkInv, EnvironmentType, FreshInv
<1> QED
  BY <1>1, <1>2, <1>3, <1>4, <1>5

LEMMA AgreeSame ==
  ASSUME UNCHANGED <<clip, page, local, host, up, down>>, env'.texts = env.texts
  PROVE  FreshInv /\ (Up => OrderInv /\ MineInv /\ TheirsInv) =>
           FreshInv' /\ (Up => OrderInv' /\ MineInv' /\ TheirsInv')
BY FreshKept DEF NotTheirs, FreshInv, MineInv, Mine, Announced, NoAnswer, OrderInv, TheirsInv,
   AllTheirs, NoList

LEMMA AgreeClip ==
  ASSUME LinkInv, ClipReads, AgreeInv, ClipNext
  PROVE  AgreeInv'
<1>0. SameLink
  BY LinkClip
<1> SUFFICES ASSUME InStep, Up \/ link = "left"
             PROVE  FreshInv' /\ (Up => OrderInv' /\ MineInv' /\ TheirsInv')
  BY <1>0 DEF SameLink, SameMay, InStep, AgreeInv, LinkInv, Up
<1>1. FreshInv /\ (Up => Agreed) /\ ~May("crosses")
  BY DEF AgreeInv, Agreed, InStep, May
<1>2. CASE ClientTakes \/ HostTakes \/ HostPastes
  BY <1>2, <1>1, AgreeReady, AgreeList, AgreeRequest, AgreeResponse, AgreeHost, AgreePastes
     DEF ClientTakes, OnMonitorReady, OnFormatList, OnFormatDataRequest, OnFormatDataResponse,
     Took, HostTakes, HostPastes, ClipReads, Agreed
<1>3. ASSUME NEW t \in Texts, NEW k \in Kinds, HostCopies(t, k)
      PROVE  FreshInv' /\ (Up => OrderInv' /\ MineInv' /\ TheirsInv')
  BY <1>3, <1>1, AgreeCopies DEF HostCopies, Agreed
<1>4. ASSUME NEW t \in Texts, UserSends(t)
      PROVE  FreshInv' /\ (Up => OrderInv' /\ MineInv' /\ TheirsInv')
  BY <1>4, <1>1, AgreeSend, FreshReads DEF UserSends, Fresh, FreshInv, ClipReads, ClipTypes
<1>5. CASE ReadThen
  <2>0. page.reads # <<>> /\ UNCHANGED <<env, link, local, host, down>>
    BY <1>5 DEF ReadThen
  <2>1. CASE page' = [page EXCEPT !.reads = Tail(@)] /\ UNCHANGED <<clip, up>>
    BY <1>1, <1>5, <2>0, <2>1, FreshReads DEF ClipReads, ClipTypes, Agreed, MineInv, Mine,
       Announced, NoAnswer, OrderInv, TheirsInv, AllTheirs, NoList
  <2>2. CASE /\ page' = [page EXCEPT !.reads = Tail(@), !.exchanged = Head(page.reads),
                                     !.box = Head(page.reads)]
             /\ SendText(Head(page.reads)) /\ Uncrossed
    <3>1. page'.box = Head(page.reads)
      BY <2>2 DEF ClipReads, ClipTypes
    <3>2. Head(page.reads) = page.reads[1] /\ 1 \in 1..Len(page.reads)
      BY <2>0, Popped DEF ClipReads, ClipTypes
    <3>3. NotTheirs(Head(page.reads))
      BY <1>1, <3>2 DEF FreshInv
    <3>4. clip'.last = clip.last
      BY <2>2 DEF SendText, ClipReads, ClipTypes
    <3>5. Up => OrderInv' /\ MineInv' /\ TheirsInv'
      BY <1>1, <2>0, <2>2, <3>1, <3>3, AgreeSend
    <3> QED
      BY <1>1, <1>5, <2>0, <3>4, <3>5, FreshReads
  <2> QED
    BY <1>5, <2>1, <2>2, Zenon DEF ReadThen
<1>6. ASSUME Return \/ WriteThen \/ \E t \in Texts : CopyElsewhere(t)
      PROVE  FreshInv' /\ (Up => OrderInv' /\ MineInv' /\ TheirsInv')
  <2>1. UNCHANGED <<clip, host, up, down>> /\ page'.box = page.box
    BY <1>6 DEF Return, WriteThen, CopyElsewhere, ClipReads, ClipTypes
  <2>2. FreshInv'
    BY <1>1, <1>6, <2>1, FreshReads
  <2>3. Up => MineInv'
    BY <1>1, <2>1 DEF Agreed, MineInv, Mine, Announced, NoAnswer
  <2>4. Up => OrderInv'
    BY <1>1, <2>1 DEF Agreed, OrderInv
  <2>5. Up => TheirsInv'
    BY <1>1, <2>1 DEF Agreed, TheirsInv, AllTheirs, NoList, Announced, NoAnswer
  <2> QED
    BY <2>2, <2>3, <2>4, <2>5
<1> QED
  BY <1>2, <1>3, <1>4, <1>5, <1>6 DEF ClipNext

LEMMA AgreeNext ==
  ASSUME LinkInv, ClipReads, AgreeInv, [Next]_vars
  PROVE  AgreeInv'
<1>0. SameMay /\ (InStep' <=> InStep)
  BY LinkNext DEF SameMay, InStep
<1>1. CASE ClipNext
  BY <1>1, AgreeClip
<1>2. CASE UNCHANGED <<link, clipVars>> /\ env'.texts = env.texts
  BY <1>0, <1>2, AgreeSame DEF clipVars, AgreeInv, Up
<1>3. CASE Activate \/ Reactivate
  BY <1>3, <1>2, LinkOthers DEF Activate, Reactivate, OnActive, BeginReactivation
<1>4. CASE Drop \/ Redirect \/ StartProtocol
  BY <1>0, <1>4 DEF Drop, Redirect, StartProtocol, AgreeInv, InStep, May
<1>5. CASE Disconnect
  <2> SUFFICES ASSUME InStep PROVE link' # "down" /\ ~Up' /\ FreshInv'
    BY <1>0 DEF AgreeInv
  <2>1. /\ link' = "left" /\ UNCHANGED <<clip, page, local>> /\ down' = <<>>
        /\ env'.texts = env.texts /\ host'.text = host.text
    BY <1>5, LinkOthers DEF Disconnect, ClipDown, ClipReads, ClipTypes
  <2>2. \A t : NotTheirs(t) => NotTheirs(t)'
    BY <2>1 DEF NotTheirs
  <2>3. FreshInv'
    BY <2>1, <2>2, FreshKept DEF AgreeInv
  <2> QED
    BY <2>1, <2>3 DEF Up
<1>6. CASE UNCHANGED vars
  BY <1>2, <1>6 DEF vars
<1> QED
  BY <1>1, <1>2, <1>3, <1>4, <1>5, <1>6, LinkMic, LinkSound, LinkKeys, LinkPointer
  DEF Next, Rest, SameLink

LEMMA AgreeInit == Init => AgreeInv
<1> SUFFICES ASSUME Init, InStep PROVE AgreeInv
  BY DEF AgreeInv
<1> DEFINE m == Msg("ready", None, None)
<1>1. m.kind = "ready" /\ ~Answer(m) /\ ~IsList(m)
  BY DEF Msg, IsList, Answer
<1>2. down = <<m>> \/ down = <<>>
  BY DEF Init, ClipInit
<1> HIDE DEF m
<1>3. \A i \in 1..Len(down) : i = 1 /\ down[i] = m
  BY OneMessage, <1>2
<1>4. /\ up = <<>> /\ Len(up) = 0 /\ page.box = None /\ page.reads = <<>> /\ Len(page.reads) = 0
      /\ clip.text = None /\ clip.last = None /\ host.text = None /\ host.owner = None
      /\ host.kind = "files" /\ local.focus /\ link = "up"
      /\ env.texts \in SUBSET Texts
  BY SessionAssumption DEF Init, ClipInit, EnvironmentType
<1>5. NoAnswer /\ ~Announced
  BY <1>1, <1>3, <1>4 DEF NoAnswer, Announced
<1>6. FreshInv
  BY <1>4, <1>5, SessionAssumption DEF NotTheirs, NoAnswer, FreshInv
<1>7. OrderInv
  BY <1>1, <1>3, <1>4 DEF OrderInv
<1>8. MineInv /\ TheirsInv
  BY <1>4, <1>5 DEF MineInv, Mine, TheirsInv, None
<1> QED
  BY <1>4, <1>6, <1>7, <1>8 DEF AgreeInv, Up

-----------------------------------------------------------------------------

ClipInv == LinkInv /\ ClipReads /\ AgreeInv

LEMMA ClipInvariant == Spec => []ClipInv
<1>1. Init => ClipInv
  BY LinkInit, ReadsInit, AgreeInit DEF ClipInv
<1>2. ClipInv /\ [Next]_vars => ClipInv'
  BY LinkNext, ReadsNext, AgreeNext DEF ClipInv
<1> QED
  BY <1>1, <1>2, PTL DEF Spec

\* A text of the host is read as what it is, in every environment: however often it is
\* announced, of whatever kind, and whatever is sent or ends in between.
THEOREM TextsAreRead == Spec => [](ClipTypeOK /\ TextIsRead)
<1>1. ClipInv => ClipTypeOK /\ TextIsRead
  BY SessionAssumption DEF Text0, Garbled, None, TextKinds, Kinds, ClipInv, ClipReads, ClipTypes,
     ClipTypeOK, TextIsRead
<1> QED
  BY <1>1, ClipInvariant, PTL

\* Once everything has arrived, the box shows what a paste in the session yields, if
\* no text is sent into an announcement of the host, copied again or carried over to
\* another session, and the host offers its texts as Unicode.
THEOREM ClipboardsInStep == Spec => [](InStep => ClipboardsAgree)
<1>1. ClipInv => (InStep => ClipboardsAgree)
  <2> SUFFICES ASSUME ClipInv, InStep, AtRest, ~(host.owner = "host" /\ host.kind = "files")
               PROVE  page.box = HostSees
    BY DEF ClipboardsAgree
  <2>1. MineInv /\ TheirsInv
    BY DEF ClipInv, AgreeInv, AtRest
  <2>2. Len(up) = 0 /\ Len(down) = 0
    BY DEF AtRest
  <2>3. ~Announced /\ NoList(down, Len(down) + 1)
    BY <2>2 DEF Announced, NoList
  <2>4. CASE host.owner = "host"
    BY <2>1, <2>4, <2>2, <2>3 DEF TheirsInv, ClipInv, ClipReads, ClipTypes, Kinds, HostSees
  <2>5. CASE host.owner = "client"
    BY <2>1, <2>5 DEF MineInv, Mine, HostSees
  <2>6. CASE host.owner = None
    BY <2>1, <2>3, <2>6 DEF TheirsInv, HostSees, None
  <2> QED
    BY <2>4, <2>5, <2>6 DEF ClipInv, ClipReads, ClipTypes
<1> QED
  BY <1>1, ClipInvariant, PTL

-----------------------------------------------------------------------------
(* The sound: its types, and the blocks on their way.                      *)

Sides  == {"static", "dynamic"}
Block  == [no : Nat, form : Nat, means : Formats \cup {None}, made : Nat]
Heard  == [no : Nat, form : Formats, means : Formats \cup {None}, session : Nat,
           start : Nat, late : Int]
ToSource   == [kind : {"formats", "trained", "confirm"}, on : Sides, block : Block,
               formats : Seq(Formats)]
Kind0      == {"training", "info", "body", "wave2", "create", "close"}
FromSource ==
  [kind : {"formats"}, on : Sides, block : Block, formats : Offers]
    \cup [kind : Kind0, on : Sides \cup {None}, block : Block, formats : {<<>>}]

SoundTypes ==
  /\ snd \in [on : Sides \cup {None}, formats : Seq(Formats), pending : Block]
  /\ play \in [now : Nat, runs : BOOLEAN, head : Nat, session : Nat, heard : Seq(Heard), worst : Nat]
  /\ source \in [on : Sides, step : {"idle", "offered", "trains", "ready"}, agreed : Seq(Formats),
                 open : SUBSET Nat, sent : Nat, made : Nat]
  /\ sndUp \in Seq(ToSource) /\ sndDown \in Seq(FromSource)
  /\ clock \in Nat /\ play.now <= clock /\ source.made <= clock /\ source.open \subseteq 1..source.sent
  /\ ~Up => sndUp = <<>> /\ sndDown = <<>>

Wave(p)      == p.kind \in {"info", "wave2", "body"}
Starting(p)  == p.kind \in {"info", "wave2"}
Before(a, b) == a.no < b.no /\ a.made < b.made

\* Blocks are in the order of their numbers, and the parts of a block side by side.
Ordered(q) ==
  \A i, j \in 1..Len(q) : i < j /\ Wave(q[i]) /\ Wave(q[j]) =>
    \/ Before(q[i].block, q[j].block)
    \/ (q[i].kind = "info" /\ q[j].kind = "body" /\ q[i].block = q[j].block)
Paired(q) ==
  \A i \in 1..Len(q) : q[i].kind = "info" =>
    /\ i + 1 \in 1..Len(q) /\ q[i + 1].kind = "body"
    /\ q[i + 1].block = q[i].block /\ q[i + 1].on = q[i].on

\* The blocks still to be played.
Due ==
  {sndDown[i].block : i \in {k \in 1..Len(sndDown) : Starting(sndDown[k])}}
    \cup {b \in {snd.pending} : b # NoBlock}

QueueInv ==
  /\ Ordered(sndDown) /\ Paired(sndDown)
  /\ \A i \in 1..Len(sndDown) : Wave(sndDown[i]) =>
       /\ sndDown[i].block.no \in 1..source.sent /\ sndDown[i].block.made <= source.made
  /\ snd.pending # NoBlock =>
       /\ sndDown # <<>> /\ sndDown[1].kind = "body"
       /\ sndDown[1].block = snd.pending /\ Reaches(sndDown[1])

\* What was heard comes before that.
HeardInv ==
  /\ \A i \in 1..Len(play.heard) :
       /\ play.heard[i].no <= source.sent
       /\ \A b \in Due : play.heard[i].no < b.no
       /\ play.heard[i].session <= play.session
       /\ play.heard[i].session = play.session => play.heard[i].start < play.head
  /\ \A i, j \in 1..Len(play.heard) :
       i < j => /\ play.heard[i].no < play.heard[j].no
                /\ play.heard[i].session = play.heard[j].session =>
                     play.heard[i].start < play.heard[j].start

\* The playhead is no further from a block than the slowest block was late.
LateInv ==
  ~May("suspends") =>
    /\ play.runs /\ play.now = clock
    /\ play.head <= source.made + play.worst + 1
    /\ \A b \in Due : play.head <= b.made + play.worst
    /\ \A i \in 1..Len(play.heard) : play.heard[i].late <= play.worst

-----------------------------------------------------------------------------
(* The sound: formats, as long as it does not move back.                   *)

Sets(p)    == p.kind \in {"create", "formats"}
NothingSets(q) == \A i \in 1..Len(q) : ~Sets(q[i])

\* PDUs of a kind on the channel the host uses.
OnIt(p, kind, on) == p.kind = kind /\ p.on = on
Has(q, kind, on)  == \E i \in 1..Len(q) : OnIt(q[i], kind, on)
Once(q, kind, on) ==
  \A i, j \in 1..Len(q) : OnIt(q[i], kind, on) /\ OnIt(q[j], kind, on) => i = j

\* On its way are PDUs of the channel the host uses, which the client uses as well unless
\* it has yet to be told of it.
ChannelInv ==
  /\ \A i \in 1..Len(sndDown) : sndDown[i].kind # "close"
  /\ source.on = "static" =>
       /\ \A i \in 1..Len(sndDown) : sndDown[i].kind # "create" /\ sndDown[i].on = "static"
       /\ \A i \in 1..Len(sndUp) : sndUp[i].on = "static"
       /\ snd.on # "dynamic"
  /\ source.on = "dynamic" =>
       /\ \A i \in 1..Len(sndDown) : sndDown[i].kind = "create" =>
            /\ \A j \in 1..(i - 1) : sndDown[j].on = "static" /\ sndDown[j].kind # "create"
            /\ \A j \in (i + 1)..Len(sndDown) : sndDown[j].on = "dynamic" /\ sndDown[j].kind # "create"
            /\ \A j \in 1..Len(sndUp) : sndUp[j].on = "static"
            /\ snd.on = "static"
       /\ (\A i \in 1..Len(sndDown) : sndDown[i].kind # "create") =>
            snd.on = "dynamic" /\ \A j \in 1..Len(sndDown) : sndDown[j].on = "dynamic"

\* One offer at a time, and one training, and what the host agreed to is what the client
\* has, with nothing on its way that changes it.
OfferInv ==
  /\ Once(sndDown, "formats", source.on) /\ Once(sndUp, "formats", source.on)
  /\ Once(sndDown, "training", source.on) /\ Once(sndUp, "trained", source.on)
  /\ Has(sndDown, "formats", source.on) =>
       source.step = "offered" /\ ~Has(sndUp, "formats", source.on)
  /\ Has(sndUp, "formats", source.on) => source.step = "offered" /\ NothingSets(sndDown)
  /\ \A i \in 1..Len(sndUp) : OnIt(sndUp[i], "formats", source.on) => sndUp[i].formats = snd.formats
  /\ Has(sndDown, "training", source.on) =>
       source.step = "trains" /\ ~Has(sndUp, "trained", source.on)
  /\ Has(sndUp, "trained", source.on) => source.step = "trains"
  /\ source.step \in {"trains", "ready"} => snd.formats = source.agreed /\ NothingSets(sndDown)

\* A block is what the formats of the client say it is.
Means(b) == b.form \in DOMAIN snd.formats /\ snd.formats[b.form] = b.means

MeansInv ==
  /\ \A b \in Due : Means(b)
  /\ \A i \in 1..Len(sndDown) : Wave(sndDown[i]) => \A j \in 1..(i - 1) : ~Sets(sndDown[j])
  /\ \A i \in 1..Len(play.heard) : play.heard[i].form = play.heard[i].means

\* There is a channel for sound while there is a session.
BoundInv ==
  /\ Up /\ May("sound") => snd.on # None
  /\ ~Up => snd = NoSnd

Forms   == ChannelInv /\ OfferInv /\ MeansInv
FormInv == ~May("returns") => BoundInv /\ Forms

LEMMA BlockTypes == NoBlock \in Block /\ NoSnd \in [on : Sides \cup {None}, formats : Seq(Formats), pending : Block]
BY DEF NoBlock, Block, NoSnd

\* What PlayPcm adds to what was heard.
Entry(form, b) ==
  [no |-> b.no, form |-> form, means |-> b.means, session |-> play.session, start |-> Start,
   late |-> (Start - play.now) + (clock - b.made)]

PlayType ==
  [now : Nat, runs : BOOLEAN, head : Nat, session : Nat, heard : Seq(Heard), worst : Nat]

LEMMA Played ==
  ASSUME SoundTypes, NEW form \in Formats, NEW b \in Block, PlayPcm(form, b)
  PROVE  /\ Start \in Nat /\ Start >= play.now /\ Start >= play.head
         /\ Start = play.now \/ Start = play.head
         /\ play' \in PlayType /\ Entry(form, b) \in Heard
         /\ play'.now = play.now /\ play'.runs = play.runs /\ play'.session = play.session
         /\ play'.head = Start + 1 /\ play'.worst >= play.worst
         /\ play'.worst >= clock - b.made
         /\ play'.heard = Append(play.heard, Entry(form, b))
<1>1. play \in PlayType /\ clock \in Nat /\ b.made \in Nat /\ b.no \in Nat
      /\ b.means \in Formats \cup {None}
  BY DEF SoundTypes, Block, PlayType
<1>2. /\ Start \in Nat /\ Start >= play.now /\ Start >= play.head
      /\ Start = play.now \/ Start = play.head
      /\ Longest(Start, play.now) = Start
  BY <1>1 DEF Start, Longest, PlayType
<1>3. Entry(form, b) \in Heard
  BY <1>1, <1>2 DEF Entry, Heard, PlayType
<1> DEFINE w == Longest(play.worst, clock - b.made)
<1>4. w \in Nat /\ w >= play.worst /\ w >= clock - b.made
  BY <1>1 DEF Longest, PlayType
<1>5. play' = [play EXCEPT !.head = Start + 1, !.worst = w,
                           !.heard = Append(play.heard, Entry(form, b))]
  BY <1>2 DEF PlayPcm, Entry
<1> HIDE DEF w
<1>6. Append(play.heard, Entry(form, b)) \in Seq(Heard)
  BY <1>1, <1>3, Pushed DEF PlayType
<1>7. Start + 1 \in Nat
  BY <1>2
<1>8. play' \in PlayType
  BY <1>1, <1>4, <1>5, <1>6, <1>7 DEF PlayType
<1> QED
  BY <1>1, <1>2, <1>3, <1>4, <1>5, <1>8 DEF PlayType

LEMMA FormatsOf ==
  ASSUME SoundTypes, snd.formats # <<>>, NEW n \in Nat
  PROVE  FormatOf(n) \in Formats
BY EmptySeq, LenProperties DEF SoundTypes, FormatOf

\* What is delivered is played, or not for want of formats.
LEMMA DeliverTypes ==
  ASSUME SoundTypes, NEW b \in Block, DeliverWave(b), snd.on # None
  PROVE  /\ play' \in PlayType /\ play'.now = play.now
         /\ sndUp' \in Seq(ToSource) /\ sndUp' = Append(sndUp, Pdu("confirm", snd.on, b, <<>>))
         /\ \/ UNCHANGED play
            \/ snd.formats # <<>> /\ FormatOf(b.form) \in Formats /\ PlayPcm(FormatOf(b.form), b)
<1>1. Pdu("confirm", snd.on, b, <<>>) \in ToSource
  BY DEF Pdu, ToSource, SoundTypes
<1>2. sndUp' = Append(sndUp, Pdu("confirm", snd.on, b, <<>>))
  BY DEF DeliverWave, Reply
<1>3. sndUp' \in Seq(ToSource)
  BY <1>1, <1>2, Pushed DEF SoundTypes
<1>4. b.form \in Nat
  BY DEF Block
<1>5. \/ UNCHANGED play
      \/ snd.formats # <<>> /\ FormatOf(b.form) \in Formats /\ PlayPcm(FormatOf(b.form), b)
  BY <1>4, FormatsOf DEF DeliverWave
<1>6. play' \in PlayType /\ play'.now = play.now
  BY <1>5, Played DEF SoundTypes, PlayType
<1> QED
  BY <1>2, <1>3, <1>5, <1>6

LEMMA SoundTypesClient ==
  ASSUME LinkInv, SoundTypes, QueueInv, ClientHears
  PROVE  SoundTypes' /\ Up /\ Taking(sndDown, sndDown') /\ sndDown[1] = Head(sndDown)
         /\ Head(sndDown) \in FromSource /\ UNCHANGED <<env, link, source, clock>>
<1>1. Up /\ sndDown # <<>> /\ sndDown' = Tail(sndDown) /\ UNCHANGED <<env, link, source, clock>>
  BY DEF ClientHears, OnServerFormats, OnTraining, OnWaveInfo, OnWave2, OnWaveBody,
         SoundDropped, OnAudioChannel, Handled, TakesSound
<1>2. /\ Taking(sndDown, sndDown') /\ sndDown[1] = Head(sndDown) /\ Head(sndDown) \in FromSource
      /\ sndDown' \in Seq(FromSource)
  BY <1>1, TakenFrom, Popped DEF SoundTypes
<1>3. Head(sndDown).block \in Block /\ snd.pending \in Block
  BY <1>2 DEF FromSource, SoundTypes
<1> SUFFICES /\ snd' \in [on : Sides \cup {None}, formats : Seq(Formats), pending : Block]
             /\ play' \in PlayType /\ play'.now = play.now /\ sndUp' \in Seq(ToSource)
  BY <1>1, <1>2 DEF SoundTypes, Up, PlayType
<1> USE DEF SoundTypes, PlayType
<1>4. CASE OnServerFormats
  <2>1. Head(sndDown).formats \in Offers /\ snd.on \in Sides
    BY <1>2, <1>4 DEF FromSource, Kind0, TakesSound, OnServerFormats, Handled, Reaches
  <2> DEFINE fs == Playable(Head(sndDown).formats)
             e  == Pdu("formats", snd.on, NoBlock, fs)
  <2>2. snd' = [snd EXCEPT !.formats = fs] /\ sndUp' = Append(sndUp, e) /\ UNCHANGED play
    BY <1>4 DEF OnServerFormats, Reply
  <2>3. fs \in Seq(Formats)
    BY <2>1, PlayableAssumption
  <2> HIDE DEF fs
  <2>4. e \in ToSource
    BY <2>1, <2>3, BlockTypes DEF Pdu, ToSource
  <2> HIDE DEF e
  <2>5. sndUp' \in Seq(ToSource)
    BY <2>2, <2>4, Pushed
  <2> QED
    BY <2>2, <2>3, <2>5
<1>5. CASE OnTraining
  <2> DEFINE e == Pdu("trained", snd.on, NoBlock, <<>>)
  <2>1. sndUp' = Append(sndUp, e) /\ UNCHANGED <<snd, play>> /\ snd.on \in Sides
    BY <1>5 DEF OnTraining, Reply, Handled, Reaches
  <2>2. e \in ToSource
    BY <2>1, BlockTypes DEF Pdu, ToSource
  <2> HIDE DEF e
  <2>3. sndUp' \in Seq(ToSource)
    BY <2>1, <2>2, Pushed
  <2> QED
    BY <2>1, <2>3
<1>6. CASE OnWaveInfo
  BY <1>3, <1>6 DEF OnWaveInfo
<1>7. CASE OnWave2
  BY <1>3, <1>7, DeliverTypes DEF OnWave2, Handled, Reaches
<1>8. CASE OnWaveBody
  BY <1>3, <1>8, DeliverTypes, BlockTypes DEF OnWaveBody, Handled, Reaches
<1>9. CASE SoundDropped
  BY <1>9 DEF SoundDropped
<1>10. CASE OnAudioChannel
  BY <1>10, BlockTypes DEF OnAudioChannel, NewSnd, Sides
<1> QED
  BY <1>4, <1>5, <1>6, <1>7, <1>8, <1>9, <1>10 DEF ClientHears

LEMMA SoundTypesHost ==
  ASSUME LinkInv, SoundTypes,
         \/ HostHears \/ HostMovesSound \/ Tick \/ PrimeAudio
         \/ \E offer \in Offers : HostOffersSound(offer)
         \/ \E form \in DOMAIN source.agreed : HostSends(form)
  PROVE  SoundTypes'
<1> USE DEF SoundTypes
<1>1. CASE HostHears
  <2>0. /\ Up /\ sndUp # <<>> /\ sndUp' = Tail(sndUp) /\ UNCHANGED <<env, link, snd, play, clock>>
    BY <1>1 DEF HostHears
  <2>1. Head(sndUp) \in ToSource /\ sndUp' \in Seq(ToSource)
    BY <2>0, Popped
  <2> DEFINE e == Pdu("training", source.on, NoBlock, <<>>)
  <2>2. e \in FromSource
    BY BlockTypes DEF Pdu, FromSource, Kind0
  <2> HIDE DEF e
  <2>3. Append(sndDown, e) \in Seq(FromSource)
    BY <2>2, Pushed
  <2>4. sndDown' = Append(sndDown, e) \/ sndDown' = sndDown
    BY <1>1 DEF HostHears, e
  <2>5. \/ source' = source
        \/ source' = [source EXCEPT !.step = "trains", !.agreed = Head(sndUp).formats]
        \/ source' = [source EXCEPT !.step = "ready"]
        \/ source' = [source EXCEPT !.open = @ \ {Head(sndUp).block.no}]
    BY <1>1, Zenon DEF HostHears
  <2>6. Head(sndUp).formats \in Seq(Formats)
    BY <2>1 DEF ToSource
  <2>7. /\ source' \in [on : Sides, step : {"idle", "offered", "trains", "ready"},
                        agreed : Seq(Formats), open : SUBSET Nat, sent : Nat, made : Nat]
        /\ source'.sent = source.sent /\ source'.made = source.made
        /\ source'.open \subseteq source.open
    <3>1. CASE source' = source
      BY <3>1
    <3>2. CASE source' = [source EXCEPT !.step = "trains", !.agreed = Head(sndUp).formats]
      BY <2>6, <3>2
    <3>3. CASE source' = [source EXCEPT !.step = "ready"]
      BY <3>3
    <3>4. CASE source' = [source EXCEPT !.open = @ \ {Head(sndUp).block.no}]
      BY <3>4
    <3> QED
      BY <2>5, <3>1, <3>2, <3>3, <3>4
  <2> QED
    BY <2>0, <2>1, <2>3, <2>4, <2>7 DEF Up
<1>2. CASE HostMovesSound
  <2>0. Up /\ UNCHANGED <<link, snd, play, sndUp, clock>>
    BY <1>2 DEF HostMovesSound
  <2>1. PICK kind \in {"create", "close"} : sndDown' = Append(sndDown, Pdu(kind, None, NoBlock, <<>>))
    BY <1>2 DEF HostMovesSound
  <2>2. Pdu(kind, None, NoBlock, <<>>) \in FromSource
    BY BlockTypes DEF Pdu, FromSource, Kind0
  <2>3. sndDown' \in Seq(FromSource)
    BY <2>1, <2>2, Pushed
  <2>4. \/ source' = [NewSource(source.sent, source.made) EXCEPT !.on = "dynamic"]
        \/ source' = NewSource(source.sent, source.made)
    BY <1>2 DEF HostMovesSound
  <2>5. <<>> \in Seq(Formats)
    OBVIOUS
  <2>6. /\ source' \in [on : Sides, step : {"idle", "offered", "trains", "ready"},
                        agreed : Seq(Formats), open : SUBSET Nat, sent : Nat, made : Nat]
        /\ source'.made = source.made /\ source'.open = {}
    <3>1. PICK s \in Sides : source' = [on |-> s, step |-> "idle", agreed |-> <<>>, open |-> {},
                                       sent |-> source.sent, made |-> source.made]
      BY <2>4 DEF NewSource, Sides
    <3>2. source.sent \in Nat /\ source.made \in Nat /\ {} \in SUBSET Nat
      OBVIOUS
    <3> QED
      BY <2>5, <3>1, <3>2
  <2> QED
    BY <2>0, <2>3, <2>6 DEF Up
<1>3. CASE Tick
  <2>1. /\ UNCHANGED <<link, snd, source, sndUp, sndDown>> /\ clock' = clock + 1
        /\ play' = [play EXCEPT !.now = IF play.runs THEN @ + 1 ELSE @]
    BY <1>3 DEF Tick
  <2>2. play' \in PlayType /\ play'.now <= clock'
    <3> DEFINE n == IF play.runs THEN play.now + 1 ELSE play.now
    <3>1. n \in Nat /\ n <= clock + 1 /\ play' = [play EXCEPT !.now = n]
      BY <2>1
    <3> HIDE DEF n
    <3>2. play \in PlayType
      BY DEF PlayType
    <3> QED
      BY <2>1, <3>1, <3>2 DEF PlayType
  <2>3. source.made <= clock'
    BY <2>1
  <2>4. Up' <=> Up
    BY <2>1 DEF Up
  <2>5. clock' \in Nat
    BY <2>1
  <2> QED
    BY <2>1, <2>2, <2>3, <2>4, <2>5 DEF PlayType
<1>4. CASE PrimeAudio
  BY <1>4 DEF PrimeAudio, Up
<1>5. ASSUME NEW offer \in Offers, HostOffersSound(offer) PROVE SoundTypes'
  <2> DEFINE e == Pdu("formats", source.on, NoBlock, offer)
  <2>1. e \in FromSource
    BY BlockTypes DEF Pdu, FromSource
  <2>2. /\ sndDown' = Append(sndDown, e) /\ source' = [source EXCEPT !.step = "offered"]
        /\ Up /\ UNCHANGED <<link, snd, play, sndUp, clock>>
    BY <1>5 DEF HostOffersSound
  <2> HIDE DEF e
  <2>3. sndDown' \in Seq(FromSource)
    BY <2>1, <2>2, Pushed
  <2> QED
    BY <2>2, <2>3 DEF Up
<1>6. ASSUME NEW form \in DOMAIN source.agreed, HostSends(form) PROVE SoundTypes'
  <2> DEFINE b == [no |-> source.sent + 1, form |-> form, means |-> source.agreed[form], made |-> clock]
             wave(kind) == Pdu(kind, source.on, b, <<>>)
  <2>1. form \in Nat /\ source.agreed[form] \in Formats
    BY LenProperties
  <2>2. b \in Block
    BY <2>1 DEF Block
  <2>3. /\ Up /\ UNCHANGED <<env, link, snd, play, sndUp, clock>> /\ clock > source.made
        /\ source' = [source EXCEPT !.sent = @ + 1, !.made = clock, !.open = @ \cup {source.sent + 1}]
        /\ \/ sndDown' = Append(sndDown, wave("wave2"))
           \/ sndDown' = sndDown \o <<wave("info"), wave("body")>>
    BY <1>6, Zenon DEF HostSends
  <2> HIDE DEF b
  <2>4. wave("wave2") \in FromSource /\ wave("info") \in FromSource /\ wave("body") \in FromSource
    BY <2>2 DEF Pdu, FromSource, Kind0
  <2> HIDE DEF wave
  <2>5. Append(sndDown, wave("wave2")) \in Seq(FromSource)
    BY <2>4, Pushed
  <2>6. <<wave("info"), wave("body")>> \in Seq(FromSource)
    BY <2>4
  <2>7. sndDown \o <<wave("info"), wave("body")>> \in Seq(FromSource)
    BY <2>6, ConcatProperties
  <2>8. sndDown' \in Seq(FromSource)
    BY <2>3, <2>5, <2>7
  <2>9. /\ source.sent + 1 \in Nat /\ source.open \cup {source.sent + 1} \in SUBSET Nat
        /\ source.open \cup {source.sent + 1} \subseteq 1..(source.sent + 1)
    OBVIOUS
  <2>10. /\ source' \in [on : Sides, step : {"idle", "offered", "trains", "ready"},
                         agreed : Seq(Formats), open : SUBSET Nat, sent : Nat, made : Nat]
         /\ source'.made = clock /\ source'.sent = source.sent + 1
         /\ source'.open = source.open \cup {source.sent + 1}
    BY <2>3, <2>9
  <2>11. source'.made <= clock /\ source'.open \subseteq 1..source'.sent
    BY <2>9, <2>10
  <2>12. UNCHANGED <<snd, play, sndUp, clock>> /\ Up /\ Up'
    BY <2>3 DEF Up
  <2> QED
    BY <2>8, <2>10, <2>11, <2>12
<1> QED
  BY <1>1, <1>2, <1>3, <1>4, <1>5, <1>6

LEMMA SoundTypesEnds ==
  ASSUME SoundTypes, Drop \/ Redirect \/ Disconnect \/ StartProtocol
  PROVE  SoundTypes'
<1> USE DEF SoundTypes
<1>0. <<>> \in Seq(ToSource) /\ <<>> \in Seq(FromSource) /\ <<>> \in Seq(Formats)
  OBVIOUS
<1>1. CASE Drop \/ Redirect \/ Disconnect
  <2>1. PICK tornDown \in BOOLEAN : SoundDown(tornDown)
    BY <1>1 DEF Drop, Redirect, Disconnect
  <2>2. /\ snd' = NoSnd /\ sndUp' = <<>> /\ sndDown' = <<>> /\ clock' = clock
        /\ source' = NewSource(source.sent, source.made)
        /\ play' = [play EXCEPT !.head = 0, !.session = @ + 1] \/ play' = play
    BY <2>1 DEF SoundDown
  <2>3. play' \in PlayType /\ play'.now = play.now
    <3>1. play \in PlayType /\ play.session + 1 \in Nat
      BY DEF PlayType
    <3>2. CASE play' = [play EXCEPT !.head = 0, !.session = @ + 1]
      BY <3>1, <3>2 DEF PlayType
    <3>3. CASE play' = play
      BY <3>1, <3>3
    <3> QED
      BY <2>2, <3>2, <3>3
  <2> QED
    BY <1>0, <2>2, <2>3, BlockTypes DEF NewSource, PlayType, Sides
<1>2. CASE StartProtocol
  BY <1>2, <1>0, BlockTypes DEF StartProtocol, Up, SoundUp, NewSnd, Sides
<1> QED
  BY <1>1, <1>2

LEMMA SoundTypesInit == Init => SoundTypes
BY BlockTypes DEF Init, SoundInit, SoundTypes, NewSnd, NewSource, Sides, Up

LEMMA QueueTaken ==
  ASSUME NEW q, NEW r, Taking(q, r), Ordered(q), Paired(q)
  PROVE  Ordered(r) /\ Paired(r)
<1>1. Ordered(r)
  <2> SUFFICES ASSUME NEW i \in 1..Len(r), NEW j \in 1..Len(r), i < j, Wave(r[i]), Wave(r[j])
               PROVE  \/ Before(r[i].block, r[j].block)
                      \/ (r[i].kind = "info" /\ r[j].kind = "body" /\ r[i].block = r[j].block)
    BY DEF Ordered
  <2>1. /\ i + 1 \in 1..Len(q) /\ j + 1 \in 1..Len(q) /\ i + 1 < j + 1
        /\ r[i] = q[i + 1] /\ r[j] = q[j + 1]
    BY DEF Taking
  <2> QED
    BY <2>1 DEF Ordered
<1>2. Paired(r)
  <2> SUFFICES ASSUME NEW i \in 1..Len(r), r[i].kind = "info"
               PROVE  /\ i + 1 \in 1..Len(r) /\ r[i + 1].kind = "body"
                      /\ r[i + 1].block = r[i].block /\ r[i + 1].on = r[i].on
    BY DEF Paired
  <2>1. i + 1 \in 1..Len(q) /\ r[i] = q[i + 1]
    BY DEF Taking
  <2>2. (i + 1) + 1 \in 1..Len(q)
    BY <2>1 DEF Paired
  <2>3. i + 1 \in 1..Len(r)
    BY <2>2 DEF Taking
  <2>4. r[i + 1] = q[(i + 1) + 1]
    BY <2>3 DEF Taking
  <2> QED
    BY <2>1, <2>3, <2>4 DEF Paired
<1> QED
  BY <1>1, <1>2

LEMMA QueueSent ==
  ASSUME NEW q, NEW r, NEW e, Sending(q, r, e), Ordered(q), Paired(q), e.kind # "info",
         \A i \in 1..Len(q) : Wave(q[i]) /\ Wave(e) => Before(q[i].block, e.block)
  PROVE  Ordered(r) /\ Paired(r)
<1>1. Ordered(r)
  BY DEF Ordered, Sending
<1>2. Paired(r)
  BY DEF Paired, Sending
<1> QED
  BY <1>1, <1>2

LEMMA QueueSentParts ==
  ASSUME NEW q, NEW r, NEW x, NEW y, Ordered(q), Paired(q),
         Len(q) \in Nat, Len(r) = Len(q) + 2, r[Len(q) + 1] = x, r[Len(q) + 2] = y,
         \A i \in 1..Len(q) : r[i] = q[i],
         x.kind = "info", y.kind = "body", x.block = y.block, x.on = y.on,
         \A i \in 1..Len(q) : Wave(q[i]) => Before(q[i].block, x.block)
  PROVE  Ordered(r) /\ Paired(r)
<1>0. \A i \in 1..Len(r) : (i \in 1..Len(q) /\ r[i] = q[i]) \/ i = Len(q) + 1 \/ i = Len(q) + 2
  OBVIOUS
<1>1. Ordered(r)
  BY <1>0 DEF Ordered
<1>2. Paired(r)
  BY <1>0 DEF Paired
<1> QED
  BY <1>1, <1>2

SoundInv == QueueInv /\ HeardInv /\ LateInv

\* What is due becomes less, and nothing is played.
LEMMA DueLess ==
  ASSUME HeardInv, LateInv, SameMay, Due' \subseteq Due,
         UNCHANGED <<play, source, clock>>
  PROVE  HeardInv' /\ LateInv'
BY DEF HeardInv, LateInv, SameMay, May

\* What is taken was due.
LEMMA DueTaken ==
  ASSUME Taking(sndDown, sndDown'),
         \/ snd'.pending = NoBlock
         \/ sndDown[1].kind = "info" /\ snd'.pending = sndDown[1].block
  PROVE  Due' \subseteq Due
BY DEF Taking, Due, Starting

LEMMA SoundTaken ==
  ASSUME SoundTypes, SoundInv, SameMay, Taking(sndDown, sndDown'), sndDown' \in Seq(FromSource),
         UNCHANGED <<play, source, clock>>,
         \/ snd'.pending = NoBlock
         \/ /\ sndDown[1].kind = "info" /\ Reaches(sndDown[1])
            /\ snd'.pending = sndDown[1].block /\ snd'.on = snd.on
  PROVE  SoundInv'
<1>1. Ordered(sndDown') /\ Paired(sndDown')
  BY QueueTaken DEF SoundInv, QueueInv
<1>2. \A i \in 1..Len(sndDown') : Wave(sndDown'[i]) =>
        sndDown'[i].block.no \in 1..source.sent /\ sndDown'[i].block.made <= source.made
  BY DEF Taking, SoundInv, QueueInv
<1>3. ASSUME snd'.pending # NoBlock
      PROVE  /\ sndDown' # <<>> /\ sndDown'[1].kind = "body"
             /\ sndDown'[1].block = snd'.pending /\ Reaches(sndDown[1])' /\ sndDown'[1].on = sndDown[1].on
             /\ snd'.on = snd.on
  BY <1>3 DEF Taking, SoundInv, QueueInv, Paired, Reaches
<1>4. QueueInv'
  BY <1>3, <1>1, <1>2 DEF QueueInv
<1>5. Due' \subseteq Due
  BY DueTaken
<1> QED
  BY <1>4, <1>5, DueLess DEF SoundInv

\* A block is played, or for want of formats it is not.
LEMMA SoundDelivered ==
  ASSUME SoundTypes, SoundInv, SameMay, Taking(sndDown, sndDown'), sndDown' \in Seq(FromSource),
         UNCHANGED <<source, clock>>, snd'.pending = NoBlock,
         NEW b \in Due, b \in Block, b = sndDown[1].block, sndDown[1].kind \in {"wave2", "body"},
         \/ UNCHANGED play
         \/ FormatOf(b.form) \in Formats /\ PlayPcm(FormatOf(b.form), b)
  PROVE  SoundInv'
<1>1. Ordered(sndDown') /\ Paired(sndDown')
  BY QueueTaken DEF SoundInv, QueueInv
<1>2. \A i \in 1..Len(sndDown') : Wave(sndDown'[i]) =>
        sndDown'[i].block.no \in 1..source.sent /\ sndDown'[i].block.made <= source.made
  BY DEF Taking, SoundInv, QueueInv
<1>3. QueueInv'
  BY <1>1, <1>2 DEF QueueInv
<1>4. \A x \in Due' : x \in Due /\ Before(b, x) /\ x \in Block
  <2> SUFFICES ASSUME NEW x \in Due' PROVE x \in Due /\ Before(b, x) /\ x \in Block
    OBVIOUS
  <2>1. PICK i \in 1..Len(sndDown') : Starting(sndDown'[i]) /\ x = sndDown'[i].block
    BY DEF Due
  <2>2. i + 1 \in 1..Len(sndDown) /\ sndDown'[i] = sndDown[i + 1] /\ 1 \in 1..Len(sndDown) /\ 1 < i + 1
    BY DEF Taking
  <2>3. Before(b, x)
    BY <2>1, <2>2 DEF SoundInv, QueueInv, Ordered, Wave, Starting
  <2>4. sndDown[i + 1] \in FromSource
    BY <2>2, LenProperties DEF SoundTypes
  <2> QED
    BY <2>1, <2>2, <2>3, <2>4 DEF Due, FromSource
<1>5. CASE UNCHANGED play
  BY <1>3, <1>4, <1>5, DueLess DEF SoundInv
<1>6. CASE FormatOf(b.form) \in Formats /\ PlayPcm(FormatOf(b.form), b)
  <2> DEFINE e == Entry(FormatOf(b.form), b)
  <2>1. /\ Start \in Nat /\ Start >= play.now /\ Start >= play.head
        /\ (Start = play.now \/ Start = play.head)
        /\ play' \in PlayType /\ e \in Heard
        /\ play'.now = play.now /\ play'.runs = play.runs /\ play'.session = play.session
        /\ play'.head = Start + 1 /\ play'.worst >= play.worst
        /\ play'.worst >= clock - b.made
        /\ play'.heard = Append(play.heard, e)
    BY <1>6, Played
  <2>2. /\ e.no = b.no /\ e.session = play.session /\ e.start = Start
        /\ e.late = (Start - play.now) + (clock - b.made)
    BY DEF Entry
  <2> HIDE DEF e
  <2>3. Sending(play.heard, play'.heard, e)
    BY <2>1, SentTo DEF SoundTypes
  <2>4. /\ play \in PlayType /\ b.no \in Nat /\ b.made \in Nat /\ clock \in Nat
        /\ \A i \in 1..Len(play.heard) : play.heard[i] \in Heard
        /\ source.made \in Nat /\ source.sent \in Nat
    <3>1. play \in PlayType /\ clock \in Nat /\ source.made \in Nat /\ source.sent \in Nat
      BY DEF SoundTypes, PlayType
    <3>2. \A i \in 1..Len(play.heard) : play.heard[i] \in Heard
      BY <3>1, LenProperties DEF PlayType
    <3>3. b.no \in Nat /\ b.made \in Nat
      BY DEF Block
    <3> QED
      BY <3>1, <3>2, <3>3
  <2>9. /\ b.no \in Nat /\ b.made \in Nat /\ clock \in Nat /\ source.made \in Nat
        /\ source.sent \in Nat /\ play.session \in Nat /\ play.head \in Nat
        /\ play.worst \in Nat /\ play'.worst \in Nat /\ play.now \in Nat
    BY <2>1, <2>4 DEF PlayType
  <2>10. /\ Start \in Nat /\ Start >= play.now /\ Start >= play.head /\ play'.head = Start + 1
         /\ play'.worst >= play.worst /\ play'.worst >= clock - b.made
    BY <2>1
  <2>5. b.no <= source.sent /\ b.made <= source.made
    BY <2>4 DEF Taking, Wave, SoundInv, QueueInv
  <2>6. \A i \in 1..Len(play'.heard) :
          \/ (i \in 1..Len(play.heard) /\ play'.heard[i] = play.heard[i])
          \/ (i = Len(play.heard) + 1 /\ play'.heard[i] = e)
    BY <2>3 DEF Sending
  <2>7. HeardInv'
    <3>1. \A i \in 1..Len(play'.heard) :
            /\ play'.heard[i].no <= source.sent
            /\ \A x \in Due' : play'.heard[i].no < x.no
            /\ play'.heard[i].session <= play.session
            /\ play'.heard[i].session = play.session => play'.heard[i].start < play'.head
      <4> TAKE i \in 1..Len(play'.heard)
      <4>1. CASE i \in 1..Len(play.heard) /\ play'.heard[i] = play.heard[i]
        <5>1. /\ play.heard[i].no <= source.sent /\ play.heard[i].session <= play.session
              /\ \A x \in Due : play.heard[i].no < x.no
              /\ play.heard[i].session = play.session => play.heard[i].start < play.head
              /\ play.heard[i].start \in Nat /\ play.head \in Nat
          BY <2>4, <4>1 DEF SoundInv, HeardInv, Heard, PlayType
        <5> QED
          BY <1>4, <2>1, <4>1, <5>1
      <4>2. CASE play'.heard[i] = e
        <5>1. play'.heard[i].no = b.no /\ play'.heard[i].session = play.session
              /\ play'.heard[i].start = Start
          BY <2>2, <4>2
        <5>2. \A x \in Due' : b.no < x.no
          BY <1>4 DEF Before
        <5>3. Start < play'.head /\ play.session <= play.session
          BY <2>9, <2>10
        <5> QED
          BY <2>5, <5>1, <5>2, <5>3
      <4> QED
        BY <2>6, <4>1, <4>2
    <3>2. \A i, j \in 1..Len(play'.heard) :
            i < j => /\ play'.heard[i].no < play'.heard[j].no
                     /\ play'.heard[i].session = play'.heard[j].session =>
                          play'.heard[i].start < play'.heard[j].start
      <4> SUFFICES ASSUME NEW i \in 1..Len(play'.heard), NEW j \in 1..Len(play'.heard), i < j
                   PROVE  /\ play'.heard[i].no < play'.heard[j].no
                          /\ play'.heard[i].session = play'.heard[j].session =>
                               play'.heard[i].start < play'.heard[j].start
        OBVIOUS
      <4>0. i \in 1..Len(play.heard) /\ play'.heard[i] = play.heard[i]
        BY <2>3 DEF Sending
      <4>1. CASE j \in 1..Len(play.heard) /\ play'.heard[j] = play.heard[j]
        BY <4>0, <4>1 DEF SoundInv, HeardInv
      <4>2. CASE play'.heard[j] = e
        <5>1. /\ play.heard[i].no < b.no
              /\ play.heard[i].session = play.session => play.heard[i].start < play.head
              /\ play.heard[i].start \in Nat /\ play.head \in Nat
          BY <2>4, <4>0 DEF SoundInv, HeardInv, Heard, PlayType
        <5> QED
          BY <2>1, <2>2, <4>0, <4>2, <5>1
      <4> QED
        BY <2>6, <4>1, <4>2
    <3> QED
      BY <2>1, <3>1, <3>2 DEF HeardInv
  <2>8. LateInv'
    <3> SUFFICES ASSUME ~May("suspends")
                 PROVE  /\ play'.runs /\ play'.now = clock
                        /\ play'.head <= source.made + play'.worst + 1
                        /\ \A x \in Due' : play'.head <= x.made + play'.worst
                        /\ \A i \in 1..Len(play'.heard) : play'.heard[i].late <= play'.worst
      BY DEF LateInv, SameMay, May
    <3>1. /\ play.runs /\ play.now = clock /\ play.head <= b.made + play.worst
          /\ \A i \in 1..Len(play.heard) : play.heard[i].late <= play.worst
      BY DEF SoundInv, LateInv
    <3>2. /\ play.head \in Nat /\ play.worst \in Nat /\ play'.worst \in Nat /\ play.now \in Nat
      BY <2>1, <2>4 DEF PlayType
    <3>3. Start - clock + (clock - b.made) <= play'.worst /\ Start <= b.made + play'.worst
      <4>1. CASE Start = play.now
        BY <2>9, <2>10, <3>1, <4>1
      <4>2. CASE Start = play.head
        <5>1. play.head <= b.made + play.worst
          BY <3>1
        <5>2. Start <= b.made + play.worst /\ play.worst <= play'.worst
          BY <2>9, <2>10, <4>2, <5>1
        <5>3. Start <= b.made + play'.worst
          BY <2>9, <2>10, <5>2
        <5>4. Start - clock + (clock - b.made) = Start - b.made
          BY <2>9, <2>10
        <5> QED
          BY <2>9, <2>10, <5>3, <5>4
      <4> QED
        BY <2>1, <4>1, <4>2
    <3>4. play'.head <= b.made + play'.worst + 1
      BY <2>9, <2>10, <3>3, SMTT(30)
    <3>5. play'.head <= source.made + play'.worst + 1
      BY <2>1, <2>4, <2>5, <3>2, <3>4
    <3>6. \A x \in Due' : play'.head <= x.made + play'.worst
      <4> TAKE x \in Due'
      <4>1. b.made < x.made /\ x.made \in Nat
        BY <1>4 DEF Before, Block
      <4> QED
        BY <2>1, <2>4, <3>2, <3>4, <4>1
    <3>7. \A i \in 1..Len(play'.heard) : play'.heard[i].late <= play'.worst
      <4> TAKE i \in 1..Len(play'.heard)
      <4>1. CASE i \in 1..Len(play.heard) /\ play'.heard[i] = play.heard[i]
        <5>1. play.heard[i].late \in Int
          BY <2>4, <4>1 DEF Heard
        <5> QED
          BY <2>1, <3>1, <3>2, <4>1, <5>1
      <4>2. CASE play'.heard[i] = e
        BY <2>2, <3>1, <3>3, <4>2
      <4> QED
        BY <2>6, <4>1, <4>2
    <3> QED
      BY <2>1, <3>1, <3>5, <3>6, <3>7
  <2> QED
    BY <1>3, <2>7, <2>8 DEF SoundInv
<1> QED
  BY <1>5, <1>6

LEMMA SoundClient ==
  ASSUME LinkInv, SoundTypes, SoundInv, ClientHears
  PROVE  SoundInv'
<1>0. /\ SameMay /\ SoundTypes' /\ Taking(sndDown, sndDown') /\ sndDown[1] = Head(sndDown)
      /\ Head(sndDown) \in FromSource /\ UNCHANGED <<source, clock>>
  BY SoundTypesClient, LinkSound DEF SoundInv, SoundNext, SameLink
<1>1. sndDown' \in Seq(FromSource) /\ 1 \in 1..Len(sndDown)
  BY <1>0 DEF SoundTypes, Taking
<1>2. CASE OnServerFormats \/ OnTraining
  BY <1>2, <1>0, <1>1, SoundTaken DEF OnServerFormats, OnTraining, SoundTypes
<1>3. CASE OnAudioChannel
  BY <1>3, <1>0, <1>1, SoundTaken DEF OnAudioChannel, NewSnd, NoSnd
<1>4. CASE OnWaveInfo
  BY <1>0, <1>4, <1>1, SoundTaken DEF OnWaveInfo, Handled, TakesSound, SoundTypes
<1>5. CASE SoundDropped
  BY <1>0, <1>5, <1>1, SoundTaken DEF SoundDropped, SoundInv, QueueInv
<1>6. CASE OnWave2
  <2> DEFINE b == Head(sndDown).block
  <2>1. /\ snd.pending = NoBlock /\ UNCHANGED snd /\ DeliverWave(b) /\ sndDown[1].kind = "wave2"
        /\ snd.on # None
    BY <1>0, <1>6 DEF OnWave2, Handled, TakesSound, Reaches
  <2>2. b \in Due /\ b \in Block /\ b = sndDown[1].block
    BY <1>0, <1>1, <2>1 DEF Due, Starting, FromSource
  <2> HIDE DEF b
  <2>3. \/ UNCHANGED play
        \/ FormatOf(b.form) \in Formats /\ PlayPcm(FormatOf(b.form), b)
    BY <2>1, <2>2, DeliverTypes
  <2>4. snd'.pending = NoBlock
    BY <2>1
  <2>5. sndDown[1].kind \in {"wave2", "body"}
    BY <2>1
  <2> QED
    BY <1>0, <1>1, <2>2, <2>3, <2>4, <2>5, SoundDelivered
<1>7. CASE OnWaveBody
  <2> DEFINE b == snd.pending
  <2>1. /\ b # NoBlock /\ snd'.pending = NoBlock /\ DeliverWave(b) /\ snd.on # None
    BY <1>7 DEF OnWaveBody, Handled, TakesSound, Reaches, SoundTypes
  <2>2. b \in Due /\ b \in Block /\ b = sndDown[1].block /\ sndDown[1].kind = "body"
    BY <2>1 DEF Due, SoundTypes, SoundInv, QueueInv
  <2> HIDE DEF b
  <2>3. \/ UNCHANGED play
        \/ FormatOf(b.form) \in Formats /\ PlayPcm(FormatOf(b.form), b)
    BY <2>1, <2>2, DeliverTypes
  <2>5. sndDown[1].kind \in {"wave2", "body"}
    BY <2>2
  <2> QED
    BY <1>0, <1>1, <2>1, <2>2, <2>3, <2>5, SoundDelivered
<1> QED
  BY <1>2, <1>3, <1>4, <1>5, <1>6, <1>7 DEF ClientHears

\* The host sends something that is no block.
LEMMA SoundSent ==
  ASSUME SoundTypes, SoundInv, SameMay, NEW e \in FromSource, ~Wave(e),
         sndDown' = Append(sndDown, e), UNCHANGED <<snd, play, clock>>,
         source'.sent = source.sent, source'.made = source.made
  PROVE  SoundInv'
<1>1. Sending(sndDown, sndDown', e)
  BY SentTo DEF SoundTypes
<1>2. Ordered(sndDown') /\ Paired(sndDown')
  BY <1>1, QueueSent DEF SoundInv, QueueInv, Wave
<1>3. \A i \in 1..Len(sndDown') : Wave(sndDown'[i]) => i \in 1..Len(sndDown) /\ sndDown'[i] = sndDown[i]
  BY <1>1 DEF Sending
<1>4. QueueInv'
  <2>1. \A i \in 1..Len(sndDown') : Wave(sndDown'[i]) =>
          sndDown'[i].block.no \in 1..source'.sent /\ sndDown'[i].block.made <= source'.made
    BY <1>3 DEF SoundInv, QueueInv
  <2>2. snd.pending # NoBlock => 1 \in 1..Len(sndDown) /\ sndDown'[1] = sndDown[1]
    BY <1>1 DEF SoundInv, QueueInv, Wave, Sending, SoundTypes
  <2>3. snd.pending # NoBlock => sndDown' # <<>>
    BY <1>1 DEF Sending
  <2> QED
    BY <1>2, <2>1, <2>2, <2>3 DEF SoundInv, QueueInv, Reaches
<1>5. Due' \subseteq Due
  BY <1>3 DEF Due, Starting, Wave
<1>6. HeardInv'
  BY <1>5 DEF SoundInv, HeardInv
<1>7. LateInv'
  BY <1>5 DEF SoundInv, LateInv, SameMay, May
<1> QED
  BY <1>4, <1>6, <1>7 DEF SoundInv

\* It sends a block.
LEMMA SoundSends ==
  ASSUME LinkInv, SoundTypes, SoundInv, NEW form \in DOMAIN source.agreed, HostSends(form)
  PROVE  SoundInv'
<1> DEFINE b == [no |-> source.sent + 1, form |-> form, means |-> source.agreed[form], made |-> clock]
           wave(kind) == Pdu(kind, source.on, b, <<>>)
<1>1. form \in Nat /\ source.agreed[form] \in Formats
  BY LenProperties DEF SoundTypes
<1>2. b \in Block /\ b.no = source.sent + 1 /\ b.made = clock
  BY <1>1 DEF Block, SoundTypes
<1>3. /\ UNCHANGED <<env, link, snd, play, sndUp, clock>> /\ clock > source.made
      /\ source' = [source EXCEPT !.sent = @ + 1, !.made = clock, !.open = @ \cup {source.sent + 1}]
      /\ \/ sndDown' = Append(sndDown, wave("wave2"))
         \/ sndDown' = sndDown \o <<wave("info"), wave("body")>>
  BY Zenon DEF HostSends
<1> HIDE DEF b
<1>4. /\ wave("wave2") \in FromSource /\ wave("info") \in FromSource /\ wave("body") \in FromSource
      /\ wave("wave2").block = b /\ wave("info").block = b /\ wave("body").block = b
      /\ wave("info").on = wave("body").on
      /\ wave("wave2").kind = "wave2" /\ wave("info").kind = "info" /\ wave("body").kind = "body"
  BY <1>2 DEF Pdu, FromSource, Kind0, SoundTypes
<1> HIDE DEF wave
<1>5. /\ source'.sent = source.sent + 1 /\ source'.made = clock
      /\ source.sent \in Nat /\ source.made \in Nat /\ clock \in Nat
      /\ \A i \in 1..Len(sndDown) : sndDown[i] \in FromSource /\ sndDown[i].block \in Block
      /\ Len(sndDown) \in Nat
  <2>1. source.sent \in Nat /\ source.made \in Nat /\ clock \in Nat /\ sndDown \in Seq(FromSource)
    BY DEF SoundTypes
  <2>2. \A i \in 1..Len(sndDown) : sndDown[i] \in FromSource
    BY <2>1, LenProperties
  <2> QED
    BY <1>3, <2>1, <2>2, LenProperties DEF SoundTypes, FromSource
<1>6. \A i \in 1..Len(sndDown) : Wave(sndDown[i]) => Before(sndDown[i].block, b)
  BY <1>2, <1>3, <1>5 DEF SoundInv, QueueInv, Before, Block
<1>7. /\ Ordered(sndDown') /\ Paired(sndDown') /\ Len(sndDown') \in Nat /\ Len(sndDown') > Len(sndDown)
      /\ \A i \in 1..Len(sndDown') :
           (i \in 1..Len(sndDown) /\ sndDown'[i] = sndDown[i]) \/ sndDown'[i].block = b
      /\ \A i \in 1..Len(sndDown) : sndDown'[i] = sndDown[i]
  <2>1. CASE sndDown' = Append(sndDown, wave("wave2"))
    <3>1. Sending(sndDown, sndDown', wave("wave2"))
      BY <1>4, <2>1, SentTo DEF SoundTypes
    <3>2. Ordered(sndDown') /\ Paired(sndDown')
      BY <1>4, <1>6, <3>1, QueueSent DEF SoundInv, QueueInv
    <3> QED
      BY <1>4, <3>1, <3>2 DEF Sending
  <2>2. CASE sndDown' = sndDown \o <<wave("info"), wave("body")>>
    <3>1. /\ <<wave("info"), wave("body")>> \in Seq(FromSource)
          /\ Len(<<wave("info"), wave("body")>>) = 2
          /\ <<wave("info"), wave("body")>>[1] = wave("info")
          /\ <<wave("info"), wave("body")>>[2] = wave("body")
      BY <1>4
    <3> DEFINE x == <<wave("info"), wave("body")>>
    <3>2. x \in Seq(FromSource) /\ Len(x) = 2 /\ x[1] = wave("info") /\ x[2] = wave("body")
      BY <3>1
    <3>3. sndDown' = sndDown \o x
      BY <2>2
    <3> HIDE DEF x
    <3>4. /\ Len(sndDown') = Len(sndDown) + 2
          /\ \A i \in 1..(Len(sndDown) + Len(x)) :
               sndDown'[i] = IF i <= Len(sndDown) THEN sndDown[i] ELSE x[i - Len(sndDown)]
      <4>1. sndDown \in Seq(FromSource)
        BY DEF SoundTypes
      <4> DEFINE y == sndDown \o x
      <4>2. x \in Seq(FromSource)
        BY <3>2
      <4>3. /\ Len(y) = Len(sndDown) + Len(x)
            /\ \A i \in 1..(Len(sndDown) + Len(x)) :
                 y[i] = IF i <= Len(sndDown) THEN sndDown[i] ELSE x[i - Len(sndDown)]
        BY <4>1, <4>2, ConcatProperties
      <4>4. sndDown' = y
        BY <3>3
      <4> HIDE DEF y
      <4> QED
        BY <3>2, <4>3, <4>4
    <3>5. /\ sndDown'[Len(sndDown) + 1] = wave("info") /\ sndDown'[Len(sndDown) + 2] = wave("body")
          /\ \A i \in 1..Len(sndDown) : sndDown'[i] = sndDown[i]
      BY <1>5, <3>2, <3>4
    <3>6. Ordered(sndDown') /\ Paired(sndDown')
      <4>1. Ordered(sndDown) /\ Paired(sndDown) /\ Len(sndDown') = Len(sndDown) + 2
        BY <3>2, <3>4 DEF SoundInv, QueueInv
      <4>2. \A i \in 1..Len(sndDown) : Wave(sndDown[i]) => Before(sndDown[i].block, wave("info").block)
        BY <1>4, <1>6
      <4>3. wave("info").block = wave("body").block
        BY <1>4
      <4> QED
        BY <1>4, <1>5, <3>5, <4>1, <4>2, <4>3, QueueSentParts
    <3>7. \A i \in 1..Len(sndDown') :
            i \in 1..Len(sndDown) \/ i = Len(sndDown) + 1 \/ i = Len(sndDown) + 2
      BY <1>5, <3>4
    <3> QED
      BY <1>4, <1>5, <3>4, <3>5, <3>6, <3>7
  <2> QED
    BY <1>3, <2>1, <2>2
<1>8. QueueInv'
  <2>1. \A i \in 1..Len(sndDown') : Wave(sndDown'[i]) =>
          sndDown'[i].block.no \in 1..source'.sent /\ sndDown'[i].block.made <= source'.made
    <3> SUFFICES ASSUME NEW i \in 1..Len(sndDown'), Wave(sndDown'[i])
                 PROVE  /\ sndDown'[i].block.no \in 1..source'.sent
                        /\ sndDown'[i].block.made <= source'.made
      OBVIOUS
    <3>1. CASE i \in 1..Len(sndDown) /\ sndDown'[i] = sndDown[i]
      <4>1. /\ sndDown[i].block.no \in 1..source.sent /\ sndDown[i].block.made <= source.made
            /\ sndDown[i].block.made \in Nat
        BY <1>5, <3>1 DEF SoundInv, QueueInv, Block
      <4> QED
        BY <1>3, <1>5, <3>1, <4>1
    <3>2. CASE sndDown'[i].block = b
      BY <1>2, <1>5, <3>2
    <3> QED
      BY <1>7, <3>1, <3>2
  <2>2. snd.pending # NoBlock => 1 \in 1..Len(sndDown) /\ sndDown'[1] = sndDown[1]
    BY <1>5, <1>7 DEF SoundInv, QueueInv, SoundTypes
  <2>3. sndDown' # <<>>
    BY <1>5, <1>7
  <2> QED
    BY <1>3, <1>7, <2>1, <2>2, <2>3 DEF SoundInv, QueueInv, Reaches
<1>9. Due' \subseteq Due \cup {b}
  BY <1>3, <1>7 DEF Due, Starting
<1>10. HeardInv'
  <2>1. \A i \in 1..Len(play.heard) : play.heard[i] \in Heard
    BY LenProperties DEF SoundTypes
  <2>2. \A i \in 1..Len(play.heard) :
          /\ play.heard[i].no <= source'.sent
          /\ \A x \in Due' : play.heard[i].no < x.no
    <3> TAKE i \in 1..Len(play.heard)
    <3>1. play.heard[i].no \in Nat /\ play.heard[i].no <= source.sent
      BY <2>1 DEF Heard, SoundInv, HeardInv
    <3> QED
      BY <1>2, <1>5, <1>9, <3>1 DEF SoundInv, HeardInv
  <2> QED
    BY <1>3, <2>2 DEF SoundInv, HeardInv
<1>11. LateInv'
  <2> SUFFICES ASSUME ~May("suspends")
               PROVE  /\ play.head <= source'.made + play.worst + 1
                      /\ \A x \in Due' : play.head <= x.made + play.worst
    BY <1>3 DEF SoundInv, LateInv, May
  <2>1. play.head <= source.made + play.worst + 1 /\ play.head \in Nat /\ play.worst \in Nat
    BY DEF SoundInv, LateInv, SoundTypes
  <2> QED
    BY <1>2, <1>3, <1>5, <1>9, <2>1 DEF SoundInv, LateInv
<1> QED
  BY <1>8, <1>10, <1>11 DEF SoundInv

LEMMA SoundHost ==
  ASSUME LinkInv, SoundTypes, SoundInv,
         \/ HostHears \/ HostMovesSound \/ Tick \/ PrimeAudio
         \/ \E offer \in Offers : HostOffersSound(offer)
         \/ \E form \in DOMAIN source.agreed : HostSends(form)
  PROVE  SoundInv'
<1>0. SameMay
  BY LinkSound DEF SoundNext, SameLink
<1>1. CASE HostHears
  <2>1. UNCHANGED <<snd, play, clock>> /\ source'.sent = source.sent /\ source'.made = source.made
    <3>1. \/ source' = source
          \/ source' = [source EXCEPT !.step = "trains", !.agreed = Head(sndUp).formats]
          \/ source' = [source EXCEPT !.step = "ready"]
          \/ source' = [source EXCEPT !.open = @ \ {Head(sndUp).block.no}]
      BY <1>1, Zenon DEF HostHears
    <3> QED
      BY <1>1, <3>1 DEF HostHears, SoundTypes
  <2> DEFINE e == Pdu("training", source.on, NoBlock, <<>>)
  <2>2. e \in FromSource /\ ~Wave(e)
    BY BlockTypes DEF Pdu, FromSource, Kind0, Wave, SoundTypes
  <2>3. sndDown' = Append(sndDown, e) \/ UNCHANGED sndDown
    BY <1>1 DEF HostHears
  <2> HIDE DEF e
  <2>4. CASE UNCHANGED sndDown
    BY <2>1, <2>4, <1>0 DEF Due, SoundInv, QueueInv, Reaches, HeardInv, LateInv, SameMay, May
  <2> QED
    BY <1>0, <2>1, <2>2, <2>3, <2>4, SoundSent
<1>2. CASE HostMovesSound
  <2>1. PICK kind \in {"create", "close"} : sndDown' = Append(sndDown, Pdu(kind, None, NoBlock, <<>>))
    BY <1>2 DEF HostMovesSound
  <2> DEFINE e == Pdu(kind, None, NoBlock, <<>>)
  <2>2. e \in FromSource /\ ~Wave(e)
    BY BlockTypes DEF Pdu, FromSource, Kind0, Wave
  <2>3. \/ source' = [NewSource(source.sent, source.made) EXCEPT !.on = "dynamic"]
        \/ source' = NewSource(source.sent, source.made)
    BY <1>2 DEF HostMovesSound
  <2>4. source'.sent = source.sent /\ source'.made = source.made /\ UNCHANGED <<snd, play, clock>>
    BY <1>2, <2>3 DEF NewSource, HostMovesSound
  <2> QED
    BY <1>0, <2>1, <2>2, <2>4, SoundSent
<1>3. ASSUME NEW offer \in Offers, HostOffersSound(offer) PROVE SoundInv'
  <2> DEFINE e == Pdu("formats", source.on, NoBlock, offer)
  <2>1. e \in FromSource /\ ~Wave(e)
    BY BlockTypes DEF Pdu, FromSource, Wave, SoundTypes
  <2>2. /\ sndDown' = Append(sndDown, e) /\ source' = [source EXCEPT !.step = "offered"]
        /\ UNCHANGED <<snd, play, clock>>
    BY <1>3 DEF HostOffersSound
  <2>3. source'.sent = source.sent /\ source'.made = source.made
    BY <2>2 DEF SoundTypes
  <2> QED
    BY <1>0, <2>1, <2>2, <2>3, SoundSent
<1>4. CASE Tick
  BY <1>4, <1>0 DEF Tick, SoundTypes, Due, SoundInv, QueueInv, Reaches, HeardInv, LateInv, SameMay,
     May
<1>5. CASE PrimeAudio
  BY <1>5, <1>0 DEF PrimeAudio, SoundTypes, Due, SoundInv, QueueInv, Reaches, HeardInv, LateInv,
     SameMay, May
<1> QED
  BY <1>1, <1>2, <1>3, <1>4, <1>5, SoundSends

LEMMA SoundEnds ==
  ASSUME LinkInv, SoundTypes, SoundInv, Drop \/ Redirect \/ Disconnect \/ StartProtocol
  PROVE  SoundInv'
<1>0. SameMay
  BY LinkOthers
<1>1. CASE Drop \/ Redirect \/ Disconnect
  <2>1. PICK tornDown \in BOOLEAN : SoundDown(tornDown)
    BY <1>1 DEF Drop, Redirect, Disconnect
  <2>2. /\ snd' = NoSnd /\ sndDown' = <<>> /\ clock' = clock
        /\ source' = NewSource(source.sent, source.made)
        /\ play' = [play EXCEPT !.head = 0, !.session = @ + 1] \/ play' = play
    BY <2>1 DEF SoundDown
  <2>3. /\ snd'.pending = NoBlock /\ Len(sndDown') = 0 /\ source'.sent = source.sent
        /\ source'.made = source.made
    BY <2>2 DEF NoSnd, NewSource
  <2>4. Due' = {}
    BY <2>3 DEF Due
  <2>5. QueueInv'
    BY <2>3 DEF QueueInv, Ordered, Paired
  <2>6. play.worst \in Nat /\ source.made \in Nat /\ play.session \in Nat
        /\ \A i \in 1..Len(play.heard) : play.heard[i] \in Heard
    BY LenProperties DEF SoundTypes
  <2>7. CASE play' = play
    BY <2>3, <2>4, <2>7, <1>0, <2>2, <2>5 DEF SoundInv, HeardInv, LateInv, SameMay, May
  <2>8. CASE play' = [play EXCEPT !.head = 0, !.session = @ + 1]
    <3>0. /\ play'.head = 0 /\ play'.session = play.session + 1 /\ play'.heard = play.heard
          /\ play'.runs = play.runs /\ play'.now = play.now /\ play'.worst = play.worst
      BY <2>8 DEF SoundTypes
    <3>1. \A i \in 1..Len(play.heard) : play.heard[i].session <= play.session /\ play.heard[i].session \in Nat
      BY <2>6 DEF SoundInv, HeardInv, Heard
    <3>2. HeardInv'
      <4>0. HeardInv
        BY DEF SoundInv
      <4>1. \A i \in 1..Len(play'.heard) :
              /\ play'.heard[i].no <= source'.sent
              /\ \A b \in Due' : play'.heard[i].no < b.no
              /\ play'.heard[i].session <= play'.session
              /\ play'.heard[i].session = play'.session => play'.heard[i].start < play'.head
        BY <2>3, <2>4, <2>6, <3>0, <3>1, <4>0 DEF HeardInv
      <4>2. \A i, j \in 1..Len(play'.heard) :
              i < j => /\ play'.heard[i].no < play'.heard[j].no
                       /\ play'.heard[i].session = play'.heard[j].session =>
                            play'.heard[i].start < play'.heard[j].start
        BY <3>0, <4>0 DEF HeardInv
      <4> QED
        BY <4>1, <4>2 DEF HeardInv
    <3>3. LateInv'
      BY <1>0, <2>2, <2>3, <2>4, <2>6, <3>0 DEF SoundInv, LateInv, SameMay, May
    <3> QED
      BY <2>5, <3>2, <3>3 DEF SoundInv
  <2> QED
    BY <2>2, <2>7, <2>8
<1>2. CASE StartProtocol
  BY <1>2, <1>0, DueLess DEF StartProtocol, SoundUp, SoundTypes, Up, NewSnd, NoSnd, Due, QueueInv,
     Ordered, Paired, SoundInv
<1> QED
  BY <1>1, <1>2

LEMMA SoundSame ==
  ASSUME SoundTypes, SoundInv, SameMay, UNCHANGED <<link, sndVars>>
  PROVE  SoundTypes' /\ SoundInv'
BY DueLess DEF SoundTypes, sndVars, Up, SoundInv, QueueInv, Reaches, Due

LEMMA SoundStep ==
  ASSUME LinkInv, SoundTypes, SoundInv, [Next]_vars
  PROVE  SoundTypes' /\ SoundInv'
<1>0. SameMay
  BY LinkNext
<1>1. CASE SoundNext
  BY <1>1, SoundTypesClient, SoundTypesHost, SoundClient, SoundHost DEF SoundNext, SoundInv
<1>2. CASE UNCHANGED <<link, sndVars>>
  BY <1>0, <1>2, SoundSame
<1>3. CASE Activate \/ Reactivate
  BY <1>2, <1>3 DEF Activate, Reactivate, OnActive, BeginReactivation
<1>4. CASE UNCHANGED vars
  BY <1>2, <1>4 DEF vars
<1> QED
  BY <1>1, <1>2, <1>3, <1>4, SoundTypesEnds, SoundEnds, LinkClip, LinkMic, LinkKeys, LinkPointer
  DEF Next, Rest, SameLink

LEMMA SoundInitially == Init => SoundTypes /\ SoundInv
<1> SUFFICES ASSUME Init PROVE SoundInv
  BY SoundTypesInit
<1>1. /\ snd.pending = NoBlock /\ sndDown = <<>> /\ Len(sndDown) = 0 /\ play.heard = <<>>
      /\ Len(play.heard) = 0 /\ play.now = 0 /\ play.head = 0 /\ play.worst = 0 /\ clock = 0
      /\ source.made = 0 /\ source.sent = 0 /\ (~May("suspends") => play.runs)
  BY DEF Init, SoundInit, NewSnd, NoSnd, NewSource
<1>2. Due = {}
  BY <1>1 DEF Due
<1>3. QueueInv
  BY <1>1 DEF QueueInv, Ordered, Paired
<1>4. HeardInv
  BY <1>1 DEF HeardInv
<1>5. LateInv
  BY <1>1, <1>2 DEF LateInv
<1> QED
  BY <1>3, <1>4, <1>5 DEF SoundInv

-----------------------------------------------------------------------------
(* The sound: formats.                                                     *)

\* What a queue has, has once, and does not have, when its first element is taken and when
\* another is put to its end.
LEMMA HasTaken ==
  ASSUME NEW q, NEW r, Taking(q, r), NEW kind, NEW on
  PROVE  /\ Has(r, kind, on) => Has(q, kind, on)
         /\ Once(q, kind, on) => Once(r, kind, on)
         /\ Once(q, kind, on) /\ OnIt(q[1], kind, on) => ~Has(r, kind, on)
         /\ NothingSets(q) => NothingSets(r)
<1>0. \A i \in 1..Len(r) : i + 1 \in 1..Len(q) /\ r[i] = q[i + 1] /\ i \in Nat /\ 1 \in 1..Len(q)
  BY DEF Taking
<1>1. Has(r, kind, on) => Has(q, kind, on)
  BY <1>0 DEF Has
<1>2. Once(q, kind, on) => Once(r, kind, on)
  BY <1>0 DEF Once
<1>3. Once(q, kind, on) /\ OnIt(q[1], kind, on) => ~Has(r, kind, on)
  BY <1>0 DEF Has, Once
<1>4. NothingSets(q) => NothingSets(r)
  BY <1>0 DEF NothingSets
<1> QED
  BY <1>1, <1>2, <1>3, <1>4

LEMMA HasSent ==
  ASSUME NEW q, NEW r, NEW e, Sending(q, r, e), NEW kind, NEW on
  PROVE  /\ Has(r, kind, on) => Has(q, kind, on) \/ OnIt(e, kind, on)
         /\ Once(q, kind, on) /\ ~(Has(q, kind, on) /\ OnIt(e, kind, on)) => Once(r, kind, on)
         /\ NothingSets(q) /\ ~Sets(e) => NothingSets(r)
BY DEF Sending, Has, Once, NothingSets

\* What the host puts to the end of a queue when it sends a block.
Waves(q, r, on) ==
  /\ Len(q) \in Nat /\ Len(r) \in Nat /\ Len(r) >= Len(q)
  /\ \A i \in 1..Len(q) : r[i] = q[i]
  /\ \A i \in (Len(q) + 1)..Len(r) : Wave(r[i]) /\ r[i].on = on

LEMMA HasWaves ==
  ASSUME NEW q, NEW r, NEW on, Waves(q, r, on), NEW kind \in {"formats", "training"}
  PROVE  /\ Has(r, kind, on) => Has(q, kind, on)
         /\ Once(q, kind, on) => Once(r, kind, on)
         /\ NothingSets(q) => NothingSets(r)
<1>0. \A i \in 1..Len(r) : \/ i \in 1..Len(q) /\ r[i] = q[i]
                           \/ i \in (Len(q) + 1)..Len(r) /\ r[i].kind \in {"info", "wave2", "body"}
  BY DEF Waves, Wave
<1> QED
  BY <1>0 DEF Has, Once, NothingSets, Sets, OnIt

\* The client takes a PDU, and may answer on its channel.
LEMMA ChannelTaken ==
  ASSUME ChannelInv, source.on \in Sides, snd.on \in Sides \cup {None},
         Taking(sndDown, sndDown'), source' = source,
         sndDown[1].kind = "create" => snd'.on = "dynamic",
         sndDown[1].kind \notin {"create", "close"} => snd'.on = snd.on,
         sndUp' = sndUp \/ \E e : Sending(sndUp, sndUp', e) /\ e.on = snd.on /\ snd.on # None
                                  /\ sndDown[1].kind # "create"
  PROVE  ChannelInv'
<1>0. /\ 1 \in 1..Len(sndDown)
      /\ \A i \in 1..Len(sndDown') :
           i + 1 \in 1..Len(sndDown) /\ sndDown'[i] = sndDown[i + 1] /\ i + 1 > 1 /\ i \in Nat
  BY DEF Taking
<1>1. \A i \in 1..Len(sndUp') :
        (i \in 1..Len(sndUp) /\ sndUp'[i] = sndUp[i]) \/ (sndUp'[i].on = snd.on /\ snd.on # None)
  BY DEF Sending
<1>2. sndDown[1].kind # "close"
  BY <1>0 DEF ChannelInv
<1>3. \A i \in 1..Len(sndDown') : sndDown'[i].kind # "close"
  BY <1>0 DEF ChannelInv
<1> DEFINE Stat == \A i \in 1..Len(sndUp) : sndUp[i].on = "static"
<1>4. CASE source.on = "static"
  BY <1>0, <1>2, <1>4, <1>1, <1>3 DEF ChannelInv, Sides
<1>5. CASE source.on = "dynamic" /\ sndDown[1].kind = "create"
  BY <1>0, <1>5, <1>3 DEF ChannelInv
<1>6. CASE source.on = "dynamic" /\ sndDown[1].kind # "create"
  <2>1. snd'.on = snd.on
    BY <1>2, <1>6
  <2>2. ASSUME NEW i \in 1..Len(sndDown'), sndDown'[i].kind = "create"
        PROVE  /\ \A j \in 1..(i - 1) : sndDown'[j].on = "static" /\ sndDown'[j].kind # "create"
               /\ \A j \in (i + 1)..Len(sndDown') : sndDown'[j].on = "dynamic" /\ sndDown'[j].kind # "create"
               /\ \A j \in 1..Len(sndUp') : sndUp'[j].on = "static"
               /\ snd'.on = "static"
    <3>1. i + 1 \in 1..Len(sndDown) /\ sndDown[i + 1].kind = "create"
      BY <1>0, <2>2
    <3>2. /\ \A j \in 1..((i + 1) - 1) : sndDown[j].on = "static" /\ sndDown[j].kind # "create"
          /\ \A j \in ((i + 1) + 1)..Len(sndDown) : sndDown[j].on = "dynamic" /\ sndDown[j].kind # "create"
          /\ Stat /\ snd.on = "static"
      BY <1>6, <3>1 DEF ChannelInv
    <3>3. /\ \A j \in 1..(i - 1) : j \in 1..Len(sndDown') /\ j + 1 \in 1..((i + 1) - 1)
          /\ \A j \in (i + 1)..Len(sndDown') :
               j \in 1..Len(sndDown') /\ j + 1 \in ((i + 1) + 1)..Len(sndDown)
      BY <1>0
    <3>4. \A j \in 1..(i - 1) : sndDown'[j].on = "static" /\ sndDown'[j].kind # "create"
      BY <1>0, <3>2, <3>3
    <3>5. \A j \in (i + 1)..Len(sndDown') : sndDown'[j].on = "dynamic" /\ sndDown'[j].kind # "create"
      BY <1>0, <3>2, <3>3
    <3>6. \A j \in 1..Len(sndUp') : sndUp'[j].on = "static"
      BY <1>1, <3>2
    <3> QED
      BY <2>1, <3>2, <3>4, <3>5, <3>6
  <2>3. ASSUME \A i \in 1..Len(sndDown') : sndDown'[i].kind # "create"
        PROVE  snd'.on = "dynamic" /\ \A j \in 1..Len(sndDown') : sndDown'[j].on = "dynamic"
    <3>1. \A i \in 1..Len(sndDown) : sndDown[i].kind # "create"
      <4> TAKE i \in 1..Len(sndDown)
      <4>1. CASE i = 1
        BY <1>6, <4>1
      <4>2. CASE i # 1
        <5>1. i - 1 \in 1..Len(sndDown')
          BY <4>2 DEF Taking
        <5>2. sndDown'[i - 1] = sndDown[i]
          BY <1>0, <5>1
        <5> QED
          BY <2>3, <5>1, <5>2
      <4> QED
        BY <4>1, <4>2
    <3>2. snd.on = "dynamic" /\ \A j \in 1..Len(sndDown) : sndDown[j].on = "dynamic"
      BY <1>6, <3>1 DEF ChannelInv
    <3> QED
      BY <1>0, <2>1, <3>2
  <2> QED
    BY <1>3, <1>6, <2>2, <2>3 DEF ChannelInv
<1> QED
  BY <1>4, <1>5, <1>6 DEF Sides

\* The host sends on its channel, or takes what was sent to it.
LEMMA ChannelSent ==
  ASSUME ChannelInv, source.on \in Sides, source'.on = source.on, snd' = snd,
         Len(sndDown) \in Nat, Len(sndDown') \in Nat, Len(sndDown') >= Len(sndDown),
         \A i \in 1..Len(sndDown) : sndDown'[i] = sndDown[i],
         \A i \in (Len(sndDown) + 1)..Len(sndDown') :
           sndDown'[i].on = source.on /\ sndDown'[i].kind \notin {"create", "close"},
         sndUp' = sndUp \/ Taking(sndUp, sndUp')
  PROVE  ChannelInv'
<1>0. \A i \in 1..Len(sndDown') :
        \/ i \in 1..Len(sndDown) /\ sndDown'[i] = sndDown[i]
        \/ /\ i \in (Len(sndDown) + 1)..Len(sndDown') /\ sndDown'[i].on = source.on
           /\ sndDown'[i].kind \notin {"create", "close"}
  OBVIOUS
<1>1. (\A i \in 1..Len(sndUp) : sndUp[i].on = "static")
        => \A i \in 1..Len(sndUp') : sndUp'[i].on = "static"
  BY DEF Taking
<1>2. CASE source.on = "static"
  BY <1>0, <1>1, <1>2 DEF ChannelInv
<1>3. CASE source.on = "dynamic"
  <2>1. ASSUME NEW i \in 1..Len(sndDown'), sndDown'[i].kind = "create"
        PROVE  /\ \A j \in 1..(i - 1) : sndDown'[j].on = "static" /\ sndDown'[j].kind # "create"
               /\ \A j \in (i + 1)..Len(sndDown') : sndDown'[j].on = "dynamic" /\ sndDown'[j].kind # "create"
               /\ \A j \in 1..Len(sndUp') : sndUp'[j].on = "static"
               /\ snd'.on = "static"
    <3>1. i \in 1..Len(sndDown) /\ sndDown[i].kind = "create"
      BY <1>0, <2>1
    <3>2. /\ \A j \in 1..(i - 1) : sndDown[j].on = "static" /\ sndDown[j].kind # "create"
          /\ \A j \in (i + 1)..Len(sndDown) : sndDown[j].on = "dynamic" /\ sndDown[j].kind # "create"
          /\ \A j \in 1..Len(sndUp) : sndUp[j].on = "static"
          /\ snd.on = "static"
      BY <1>3, <3>1 DEF ChannelInv
    <3>3. /\ \A j \in 1..(i - 1) : j \in 1..Len(sndDown)
          /\ \A j \in (i + 1)..Len(sndDown') : j \in 1..Len(sndDown') /\ (j \in 1..Len(sndDown) => j \in (i + 1)..Len(sndDown))
      BY <3>1
    <3>4. \A j \in 1..(i - 1) : sndDown'[j].on = "static" /\ sndDown'[j].kind # "create"
      BY <3>2, <3>3
    <3>5. \A j \in (i + 1)..Len(sndDown') : sndDown'[j].on = "dynamic" /\ sndDown'[j].kind # "create"
      BY <1>0, <1>3, <3>2, <3>3
    <3>6. \A j \in 1..Len(sndUp') : sndUp'[j].on = "static"
      BY <1>1, <3>2
    <3> QED
      BY <3>2, <3>4, <3>5, <3>6
  <2>2. ASSUME \A i \in 1..Len(sndDown') : sndDown'[i].kind # "create"
        PROVE  snd'.on = "dynamic" /\ \A j \in 1..Len(sndDown') : sndDown'[j].on = "dynamic"
    BY <2>2, <1>3, <1>0 DEF ChannelInv
  <2>3. \A i \in 1..Len(sndDown') : sndDown'[i].kind # "close"
    BY <1>0 DEF ChannelInv
  <2> QED
    BY <1>3, <2>1, <2>2, <2>3 DEF ChannelInv
<1> QED
  BY <1>2, <1>3 DEF Sides

\* A client that uses the channel of the host has nothing of another before it.
LEMMA ChannelSame ==
  ASSUME ChannelInv, source.on \in Sides, snd.on = source.on
  PROVE  \A i \in 1..Len(sndDown) : sndDown[i].on = source.on /\ sndDown[i].kind # "create"
BY DEF ChannelInv, Sides

\* What is taken changes no formats.
LEMMA OfferQuiet ==
  ASSUME OfferInv, Taking(sndDown, sndDown'), source' = source, snd'.formats = snd.formats,
         sndUp' = sndUp \/ \E e : Sending(sndUp, sndUp', e) /\ e.kind = "confirm"
  PROVE  OfferInv'
<1> DEFINE on == source.on
<1>1. /\ \A kind \in {"formats", "training"} :
           /\ Has(sndDown', kind, on) => Has(sndDown, kind, on)
           /\ Once(sndDown, kind, on) => Once(sndDown', kind, on)
      /\ NothingSets(sndDown) => NothingSets(sndDown')
  BY HasTaken
<1>2. \A kind \in {"formats", "trained"} :
           /\ Has(sndUp', kind, on) => Has(sndUp, kind, on)
           /\ Once(sndUp, kind, on) => Once(sndUp', kind, on)
  BY HasSent DEF OnIt
<1>3. \A i \in 1..Len(sndUp') : OnIt(sndUp'[i], "formats", on) => sndUp'[i].formats = snd.formats
  BY DEF Sending, OfferInv, OnIt
<1> QED
  BY <1>1, <1>2, <1>3 DEF OfferInv

LEMMA OfferTrained ==
  ASSUME OfferInv, ChannelInv, source.on \in Sides, Taking(sndDown, sndDown'), source' = source,
         snd' = snd, sndDown[1].kind = "training",
         NEW e, Sending(sndUp, sndUp', e), e.kind = "trained", e.on = snd.on
  PROVE  OfferInv'
<1> DEFINE on == source.on
<1>1. /\ \A kind \in {"formats", "training"} :
           /\ Has(sndDown', kind, on) => Has(sndDown, kind, on)
           /\ Once(sndDown, kind, on) => Once(sndDown', kind, on)
      /\ NothingSets(sndDown) => NothingSets(sndDown')
      /\ Once(sndDown, "training", on) /\ OnIt(sndDown[1], "training", on)
           => ~Has(sndDown', "training", on)
  BY HasTaken
<1>2. /\ Has(sndUp', "formats", on) => Has(sndUp, "formats", on)
      /\ Once(sndUp, "formats", on) => Once(sndUp', "formats", on)
  BY HasSent DEF OnIt
<1>3. \A i \in 1..Len(sndUp') : OnIt(sndUp'[i], "formats", on) => sndUp'[i].formats = snd.formats
  BY DEF Sending, OfferInv, OnIt
<1>4. /\ Once(sndUp', "trained", on)
      /\ Has(sndUp', "trained", on) => source.step = "trains"
      /\ Has(sndDown', "training", on) => ~Has(sndUp', "trained", on)
  BY ChannelSame, HasSent, <1>1 DEF Taking, OnIt, Has, OfferInv
<1> QED
  BY <1>1, <1>2, <1>3, <1>4 DEF OfferInv

\* The client takes what sets its formats, and tells them if it was asked.
LEMMA OfferSet ==
  ASSUME OfferInv, ChannelInv, source.on \in Sides, Taking(sndDown, sndDown'), source' = source,
         Sets(sndDown[1]),
         \/ sndUp' = sndUp
         \/ /\ sndDown[1].kind = "formats"
            /\ \E e : Sending(sndUp, sndUp', e) /\ e.kind = "formats" /\ e.on = snd.on
                      /\ e.formats = snd'.formats
  PROVE  OfferInv'
<1> DEFINE on == source.on
<1>0. 1 \in 1..Len(sndDown)
  BY DEF Taking
<1>1. /\ \A kind \in {"formats", "training"} :
           /\ Has(sndDown', kind, on) => Has(sndDown, kind, on)
           /\ Once(sndDown, kind, on) => Once(sndDown', kind, on)
      /\ Once(sndDown, "formats", on) /\ OnIt(sndDown[1], "formats", on)
           => ~Has(sndDown', "formats", on)
  BY HasTaken
<1>2. ~NothingSets(sndDown)
  BY <1>0 DEF NothingSets
<1>3. source.step \notin {"trains", "ready"} /\ ~Has(sndUp, "formats", on)
      /\ ~Has(sndUp, "trained", on) /\ ~Has(sndDown, "training", on)
  BY <1>2 DEF OfferInv
<1>4. CASE sndUp' = sndUp
  BY <1>3, <1>1, <1>4 DEF Has, OfferInv
<1>5. ASSUME NEW e, Sending(sndUp, sndUp', e), e.kind = "formats", e.on = snd.on,
             e.formats = snd'.formats, sndDown[1].kind = "formats"
      PROVE  OfferInv'
  <2>1. ~OnIt(e, "trained", on)
    BY <1>5 DEF OnIt
  <2>2. ~Has(sndUp', "trained", on) /\ Once(sndUp', "trained", on) /\ Once(sndUp', "formats", on)
    BY <1>5, <2>1, HasSent, <1>3 DEF OfferInv
  <2>3. \A i \in 1..Len(sndUp') : OnIt(sndUp'[i], "formats", on) => sndUp'[i].formats = snd'.formats
    BY <1>5, <1>3 DEF Sending, Has
  <2>4. /\ Has(sndDown', "formats", on) => ~Has(sndUp', "formats", on)
        /\ Has(sndUp', "formats", on) => source.step = "offered" /\ NothingSets(sndDown')
    <3>1. CASE snd.on = on
      BY <1>0, <1>5, <3>1, ChannelSame, <1>1 DEF OnIt, Has, OfferInv, NothingSets, Taking, Sets
    <3>2. CASE snd.on # on
      BY <1>5, <3>2, <1>3, HasSent DEF OnIt
    <3> QED
      BY <3>1, <3>2
  <2> QED
    BY <1>1, <1>3, <2>2, <2>3, <2>4 DEF OfferInv
<1> QED
  BY <1>4, <1>5

\* A block that is played is in the format it is meant to be.
LEMMA MeansTaken ==
  ASSUME MeansInv, Taking(sndDown, sndDown'),
         \/ snd'.formats = snd.formats /\ Due' \subseteq Due
         \/ Sets(sndDown[1]) /\ snd'.pending = NoBlock,
         \A i \in 1..Len(play'.heard) :
           \/ i \in 1..Len(play.heard) /\ play'.heard[i] = play.heard[i]
           \/ play'.heard[i].form = play'.heard[i].means
  PROVE  MeansInv'
<1>0. \A i \in 1..Len(sndDown') :
        i + 1 \in 1..Len(sndDown) /\ sndDown'[i] = sndDown[i + 1] /\ i \in Nat /\ 1 \in 1..((i + 1) - 1)
  BY DEF Taking
<1>1. ASSUME NEW i \in 1..Len(sndDown'), Wave(sndDown'[i]), NEW j \in 1..(i - 1)
      PROVE  ~Sets(sndDown'[j])
  BY <1>0, <1>1 DEF MeansInv
<1>2. \A i \in 1..Len(play'.heard) : play'.heard[i].form = play'.heard[i].means
  BY DEF MeansInv
<1>3. CASE snd'.formats = snd.formats /\ Due' \subseteq Due
  BY <1>1, <1>2, <1>3 DEF MeansInv, Means
<1>4. CASE Sets(sndDown[1]) /\ snd'.pending = NoBlock
  BY <1>0, <1>4, <1>1, <1>2 DEF MeansInv, Due, Starting, Wave
<1> QED
  BY <1>3, <1>4

LEMMA PlayedAsMeant ==
  ASSUME SoundTypes, NEW b \in Block, Means(b), b.form \in Nat,
         \/ UNCHANGED play
         \/ FormatOf(b.form) \in Formats /\ PlayPcm(FormatOf(b.form), b)
  PROVE  \A i \in 1..Len(play'.heard) :
           \/ i \in 1..Len(play.heard) /\ play'.heard[i] = play.heard[i]
           \/ play'.heard[i].form = play'.heard[i].means
<1>1. CASE UNCHANGED play
  BY <1>1
<1>2. CASE FormatOf(b.form) \in Formats /\ PlayPcm(FormatOf(b.form), b)
  <2> DEFINE e == Entry(FormatOf(b.form), b)
  <2>1. play'.heard = Append(play.heard, e) /\ e \in Heard
    BY <1>2, Played
  <2>2. e.form = e.means
    BY DEF Entry, Means, FormatOf
  <2> HIDE DEF e
  <2>3. Sending(play.heard, play'.heard, e)
    BY <2>1, SentTo DEF SoundTypes
  <2> QED
    BY <2>2, <2>3 DEF Sending
<1> QED
  BY <1>1, <1>2

LEMMA FormsClient ==
  ASSUME LinkInv, SoundTypes, SoundInv, Forms, ClientHears
  PROVE  Forms'
<1>0. /\ Taking(sndDown, sndDown') /\ sndDown[1] = Head(sndDown) /\ source' = source
      /\ Head(sndDown) \in FromSource
  BY SoundTypesClient DEF SoundInv
<1>1. /\ source.on \in Sides /\ snd.on \in Sides \cup {None} /\ 1 \in 1..Len(sndDown)
      /\ ChannelInv /\ OfferInv /\ MeansInv /\ sndUp \in Seq(ToSource)
      /\ snd \in [on : Sides \cup {None}, formats : Seq(Formats), pending : Block]
  BY <1>0 DEF SoundTypes, Taking, Forms
<1>2. sndDown[1].kind # "close"
  BY <1>1 DEF ChannelInv
<1>3. CASE OnServerFormats
  <2> DEFINE fs == Playable(Head(sndDown).formats)
             e  == Pdu("formats", snd.on, NoBlock, fs)
  <2>1. /\ snd' = [snd EXCEPT !.formats = fs] /\ sndUp' = Append(sndUp, e) /\ UNCHANGED play
        /\ snd.on # None /\ sndDown[1].kind = "formats" /\ snd.pending = NoBlock
    BY <1>0, <1>3 DEF OnServerFormats, Reply, Handled, TakesSound, Reaches
  <2>2. /\ snd'.on = snd.on /\ snd'.pending = NoBlock /\ snd'.formats = fs
        /\ e.kind = "formats" /\ e.on = snd.on /\ e.formats = fs
    BY <1>1, <2>1 DEF Pdu
  <2>3. e \in ToSource
    BY <1>0, <2>1, PlayableAssumption, <1>1, BlockTypes DEF FromSource, Kind0, Pdu, ToSource
  <2> HIDE DEF e, fs
  <2>4. Sending(sndUp, sndUp', e)
    BY <1>1, <2>1, <2>3, SentTo
  <2>5. ChannelInv'
    BY <2>1, <2>2, <2>4, <1>0, <1>1, ChannelTaken
  <2>6. OfferInv'
    BY <2>2, <2>4, <2>1, <1>0, <1>1, OfferSet DEF Sets
  <2>7. MeansInv'
    BY <1>0, <1>1, <2>1, <2>2, MeansTaken DEF Sets
  <2> QED
    BY <2>5, <2>6, <2>7 DEF Forms
<1>4. CASE OnTraining
  <2> DEFINE e == Pdu("trained", snd.on, NoBlock, <<>>)
  <2>1. /\ sndUp' = Append(sndUp, e) /\ UNCHANGED <<snd, play>> /\ snd.on # None
        /\ sndDown[1].kind = "training" /\ snd'.pending = NoBlock
    BY <1>0, <1>4 DEF OnTraining, Reply, Handled, TakesSound, Reaches
  <2>2. e.kind = "trained" /\ e.on = snd.on
    BY DEF Pdu
  <2>3. e \in ToSource
    BY <1>1, <2>1, BlockTypes DEF Pdu, ToSource
  <2> HIDE DEF e
  <2>4. Sending(sndUp, sndUp', e)
    BY <1>1, <2>1, <2>3, SentTo
  <2>5. ChannelInv'
    BY <2>1, <2>2, <2>4, <1>0, <1>1, ChannelTaken
  <2>6. OfferInv'
    BY <1>0, <1>1, <2>1, <2>2, <2>4, OfferTrained
  <2>7. MeansInv'
    BY <1>0, <2>1, DueTaken, <1>1, MeansTaken
  <2> QED
    BY <2>5, <2>6, <2>7 DEF Forms
<1>5. ASSUME snd'.formats = snd.formats, snd'.on = snd.on, sndDown[1].kind # "create",
             \/ snd'.pending = NoBlock
             \/ sndDown[1].kind = "info" /\ snd'.pending = sndDown[1].block,
             \/ UNCHANGED <<play, sndUp>>
             \/ \E b \in Due : b \in Block /\ DeliverWave(b) /\ snd.on # None
      PROVE  Forms'
  <2>1. Due' \subseteq Due
    BY <1>0, <1>5, DueTaken
  <2>2. /\ sndUp' = sndUp \/ \E e : Sending(sndUp, sndUp', e) /\ e.kind = "confirm"
                                   /\ e.on = snd.on /\ snd.on # None
        /\ \A i \in 1..Len(play'.heard) :
             \/ i \in 1..Len(play.heard) /\ play'.heard[i] = play.heard[i]
             \/ play'.heard[i].form = play'.heard[i].means
    <3>1. CASE UNCHANGED <<play, sndUp>>
      BY <3>1
    <3>2. ASSUME NEW b \in Due, b \in Block, DeliverWave(b), snd.on # None
          PROVE  /\ \E e : Sending(sndUp, sndUp', e) /\ e.kind = "confirm"
                           /\ e.on = snd.on /\ snd.on # None
                 /\ \A i \in 1..Len(play'.heard) :
                      \/ i \in 1..Len(play.heard) /\ play'.heard[i] = play.heard[i]
                      \/ play'.heard[i].form = play'.heard[i].means
      <4> DEFINE e == Pdu("confirm", snd.on, b, <<>>)
      <4>1. /\ sndUp' = Append(sndUp, e)
            /\ \/ UNCHANGED play
               \/ FormatOf(b.form) \in Formats /\ PlayPcm(FormatOf(b.form), b)
        BY <3>2, DeliverTypes
      <4>2. e \in ToSource /\ e.kind = "confirm" /\ e.on = snd.on
        BY <1>1, <3>2 DEF Pdu, ToSource
      <4> HIDE DEF e
      <4>3. Sending(sndUp, sndUp', e)
        BY <1>1, <4>1, <4>2, SentTo
      <4>4. Means(b) /\ b.form \in Nat
        BY <1>1, <3>2 DEF MeansInv, Block
      <4>5. \A i \in 1..Len(play'.heard) :
              \/ i \in 1..Len(play.heard) /\ play'.heard[i] = play.heard[i]
              \/ play'.heard[i].form = play'.heard[i].means
        BY <3>2, <4>1, <4>4, PlayedAsMeant
      <4> QED
        BY <3>2, <4>2, <4>3, <4>5
    <3> QED
      BY <1>5, <3>1, <3>2
  <2>3. ChannelInv'
    BY <1>5, <2>2, <1>0, <1>1, ChannelTaken
  <2>4. OfferInv'
    BY <2>2, <1>0, <1>1, <1>5, OfferQuiet
  <2>5. MeansInv'
    BY <1>0, <1>1, <1>5, <2>1, <2>2, MeansTaken
  <2> QED
    BY <2>3, <2>4, <2>5 DEF Forms
<1>6. CASE OnWaveInfo
  BY <1>0, <1>6, <1>1, <1>5 DEF OnWaveInfo, Handled, TakesSound
<1>7. CASE OnWave2
  <2> DEFINE b == Head(sndDown).block
  <2>1. /\ snd.pending = NoBlock /\ UNCHANGED snd /\ DeliverWave(b) /\ sndDown[1].kind = "wave2"
        /\ snd.on # None
    BY <1>0, <1>7 DEF OnWave2, Handled, TakesSound, Reaches
  <2>2. b \in Due /\ b \in Block
    BY <1>0, <1>1, <2>1 DEF Due, Starting, FromSource
  <2> HIDE DEF b
  <2> QED
    BY <1>5, <2>1, <2>2
<1>8. CASE OnWaveBody
  <2> DEFINE b == snd.pending
  <2>1. /\ b # NoBlock /\ snd' = [snd EXCEPT !.pending = NoBlock] /\ DeliverWave(b) /\ snd.on # None
    BY <1>8 DEF OnWaveBody, Handled, TakesSound, Reaches
  <2>2. b \in Due /\ b \in Block /\ sndDown[1].kind = "body"
    BY <1>1, <2>1 DEF Due, SoundInv, QueueInv
  <2>3. snd'.formats = snd.formats /\ snd'.on = snd.on /\ snd'.pending = NoBlock
    BY <1>1, <2>1
  <2> HIDE DEF b
  <2> QED
    BY <1>5, <2>1, <2>2, <2>3
<1>9. CASE SoundDropped
  BY <1>0, <1>9, <1>5 DEF SoundDropped, TakesSound, SoundKinds, SoundInv, QueueInv
<1>10. CASE OnAudioChannel
  BY <1>0, <1>2, <1>10, <1>1, ChannelTaken, OfferSet, MeansTaken DEF OnAudioChannel, TakesSound,
     NewSnd, NoSnd, Sets, Forms
<1> QED
  BY <1>3, <1>4, <1>6, <1>7, <1>8, <1>9, <1>10 DEF ClientHears

\* What the host sends and the client will play is meant as the client takes it.
LEMMA MeansSent ==
  ASSUME MeansInv, UNCHANGED <<snd, play>>,
         \/ sndDown' = sndDown
         \/ \E e : Sending(sndDown, sndDown', e) /\ ~Wave(e)
         \/ \E b : Waves(sndDown, sndDown', source.on) /\ NothingSets(sndDown) /\ Means(b)
                   /\ \A i \in (Len(sndDown) + 1)..Len(sndDown') : sndDown'[i].block = b
  PROVE  MeansInv'
<1>1. CASE sndDown' = sndDown
  BY <1>1 DEF Due, MeansInv, Means
<1>2. ASSUME NEW e, Sending(sndDown, sndDown', e), ~Wave(e) PROVE MeansInv'
  BY <1>2 DEF Sending, Due, Starting, Wave, MeansInv, Means
<1>3. ASSUME NEW b, Waves(sndDown, sndDown', source.on), NothingSets(sndDown), Means(b),
             \A i \in (Len(sndDown) + 1)..Len(sndDown') : sndDown'[i].block = b
      PROVE  MeansInv'
  <2>1. \A i \in 1..Len(sndDown') :
          \/ i \in 1..Len(sndDown) /\ sndDown'[i] = sndDown[i]
          \/ sndDown'[i].block = b /\ Wave(sndDown'[i])
    BY <1>3 DEF Waves
  <2>2. Due' \subseteq Due \cup {b}
    BY <2>1 DEF Due
  <2>3. \A i \in 1..Len(sndDown') : ~Sets(sndDown'[i])
    BY <1>3, <2>1 DEF NothingSets, Sets, Wave
  <2>4. \A i \in 1..Len(sndDown') : \A j \in 1..(i - 1) : j \in 1..Len(sndDown')
    BY <1>3 DEF Waves
  <2>5. \A x \in Due' : Means(x)'
    BY <1>3, <2>2 DEF MeansInv, Means
  <2>6. \A i \in 1..Len(sndDown') : Wave(sndDown'[i]) => \A j \in 1..(i - 1) : ~Sets(sndDown'[j])
    BY <2>3, <2>4
  <2> QED
    BY <2>5, <2>6 DEF MeansInv
<1> QED
  BY <1>1, <1>2, <1>3

LEMMA FormsHear ==
  ASSUME LinkInv, SoundTypes, Forms, HostHears
  PROVE  Forms'
<1> DEFINE p  == Head(sndUp)
           on == source.on
           e  == Pdu("training", source.on, NoBlock, <<>>)
           train == p.kind = "formats" /\ p.on = on /\ source.step = "offered"
<1>1. /\ Taking(sndUp, sndUp') /\ p = sndUp[1] /\ UNCHANGED <<snd, play>> /\ 1 \in 1..Len(sndUp)
  <2>1. sndUp # <<>> /\ sndUp' = Tail(sndUp) /\ UNCHANGED <<snd, play>> /\ sndUp \in Seq(ToSource)
    BY DEF HostHears, SoundTypes
  <2>2. Taking(sndUp, sndUp') /\ p = sndUp[1]
    BY <2>1, TakenFrom
  <2> QED
    BY <2>1, <2>2 DEF Taking
<1>2. /\ \/ train /\ source' = [source EXCEPT !.step = "trains", !.agreed = p.formats]
                  /\ sndDown' = Append(sndDown, e)
         \/ ~train /\ sndDown' = sndDown /\ p.on # on /\ source' = source
         \/ ~train /\ sndDown' = sndDown /\ p.on = on /\ p.kind = "trained"
                   /\ source' = [source EXCEPT !.step = "ready"]
         \/ ~train /\ sndDown' = sndDown /\ p.on = on /\ p.kind # "trained"
                   /\ source' = [source EXCEPT !.open = @ \ {p.block.no}]
  BY Zenon DEF HostHears
<1>3. e \in FromSource /\ e.kind = "training" /\ e.on = on /\ sndDown \in Seq(FromSource) /\ on \in Sides
  BY BlockTypes DEF Pdu, FromSource, Kind0, SoundTypes
<1>4. source \in [on : Sides, step : {"idle", "offered", "trains", "ready"}, agreed : Seq(Formats),
                  open : SUBSET Nat, sent : Nat, made : Nat]
  BY DEF SoundTypes
<1> HIDE DEF p, e
<1>5. source'.on = on
  BY <1>2, <1>4
<1>6. Append(sndDown, e) = sndDown' => Sending(sndDown, sndDown', e)
  BY <1>3, SentTo
<1>7. Len(sndDown) \in Nat
  BY <1>3, LenProperties
<1>8. ChannelInv'
  BY <1>7, <1>6, <1>3, <1>2, <1>1, <1>5, ChannelSent DEF Sending, Forms
<1>9. MeansInv'
  BY <1>3, <1>1, <1>2, <1>6, MeansSent DEF Wave, Forms
<1>10. /\ \A kind \in {"formats", "trained"} :
            /\ Has(sndUp', kind, on) => Has(sndUp, kind, on)
            /\ Once(sndUp, kind, on) => Once(sndUp', kind, on)
            /\ Once(sndUp, kind, on) /\ OnIt(p, kind, on) => ~Has(sndUp', kind, on)
       /\ \A i \in 1..Len(sndUp') : OnIt(sndUp'[i], "formats", on) => sndUp'[i].formats = snd.formats
  <2>1. \A i \in 1..Len(sndUp') : i + 1 \in 1..Len(sndUp) /\ sndUp'[i] = sndUp[i + 1]
    BY <1>1 DEF Taking
  <2> QED
    BY <1>1, <2>1, HasTaken DEF Forms, OfferInv
<1>11. OfferInv'
  <2>1. CASE train /\ source' = [source EXCEPT !.step = "trains", !.agreed = p.formats]
             /\ sndDown' = Append(sndDown, e)
    BY <1>1, <2>1, <1>3, <1>6, HasSent, <1>4, <1>5, <1>10 DEF OnIt, Has, Forms, OfferInv, Sets
  <2>2. CASE sndDown' = sndDown /\ source' = source
    BY <1>1, <1>10, <2>2 DEF Forms, OfferInv
  <2>3. CASE sndDown' = sndDown /\ p.on = on /\ p.kind = "trained"
             /\ source' = [source EXCEPT !.step = "ready"]
    BY <1>1, <2>3, <1>4, <1>5, <1>10 DEF OnIt, Has, Forms, OfferInv
  <2>4. CASE sndDown' = sndDown /\ source' = [source EXCEPT !.open = @ \ {p.block.no}]
    BY <1>4, <2>4, <1>1, <1>5, <1>10 DEF Forms, OfferInv
  <2> QED
    BY <1>2, <2>1, <2>2, <2>3, <2>4
<1> QED
  BY <1>8, <1>9, <1>11 DEF Forms

\* It offers formats.
LEMMA FormsOffer ==
  ASSUME SoundTypes, Forms, NEW offer \in Offers, HostOffersSound(offer)
  PROVE  Forms'
<1> DEFINE on == source.on
           e  == Pdu("formats", source.on, NoBlock, offer)
<1>1. /\ source.step \in {"idle", "ready"} /\ source' = [source EXCEPT !.step = "offered"]
      /\ sndDown' = Append(sndDown, e) /\ UNCHANGED <<snd, play, sndUp>>
  BY DEF HostOffersSound
<1>2. e \in FromSource /\ e.kind = "formats" /\ e.on = on /\ sndDown \in Seq(FromSource) /\ on \in Sides
  BY BlockTypes DEF Pdu, FromSource, SoundTypes
<1> HIDE DEF e
<1>3. Sending(sndDown, sndDown', e)
  BY <1>1, <1>2, SentTo
<1>4. source'.on = on /\ source'.step = "offered"
  BY <1>1 DEF SoundTypes
<1>5. ChannelInv'
  BY <1>3, <1>2, <1>1, <1>4, ChannelSent DEF Sending, Forms
<1>6. MeansInv'
  BY <1>2, <1>1, <1>3, MeansSent DEF Wave, Forms
<1>7. OfferInv'
  BY <1>1, <1>2, <1>3, HasSent, <1>4 DEF Forms, OfferInv, OnIt
<1> QED
  BY <1>5, <1>6, <1>7 DEF Forms

\* It sends a block.
LEMMA FormsSend ==
  ASSUME SoundTypes, Forms, NEW form \in DOMAIN source.agreed, HostSends(form)
  PROVE  Forms'
<1> DEFINE b == [no |-> source.sent + 1, form |-> form, means |-> source.agreed[form], made |-> clock]
           wave(kind) == Pdu(kind, source.on, b, <<>>)
           on == source.on
<1>1. form \in Nat /\ source.agreed[form] \in Formats
  BY LenProperties DEF SoundTypes
<1>2. b \in Block /\ b.form = form /\ b.means = source.agreed[form]
  BY <1>1 DEF Block, SoundTypes
<1>3. /\ UNCHANGED <<snd, play, sndUp>> /\ source.step = "ready"
      /\ source' = [source EXCEPT !.sent = @ + 1, !.made = clock, !.open = @ \cup {source.sent + 1}]
      /\ \/ sndDown' = Append(sndDown, wave("wave2"))
         \/ sndDown' = sndDown \o <<wave("info"), wave("body")>>
  BY Zenon DEF HostSends
<1> HIDE DEF b
<1>4. \A kind \in {"info", "wave2", "body"} :
        /\ wave(kind) \in FromSource /\ wave(kind).block = b /\ wave(kind).on = on
        /\ Wave(wave(kind)) /\ wave(kind).kind \notin {"create", "close"}
  BY <1>2 DEF Pdu, FromSource, Kind0, SoundTypes, Wave
<1> HIDE DEF wave
<1>5. source'.on = on /\ source'.step = "ready" /\ source'.agreed = source.agreed /\ on \in Sides
  BY <1>3 DEF SoundTypes
<1>6. /\ Len(sndDown) \in Nat /\ Len(sndDown') \in Nat /\ Len(sndDown') >= Len(sndDown)
      /\ \A i \in 1..Len(sndDown) : sndDown'[i] = sndDown[i]
      /\ \A i \in (Len(sndDown) + 1)..Len(sndDown') :
           \E kind \in {"info", "wave2", "body"} : sndDown'[i] = wave(kind)
  <2>0. sndDown \in Seq(FromSource)
    BY DEF SoundTypes
  <2>1. CASE sndDown' = Append(sndDown, wave("wave2"))
    BY <1>4, <2>0, <2>1, SentTo DEF Sending
  <2>2. CASE sndDown' = sndDown \o <<wave("info"), wave("body")>>
    <3> DEFINE x == <<wave("info"), wave("body")>>
               y == sndDown \o x
    <3>1. x \in Seq(FromSource) /\ Len(x) = 2 /\ x[1] = wave("info") /\ x[2] = wave("body")
      BY <1>4
    <3>2. sndDown' = y
      BY <2>2
    <3> HIDE DEF x
    <3>3. /\ Len(y) = Len(sndDown) + Len(x)
          /\ \A i \in 1..(Len(sndDown) + Len(x)) :
               y[i] = IF i <= Len(sndDown) THEN sndDown[i] ELSE x[i - Len(sndDown)]
      BY <2>0, <3>1, ConcatProperties
    <3> HIDE DEF y
    <3>4. Len(sndDown) \in Nat
      BY <2>0, LenProperties
    <3>5. /\ Len(sndDown') = Len(sndDown) + 2
          /\ \A i \in 1..(Len(sndDown) + 2) :
               sndDown'[i] = IF i <= Len(sndDown) THEN sndDown[i] ELSE x[i - Len(sndDown)]
      BY <3>1, <3>2, <3>3
    <3>6. \A i \in (Len(sndDown) + 1)..Len(sndDown') :
            sndDown'[i] = wave("info") \/ sndDown'[i] = wave("body")
      <4> TAKE i \in (Len(sndDown) + 1)..Len(sndDown')
      <4>1. i \in 1..(Len(sndDown) + 2) /\ ~(i <= Len(sndDown)) /\ i - Len(sndDown) \in {1, 2}
        BY <3>4, <3>5
      <4> QED
        BY <3>1, <3>5, <4>1
    <3> QED
      BY <3>4, <3>5, <3>6
  <2> QED
    BY <1>3, <2>1, <2>2
<1>7. /\ \A i \in (Len(sndDown) + 1)..Len(sndDown') :
           /\ sndDown'[i].on = on /\ sndDown'[i].kind \notin {"create", "close"}
           /\ Wave(sndDown'[i]) /\ sndDown'[i].block = b
      /\ Waves(sndDown, sndDown', on)
  BY <1>4, <1>6 DEF Waves
<1>8. snd.formats = source.agreed /\ NothingSets(sndDown)
  BY <1>3 DEF Forms, OfferInv
<1>9. ChannelInv'
  BY <1>3, <1>5, <1>6, <1>7, ChannelSent DEF Forms
<1>10. OfferInv'
  BY <1>7, HasWaves, <1>8, <1>3, <1>5 DEF Forms, OfferInv
<1>11. MeansInv'
  BY <1>2, <1>8, <1>3, <1>7, MeansSent DEF Means, Forms
<1> QED
  BY <1>9, <1>10, <1>11 DEF Forms

\* It moves its sound to a dynamic channel.
LEMMA FormsMove ==
  ASSUME SoundTypes, BoundInv, Forms, ~May("returns"), HostMovesSound
  PROVE  Forms'
<1> DEFINE e == Pdu("create", None, NoBlock, <<>>)
<1>1. /\ Up /\ May("sound") /\ source.on = "static" /\ UNCHANGED <<snd, play, sndUp>>
      /\ source' = [NewSource(source.sent, source.made) EXCEPT !.on = "dynamic"]
      /\ sndDown' = Append(sndDown, e)
  BY DEF HostMovesSound
<1>2. source'.on = "dynamic" /\ source'.step = "idle"
  BY <1>1 DEF NewSource
<1>3. e \in FromSource /\ e.kind = "create" /\ e.on = None /\ sndDown \in Seq(FromSource)
  BY BlockTypes DEF Pdu, FromSource, Kind0, SoundTypes
<1> HIDE DEF e
<1>4. Sending(sndDown, sndDown', e)
  BY <1>1, <1>3, SentTo
<1>5. /\ \A i \in 1..Len(sndDown) :
           sndDown[i].kind \notin {"create", "close"} /\ sndDown[i].on = "static"
      /\ \A i \in 1..Len(sndUp) : sndUp[i].on = "static"
      /\ snd.on = "static"
  BY <1>1 DEF Forms, ChannelInv, SoundTypes, BoundInv, Sides
<1>6. \A i \in 1..Len(sndDown') :
        \/ i \in 1..Len(sndDown) /\ sndDown'[i].on = "static" /\ sndDown'[i].kind \notin {"create", "close"}
        \/ i = Len(sndDown) + 1 /\ sndDown'[i] = e
  BY <1>4, <1>5 DEF Sending
<1>7. ChannelInv'
  BY <1>4, <1>6, <1>3, <1>1, <1>2, <1>5 DEF Sending, ChannelInv
<1>8. OfferInv'
  BY <1>1, <1>3, <1>5, <1>6, <1>2 DEF Has, OnIt, None, Once, OfferInv
<1>9. MeansInv'
  BY <1>3, <1>1, <1>4, MeansSent DEF Wave, Forms
<1> QED
  BY <1>7, <1>8, <1>9 DEF Forms

LEMMA FormsSame ==
  ASSUME Forms, UNCHANGED <<snd, source, sndUp, sndDown>>, play'.heard = play.heard
  PROVE  Forms'
BY DEF Forms, ChannelInv, OfferInv, Due, MeansInv, Means

LEMMA FormsEnd ==
  ASSUME LinkInv, SoundTypes, Forms, BoundInv, Drop \/ Redirect \/ Disconnect \/ StartProtocol
  PROVE  Forms' /\ BoundInv'
<1>1. CASE Drop \/ Redirect \/ Disconnect
  <2>1. PICK tornDown \in BOOLEAN : SoundDown(tornDown)
    BY <1>1 DEF Drop, Redirect, Disconnect
  <2>2. /\ snd' = NoSnd /\ sndUp' = <<>> /\ sndDown' = <<>>
        /\ source' = NewSource(source.sent, source.made)
        /\ play' = [play EXCEPT !.head = 0, !.session = @ + 1] \/ play' = play
    BY <2>1 DEF SoundDown
  <2>3. play'.heard = play.heard
    BY <2>2 DEF SoundTypes
  <2>4. /\ Len(sndUp') = 0 /\ Len(sndDown') = 0 /\ snd'.pending = NoBlock /\ snd'.on # "dynamic"
        /\ source'.on = "static" /\ source'.step = "idle"
    BY <2>2 DEF NoSnd, NewSource, None
  <2>5. \A i \in 1..Len(play'.heard) : play'.heard[i].form = play'.heard[i].means
    BY <2>3 DEF Forms, MeansInv
  <2>6. Forms'
    BY <2>4, <2>5 DEF ChannelInv, OfferInv, Once, Has, Due, Forms, MeansInv
  <2>7. link' # "up"
    BY <1>1 DEF Drop, Redirect, Disconnect
  <2> QED
    BY <2>2, <2>6, <2>7 DEF BoundInv, Up
<1>2. CASE StartProtocol
  <2>1. /\ ~Up /\ SoundUp /\ UNCHANGED <<env, play, source, sndUp, sndDown>>
        /\ sndUp = <<>> /\ sndDown = <<>> /\ snd = NoSnd
    BY <1>2 DEF StartProtocol, SoundUp, SoundTypes, Up, BoundInv
  <2>2. /\ snd.pending = NoBlock /\ snd.on = None /\ snd.formats = <<>>
        /\ Len(sndUp) = 0 /\ Len(sndDown) = 0
    BY <2>1 DEF NoSnd
  <2>3. snd' = IF May("sound") THEN NewSnd("static") ELSE NoSnd
    BY <2>1 DEF SoundUp
  <2>4. /\ snd'.pending = NoBlock /\ snd'.formats = <<>> /\ snd'.on # "dynamic"
        /\ May("sound") => snd'.on = "static"
    BY <2>3 DEF NewSnd, NoSnd, None
  <2>5. source.on = "static"
    BY <2>2 DEF Forms, ChannelInv, SoundTypes, Sides, None
  <2>6. ChannelInv'
    BY <2>1, <2>2, <2>4, <2>5 DEF ChannelInv
  <2>7. OfferInv'
    BY <2>2, <2>4, <2>1 DEF Once, Has, NothingSets, Forms, OfferInv
  <2>8. MeansInv'
    BY <2>1, <2>2, <2>4 DEF Due, Forms, MeansInv
  <2>9. BoundInv'
    BY <1>2, <2>1, <2>4 DEF StartProtocol, May, BoundInv, Up, None
  <2> QED
    BY <2>6, <2>7, <2>8, <2>9 DEF Forms
<1> QED
  BY <1>1, <1>2

LEMMA FormsSound ==
  ASSUME LinkInv, SoundTypes, SoundInv, Forms, BoundInv, ~May("returns"), SoundNext
  PROVE  Forms' /\ BoundInv'
<1>0. SameMay /\ link' = link
  BY LinkSound DEF SameLink
<1>1. CASE ClientHears
  <2>1. Forms'
    BY <1>1, FormsClient
  <2>2. /\ Up /\ 1 \in 1..Len(sndDown) /\ sndDown[1] = Head(sndDown)
    BY <1>1, SoundTypesClient DEF SoundInv, Taking
  <2>3. sndDown[1].kind # "close"
    BY <2>2 DEF Forms, ChannelInv
  <2>4. snd'.on = snd.on \/ snd'.on = "dynamic"
    BY <2>2, <2>3, <1>1 DEF OnAudioChannel, TakesSound, NewSnd, NoSnd, ClientHears,
       OnServerFormats, OnTraining, OnWaveInfo, OnWave2, OnWaveBody, SoundDropped, SoundTypes
  <2> QED
    BY <1>0, <2>1, <2>2, <2>4 DEF BoundInv, Up, May, SameMay, None
<1>2. CASE ~ClientHears
  <2>1. UNCHANGED snd
    <3>1. CASE HostHears
      BY <3>1, Zenon DEF HostHears
    <3>2. CASE ~HostHears
      BY <1>2, <3>2 DEF SoundNext, HostMovesSound, Tick, PrimeAudio, HostOffersSound, HostSends
    <3> QED
      BY <3>1, <3>2
  <2>2. BoundInv'
    BY <1>0, <2>1 DEF BoundInv, Up, May, SameMay
  <2>3. CASE Tick \/ PrimeAudio
    BY <2>3, <2>2, FormsSame DEF Tick, PrimeAudio, SoundTypes
  <2> QED
    BY <1>2, <2>2, <2>3, FormsHear, FormsMove, FormsOffer, FormsSend DEF SoundNext
<1> QED
  BY <1>1, <1>2

LEMMA FormStep ==
  ASSUME LinkInv, SoundTypes, SoundInv, FormInv, [Next]_vars
  PROVE  FormInv'
<1>0. SameMay
  BY LinkNext
<1> SUFFICES ASSUME ~May("returns") PROVE BoundInv' /\ Forms'
  BY <1>0 DEF FormInv, SameMay, May
<1>1. BoundInv /\ Forms
  BY DEF FormInv
<1>2. CASE SoundNext
  BY <1>1, <1>2, FormsSound
<1>3. CASE UNCHANGED <<link, sndVars>>
  BY <1>3, <1>0, <1>1, FormsSame DEF sndVars, BoundInv, Up, May, SameMay
<1>4. CASE Activate \/ Reactivate
  BY <1>3, <1>4 DEF Activate, Reactivate, OnActive, BeginReactivation
<1>5. CASE UNCHANGED vars
  BY <1>3, <1>5 DEF vars
<1> QED
  BY <1>1, <1>2, <1>3, <1>4, <1>5, FormsEnd, LinkClip, LinkMic, LinkKeys, LinkPointer
  DEF Next, Rest, SameLink

LEMMA FormInitially == Init => FormInv
<1> SUFFICES ASSUME Init PROVE BoundInv /\ Forms
  BY DEF FormInv
<1>1. /\ link = "up" /\ snd = (IF May("sound") THEN NewSnd("static") ELSE NoSnd)
      /\ play.heard = <<>> /\ source = NewSource(0, 0) /\ sndUp = <<>> /\ sndDown = <<>>
  BY DEF Init, SoundInit
<1>2. /\ snd.pending = NoBlock /\ snd.on # "dynamic" /\ (May("sound") => snd.on # None)
      /\ source.on = "static" /\ source.step = "idle"
  BY <1>1 DEF NewSnd, NoSnd, NewSource, None
<1>3. Len(play.heard) = 0 /\ Len(sndUp) = 0 /\ Len(sndDown) = 0
  BY <1>1
<1>4. ChannelInv
  BY <1>2, <1>3 DEF ChannelInv
<1>5. OfferInv
  BY <1>2, <1>3 DEF OfferInv, Once, Has
<1>6. Due = {}
  BY <1>2, <1>3 DEF Due
<1> QED
  BY <1>1, <1>2, <1>3, <1>4, <1>5, <1>6 DEF BoundInv, Up, Forms, MeansInv

LEMMA SoundInvariant == Spec => [](LinkInv /\ SoundTypes /\ SoundInv /\ FormInv)
<1>1. Init => LinkInv /\ SoundTypes /\ SoundInv /\ FormInv
  BY LinkInit, SoundInitially, FormInitially
<1>2. LinkInv /\ SoundTypes /\ SoundInv /\ FormInv /\ [Next]_vars
        => (LinkInv /\ SoundTypes /\ SoundInv /\ FormInv)'
  BY LinkNext, SoundStep, FormStep
<1> QED
  BY <1>1, <1>2, PTL DEF Spec

LEMMA HeardRanges ==
  ASSUME SoundTypes
  PROVE  DOMAIN play.heard = 1..Len(play.heard)
BY LenProperties DEF SoundTypes

\* In every environment, whatever ends and begins, sound is well-typed, its blocks are played
\* in the order of their numbers and one after the other, and none later than the slowest
\* one was on its way, if the browser lets the sound run (_playPcm, _deliverWave).
THEOREM SoundIsInTime ==
  Spec => [](/\ SoundTypeOK /\ NotLate
             /\ \A i, j \in DOMAIN play.heard :
                  i < j /\ play.heard[i].session = play.heard[j].session =>
                    play.heard[i].no < play.heard[j].no /\ play.heard[i].start < play.heard[j].start)
<1>1. ASSUME SoundTypes, SoundInv
      PROVE  /\ SoundTypeOK /\ NotLate
             /\ \A i, j \in DOMAIN play.heard :
                  i < j /\ play.heard[i].session = play.heard[j].session =>
                    play.heard[i].no < play.heard[j].no /\ play.heard[i].start < play.heard[j].start
  <2>1. SoundTypeOK
    BY <1>1 DEF SoundTypes, SoundTypeOK, Sides
  <2>2. NotLate
    BY <1>1, HeardRanges DEF SoundInv, LateInv, NotLate, NeverLate
  <2> QED
    BY <1>1, <2>1, <2>2, HeardRanges DEF SoundInv, HeardInv
<1> QED
  BY <1>1, SoundInvariant, PTL

\* If the host does not move its sound back, every block is also played in the format the host
\* means, whatever it offers again and whenever it moves to the dynamic channel
\* (_onServerFormats, _initAudioDvc).
THEOREM SoundIsMeant == Spec => [](~May("returns") => InOrder)
<1>1. ASSUME SoundTypes, SoundInv, FormInv PROVE ~May("returns") => InOrder
  BY <1>1, HeardRanges DEF SoundInv, HeardInv, FormInv, Forms, MeansInv, InOrder
<1> QED
  BY <1>1, SoundInvariant, PTL

-----------------------------------------------------------------------------
(* The keyboard: types.                                                    *)

UserType  == [held : SUBSET Keys, lock : 0..1, focused : BOOLEAN, typing : BOOLEAN]
Strike    == [mods : SUBSET Shifts, lock : 0..1]
KbdType   == [connected : BOOLEAN, held : SUBSET Keys, synced : {Unknown, 0, 1},
              fresh : BOOLEAN, synth : BOOLEAN]
HostKeys  == [share : BOOLEAN, down : SUBSET Keys, lock : 0..1, typed : Strike, meant : Strike]
EventType == [type : {"down", "up", "blur", "focus"}, key : Keys \cup {None},
              mods : SUBSET Shifts, lock : 0..1, now : 0..1]

KeyTypes ==
  /\ user \in UserType /\ kbd \in KbdType /\ remote \in HostKeys
  /\ events \in Seq(EventType)
  /\ \A i \in 1..Len(events) : events[i].type \in {"down", "up"} => events[i].key \in Keys

LEMMA KeyTypesOK == KeyTypes => KeyTypeOK
BY DEF KeyTypes, KeyTypeOK, UserType, KbdType, HostKeys, Strike

LEMMA MapCodeType == \A key \in Keys : MapCode(key) \in Keys
BY DEF MapCode, Keys

LEMMA PressedType ==
  ASSUME NEW r \in HostKeys, NEW keys \in SUBSET Keys
  PROVE  Pressed(r, keys) \in HostKeys
<1>1. r.down \cup keys \in SUBSET Keys /\ (IF "CapsLock" \in keys \ r.down THEN 1 - r.lock ELSE r.lock) \in 0..1
  BY DEF HostKeys
<1> QED
  BY <1>1 DEF Pressed, HostKeys

LEMMA RaisedType ==
  ASSUME NEW r \in HostKeys, NEW keys
  PROVE  Raised(r, keys) \in HostKeys
BY DEF Raised, HostKeys

LEMMA SyncTogglesType ==
  ASSUME NEW k \in KbdType, NEW r \in HostKeys, NEW mask \in 0..1
  PROVE  /\ SyncToggles(k, r, mask).kbd \in KbdType
         /\ SyncToggles(k, r, mask).remote \in HostKeys
<1>1. Synced(r, mask) \in HostKeys
  BY DEF Synced, HostKeys
<1>2. k.held \in SUBSET Keys /\ [k EXCEPT !.synced = mask] \in KbdType
  BY DEF KbdType
<1>3. Pressed(Synced(r, mask), k.held) \in HostKeys
  BY <1>1, <1>2, PressedType
<1> QED
  BY <1>2, <1>3 DEF SyncToggles

LEMMA ReleaseHeldType ==
  ASSUME NEW k \in KbdType, NEW r \in HostKeys, NEW all
  PROVE  /\ ReleaseHeld(k, r, all).kbd \in KbdType
         /\ ReleaseHeld(k, r, all).remote \in HostKeys
<1> DEFINE keys == IF all THEN k.held ELSE k.held \ Modifiers
<1>1. [k EXCEPT !.held = @ \ keys] \in KbdType
  BY DEF KbdType
<1>2. Raised(r, keys) \in HostKeys
  BY RaisedType
<1> QED
  BY <1>1, <1>2 DEF ReleaseHeld

LEMMA KeyPressedType ==
  ASSUME NEW k \in KbdType, NEW r \in HostKeys, NEW e \in EventType, e.key \in Keys
  PROVE  /\ KeyPressed(k, r, e).kbd \in KbdType
         /\ KeyPressed(k, r, e).remote \in HostKeys
<1> DEFINE code == MapCode(e.key)
           s    == IF code = "AltRight" THEN DropSyntheticAltGrCtrl(k, r)
                   ELSE [kbd |-> k, remote |-> r]
<1>1. s.kbd \in KbdType /\ s.remote \in HostKeys
  BY RaisedType DEF KbdType, DropSyntheticAltGrCtrl
<1> HIDE DEF s
<1>2. code \in Keys
  BY MapCodeType
<1>3. Pressed(s.remote, {code}) \in HostKeys
  BY <1>1, <1>2, PressedType
<1>4. Types(Pressed(s.remote, {code}), e) \in HostKeys
  BY <1>3 DEF EventType, Hit, Strike, HostKeys, Types
<1>5. [s.kbd EXCEPT !.held = @ \cup {code},
                    !.fresh = @ \/ (code = "ControlLeft" /\ May("windows"))] \in KbdType
  BY <1>1, <1>2 DEF KbdType
<1> QED
  BY <1>1, <1>4, <1>5 DEF KeyPressed, s

LEMMA KeyTypesPage ==
  ASSUME KeyTypes, PageHandles
  PROVE  KeyTypes'
<1> DEFINE e == Head(events)
<1>1. /\ events # <<>> /\ events' = Tail(events) /\ UNCHANGED user
      /\ \/ e.type = "down" /\ Takes /\ OnKeyDown(e)
         \/ e.type = "up" /\ Takes /\ OnKeyUp(e)
         \/ UNCHANGED <<kbd, remote>>
         \/ OnBlur
         \/ OnFocus
  BY DEF PageHandles
<1>2. /\ kbd \in KbdType /\ remote \in HostKeys /\ events \in Seq(EventType)
      /\ \A i \in 1..Len(events) : events[i].type \in {"down", "up"} => events[i].key \in Keys
  BY DEF KeyTypes
<1>3. /\ e = events[1] /\ e \in EventType /\ events' \in Seq(EventType)
      /\ 1 \in 1..Len(events)
      /\ \A i \in 1..Len(events') : i + 1 \in 1..Len(events) /\ events'[i] = events[i + 1]
  BY <1>1, <1>2, Popped
<1>4. e.type \in {"down", "up"} => e.key \in Keys
  BY <1>2, <1>3
<1>5. e.lock \in 0..1
  BY <1>3 DEF EventType
<1> HIDE DEF e
<1>6. CASE e.type = "down" /\ OnKeyDown(e)
  BY <1>2, <1>5, SyncTogglesType, <1>3, <1>4, <1>6, KeyPressedType, <1>1 DEF OnKeyDown, KeyTypes
<1>7. CASE e.type = "up" /\ OnKeyUp(e)
  <2> DEFINE code == MapCode(e.key)
             k    == [kbd EXCEPT !.held = @ \ {code}, !.synth = @ /\ code # "AltRight"]
             r    == IF Mapped(code) THEN Raised(remote, {code}) ELSE remote
  <2>1. k \in KbdType
    BY <1>2 DEF KbdType
  <2>2. r \in HostKeys
    BY <1>2, RaisedType
  <2>3. [kbd EXCEPT !.synth = FALSE] \in KbdType
    BY <1>2 DEF KbdType
  <2>4. /\ ReleaseHeld(k, r, FALSE).kbd \in KbdType
        /\ ReleaseHeld(k, r, FALSE).remote \in HostKeys
    BY <2>1, <2>2, ReleaseHeldType
  <2>5. \/ kbd' = [kbd EXCEPT !.synth = FALSE] /\ remote' = remote
        \/ kbd' = k /\ remote' = r
        \/ kbd' = ReleaseHeld(k, r, FALSE).kbd /\ remote' = ReleaseHeld(k, r, FALSE).remote
    BY <1>7 DEF OnKeyUp
  <2>6. kbd' \in KbdType /\ remote' \in HostKeys
    BY <1>2, <2>1, <2>2, <2>3, <2>4, <2>5
  <2> QED
    BY <1>1, <1>2, <1>3, <2>6 DEF KeyTypes
<1>8. CASE UNCHANGED <<kbd, remote>>
  BY <1>1, <1>2, <1>3, <1>8 DEF KeyTypes
<1>9. CASE OnBlur
  <2>1. /\ ReleaseHeld(kbd, remote, TRUE).kbd \in KbdType
        /\ ReleaseHeld(kbd, remote, TRUE).remote \in HostKeys
    BY <1>2, ReleaseHeldType
  <2>2. \A x \in KbdType : [x EXCEPT !.synth = FALSE] \in KbdType
    BY DEF KbdType
  <2>3. kbd' \in KbdType /\ remote' \in HostKeys
    BY <1>2, <1>9, <2>1, <2>2 DEF OnBlur
  <2> QED
    BY <1>1, <1>2, <1>3, <2>3 DEF KeyTypes
<1>10. CASE OnFocus
  BY <1>2, <1>1, <1>3, <1>10 DEF KbdType, KeyTypes, OnFocus
<1> QED
  BY <1>1, <1>6, <1>7, <1>8, <1>9, <1>10

LEMMA MeantType == \A held : Meant(held) \in SUBSET Shifts
BY DEF Meant

\* An event is reported alone, or AltGr as two.
LEMMA ReportedIs ==
  ASSUME NEW type, NEW key, NEW held, NEW reported, NEW lock
  PROVE  Reported(type, key, held, reported, lock)
           = IF key = "AltRight" /\ May("altGr")
             THEN <<Event(type, "ControlLeft", held, reported, lock), Event(type, key, held, reported, lock)>>
             ELSE <<Event(type, key, held, reported, lock)>>
<1> DEFINE one == Event(type, "ControlLeft", held, reported, lock)
           two == Event(type, key, held, reported, lock)
<1>1. <<>> \o <<two>> = <<two>>
  BY ConcatEmptySeq, <<two>> \in Seq({two})
<1>2. <<one>> \o <<two>> = <<one, two>>
  <2> DEFINE S == {one, two}
             c == <<one>> \o <<two>>
  <2>1. <<one>> \in Seq(S) /\ <<two>> \in Seq(S) /\ Len(<<one>>) = 1 /\ Len(<<two>>) = 1
    OBVIOUS
  <2>2. c \in Seq(S) /\ Len(c) = 2 /\ c[1] = one /\ c[2] = two
    BY <2>1, ConcatProperties
  <2>3. <<one, two>> \in Seq(S) /\ Len(<<one, two>>) = 2 /\ <<one, two>>[1] = one /\ <<one, two>>[2] = two
    OBVIOUS
  <2> HIDE DEF c
  <2>4. c = <<one, two>>
    BY <2>2, <2>3, SeqEqual
  <2> QED
    BY <2>4 DEF c
<1> QED
  BY <1>1, <1>2 DEF Reported

\* The events the browser adds.
LEMMA ReportedType ==
  ASSUME NEW q \in Seq(EventType), NEW type \in {"down", "up"}, NEW key \in Keys, NEW held,
         NEW reported \in 0..1, NEW lock \in 0..1,
         \A i \in 1..Len(q) : q[i].type \in {"down", "up"} => q[i].key \in Keys
  PROVE  LET p == q \o Reported(type, key, held, reported, lock)
         IN  /\ p \in Seq(EventType)
             /\ \A i \in 1..Len(p) : p[i].type \in {"down", "up"} => p[i].key \in Keys
<1> DEFINE one == Event(type, "ControlLeft", held, reported, lock)
           two == Event(type, key, held, reported, lock)
           n   == Reported(type, key, held, reported, lock)
           p   == q \o n
<1>1. one \in EventType /\ two \in EventType /\ one.key \in Keys /\ two.key \in Keys
  BY MeantType DEF Event, EventType, Keys
<1>2. n \in {<<two>>, <<one, two>>}
  BY ReportedIs
<1> HIDE DEF one, two, n
<1>3. n \in Seq(EventType) /\ \A i \in 1..Len(n) : n[i].key \in Keys
  <2>1. CASE n = <<two>>
    BY <1>1, <2>1
  <2>2. CASE n = <<one, two>>
    BY <1>1, <2>2
  <2> QED
    BY <1>2, <2>1, <2>2
<1>4. /\ p \in Seq(EventType) /\ Len(p) = Len(q) + Len(n)
      /\ Len(q) \in Nat /\ Len(n) \in Nat
      /\ \A i \in 1..Len(q) + Len(n) : p[i] = IF i <= Len(q) THEN q[i] ELSE n[i - Len(q)]
  BY <1>3, ConcatProperties, LenProperties
<1> HIDE DEF p
<1>5. ASSUME NEW i \in 1..Len(p), p[i].type \in {"down", "up"} PROVE p[i].key \in Keys
  BY <1>4, <1>5, <1>3
<1> QED
  BY <1>4, <1>5 DEF p, n

LEMMA HappensType ==
  ASSUME KeyTypes, NEW type \in {"down", "up"}, NEW key \in Keys, NEW held,
         NEW reported \in 0..1, NEW lock \in 0..1, Happens(type, key, held, reported, lock)
  PROVE  /\ events' \in Seq(EventType)
         /\ \A i \in 1..Len(events') : events'[i].type \in {"down", "up"} => events'[i].key \in Keys
BY ReportedType DEF KeyTypes, Happens

LEMMA KeyTypesEnds ==
  ASSUME KeyTypes, NEW torn \in BOOLEAN, KeyboardDown(torn)
  PROVE  KeyTypes'
BY DEF KeyTypes, KeyboardDown, KbdType, HostKeys

LEMMA KeyTypesNext ==
  ASSUME LinkInv, KeyTypes, KeyNext \/ OnActive \/ BeginReactivation
  PROVE  KeyTypes'
<1> USE DEF KeyTypes
<1>1. CASE PageHandles
  BY <1>1, KeyTypesPage
<1>2. CASE SendCtrlAltDel
  BY PressedType, <1>2, RaisedType DEF Keys, SendCtrlAltDel
<1>3. CASE Elapse
  BY <1>3 DEF Elapse, KbdType
<1>4. CASE FocusMoves
  <2>1. PICK t \in {"blur", "focus"} : events' = Append(events, Event(t, None, {}, 0, 0))
    BY <1>4 DEF FocusMoves
  <2>2. Event(t, None, {}, 0, 0) \in EventType
    BY MeantType DEF Event, EventType
  <2>3. Event(t, None, {}, 0, 0).type = t
    BY DEF Event
  <2>4. /\ events' \in Seq(EventType)
        /\ \A i \in 1..Len(events') : events'[i].type \in {"down", "up"} => events'[i].key \in Keys
    BY <2>1, <2>2, <2>3, Pushed
  <2>5. user' \in UserType /\ UNCHANGED <<kbd, remote>>
    BY <1>4 DEF FocusMoves, UserType
  <2> QED
    BY <2>4, <2>5
<1>5. CASE OverlayMoves
  BY <1>5 DEF OverlayMoves, UserType
<1>6. ASSUME NEW key \in env.keys, Press(key) \/ Repeat(key) \/ Release(key) PROVE KeyTypes'
  <2>1. key \in Keys
    BY DEF LinkInv, EnvironmentType
  <2>2. UNCHANGED <<kbd, remote>> /\ user' \in UserType
    <3>1. CASE Press(key)
      <4>1. (IF key = "CapsLock" THEN 1 - user.lock ELSE user.lock) \in 0..1
        BY DEF UserType
      <4>2. PICK held \in SUBSET Keys, lock \in 0..1 : user' = [user EXCEPT !.held = held, !.lock = lock]
        BY <2>1, <3>1, <4>1 DEF Press, UserType
      <4> QED
        BY <3>1, <4>2 DEF Press, UserType
    <3>2. CASE Repeat(key) \/ Release(key)
      BY <3>2 DEF Repeat, Release, UserType
    <3> QED
      BY <1>6, <3>1, <3>2
  <2>3. PICK type \in {"down", "up"}, held \in SUBSET Keys, reported \in 0..1, lock \in 0..1 :
               Happens(type, key, held, reported, lock)
    BY <2>1, <1>6 DEF UserType, Press, Repeat, Release
  <2> QED
    BY <2>1, <2>2, <2>3, HappensType
<1>7. CASE OnActive
  <2> DEFINE k == [kbd EXCEPT !.connected = TRUE, !.synced = Unknown]
             r == [remote EXCEPT !.share = TRUE]
  <2>1. k \in KbdType /\ r \in HostKeys
    BY DEF KbdType, HostKeys
  <2>2. SyncToggles(k, r, 0).kbd \in KbdType /\ SyncToggles(k, r, 0).remote \in HostKeys
    BY <2>1, SyncTogglesType
  <2>3. kbd' \in KbdType /\ remote' \in HostKeys /\ UNCHANGED <<user, events>>
    BY <1>7, <2>1, <2>2 DEF OnActive
  <2> QED
    BY <2>3
<1>8. CASE BeginReactivation
  BY <1>8 DEF BeginReactivation, HostKeys
<1> QED
  BY <1>1, <1>2, <1>3, <1>4, <1>5, <1>6, <1>7, <1>8 DEF KeyNext

LEMMA KeyTypesInit == Init => KeyTypes
<1> SUFFICES ASSUME Init PROVE KeyTypes
  OBVIOUS
<1>1. user \in UserType
  <2>1. user \in [held : {{}}, lock : 0..1, focused : {TRUE}, typing : {FALSE}]
    <3>1. user \in [held : {{}}, lock : IF "CapsLock" \in env.keys THEN 0..1 ELSE {0},
                    focused : {TRUE}, typing : {FALSE}]
      BY DEF Init, KeyInit
    <3>2. CASE "CapsLock" \in env.keys
      BY <3>1, <3>2
    <3>3. CASE "CapsLock" \notin env.keys
      <4>1. user \in [held : {{}}, lock : {0}, focused : {TRUE}, typing : {FALSE}]
        BY <3>1, <3>3
      <4>2. user = [held |-> {}, lock |-> 0, focused |-> TRUE, typing |-> FALSE]
        BY <4>1
      <4> QED
        BY <4>2
    <3> QED
      BY <3>2, <3>3
  <2> QED
    BY <2>1 DEF UserType
<1>2. Hit({}, 0) \in Strike
  BY DEF Hit, Strike
<1>3. remote \in HostKeys
  BY <1>2 DEF Init, KeyInit, HostKeys
<1>4. kbd \in KbdType /\ events = <<>>
  BY DEF Init, KeyInit, KbdType
<1> QED
  BY <1>1, <1>3, <1>4 DEF KeyTypes

\* The mouse and the pointer leave the keyboard alone.
LEMMA PointerKeys == PointerNext => UNCHANGED <<link, kbdVars>>
BY DEF PointerNext, MoveTo, ButtonDown, ButtonUp, Wheel, Flush, MouseLeaves, Relayout, Announce, OnUpdate,
       HostShows, HostRecalls, HostHides, Points, Uses

LEMMA KeyTypesStep ==
  ASSUME LinkInv, KeyTypes, [Next]_vars
  PROVE  KeyTypes'
BY KeyTypesEnds, PointerKeys, KeyTypesNext DEF kbdVars, KeyTypes, Drop, Redirect, Disconnect,
   StartProtocol, Next, Rest, vars, Activate, Reactivate

-----------------------------------------------------------------------------
(* The mouse and the pointer: types, and what a click and the wheel do.    *)

HandType    == [at : Places, buttons : SUBSET Buttons, over : BOOLEAN]
LayoutType  == [at : 0..1, announced : BOOLEAN]
MovesType   == [pending : Places \cup {Unmeasured}, raf : BOOLEAN, frame : BOOLEAN,
                rect : 0..1 \cup {Unmeasured}, listening : BOOLEAN]
DeskType    == [at : 0..1, buttons : SUBSET Buttons, pressed : 0..1, aimed : 0..1,
                turned : -Notch..Notch, asked : -Notch..Notch, seen : BOOLEAN]
CacheType   == [Slots -> Looks \cup {None}]
CursorType  == [cache : CacheType, class : Slots \cup {"null", None}, frag : Seq(Fragments), mixed : BOOLEAN]
PointerType == [cache : CacheType, now : Looks, told : BOOLEAN]

HandTypes == hand \in HandType /\ layout \in LayoutType /\ moves \in MovesType /\ desk \in DeskType
LookTypes == updates \in Seq(Fragments) /\ cursor \in CursorType /\ pointer \in PointerType

LEMMA PointerTypesOK == HandTypes /\ LookTypes => PointerTypeOK
BY DEF HandTypes, LookTypes, PointerTypeOK, HandType, LayoutType, MovesType, DeskType, CacheType, CursorType,
       PointerType

LEMMA CoordsType ==
  ASSUME NEW point \in Int, NEW rect \in Int
  PROVE  CanvasCoords(point, rect) \in 0..1
BY DEF CanvasCoords, Clamped

LEMMA PlacesInt == Places \subseteq 0..2 /\ Unmeasured = -1 /\ Notch = 120
BY DEF Places, Unmeasured, Notch

LEMMA AimType == HandTypes => Aim \in 0..1 /\ Here = Aim /\ Here \in 0..1
BY CoordsType DEF HandTypes, HandType, LayoutType, Places, Aim, Here, ClickRect

\* handleWheel and MouseWheelEvent: the wheel is turned by what is asked for.
WheelStep(pixels) ==
  LET round == (pixels * Notch + 50) \div 100 IN IF round > Notch THEN Notch ELSE round
Signed(step, negative) == IF negative THEN -step ELSE step

LEMMA WheelTurns ==
  ASSUME NEW p \in {0, 1, 400}, NEW negative \in BOOLEAN
  PROVE  WheelStep(p) # 0 => /\ Signed(WheelStep(p), negative) \in -Notch..Notch
                             /\ Turned(Rotation(WheelStep(p), negative)) = Signed(WheelStep(p), negative)
BY DEF Notch, WheelStep, Turned, Rotation, Signed

\* What a handler makes of the host's mouse is recorded; elsewhere there is none.
LEMMA ToldDesk ==
  ASSUME NEW d \in DeskType, desk \in DeskType, Told(d)
  PROVE  /\ desk' \in DeskType /\ desk'.seen
         /\ desk'.at = IF remote.share THEN d.at ELSE desk.at
         /\ desk'.buttons = IF remote.share THEN d.buttons ELSE desk.buttons
         /\ desk'.pressed = IF remote.share THEN d.pressed ELSE desk.pressed
         /\ desk'.aimed = IF remote.share THEN d.aimed ELSE desk.aimed
         /\ desk'.turned = IF remote.share THEN d.turned ELSE desk.turned
         /\ desk'.asked = IF remote.share THEN d.asked ELSE desk.asked
BY DEF Told, DeskType

LEMMA ActedDesk ==
  ASSUME HandTypes, NEW d \in DeskType, Acts(d)
  PROVE  /\ desk' \in DeskType /\ moves' \in MovesType
         /\ \/ moves' = [moves EXCEPT !.rect = layout.at] /\ Told(d)
            \/ UNCHANGED <<moves, desk>> /\ ~kbd.connected
BY ToldDesk DEF HandTypes, LayoutType, MovesType, Acts, ClickRect

LEMMA DownDesk ==
  ASSUME HandTypes, NEW button \in Buttons
  PROVE  LET d == MouseDownEvent(Here, button)
             u == MouseUpEvent(d, Here, button)
         IN  /\ d \in DeskType /\ u \in DeskType
             /\ d.at = Aim /\ d.buttons = desk.buttons \cup {button} /\ d.pressed = d.aimed
             /\ d.turned = desk.turned /\ d.asked = desk.asked
             /\ u.pressed = d.pressed /\ u.aimed = d.aimed /\ u.turned = d.turned /\ u.asked = d.asked
BY AimType DEF HandTypes, DeskType, MouseDownEvent, MouseUpEvent, Buttons

LEMMA UpDesk ==
  ASSUME HandTypes, NEW button \in Buttons
  PROVE  LET u == MouseUpEvent(desk, Here, button)
         IN  /\ u \in DeskType /\ u.at = Aim /\ u.buttons = desk.buttons \ {button}
             /\ u.pressed = desk.pressed /\ u.aimed = desk.aimed /\ u.turned = desk.turned /\ u.asked = desk.asked
BY AimType DEF HandTypes, DeskType, MouseUpEvent

LEMMA MoveDesk ==
  ASSUME HandTypes, NEW at \in 0..1
  PROVE  LET d == MouseMoveEvent(at)
         IN  /\ d \in DeskType /\ d.at = at /\ d.buttons = desk.buttons
             /\ d.pressed = desk.pressed /\ d.aimed = desk.aimed /\ d.turned = desk.turned /\ d.asked = desk.asked
BY DEF HandTypes, DeskType, MouseMoveEvent

LEMMA WheelDesk ==
  ASSUME HandTypes, NEW turned \in -Notch..Notch
  PROVE  LET d == [desk EXCEPT !.at = Here, !.turned = turned, !.asked = turned]
         IN  /\ d \in DeskType /\ d.at = Aim /\ d.buttons = desk.buttons
             /\ d.pressed = desk.pressed /\ d.aimed = desk.aimed /\ d.turned = d.asked
BY AimType DEF HandTypes, DeskType

-----------------------------------------------------------------------------
(* The mouse: where it is and what it holds.                               *)

\* What the user, the browser and the host do that leaves the host's mouse behind (README, known
\* departures).
SteadyHand ==
  ~(May("holds") \/ May("typesOver") \/ May("dragsOut") \/ May("menuOnPress") \/ May("resizesJoining"))

\* The host hears from a page that takes input, which then listens to the canvas.
ActiveInv ==
  /\ remote.share => kbd.connected
  /\ kbd.connected => Up /\ moves.listening
  /\ updates # <<>> => kbd.connected

\* A move that waits is the last one, and the rectangle is that of the canvas unless its event
\* is still to come.
MoveInv ==
  /\ moves.raf = moves.frame
  /\ moves.frame <=> moves.pending # Unmeasured
  /\ moves.frame => moves.pending = hand.at
  /\ kbd.connected /\ ~remote.share => ~moves.frame
  /\ moves.listening /\ layout.announced => moves.rect \in {Unmeasured, layout.at}
  /\ Up /\ ~moves.listening => moves.rect \in {Unmeasured, layout.at}

\* The host's buttons are the user's, and unless a frame is to come its mouse is where the user points.
HandInv ==
  /\ desk.buttons = hand.buttons
  /\ hand.buttons # {} => hand.over
  /\ desk.seen => kbd.connected
  /\ desk.seen /\ hand.over /\ ~moves.frame => desk.at = Aim

HandsInv ==
  /\ HandTypes /\ ActsAsMeant
  /\ SteadyHand => MoveInv /\ HandInv

\* A step of the mouse: what it does to the session, and the handlers of a click and the wheel.
LEMMA HandsMove ==
  ASSUME HandsInv, ActiveInv, NEW p \in Places, MoveTo(p), SameMay
  PROVE  HandsInv'
<1>1. /\ hand' = [hand EXCEPT !.at = p, !.over = TRUE]
      /\ UNCHANGED <<link, kbd, remote, layout>>
      /\ remote.share \/ May("typesOver")
      /\ \/ HandleMouseMove(p) /\ Told(desk) /\ kbd.connected
         \/ UNCHANGED <<moves, desk>> /\ ~kbd.connected
  BY DEF MoveTo, Uses, kbdVars
<1>2. hand \in HandType /\ layout \in LayoutType /\ moves \in MovesType /\ desk \in DeskType
  BY DEF HandsInv, HandTypes
<1>3. hand' \in HandType /\ hand'.at = p /\ hand'.over /\ hand'.buttons = hand.buttons
  BY <1>1, <1>2 DEF HandType
<1>4. CASE UNCHANGED <<moves, desk>> /\ ~kbd.connected
  BY <1>1, <1>2, <1>3, <1>4 DEF HandsInv, HandTypes, ActsAsMeant, ActiveInv, SteadyHand, SameMay,
     May
<1>5. CASE HandleMouseMove(p) /\ Told(desk) /\ kbd.connected
  <2>1. /\ moves' \in MovesType /\ moves'.pending = p /\ moves'.raf
        /\ moves'.frame = (moves.frame \/ ~moves.raf)
        /\ moves'.rect = moves.rect /\ moves'.listening = moves.listening
    BY <1>2, <1>5 DEF HandleMouseMove, MovesType
  <2>2. /\ desk' \in DeskType /\ desk'.buttons = desk.buttons
        /\ desk'.pressed = desk.pressed /\ desk'.aimed = desk.aimed
        /\ desk'.turned = desk.turned /\ desk'.asked = desk.asked
    BY <1>2, <1>5, ToldDesk
  <2>3. HandTypes' /\ ActsAsMeant'
    BY <1>1, <1>2, <1>3, <2>1, <2>2 DEF HandsInv, HandTypes, ActsAsMeant
  <2>4. ASSUME SteadyHand' PROVE MoveInv' /\ HandInv'
    <3>1. SteadyHand /\ remote.share
      BY <1>1, <2>4 DEF SteadyHand, SameMay, May
    <3>2. MoveInv /\ HandInv
      BY <3>1 DEF HandsInv
    <3>3. moves'.frame /\ p # Unmeasured
      BY <1>2, <3>2, <2>1 DEF Places, Unmeasured, MoveInv, MovesType
    <3>4. MoveInv'
      BY <1>1, <1>3, <2>1, <3>1, <3>2, <3>3 DEF MoveInv, Up
    <3>5. HandInv'
      BY <1>1, <1>3, <1>5, <2>2, <3>2, <3>3 DEF HandInv
    <3> QED
      BY <3>4, <3>5
  <2> QED
    BY <2>3, <2>4 DEF HandsInv
<1> QED
  BY <1>1, <1>4, <1>5

\* What happens at the canvas.
LEMMA HandsActs ==
  ASSUME HandsInv, ActiveInv, SameMay, NEW d \in DeskType, Acts(d), d.pressed = d.aimed, d.turned = d.asked,
         UNCHANGED <<link, kbd, remote, layout>>, hand' \in HandType, hand'.at = hand.at,
         SteadyHand => /\ remote.share /\ d.at = Aim /\ d.buttons = hand'.buttons
                       /\ hand'.buttons # {} => hand'.over
  PROVE  HandsInv'
BY ActedDesk, ToldDesk DEF HandsInv, HandTypes, ActsAsMeant, SteadyHand, SameMay, May, ActiveInv,
   MovesType, Aim, MoveInv, Up, HandInv

LEMMA HandsClick ==
  ASSUME HandsInv, ActiveInv, SameMay, NEW b \in Buttons, ButtonDown(b) \/ ButtonUp(b)
  PROVE  HandsInv'
<1> USE DEF SteadyHand
<1>1. /\ UNCHANGED <<link, kbd, remote, layout>>
      /\ remote.share \/ May("typesOver")
  BY DEF ButtonDown, ButtonUp, Uses, kbdVars
<1>2. hand \in HandType /\ desk \in DeskType
  BY DEF HandsInv, HandTypes
<1>3. SteadyHand => HandInv
  BY DEF HandsInv
<1>4. CASE ButtonDown(b)
  <2> DEFINE press == MouseDownEvent(Here, b)
             d     == IF b = "right" /\ May("menuOnPress") THEN MouseUpEvent(press, Here, b) ELSE press
  <2>1. hand' = [hand EXCEPT !.buttons = @ \cup {b}] /\ hand.over /\ Acts(d)
    BY <1>4 DEF ButtonDown
  <2>2. hand' \in HandType /\ hand'.at = hand.at /\ hand'.over /\ hand'.buttons = hand.buttons \cup {b}
    BY <1>2, <2>1 DEF HandType
  <2>3. /\ press \in DeskType /\ MouseUpEvent(press, Here, b) \in DeskType
        /\ press.at = Aim /\ press.buttons = desk.buttons \cup {b} /\ press.pressed = press.aimed
        /\ press.turned = desk.turned /\ press.asked = desk.asked
        /\ MouseUpEvent(press, Here, b).pressed = press.pressed /\ MouseUpEvent(press, Here, b).aimed = press.aimed
        /\ MouseUpEvent(press, Here, b).turned = press.turned /\ MouseUpEvent(press, Here, b).asked = press.asked
    BY DownDesk DEF HandsInv
  <2>4. desk.turned = desk.asked
    BY DEF HandsInv, ActsAsMeant
  <2> HIDE DEF press
  <2>5. d \in DeskType /\ d.pressed = d.aimed /\ d.turned = d.asked
    BY <2>3, <2>4
  <2>6. SteadyHand => remote.share /\ d.at = Aim /\ d.buttons = hand'.buttons
    BY <1>1, <1>3, <2>2, <2>3 DEF HandInv
  <2> HIDE DEF d
  <2> QED
    BY <1>1, <2>1, <2>2, <2>5, <2>6, HandsActs
<1>5. CASE ButtonUp(b)
  <2> DEFINE d == MouseUpEvent(desk, Here, b)
  <2>1. /\ hand' = [hand EXCEPT !.buttons = @ \ {b}] /\ b \in hand.buttons
        /\ IF hand.over THEN Acts(d) ELSE UNCHANGED <<moves, desk>>
    BY <1>5 DEF ButtonUp
  <2>2. hand' \in HandType /\ hand'.at = hand.at /\ hand'.over = hand.over /\ hand'.buttons = hand.buttons \ {b}
    BY <1>2, <2>1 DEF HandType
  <2>3. /\ d \in DeskType /\ d.at = Aim /\ d.buttons = desk.buttons \ {b}
        /\ d.pressed = desk.pressed /\ d.aimed = desk.aimed /\ d.turned = desk.turned /\ d.asked = desk.asked
    BY UpDesk DEF HandsInv
  <2> HIDE DEF d
  <2>4. d.pressed = d.aimed /\ d.turned = d.asked
    BY <2>3 DEF HandsInv, ActsAsMeant
  <2>5. SteadyHand => /\ remote.share /\ d.at = Aim /\ d.buttons = hand'.buttons
                      /\ hand.over /\ hand'.over
    BY <1>1, <1>3, <2>1, <2>2, <2>3 DEF HandInv
  <2>6. CASE hand.over
    BY <1>1, <2>1, <2>2, <2>3, <2>4, <2>5, <2>6, HandsActs
  <2>7. CASE ~hand.over
    BY <2>5, <2>7, <1>1, <2>1, <2>2 DEF SameMay, May, HandsInv, HandTypes, ActsAsMeant
  <2> QED
    BY <2>6, <2>7
<1> QED
  BY <1>4, <1>5

LEMMA HandsWheel ==
  ASSUME HandsInv, ActiveInv, SameMay, NEW p \in {0, 1, 400}, NEW negative \in BOOLEAN, Wheel(p, negative)
  PROVE  HandsInv'
<1> DEFINE step == WheelStep(p)
           t    == Signed(step, negative)
           d    == [desk EXCEPT !.at = Here, !.turned = Turned(Rotation(step, negative)), !.asked = t]
           e    == [desk EXCEPT !.at = Here, !.turned = t, !.asked = t]
<1>1. /\ UNCHANGED <<link, kbd, remote, layout, hand>>
      /\ remote.share \/ May("typesOver")
      /\ hand.over
      /\ IF step = 0 THEN UNCHANGED <<moves, desk>> ELSE Acts(d)
  BY DEF Wheel, Uses, kbdVars, WheelStep, Signed
<1>2. step # 0 => t \in -Notch..Notch /\ Turned(Rotation(step, negative)) = t
  BY WheelTurns
<1>3. hand \in HandType
  BY DEF HandsInv, HandTypes
<1> HIDE DEF step, t
<1>4. CASE step = 0
  BY <1>1, <1>4 DEF HandsInv, HandTypes, ActsAsMeant, SteadyHand, SameMay, May, MoveInv, HandInv, Up, Aim
<1>5. CASE step # 0
  <2>1. Acts(e)
    BY <1>1, <1>2, <1>5
  <2>2. /\ e \in DeskType /\ e.at = Aim /\ e.buttons = desk.buttons
        /\ e.pressed = desk.pressed /\ e.aimed = desk.aimed /\ e.turned = e.asked
    BY <1>2, <1>5, WheelDesk DEF HandsInv
  <2> HIDE DEF e
  <2>3. e.pressed = e.aimed
    BY <2>2 DEF HandsInv, ActsAsMeant
  <2>4. SteadyHand => /\ remote.share /\ e.buttons = hand.buttons
                      /\ hand.buttons # {} => hand.over
    BY <1>1, <2>2 DEF HandsInv, HandInv, SteadyHand
  <2> QED
    BY <1>1, <1>3, <2>1, <2>2, <2>3, <2>4, HandsActs
<1> QED
  BY <1>4, <1>5

\* The frame.
LEMMA HandsFlush ==
  ASSUME HandsInv, ActiveInv, SameMay, Flush
  PROVE  HandsInv'
<1> DEFINE sent == moves.pending # Unmeasured /\ kbd.connected
           rect == IF moves.rect = Unmeasured THEN layout.at ELSE moves.rect
           at   == CanvasCoords(moves.pending, rect)
<1>1. /\ moves.frame /\ layout.announced /\ UNCHANGED <<link, kbd, remote, hand, layout>>
      /\ moves' = [moves EXCEPT !.pending = Unmeasured, !.raf = FALSE, !.frame = FALSE,
                                !.rect = IF sent THEN rect ELSE @]
      /\ IF sent THEN Told(MouseMoveEvent(at)) ELSE UNCHANGED desk
  BY DEF Flush, kbdVars
<1>2. hand \in HandType /\ layout \in LayoutType /\ moves \in MovesType /\ desk \in DeskType
  BY DEF HandsInv, HandTypes
<1>3. moves.pending \in Int /\ rect \in 0..1
  BY <1>2 DEF LayoutType, MovesType, Places, Unmeasured
<1>4. at \in 0..1
  BY <1>3, CoordsType
<1>5. /\ moves' \in MovesType /\ moves'.pending = Unmeasured /\ ~moves'.raf /\ ~moves'.frame
      /\ moves'.rect = (IF sent THEN rect ELSE moves.rect) /\ moves'.listening = moves.listening
  BY <1>1, <1>2, <1>3 DEF MovesType
<1>6. LET d == MouseMoveEvent(at)
      IN  /\ d \in DeskType /\ d.at = at /\ d.buttons = desk.buttons
          /\ d.pressed = desk.pressed /\ d.aimed = desk.aimed /\ d.turned = desk.turned /\ d.asked = desk.asked
  BY <1>4, MoveDesk DEF HandsInv
<1>7. /\ desk' \in DeskType /\ desk'.buttons = desk.buttons
      /\ desk'.pressed = desk.pressed /\ desk'.aimed = desk.aimed
      /\ desk'.turned = desk.turned /\ desk'.asked = desk.asked
      /\ sent /\ remote.share => desk'.at = at
      /\ ~sent => desk' = desk
  BY <1>1, <1>2, <1>6, ToldDesk
<1>8. HandTypes' /\ ActsAsMeant'
  BY <1>1, <1>2, <1>5, <1>7 DEF HandsInv, HandTypes, ActsAsMeant
<1>9. ASSUME SteadyHand' PROVE MoveInv' /\ HandInv'
  <2>1. SteadyHand
    BY <1>9 DEF SteadyHand, SameMay, May
  <2>2. MoveInv /\ HandInv
    BY <2>1 DEF HandsInv
  <2>3. sent => remote.share /\ rect = layout.at /\ moves.pending = hand.at
    BY <1>1, <1>3, <2>2 DEF MoveInv, ActiveInv
  <2>4. sent => at = Aim
    BY <2>3 DEF Aim
  <2> HIDE DEF rect, at
  <2>5. MoveInv'
    BY <1>1, <1>5, <2>2, <2>3 DEF MoveInv, Up
  <2>6. ~sent => ~desk.seen /\ desk' = desk
    BY <1>1, <1>7, <2>2 DEF HandInv, MoveInv
  <2>7. Aim' = Aim
    BY <1>1 DEF Aim
  <2>8. HandInv'
    BY <1>1, <1>7, <2>2, <2>3, <2>4, <2>6, <2>7 DEF HandInv
  <2> QED
    BY <2>5, <2>8
<1> QED
  BY <1>8, <1>9 DEF HandsInv

LEMMA HandsOthers ==
  ASSUME HandsInv, ActiveInv, SameMay, MouseLeaves \/ Relayout \/ Announce
  PROVE  HandsInv'
<1>0. hand \in HandType /\ layout \in LayoutType /\ moves \in MovesType /\ desk \in DeskType
  BY DEF HandsInv, HandTypes
<1>1. SteadyHand' => SteadyHand /\ MoveInv /\ HandInv
  BY DEF HandsInv, SteadyHand, SameMay, May
<1>2. CASE MouseLeaves
  BY <1>2, <1>0, <1>1 DEF MouseLeaves, Uses, kbdVars, HandType, HandsInv, HandTypes, ActsAsMeant,
     SteadyHand, MoveInv, HandInv, Up
<1>3. CASE Relayout
  <2>1. /\ layout' = [at |-> 1 - layout.at, announced |-> FALSE]
        /\ desk' = [desk EXCEPT !.seen = @ /\ moves.pending # Unmeasured]
        /\ kbd.connected \/ ~Up \/ May("resizesJoining")
        /\ UNCHANGED <<link, kbd, remote, hand, moves>>
    BY <1>3 DEF Relayout, kbdVars
  <2>2. layout' \in LayoutType /\ ~layout'.announced
    BY <1>0, <2>1 DEF LayoutType
  <2>3. /\ desk' \in DeskType /\ desk'.buttons = desk.buttons
        /\ desk'.pressed = desk.pressed /\ desk'.aimed = desk.aimed
        /\ desk'.turned = desk.turned /\ desk'.asked = desk.asked
        /\ desk'.seen => desk.seen /\ moves.pending # Unmeasured
    BY <1>0, <2>1 DEF DeskType
  <2>4. HandTypes' /\ ActsAsMeant'
    BY <2>1, <2>2, <2>3 DEF HandsInv, HandTypes, ActsAsMeant
  <2>5. ASSUME SteadyHand' PROVE MoveInv' /\ HandInv'
    BY <1>1, <2>1, <2>5, <2>2, <2>3 DEF SteadyHand, ActiveInv, MoveInv, Up, HandInv
  <2> QED
    BY <2>4, <2>5 DEF HandsInv
<1>4. CASE Announce
  BY <1>4, <1>0, <1>1 DEF Announce, kbdVars, LayoutType, MovesType, HandsInv, HandTypes,
     ActsAsMeant, Aim, MoveInv, Up, HandInv
<1> QED
  BY <1>2, <1>3, <1>4

\* Steps in which neither the mouse nor the session changes.
LEMMA HandsSame ==
  ASSUME HandsInv, SameMay, UNCHANGED <<link, hand, layout, moves, desk>>,
         kbd'.connected = kbd.connected, remote'.share = remote.share
  PROVE  HandsInv'
BY DEF HandsInv, HandTypes, ActsAsMeant, SteadyHand, SameMay, May, MoveInv, HandInv, Up, Aim

\* A session that becomes active takes input.
LEMMA Activated ==
  ASSUME kbd \in KbdType, remote \in HostKeys, OnActive
  PROVE  /\ kbd'.connected /\ remote'.share /\ Up /\ UNCHANGED link
         /\ kbd.connected => kbd' = kbd /\ remote' = [remote EXCEPT !.share = TRUE]
<1> DEFINE k == [kbd EXCEPT !.connected = TRUE, !.synced = Unknown]
           r == [remote EXCEPT !.share = TRUE]
<1>1. k \in KbdType /\ r \in HostKeys /\ k.connected /\ r.share /\ k.synced = Unknown
  BY DEF KbdType, HostKeys
<1>2. SyncToggles(k, r, 0).kbd.connected /\ SyncToggles(k, r, 0).remote.share
  <2>1. [k EXCEPT !.synced = 0].connected
    BY <1>1 DEF KbdType
  <2>2. Synced(r, 0).share /\ Synced(r, 0) \in HostKeys
    <3>1. 0 \in 0..1
      OBVIOUS
    <3> QED
      BY <1>1, <3>1 DEF Synced, HostKeys
  <2>3. Pressed(Synced(r, 0), k.held).share
    BY <2>2 DEF Pressed, HostKeys
  <2> QED
    BY <1>1, <2>1, <2>3 DEF SyncToggles, Unknown
<1> QED
  BY <1>1, <1>2 DEF OnActive

\* The session ends with no button held.
LEMMA HandsEnd ==
  ASSUME HandsInv, KeyTypes, SameMay, Ends, NEW torn \in BOOLEAN, PointerDown(torn), KeyboardDown(torn),
         link' \in {"down", "left"}
  PROVE  HandsInv'
<1>0. hand \in HandType /\ layout \in LayoutType /\ moves \in MovesType /\ desk \in DeskType /\ kbd \in KbdType
  BY DEF HandsInv, HandTypes, KeyTypes
<1>1. desk' = NewDesk /\ UNCHANGED <<hand, layout>>
  BY DEF PointerDown
<1>2. desk' \in DeskType /\ desk'.buttons = {} /\ ~desk'.seen /\ desk'.pressed = desk'.aimed /\ desk'.turned = desk'.asked
  BY <1>1, PlacesInt DEF NewDesk, DeskType
<1>3. /\ moves' \in MovesType
      /\ \/ /\ moves'.pending = Unmeasured /\ moves'.raf = moves'.frame /\ ~moves'.frame
            /\ moves'.rect = moves.rect /\ ~moves'.listening
         \/ moves' = moves
  BY <1>0 DEF PointerDown, MovesType
<1>4. ~kbd'.connected /\ ~Up'
  BY <1>0 DEF KeyboardDown, KbdType, Up
<1>5. ASSUME SteadyHand' PROVE MoveInv' /\ HandInv'
  BY <1>5, <1>1, <1>3, <1>4, <1>2 DEF HandsInv, SteadyHand, SameMay, May, Ends, MoveInv, HandInv
<1> QED
  BY <1>0, <1>1, <1>2, <1>3, <1>5 DEF HandsInv, HandTypes, ActsAsMeant

LEMMA HandsBegin ==
  ASSUME HandsInv, ActiveInv, KeyTypes, SameMay, StartProtocol \/ Activate \/ Reactivate
  PROVE  HandsInv'
<1>0. /\ hand \in HandType /\ layout \in LayoutType /\ moves \in MovesType /\ desk \in DeskType
      /\ kbd \in KbdType /\ remote \in HostKeys
  BY DEF HandsInv, HandTypes, KeyTypes
<1>1. SteadyHand' => SteadyHand /\ MoveInv /\ HandInv
  BY DEF HandsInv, SteadyHand, SameMay, May
<1>2. CASE StartProtocol
  BY <1>2, <1>0, <1>1 DEF StartProtocol, PointerUp, kbdVars, MovesType, HandsInv, HandTypes,
     ActsAsMeant, MoveInv, HandInv, Up, Aim
<1>3. CASE Activate
  BY <1>3, <1>0, Activated, <1>1 DEF Activate, PointerActive, OnActive, MovesType, HandsInv,
     HandTypes, ActsAsMeant, MoveInv, HandInv, Up, Aim
<1>4. CASE Reactivate
  BY <1>4, <1>0, <1>1 DEF Reactivate, BeginReactivation, ptrVars, HandsInv, HandTypes, ActsAsMeant,
     SteadyHand, MoveInv, HandInv, Up, Aim
<1> QED
  BY <1>2, <1>3, <1>4

LEMMA HandsInit == Init => HandsInv
<1> SUFFICES ASSUME Init PROVE HandsInv
  OBVIOUS
<1>1. /\ hand = [at |-> 0, buttons |-> {}, over |-> TRUE]
      /\ layout = [at |-> 0, announced |-> TRUE]
      /\ moves = [pending |-> Unmeasured, raf |-> FALSE, frame |-> FALSE, rect |-> Unmeasured, listening |-> TRUE]
      /\ desk = NewDesk
  BY DEF Init, PointerInit
<1>2. kbd.connected /\ remote.share
  BY DEF Init, KeyInit
<1>3. HandTypes
  BY <1>1, PlacesInt DEF HandType, LayoutType, MovesType, Places, NewDesk, DeskType, HandTypes
<1>4. ActsAsMeant /\ MoveInv /\ HandInv
  BY <1>1, <1>2 DEF ActsAsMeant, MoveInv, HandInv, NewDesk, Up
<1> QED
  BY <1>3, <1>4 DEF HandsInv

-----------------------------------------------------------------------------
(* The pointer.                                                            *)

\* The parts of updates: how one is formed, and what follows what.
Formed(f) == (f.part = "single" <=> f.parts = 1) /\ (f.part = "next" => f.parts = 3)
Closes(f) == f.part \in {"single", "last"}
Opens(f)  == f.part \in {"single", "first"}
Continues(f, g) ==
  /\ Closes(f) <=> Opens(g)
  /\ ~Closes(f) => g.of = f.of /\ g.parts = f.parts
  /\ f.part = "first" => (g.part = "last" <=> f.parts = 2)
  /\ f.part = "next" => g.part = "last"

\* The parts before the next one of the same update have come.
Begun(frag, f) ==
  /\ Len(frag) = IF f.part = "next" THEN 1 ELSE f.parts - 1
  /\ \A i \in 1..Len(frag) : frag[i].of = f.of /\ frag[i].parts = f.parts

PartInv ==
  /\ \A i \in 1..Len(updates) : Formed(updates[i])
  /\ \A i \in 1..Len(updates) - 1 : Continues(updates[i], updates[i + 1])
  /\ updates # <<>> => Closes(updates[Len(updates)])
  /\ updates # <<>> /\ ~Opens(updates[1]) => Begun(cursor.frag, updates[1])
  /\ ~cursor.mixed

\* Pointers the client follows: bitmaps that can be drawn, and those with opaque pixels again.
PlainPointers == ~(May("hides") \/ May("recalls") \/ May("breaks"))
Solid         == Bitmaps \ {"clear", "broken"}
Paints(u)     == u.kind \in {"new", "color"}
Plain(u)      == u.kind \in {"new", "color", "cached"} /\ (Paints(u) => u.look \in Bitmaps \ {"broken"})

\* An update that fills a slot.
Fills(f, s) == Closes(f) /\ Paints(f.of) /\ f.of.slot = s

\* A slot is what the host takes it for, or the last update that fills it makes it that.
Filled(s) ==
  \/ cursor.cache[s] = pointer.cache[s] /\ \A i \in 1..Len(updates) : ~Fills(updates[i], s)
  \/ \E i \in 1..Len(updates) :
       /\ Fills(updates[i], s) /\ updates[i].of.look = pointer.cache[s]
       /\ \A j \in (i + 1)..Len(updates) : ~Fills(updates[j], s)

\* The last update is the pointer the host shows.
LookInv ==
  /\ \A i \in 1..Len(updates) : Plain(updates[i].of)
  /\ \A s \in Slots : pointer.cache[s] \in Solid => Filled(s)
  /\ updates = <<>> /\ pointer.told => Shown = pointer.now
  /\ updates # <<>> =>
       LET u == updates[Len(updates)].of IN
       IF u.kind = "cached" THEN pointer.now = pointer.cache[u.slot] /\ pointer.now \in Solid
       ELSE pointer.now = u.look

CursorInv ==
  /\ LookTypes /\ PartInv
  /\ ~moves.listening => Shown = "default"
  /\ PlainPointers => LookInv

LEMMA PartsAre ==
  ASSUME NEW u \in PointerUpdates, NEW n \in 1..3
  PROVE  LET p == Parts(u, n)
         IN  /\ p \in Seq(Fragments) /\ Len(p) = n
             /\ \A i \in 1..n : /\ p[i].of = u /\ p[i].parts = n /\ Formed(p[i])
                                /\ Closes(p[i]) <=> i = n
                                /\ Opens(p[i]) <=> i = 1
             /\ \A i \in 1..n - 1 : Continues(p[i], p[i + 1])
<1> DEFINE part(i) == IF n = 1 THEN "single" ELSE IF i = 1 THEN "first" ELSE IF i = n THEN "last" ELSE "next"
           one(i)  == [part |-> part(i), of |-> u, parts |-> n]
           p       == [i \in 1..n |-> one(i)]
<1>1. Parts(u, n) = p
  BY DEF Parts
<1>2. \A i \in 1..n : one(i) \in Fragments
  BY DEF Fragments
<1>3. p \in Seq(Fragments)
  BY <1>2, IsASeq
<1>4. Len(p) = n /\ \A i \in 1..n : p[i] = one(i)
  BY <1>3, LenProperties
<1>5. \A i \in 1..n : one(i).part = part(i) /\ one(i).of = u /\ one(i).parts = n
  OBVIOUS
<1> HIDE DEF one, p
<1>6. ASSUME NEW i \in 1..n
      PROVE  /\ p[i].of = u /\ p[i].parts = n /\ Formed(p[i])
             /\ Closes(p[i]) <=> i = n
             /\ Opens(p[i]) <=> i = 1
  BY <1>4, <1>5 DEF Formed, Closes, Opens
<1>7. ASSUME NEW i \in 1..n - 1 PROVE Continues(p[i], p[i + 1])
  BY <1>4, <1>5, <1>6 DEF Continues
<1> QED
  BY <1>1, <1>3, <1>4, <1>6, <1>7

\* handlePointer and _cachePointer.
LEMMA HandledPointer ==
  ASSUME NEW u \in PointerUpdates, cursor \in CursorType
  PROVE  LET c == HandlePointer(u)
         IN  /\ c \in CursorType /\ c.frag = cursor.frag /\ c.mixed = cursor.mixed
             /\ Paints(u) /\ u.look \in Solid =>
                  c.cache = [cursor.cache EXCEPT ![u.slot] = u.look] /\ c.class = u.slot
             /\ Paints(u) /\ u.look = "clear" => c.cache = cursor.cache /\ c.class = "null"
             /\ u.kind = "cached" =>
                  /\ c.cache = cursor.cache
                  /\ cursor.cache[u.slot] # None => c.class = u.slot
<1>1. u.kind \in {"new", "color", "cached", "null", "default"} /\ u.slot \in Slots /\ u.look \in Looks
  BY DEF PointerUpdates
<1>2. [cursor.cache EXCEPT ![u.slot] = u.look] \in CacheType
  BY <1>1 DEF CursorType, CacheType
<1> DEFINE filled == [cursor EXCEPT !.cache[u.slot] = u.look, !.class = u.slot]
           hidden == [cursor EXCEPT !.class = "null"]
           shown  == [cursor EXCEPT !.class = u.slot]
<1>3. /\ filled \in CursorType /\ filled.frag = cursor.frag /\ filled.mixed = cursor.mixed
      /\ filled.cache = [cursor.cache EXCEPT ![u.slot] = u.look] /\ filled.class = u.slot
  BY <1>1, <1>2 DEF CursorType
<1>4. /\ hidden \in CursorType /\ hidden.frag = cursor.frag /\ hidden.mixed = cursor.mixed
      /\ hidden.cache = cursor.cache /\ hidden.class = "null"
  BY DEF CursorType
<1>5. /\ shown \in CursorType /\ shown.frag = cursor.frag /\ shown.mixed = cursor.mixed
      /\ shown.cache = cursor.cache /\ shown.class = u.slot
  BY <1>1 DEF CursorType
<1> HIDE DEF filled, hidden, shown
<1>6. Paints(u) => HandlePointer(u) = IF u.look = "broken" THEN cursor ELSE IF u.look = "clear" THEN hidden ELSE filled
  BY DEF Paints, HandlePointer, CachePointer, Drawn, filled, hidden
<1>7. ~Paints(u) => HandlePointer(u) = IF u.kind = "cached" /\ cursor.cache[u.slot] # None THEN shown ELSE cursor
  BY DEF Paints, HandlePointer, shown
<1>8. Paints(u) => u.kind # "cached"
  BY DEF Paints
<1> QED
  BY <1>3, <1>4, <1>5, <1>6, <1>7, <1>8 DEF Solid

\* onUpdate and _dispatchUpdate: parts come to what their update does alone.
LEMMA FragmentTaken ==
  ASSUME cursor \in CursorType, NEW f \in Fragments, Formed(f), ~cursor.mixed,
         ~Opens(f) => Begun(cursor.frag, f)
  PROVE  LET c == OnFragment(f)
             h == HandlePointer(f.of)
         IN  /\ c \in CursorType /\ ~c.mixed
             /\ Closes(f) => c.cache = h.cache /\ c.class = h.class
             /\ ~Closes(f) => c.cache = cursor.cache /\ c.class = cursor.class
             /\ \A g \in Fragments : Continues(f, g) /\ ~Opens(g) => Begun(c.frag, g)
<1> DEFINE c == OnFragment(f)
           h == HandlePointer(f.of)
<1>1. f.part \in {"single", "first", "next", "last"} /\ f.of \in PointerUpdates /\ f.parts \in 1..3
  BY DEF Fragments
<1>2. h \in CursorType /\ h.frag = cursor.frag /\ h.mixed = cursor.mixed
  BY <1>1, HandledPointer
<1>3. cursor.frag \in Seq(Fragments)
  BY DEF CursorType
<1>4. f.part # "single" => f.parts \in 2..3
  BY <1>1 DEF Formed
<1> HIDE DEF h
<1>5. CASE f.part = "single"
  <2>1. c = h /\ Closes(f)
    BY <1>5 DEF OnFragment, h, Closes
  <2>2. \A g \in Fragments : Continues(f, g) => Opens(g)
    BY <2>1 DEF Continues
  <2> HIDE DEF c
  <2> QED
    BY <1>2, <2>1, <2>2 DEF c, h
<1>6. CASE f.part = "first"
  <2>1. c = [cursor EXCEPT !.frag = <<f>>] /\ ~Closes(f)
    BY <1>6 DEF OnFragment, Closes
  <2>2. <<f>> \in Seq(Fragments) /\ Len(<<f>>) = 1 /\ <<f>>[1] = f
    OBVIOUS
  <2> HIDE DEF c
  <2>3. c \in CursorType /\ c.frag = <<f>> /\ c.mixed = cursor.mixed /\ c.cache = cursor.cache /\ c.class = cursor.class
    BY <2>1, <2>2 DEF CursorType
  <2>4. ASSUME NEW g \in Fragments, Continues(f, g), ~Opens(g) PROVE Begun(c.frag, g)
    BY <1>6, <2>1, <2>4, <2>2, <2>3 DEF Continues, Fragments, Opens, Begun
  <2> QED
    BY <2>1, <2>3, <2>4 DEF c
<1>7. CASE f.part = "next"
  <2>1. Begun(cursor.frag, f) /\ ~Closes(f)
    BY <1>7 DEF Opens, Closes
  <2>2. Len(cursor.frag) = 1 /\ cursor.frag[1].of = f.of /\ cursor.frag[1].parts = f.parts
    BY <1>7, <2>1 DEF Begun
  <2>3. cursor.frag # <<>>
    BY <2>2
  <2>4. c = [cursor EXCEPT !.frag = Append(@, f)]
    BY <1>7, <2>3 DEF OnFragment
  <2> DEFINE a == Append(cursor.frag, f)
  <2>5. a \in Seq(Fragments) /\ Len(a) = 2 /\ a[1] = cursor.frag[1] /\ a[2] = f
    <3>1. 1 \in 1..Len(cursor.frag) /\ Len(cursor.frag) + 1 = 2
      BY <2>2
    <3> QED
      BY <1>3, <3>1, Pushed
  <2> HIDE DEF c, a
  <2>6. c \in CursorType /\ c.frag = a /\ c.mixed = cursor.mixed /\ c.cache = cursor.cache /\ c.class = cursor.class
    BY <2>4, <2>5 DEF CursorType, a
  <2>7. ASSUME NEW g \in Fragments, Continues(f, g), ~Opens(g) PROVE Begun(c.frag, g)
    <3>1. g.of = f.of /\ g.parts = f.parts /\ g.part = "last" /\ f.parts = 3
      BY <1>7, <2>1, <2>7 DEF Continues, Formed
    <3>2. \A i \in 1..2 : a[i].of = f.of /\ a[i].parts = f.parts
      BY <2>2, <2>5
    <3>3. Len(a) = g.parts - 1 /\ g.part # "next"
      BY <2>5, <3>1
    <3>4. \A i \in 1..Len(a) : a[i].of = g.of /\ a[i].parts = g.parts
      BY <2>5, <3>1, <3>2
    <3> QED
      BY <2>6, <3>3, <3>4 DEF Begun
  <2> QED
    BY <2>1, <2>6, <2>7 DEF c
<1>8. CASE f.part = "last"
  <2>1. Begun(cursor.frag, f) /\ Closes(f)
    BY <1>8 DEF Opens, Closes
  <2>2. /\ Len(cursor.frag) = f.parts - 1
        /\ \A i \in 1..Len(cursor.frag) : cursor.frag[i].of = f.of /\ cursor.frag[i].parts = f.parts
    BY <1>8, <2>1 DEF Begun
  <2>3. cursor.frag # <<>> /\ 1 \in 1..Len(cursor.frag)
    BY <1>4, <1>8, <2>2
  <2> DEFINE a == Append(cursor.frag, f)
  <2>4. /\ a \in Seq(Fragments) /\ Len(a) = f.parts
        /\ \A i \in 1..Len(cursor.frag) : a[i] = cursor.frag[i]
        /\ a[f.parts] = f
    BY <1>1, <2>2, <1>3, Pushed
  <2>5. DOMAIN a = 1..f.parts
    BY <2>4, LenProperties
  <2>6. c = DispatchUpdate(a)
    BY <1>8, <2>3 DEF OnFragment
  <2> HIDE DEF a
  <2>7. \A i \in 1..f.parts : a[i].of = f.of
    BY <1>1, <2>2, <2>4
  <2>8. Whole(a) /\ a[1].of = f.of
    BY <2>2, <2>3, <2>4, <2>5, <2>7 DEF Whole
  <2>9. c = [h EXCEPT !.frag = <<>>]
    BY <2>6, <2>8 DEF DispatchUpdate, h
  <2> HIDE DEF c
  <2>10. c \in CursorType /\ c.mixed = h.mixed /\ c.cache = h.cache /\ c.class = h.class
    <3>1. <<>> \in Seq(Fragments)
      OBVIOUS
    <3> QED
      BY <1>2, <2>9, <3>1 DEF CursorType
  <2>11. \A g \in Fragments : Continues(f, g) => Opens(g)
    BY <2>1 DEF Continues
  <2> QED
    BY <1>2, <2>1, <2>10, <2>11 DEF c, h
<1> QED
  BY <1>1, <1>5, <1>6, <1>7, <1>8

\* What the page shows when an update has been handled.
LEMMA ShownSlot ==
  ASSUME NEW c \in CursorType, cursor' = c
  PROVE  /\ \A s \in Slots : c.class = s => Shown' = c.cache[s]
         /\ c.class = "null" => Shown' = "clear"
         /\ c.class = None => Shown' = "default"
BY DEF Slots, None, Shown

LEMMA CursorUpdate ==
  ASSUME CursorInv, ActiveInv, SameMay, OnUpdate
  PROVE  CursorInv'
<1> DEFINE f == Head(updates)
           h == HandlePointer(f.of)
<1>1. /\ updates # <<>> /\ updates' = Tail(updates) /\ cursor' = OnFragment(f)
      /\ UNCHANGED <<moves, pointer>> /\ moves.listening
  BY DEF OnUpdate, ActiveInv
<1>2. updates \in Seq(Fragments) /\ cursor \in CursorType /\ pointer \in PointerType
  BY DEF CursorInv, LookTypes
<1>3. /\ Len(updates) \in Nat \ {0} /\ f = updates[1] /\ f \in Fragments
      /\ updates' \in Seq(Fragments) /\ Len(updates') = Len(updates) - 1
      /\ \A i \in 1..Len(updates') : i + 1 \in 1..Len(updates) /\ updates'[i] = updates[i + 1]
  BY <1>1, <1>2, Popped
<1>4. f.of \in PointerUpdates
  BY <1>3 DEF Fragments
<1> HIDE DEF f
<1>5. PartInv
  BY DEF CursorInv
<1>6. Formed(f) /\ (~Opens(f) => Begun(cursor.frag, f)) /\ ~cursor.mixed
  BY <1>1, <1>3, <1>5 DEF PartInv
<1>7. /\ cursor' \in CursorType /\ ~cursor'.mixed
      /\ Closes(f) => cursor'.cache = h.cache /\ cursor'.class = h.class
      /\ ~Closes(f) => cursor'.cache = cursor.cache /\ cursor'.class = cursor.class
      /\ \A g \in Fragments : Continues(f, g) /\ ~Opens(g) => Begun(cursor'.frag, g)
  BY <1>1, <1>2, <1>3, <1>6, FragmentTaken
<1>8. PartInv'
  <2>1. \A i \in 1..Len(updates') : Formed(updates'[i])
    BY <1>3, <1>5 DEF PartInv
  <2>2. ASSUME NEW i \in 1..Len(updates') - 1 PROVE Continues(updates'[i], updates'[i + 1])
    <3>1. i \in 1..Len(updates') /\ i + 1 \in 1..Len(updates') /\ i + 1 \in 1..Len(updates) - 1
      BY <1>3
    <3>2. updates'[i] = updates[i + 1] /\ updates'[i + 1] = updates[i + 1 + 1]
      BY <1>3, <3>1
    <3> QED
      BY <1>5, <3>1, <3>2 DEF PartInv
  <2>3. ASSUME updates' # <<>> PROVE Closes(updates'[Len(updates')]) /\ (~Opens(updates'[1]) => Begun(cursor'.frag, updates'[1]))
    <3>1. Len(updates') # 0
      BY <1>3, <2>3, EmptySeq
    <3>2. /\ 1 \in 1..Len(updates') /\ Len(updates') \in 1..Len(updates') /\ 1 \in 1..Len(updates) - 1
          /\ Len(updates') + 1 = Len(updates)
      BY <1>3, <3>1
    <3>3. updates'[1] = updates[1 + 1] /\ updates'[Len(updates')] = updates[Len(updates)] /\ updates'[1] \in Fragments
      BY <1>3, <3>2, ElementOfSeq
    <3>4. Continues(f, updates'[1])
      BY <1>3, <1>5, <3>2, <3>3 DEF PartInv
    <3> QED
      BY <1>1, <1>5, <1>7, <3>3, <3>4 DEF PartInv
  <2> QED
    BY <1>7, <2>1, <2>2, <2>3 DEF PartInv
<1>9. ASSUME PlainPointers' PROVE LookInv'
  <2>1. LookInv
    BY <1>9 DEF CursorInv, PlainPointers, SameMay, May
  <2>2. Plain(f.of)
    BY <1>3, <2>1 DEF LookInv
  <2>3. /\ h \in CursorType
        /\ Paints(f.of) /\ f.of.look \in Solid =>
             h.cache = [cursor.cache EXCEPT ![f.of.slot] = f.of.look] /\ h.class = f.of.slot
        /\ Paints(f.of) /\ f.of.look = "clear" => h.cache = cursor.cache /\ h.class = "null"
        /\ f.of.kind = "cached" =>
             /\ h.cache = cursor.cache
             /\ cursor.cache[f.of.slot] # None => h.class = f.of.slot
    BY <1>2, <1>4, HandledPointer
  <2> HIDE DEF h
  <2>4. f.of.kind = "cached" \/ (Paints(f.of) /\ (f.of.look \in Solid \/ f.of.look = "clear"))
    BY <2>2 DEF Plain, Paints, Solid
  <2>5. f.of.slot \in Slots /\ DOMAIN cursor.cache = Slots
    BY <1>2, <1>4 DEF PointerUpdates, CursorType, CacheType
  <2>6. \A s \in Slots : ~Fills(f, s) => cursor'.cache[s] = cursor.cache[s]
    BY <1>7, <2>3, <2>4, <2>5 DEF Fills
  <2>7. \A s \in Slots : Fills(f, s) /\ f.of.look \in Solid => cursor'.cache[s] = f.of.look
    BY <1>7, <2>3, <2>5 DEF Fills
  <2>8. ASSUME NEW s \in Slots, pointer.cache[s] \in Solid PROVE Filled(s)'
    <3>1. Filled(s)
      BY <2>1, <2>8 DEF LookInv
    <3>2. CASE cursor.cache[s] = pointer.cache[s] /\ \A i \in 1..Len(updates) : ~Fills(updates[i], s)
      BY <1>3, <3>2, <1>1, <2>6 DEF Filled
    <3>3. ASSUME NEW i \in 1..Len(updates), Fills(updates[i], s), updates[i].of.look = pointer.cache[s],
                 \A j \in (i + 1)..Len(updates) : ~Fills(updates[j], s)
          PROVE  Filled(s)'
      <4>1. CASE i = 1
        BY <1>3, <4>1, <3>3, <2>7, <2>8, <1>1 DEF Filled
      <4>2. CASE i # 1
        <5>1. i - 1 \in 1..Len(updates') /\ updates'[i - 1] = updates[i]
          BY <1>3, <4>2
        <5>2. ASSUME NEW j \in ((i - 1) + 1)..Len(updates') PROVE ~Fills(updates'[j], s)
          BY <1>3, <3>3
        <5> QED
          BY <1>1, <3>3, <5>1, <5>2 DEF Filled
      <4> QED
        BY <4>1, <4>2
    <3> QED
      BY <3>1, <3>2, <3>3 DEF Filled
  <2>9. ASSUME updates' = <<>>, pointer.told PROVE Shown' = pointer.now
    <3>0. Len(updates') = 0
      BY <2>9
    <3>00. Len(updates) = 1
      BY <1>3, <3>0
    <3>1. Len(updates) = 1 /\ f = updates[Len(updates)]
      BY <1>3, <3>00
    <3>2. Closes(f)
      BY <1>1, <1>5, <3>1 DEF PartInv
    <3>3. IF f.of.kind = "cached" THEN pointer.now = pointer.cache[f.of.slot] /\ pointer.now \in Solid
          ELSE pointer.now = f.of.look
      BY <1>1, <2>1, <3>1 DEF LookInv
    <3>4. CASE f.of.kind = "cached"
      <4>1. Filled(f.of.slot) /\ ~Paints(f.of)
        BY <2>1, <2>5, <3>3, <3>4 DEF LookInv, Paints
      <4>2. \A i \in 1..Len(updates) : ~Fills(updates[i], f.of.slot)
        BY <1>3, <3>1, <4>1 DEF Fills
      <4>3. cursor.cache[f.of.slot] = pointer.now
        BY <3>3, <3>4, <4>1, <4>2 DEF Filled
      <4>4. pointer.now # None
        BY <3>3, <3>4 DEF Solid, Bitmaps, None
      <4>5. cursor'.class = f.of.slot /\ cursor'.cache[f.of.slot] = pointer.now
        BY <1>7, <2>3, <3>2, <3>4, <4>3, <4>4
      <4> QED
        BY <1>7, <2>5, <4>5, ShownSlot
    <3>5. CASE Paints(f.of) /\ f.of.look \in Solid
      BY <3>5, <1>7, <2>3, <2>5, <3>2, <3>3, ShownSlot DEF Paints
    <3>6. CASE Paints(f.of) /\ f.of.look = "clear"
      BY <3>6, <1>7, <2>3, <3>2, <3>3, ShownSlot DEF Paints
    <3> QED
      BY <2>4, <3>4, <3>5, <3>6
  <2>10. ASSUME updates' # <<>>
         PROVE  LET u == updates'[Len(updates')].of IN
                IF u.kind = "cached" THEN pointer.now = pointer.cache[u.slot] /\ pointer.now \in Solid
                ELSE pointer.now = u.look
    BY <1>3, <2>10, EmptySeq, <1>1, <2>1 DEF LookInv
  <2>11. \A i \in 1..Len(updates') : Plain(updates'[i].of)
    BY <1>3, <2>1 DEF LookInv
  <2> QED
    BY <1>1, <2>8, <2>9, <2>10, <2>11 DEF LookInv
<1> QED
  BY <1>1, <1>2, <1>3, <1>7, <1>8, <1>9 DEF CursorInv, LookTypes

\* A pointer goes to the client in parts behind those on their way.
LEMMA CursorPoints ==
  ASSUME CursorInv, SameMay, NEW u \in PointerUpdates, NEW look \in Looks, Points(u, look),
         PlainPointers => \/ Paints(u) /\ look = u.look /\ look \in Bitmaps \ {"broken"}
                          \/ u.kind = "cached" /\ look = pointer.cache[u.slot] /\ look \in Solid
  PROVE  CursorInv'
<1>1. PICK n \in 1..3 : updates' = updates \o Parts(u, n)
  <2>1. PICK n \in IF May("splits") THEN 1..3 ELSE {1} : updates' = updates \o Parts(u, n)
    BY DEF Points
  <2>2. n \in 1..3
    BY <2>1
  <2> QED
    BY <2>1, <2>2
<1>2. /\ UNCHANGED <<moves, cursor>>
      /\ pointer' = [cache |-> IF Paints(u) THEN [pointer.cache EXCEPT ![u.slot] = look] ELSE pointer.cache,
                     now   |-> look, told |-> TRUE]
  BY DEF Points, Paints
<1>3. updates \in Seq(Fragments) /\ cursor \in CursorType /\ pointer \in PointerType /\ PartInv
  BY DEF CursorInv, LookTypes
<1>4. u.slot \in Slots /\ pointer.cache \in CacheType
  BY <1>3 DEF PointerUpdates, PointerType
<1> DEFINE p == Parts(u, n)
           m == Len(updates)
<1>5. /\ p \in Seq(Fragments) /\ Len(p) = n
      /\ \A i \in 1..n : /\ p[i].of = u /\ p[i].parts = n /\ Formed(p[i])
                         /\ Closes(p[i]) <=> i = n
                         /\ Opens(p[i]) <=> i = 1
      /\ \A i \in 1..n - 1 : Continues(p[i], p[i + 1])
  BY PartsAre
<1> HIDE DEF p
<1>6. /\ updates \o p \in Seq(Fragments) /\ Len(updates \o p) = m + n
      /\ \A i \in 1..(m + n) : (updates \o p)[i] = IF i <= m THEN updates[i] ELSE p[i - m]
  BY <1>3, <1>5, ConcatProperties
<1>7. updates' = updates \o p
  BY <1>1 DEF p
<1>8. /\ updates' \in Seq(Fragments) /\ m \in Nat /\ Len(updates') = m + n
      /\ \A i \in 1..m : updates'[i] = updates[i]
      /\ \A i \in (m + 1)..(m + n) : updates'[i] = p[i - m] /\ i - m \in 1..n
  BY <1>3, LenProperties, <1>6, <1>7
<1> HIDE DEF m
<1>9. \A i \in 1..Len(updates') : i \in 1..m \/ i \in (m + 1)..(m + n)
  BY <1>8
<1>10. m + n \in (m + 1)..(m + n) /\ m + n - m = n /\ 1..m \subseteq 1..(m + n) /\ (m + 1)..(m + n) \subseteq 1..(m + n)
  BY <1>8
<1>11. updates'[Len(updates')] = p[n]
  BY <1>8, <1>10
<1>12. m = 0 \/ m \in 1..m
  BY <1>8
<1>13. updates = <<>> <=> m = 0
  BY <1>3, EmptySeq DEF m
<1>14. PartInv'
  <2>1. \A i \in 1..Len(updates') : Formed(updates'[i])
    BY <1>3, <1>5, <1>8, <1>9 DEF PartInv, m
  <2>2. ASSUME NEW i \in 1..Len(updates') - 1 PROVE Continues(updates'[i], updates'[i + 1])
    <3>1. CASE i \in 1..m - 1
      BY <1>8, <3>1, <1>3 DEF PartInv, m
    <3>2. CASE i = m
      BY <1>8, <3>2, <1>3, <1>13, <1>5 DEF PartInv, m, Closes, Continues
    <3>3. CASE i > m
      BY <1>8, <3>3, <1>5
    <3>4. i \in 1..m - 1 \/ i = m \/ i > m
      BY <1>8
    <3> QED
      BY <3>1, <3>2, <3>3, <3>4
  <2>3. Closes(updates'[Len(updates')])
    BY <1>5, <1>11
  <2>4. ~Opens(updates'[1]) => Begun(cursor'.frag, updates'[1])
    <3>1. CASE m = 0
      BY <3>1, <1>8, <1>5
    <3>2. CASE m # 0
      BY <1>8, <3>2, <1>2, <1>3, <1>13 DEF PartInv
    <3> QED
      BY <3>1, <3>2
  <2> QED
    BY <1>2, <1>3, <2>1, <2>2, <2>3, <2>4 DEF PartInv
<1>15. /\ pointer' \in PointerType /\ pointer'.now = look /\ pointer'.told
       /\ Paints(u) => pointer'.cache = [pointer.cache EXCEPT ![u.slot] = look]
       /\ ~Paints(u) => pointer'.cache = pointer.cache
  BY <1>4, <1>2 DEF CacheType, PointerType
<1>16. ASSUME PlainPointers' PROVE LookInv'
  <2>1. PlainPointers
    BY <1>16 DEF PlainPointers, SameMay, May
  <2>2. LookInv
    BY <2>1 DEF CursorInv
  <2>3. \/ Paints(u) /\ look = u.look /\ look \in Bitmaps \ {"broken"}
        \/ u.kind = "cached" /\ look = pointer.cache[u.slot] /\ look \in Solid
    BY <2>1
  <2>4. Paints(u) => u.kind # "cached"
    BY DEF Paints
  <2>5. Plain(u)
    BY <2>3, <2>4 DEF Plain, Paints
  <2>6. \A i \in 1..Len(updates') : Plain(updates'[i].of)
    BY <2>2, <1>5, <1>8, <1>9, <2>5 DEF LookInv, m
  <2>7. ASSUME NEW s \in Slots, pointer'.cache[s] \in Solid PROVE Filled(s)'
    <3>1. CASE Paints(u) /\ s = u.slot
      BY <1>4, <1>15, <2>3, <2>4, <3>1, <1>5, <1>8, <1>10 DEF CacheType, Fills, Filled
    <3>2. CASE ~(Paints(u) /\ s = u.slot)
      <4>1. pointer'.cache[s] = pointer.cache[s]
        BY <1>4, <1>15, <3>2 DEF CacheType
      <4>2. \A i \in (m + 1)..(m + n) : ~Fills(updates'[i], s)
        BY <1>5, <1>8, <3>2 DEF Fills
      <4>3. Filled(s)
        BY <2>2, <2>7, <4>1 DEF LookInv
      <4>4. CASE cursor.cache[s] = pointer.cache[s] /\ \A i \in 1..m : ~Fills(updates[i], s)
        BY <1>8, <1>9, <4>2, <4>4, <1>2, <4>1 DEF Filled
      <4>5. ASSUME NEW i \in 1..m, Fills(updates[i], s), updates[i].of.look = pointer.cache[s],
                   \A j \in (i + 1)..m : ~Fills(updates[j], s)
            PROVE  Filled(s)'
        <5>1. i \in 1..Len(updates') /\ updates'[i] = updates[i]
          BY <1>8, <1>10
        <5>2. ASSUME NEW j \in (i + 1)..Len(updates') PROVE ~Fills(updates'[j], s)
          BY <1>8, <4>2, <4>5
        <5> QED
          BY <4>1, <4>5, <5>1, <5>2 DEF Filled
      <4> QED
        BY <4>3, <4>4, <4>5 DEF Filled, m
    <3> QED
      BY <3>1, <3>2
  <2>8. updates' # <<>>
    BY <1>8
  <2>9. LET w == updates'[Len(updates')].of IN
        IF w.kind = "cached" THEN pointer'.now = pointer'.cache[w.slot] /\ pointer'.now \in Solid
        ELSE pointer'.now = w.look
    BY <1>5, <1>11, <1>15, <2>3, <2>4
  <2> QED
    BY <2>6, <2>7, <2>8, <2>9 DEF LookInv
<1>17. ~moves'.listening => Shown' = "default"
  BY <1>2 DEF CursorInv, Shown
<1> QED
  BY <1>2, <1>3, <1>8, <1>14, <1>15, <1>16, <1>17 DEF CursorInv, LookTypes

\* What changes neither the page's pointer nor the host's.
LEMMA CursorSame ==
  ASSUME CursorInv, SameMay, UNCHANGED <<updates, cursor, pointer>>,
         moves'.listening = moves.listening \/ moves'.listening
  PROVE  CursorInv'
BY DEF CursorInv, LookTypes, PartInv, Shown, Filled, PlainPointers, SameMay, May, LookInv

LEMMA CursorEnd ==
  ASSUME CursorInv, SameMay, moves \in MovesType, NEW torn \in BOOLEAN, PointerDown(torn)
  PROVE  CursorInv'
<1>1. updates' = <<>> /\ pointer' = NewPointer
  BY DEF PointerDown
<1>2. cursor \in CursorType
  BY DEF CursorInv, LookTypes
<1>3. NewPointer \in PointerType /\ ~NewPointer.told /\ \A s \in Slots : NewPointer.cache[s] = None
  BY DEF NewPointer, NoPointers, PointerType, CacheType, Looks
<1>4. cursor' \in CursorType /\ cursor'.mixed = cursor.mixed
  <2>1. NoPointers \in CacheType
    BY DEF NoPointers, CacheType
  <2> QED
    BY <1>2, <2>1 DEF PointerDown, CursorType
<1>5. Len(updates') = 0
  BY <1>1
<1>6. LookTypes'
  BY <1>1, <1>3, <1>4 DEF LookTypes
<1>7. PartInv'
  BY <1>1, <1>4, <1>5 DEF CursorInv, PartInv
<1>8. LookInv'
  BY <1>1, <1>3, <1>5 DEF Solid, Bitmaps, None, LookInv
<1>9. ~moves'.listening => Shown' = "default"
  BY <1>2, <1>4, ShownSlot DEF PointerDown, CursorType, CursorInv, Shown
<1> QED
  BY <1>6, <1>7, <1>8, <1>9 DEF CursorInv

LEMMA CursorInit == Init => CursorInv
<1> SUFFICES ASSUME Init PROVE CursorInv
  OBVIOUS
<1>1. /\ updates = <<>> /\ pointer = NewPointer
      /\ cursor = [cache |-> NoPointers, class |-> None, frag |-> <<>>, mixed |-> FALSE]
      /\ moves.listening
  BY DEF Init, PointerInit
<1>2. NewPointer \in PointerType /\ ~NewPointer.told /\ \A s \in Slots : NewPointer.cache[s] = None
  BY DEF NewPointer, NoPointers, PointerType, CacheType, Looks
<1>3. cursor \in CursorType /\ ~cursor.mixed
  BY <1>1 DEF NoPointers, CacheType, CursorType
<1>4. Len(updates) = 0
  BY <1>1
<1>5. LookTypes /\ PartInv
  BY <1>1, <1>2, <1>3, <1>4 DEF LookTypes, PartInv
<1>6. LookInv
  BY <1>1, <1>2, <1>4 DEF Solid, Bitmaps, None, LookInv
<1> QED
  BY <1>1, <1>5, <1>6 DEF CursorInv

-----------------------------------------------------------------------------
(* Input makes a session neither active nor inactive.                      *)

SameSession == kbd'.connected = kbd.connected /\ remote'.share = remote.share

LEMMA PressedShare ==
  ASSUME NEW r \in HostKeys, NEW keys
  PROVE  Pressed(r, keys).share = r.share /\ Raised(r, keys).share = r.share
BY DEF Pressed, Raised, HostKeys

LEMMA SessionKept ==
  ASSUME KeyTypes, KeyNext
  PROVE  SameSession
<1>1. kbd \in KbdType /\ remote \in HostKeys
  BY DEF KeyTypes
<1>2. ASSUME NEW k \in KbdType, NEW r \in HostKeys, NEW mask
      PROVE  /\ SyncToggles(k, r, mask).kbd.connected = k.connected
             /\ SyncToggles(k, r, mask).remote.share = r.share
  BY DEF KbdType, Pressed, Synced, HostKeys, SyncToggles
<1>3. ASSUME NEW k \in KbdType, NEW r \in HostKeys, NEW e
      PROVE  KeyPressed(k, r, e).kbd.connected = k.connected /\ KeyPressed(k, r, e).remote.share = r.share
  <2> DEFINE code == MapCode(e.key)
             s    == IF code = "AltRight" THEN DropSyntheticAltGrCtrl(k, r) ELSE [kbd |-> k, remote |-> r]
  <2>1. s.kbd \in KbdType /\ s.remote \in HostKeys /\ s.kbd.connected = k.connected /\ s.remote.share = r.share
    BY RaisedType, PressedShare DEF KbdType, DropSyntheticAltGrCtrl
  <2> HIDE DEF s
  <2>2. [s.kbd EXCEPT !.held = @ \cup {code},
                      !.fresh = @ \/ (code = "ControlLeft" /\ May("windows"))].connected = k.connected
    BY <2>1 DEF KbdType
  <2>3. Types(Pressed(s.remote, {code}), e).share = r.share
    BY <2>1 DEF Types, Pressed, HostKeys
  <2> QED
    BY <2>1, <2>2, <2>3 DEF KeyPressed, s
<1>4. ASSUME NEW k \in KbdType, NEW r \in HostKeys, NEW all
      PROVE  ReleaseHeld(k, r, all).kbd.connected = k.connected /\ ReleaseHeld(k, r, all).remote.share = r.share
  BY PressedShare DEF ReleaseHeld, KbdType
<1>5. CASE PageHandles
  <2> DEFINE e == Head(events)
  <2>1. \/ e.type = "down" /\ OnKeyDown(e)
        \/ e.type = "up" /\ OnKeyUp(e)
        \/ UNCHANGED <<kbd, remote>>
        \/ OnBlur
        \/ OnFocus
    BY <1>5 DEF PageHandles
  <2>2. /\ e = events[1] /\ e \in EventType /\ (e.type \in {"down", "up"} => e.key \in Keys)
    BY <1>5, Popped DEF KeyTypes, PageHandles
  <2> HIDE DEF e
  <2>3. CASE e.type = "down" /\ OnKeyDown(e)
    BY <2>2, <1>1, SyncTogglesType, <1>2, <1>3, <2>3 DEF EventType, OnKeyDown, SameSession
  <2>4. CASE e.type = "up" /\ OnKeyUp(e)
    <3> DEFINE code == MapCode(e.key)
               k    == [kbd EXCEPT !.held = @ \ {code}, !.synth = @ /\ code # "AltRight"]
               r    == IF Mapped(code) THEN Raised(remote, {code}) ELSE remote
    <3>1. k \in KbdType /\ k.connected = kbd.connected
      BY <1>1 DEF KbdType
    <3>2. r \in HostKeys /\ r.share = remote.share
      BY <1>1, RaisedType, PressedShare
    <3>3. [kbd EXCEPT !.synth = FALSE].connected = kbd.connected
      BY <1>1 DEF KbdType
    <3>4. \/ kbd' = [kbd EXCEPT !.synth = FALSE] /\ remote' = remote
          \/ kbd' = k /\ remote' = r
          \/ kbd' = ReleaseHeld(k, r, FALSE).kbd /\ remote' = ReleaseHeld(k, r, FALSE).remote
      BY <2>4 DEF OnKeyUp
    <3> HIDE DEF k, r
    <3>5. /\ ReleaseHeld(k, r, FALSE).kbd.connected = k.connected
          /\ ReleaseHeld(k, r, FALSE).remote.share = r.share
      BY <1>4, <3>1, <3>2
    <3> QED
      BY <3>1, <3>2, <3>3, <3>4, <3>5 DEF SameSession
  <2>5. CASE OnBlur
    <3>1. \A x \in KbdType : [x EXCEPT !.synth = FALSE].connected = x.connected
      BY DEF KbdType
    <3>2. /\ ReleaseHeld(kbd, remote, TRUE).kbd \in KbdType
          /\ ReleaseHeld(kbd, remote, TRUE).kbd.connected = kbd.connected
          /\ ReleaseHeld(kbd, remote, TRUE).remote.share = remote.share
      BY <1>1, <1>4, ReleaseHeldType
    <3>3. \/ kbd' = [ReleaseHeld(kbd, remote, TRUE).kbd EXCEPT !.synth = FALSE]
          \/ kbd' = [kbd EXCEPT !.synth = FALSE]
      BY <2>5 DEF OnBlur
    <3>4. remote' \in {remote, ReleaseHeld(kbd, remote, TRUE).remote}
      BY <2>5 DEF OnBlur
    <3> QED
      BY <1>1, <3>1, <3>2, <3>3, <3>4 DEF SameSession
  <2>6. CASE OnFocus
    BY <1>1, <2>6 DEF OnFocus, SameSession, KbdType
  <2> QED
    BY <2>1, <2>3, <2>4, <2>5, <2>6 DEF SameSession
<1>6. CASE SendCtrlAltDel
  BY <1>1, PressedType, <1>6, PressedShare DEF Keys, SendCtrlAltDel, SameSession
<1>7. CASE Elapse
  BY <1>1, <1>7 DEF Elapse, SameSession, KbdType
<1>8. CASE FocusMoves \/ OverlayMoves
  BY <1>8 DEF FocusMoves, OverlayMoves, SameSession
<1>9. ASSUME NEW key \in env.keys, Press(key) \/ Repeat(key) \/ Release(key) PROVE SameSession
  BY <1>9 DEF Press, Repeat, Release, SameSession
<1> QED
  BY <1>5, <1>6, <1>7, <1>8, <1>9 DEF KeyNext

LEMMA ActiveStep ==
  ASSUME LinkInv, KeyTypes, HandTypes, ActiveInv, [Next]_vars
  PROVE  ActiveInv'
<1>0. kbd \in KbdType /\ remote \in HostKeys /\ moves \in MovesType
  BY DEF KeyTypes, HandTypes
<1>1. CASE UNCHANGED <<link, kbdVars, ptrVars>>
  BY <1>1 DEF ActiveInv, Up, kbdVars, ptrVars
<1>2. CASE KeyNext /\ UNCHANGED ptrVars
  BY <1>2, LinkKeys, SessionKept DEF SameLink, ActiveInv, Up, SameSession, ptrVars
<1>3. CASE PointerNext
  <2>1. UNCHANGED <<link, kbd, remote>>
    BY <1>3, PointerKeys DEF kbdVars
  <2>2. moves'.listening = moves.listening
    <3>1. CASE Flush
      BY <1>0, <3>1 DEF Flush, MovesType
    <3>2. CASE Announce
      BY <1>0, <3>2 DEF Announce, MovesType
    <3>3. ASSUME NEW d, Acts(d) PROVE moves'.listening = moves.listening
      BY <1>0, <3>3 DEF Acts, MovesType
    <3>4. ASSUME NEW p \in Places, MoveTo(p) PROVE moves'.listening = moves.listening
      BY <1>0, <3>4 DEF MoveTo, HandleMouseMove, MovesType
    <3>5. ASSUME NEW b \in Buttons, ButtonDown(b) \/ ButtonUp(b) PROVE moves'.listening = moves.listening
      BY <3>3, <3>5 DEF ButtonDown, ButtonUp
    <3>6. ASSUME NEW p, NEW negative, Wheel(p, negative) PROVE moves'.listening = moves.listening
      BY <3>3, <3>6 DEF Wheel
    <3>7. CASE UNCHANGED moves
      BY <3>7
    <3> QED
      BY <1>3, <3>1, <3>2, <3>4, <3>5, <3>6, <3>7
         DEF PointerNext, MouseLeaves, Relayout, OnUpdate, HostShows, HostRecalls, HostHides, Points
  <2>3. updates' # <<>> => kbd.connected
    <3>1. CASE UNCHANGED updates
      BY <3>1 DEF ActiveInv
    <3>2. CASE remote.share
      BY <3>2 DEF ActiveInv
    <3>3. CASE OnUpdate
      BY <3>3 DEF OnUpdate, ActiveInv
    <3> QED
      BY <1>3, <3>1, <3>2, <3>3
         DEF PointerNext, MoveTo, ButtonDown, ButtonUp, Wheel, Flush, MouseLeaves, Relayout, Announce,
             HostShows, HostRecalls, HostHides, Points, Uses
  <2> QED
    BY <2>1, <2>2, <2>3 DEF ActiveInv, Up
<1>4. CASE Drop \/ Redirect \/ Disconnect
  BY <1>0, <1>4 DEF Drop, Redirect, Disconnect, KeyboardDown, PointerDown, KbdType, HostKeys,
     ActiveInv
<1>5. CASE StartProtocol
  BY <1>0, <1>5 DEF StartProtocol, PointerUp, kbdVars, MovesType, ActiveInv, Up
<1>6. CASE Activate
  BY <1>0, <1>6, Activated DEF Activate, PointerActive, MovesType, ActiveInv, Up
<1>7. CASE Reactivate
  BY <1>0, <1>7 DEF Reactivate, BeginReactivation, ptrVars, HostKeys, ActiveInv, Up
<1>8. CASE ClipNext /\ UNCHANGED <<kbdVars, ptrVars>>
  BY <1>8, LinkClip, <1>1 DEF SameLink
<1>9. CASE MicNext /\ UNCHANGED <<kbdVars, ptrVars>>
  BY <1>9, LinkMic, <1>1 DEF SameLink
<1>10. CASE SoundNext /\ UNCHANGED <<kbdVars, ptrVars>>
  BY <1>10, LinkSound, <1>1 DEF SameLink
<1>11. CASE UNCHANGED vars
  BY <1>1, <1>11 DEF vars
<1> QED
  BY <1>2, <1>3, <1>4, <1>5, <1>6, <1>7, <1>8, <1>9, <1>10, <1>11 DEF Next, Rest

-----------------------------------------------------------------------------
(* The mouse and the pointer in every step.                                *)

\* Steps of the other redirections and of the keyboard.
Apart == /\ ClipNext \/ MicNext \/ SoundNext \/ KeyNext \/ UNCHANGED vars
         /\ UNCHANGED ptrVars
         /\ KeyNext \/ UNCHANGED kbdVars

LEMMA ApartFacts ==
  ASSUME LinkInv, KeyTypes, Apart
  PROVE  UNCHANGED <<link, ptrVars>> /\ SameSession
BY LinkClip, LinkMic, LinkSound, LinkKeys, SessionKept DEF Apart, SameLink, vars, SameSession,
   kbdVars

LEMMA Steps ==
  ASSUME [Next]_vars
  PROVE  \/ Apart \/ PointerNext
         \/ Drop \/ Redirect \/ Disconnect
         \/ StartProtocol \/ Activate \/ Reactivate
BY DEF Next, Rest, Apart, vars, kbdVars, ptrVars

LEMMA HandsStep ==
  ASSUME LinkInv, KeyTypes, ActiveInv, HandsInv, [Next]_vars
  PROVE  HandsInv'
<1>0. SameMay
  BY LinkNext
<1>1. CASE Apart
  BY <1>0, <1>1, ApartFacts, HandsSame DEF SameSession, ptrVars
<1>2. CASE PointerNext
  BY <1>0, HandsMove, HandsClick, HandsWheel, HandsFlush, HandsOthers, HandsSame, <1>2 DEF kbdVars,
     OnUpdate, Points, PointerNext, HostShows, HostRecalls, HostHides
<1>3. CASE Drop \/ Redirect \/ Disconnect
  BY <1>3, <1>0, HandsEnd DEF Drop, Redirect, Disconnect
<1>4. CASE StartProtocol \/ Activate \/ Reactivate
  BY <1>0, <1>4, HandsBegin
<1> QED
  BY <1>1, <1>2, <1>3, <1>4, Steps

LEMMA CursorStep ==
  ASSUME LinkInv, KeyTypes, ActiveInv, HandTypes, CursorInv, [Next]_vars
  PROVE  CursorInv'
<1>0. SameMay /\ moves \in MovesType /\ pointer \in PointerType
  BY LinkNext DEF HandTypes, CursorInv, LookTypes
<1>1. CASE Apart
  BY <1>0, <1>1, ApartFacts, CursorSame DEF ptrVars
<1>2. CASE PointerNext
  <2>1. ASSUME UNCHANGED <<updates, cursor, pointer>>, moves'.listening = moves.listening PROVE CursorInv'
    BY <1>0, <2>1, CursorSame
  <2>2. ASSUME NEW d, Acts(d) PROVE moves'.listening = moves.listening
    BY <1>0, <2>2 DEF Acts, MovesType
  <2>3. ASSUME NEW p \in Places, MoveTo(p) PROVE CursorInv'
    BY <1>0, <2>3, <2>1 DEF MoveTo, HandleMouseMove, MovesType, Uses
  <2>4. ASSUME NEW b \in Buttons, ButtonDown(b) \/ ButtonUp(b) PROVE CursorInv'
    BY <2>2, <2>4, <2>1 DEF ButtonDown, ButtonUp, Uses
  <2>5. ASSUME NEW p, NEW negative, Wheel(p, negative) PROVE CursorInv'
    BY <2>2, <2>5, <2>1 DEF Wheel, Uses
  <2>6. CASE Flush \/ Announce \/ MouseLeaves \/ Relayout
    BY <1>0, <2>6, <2>1 DEF Flush, Announce, MouseLeaves, Relayout, MovesType, Uses
  <2>7. CASE OnUpdate
    BY <1>0, <2>7, CursorUpdate
  <2>8. ASSUME NEW k \in {"new", "color"}, NEW s \in Slots, NEW look \in Bitmaps, HostShows(k, s, look) PROVE CursorInv'
    <3> DEFINE u == Update(k, s, look)
    <3>1. u \in PointerUpdates /\ look \in Looks /\ Paints(u) /\ u.look = look
      BY DEF Update, PointerUpdates, Looks, Paints
    <3>2. Points(u, look) /\ (look = "broken" => May("breaks"))
      BY <2>8 DEF HostShows
    <3>3. PlainPointers => look \in Bitmaps \ {"broken"}
      BY <3>2 DEF PlainPointers
    <3> HIDE DEF u
    <3> QED
      BY <1>0, <3>1, <3>2, <3>3, CursorPoints
  <2>9. ASSUME NEW s \in Slots, HostRecalls(s) PROVE CursorInv'
    <3> DEFINE u == Update("cached", s, "default")
    <3>1. u \in PointerUpdates /\ u.kind = "cached" /\ u.slot = s
      BY DEF Update, PointerUpdates, Looks
    <3>2. Points(u, pointer.cache[s]) /\ pointer.cache[s] \in IF May("recalls") THEN Bitmaps ELSE Bitmaps \ {"clear", "broken"}
      BY <2>9 DEF HostRecalls
    <3>3. pointer.cache[s] \in Looks /\ (PlainPointers => pointer.cache[s] \in Solid)
      BY <3>2 DEF PlainPointers, Looks, Solid
    <3> HIDE DEF u
    <3> QED
      BY <1>0, <3>1, <3>2, <3>3, CursorPoints
  <2>10. CASE HostHides
    <3>1. PICK k \in {"null", "default"} :
            Points(Update(k, "s0", "default"), IF k = "null" THEN "clear" ELSE "default")
      BY <2>10 DEF HostHides
    <3> DEFINE u    == Update(k, "s0", "default")
               look == IF k = "null" THEN "clear" ELSE "default"
    <3>2. u \in PointerUpdates /\ look \in Looks
      BY DEF Update, PointerUpdates, Looks, Slots, Bitmaps
    <3>3. ~PlainPointers
      BY <2>10 DEF HostHides, PlainPointers
    <3>4. Points(u, look)
      BY <3>1
    <3> HIDE DEF u, look
    <3> QED
      BY <1>0, <3>2, <3>3, <3>4, CursorPoints
  <2> QED
    BY <1>2, <2>3, <2>4, <2>5, <2>6, <2>7, <2>8, <2>9, <2>10 DEF PointerNext
<1>3. CASE Drop \/ Redirect \/ Disconnect
  BY <1>3, <1>0, CursorEnd DEF Drop, Redirect, Disconnect
<1>4. CASE StartProtocol \/ Activate \/ Reactivate
  BY <1>4, <1>0, CursorSame DEF StartProtocol, PointerUp, Activate, PointerActive, Reactivate,
     ptrVars, MovesType
<1> QED
  BY <1>1, <1>2, <1>3, <1>4, Steps

InputInv == LinkInv /\ KeyTypes /\ ActiveInv /\ HandsInv /\ CursorInv

LEMMA InputInvariant == Spec => []InputInv
<1>1. Init => InputInv
  <2>1. Init => ActiveInv
    BY DEF Init, KeyInit, PointerInit, ActiveInv, Up
  <2> QED
    BY <2>1, LinkInit, KeyTypesInit, HandsInit, CursorInit DEF InputInv
<1>2. InputInv /\ [Next]_vars => InputInv'
  BY LinkNext, KeyTypesStep, ActiveStep, HandsStep, CursorStep DEF InputInv, HandsInv
<1> QED
  BY <1>1, <1>2, PTL DEF Spec

\* For a user who lets go of the buttons before the session or the page changes, and for a host
\* that shows bitmaps that can be drawn, and again only those with opaque pixels: the host's mouse is where
\* the user points with the buttons the user holds, a click lands where it was aimed and the wheel
\* turns as far as it was turned, and the page shows the pointer the host shows.
THEOREM MouseIsFollowed == Spec => [](SteadyHand /\ PlainPointers => MouseAgrees)
<1>1. InputInv => (SteadyHand /\ PlainPointers => MouseAgrees)
  BY DEF InputInv, HandsInv, HandInv, MouseFollows, CursorInv, PartInv, LookInv, PointerAgrees,
     MouseAgrees
<1> QED
  BY <1>1, InputInvariant, PTL

-----------------------------------------------------------------------------
(* The keyboard: what the page and the host have down is what the user     *)
(* holds, but for the events that wait.                                    *)

\* What a user, a browser and a host do together that the client does not follow (README, known
\* departures); a browser runs on one system, and AltGr and Command belong to theirs.
PlainTyping ==
  /\ ~(May("holds") \/ May("typesOver") \/ May("rolls") \/ May("lockThere") \/ May("newLock"))
  /\ ~(May("ctrlAlt") \/ May("slow"))
  /\ ~(May("blurs") /\ May("reactivates"))
  /\ ~(May("windows") /\ May("mac"))
  /\ May("altGr") => May("windows")
  /\ May("cmdAsCtrl") => May("mac") /\ "ControlLeft" \notin env.keys

IsKey(e)  == e.type \in {"down", "up"}
CtrlAltGr == {"ControlLeft", "AltRight"}

\* The host has down what the page has, which is nothing between sessions, over an input of the
\* page and, once what waits is handled, in a window without focus.
FocusInv ==
  /\ kbd.connected => remote.down = kbd.held
  /\ kbd.connected /\ ~remote.share => events = <<>> /\ ~May("blurs")
  /\ ~kbd.connected =>
       /\ kbd.held = {} /\ user.held \subseteq {"CapsLock"}
       /\ \A i \in 1..Len(events) : events[i].mods = {}
  /\ user.typing => kbd.held = {}
  /\ user.held \subseteq env.keys
  /\ "Soft" \notin kbd.held
  /\ kbd.synth => May("windows")

\* Where the focus changes among the events.
EventInv ==
  /\ \A i \in 1..Len(events) :
       /\ events[i].type = "blur" => i = Len(events)
       /\ events[i].type = "focus" => i = 1
       /\ IsKey(events[i]) => events[i].key \in env.keys \/ (May("altGr") /\ events[i].key = "ControlLeft")
  /\ ~user.focused => events = <<>> \/ events[Len(events)].type = "blur"
  /\ user.focused => \A i \in 1..Len(events) : events[i].type # "blur"

\* What ends the press of a key that is no modifier, or of Caps Lock.
Lifts(e, key) ==
  \/ e.type = "blur"
  \/ e.type = "up" /\ (e.key = key \/ (May("mac") /\ e.key = "MetaLeft" /\ key \notin Modifiers))
Lifted(i, j, key) == \E k \in i..j : Lifts(events[k], key)
Holds(key) ==
  user.focused /\ (key \in user.held
                   \/ (key \notin Modifiers /\ May("mac") /\ "MetaLeft" \in user.held))
Lasting == {"KeyC", "CapsLock"}
LiftInv ==
  \A key \in Lasting :
    /\ key \in kbd.held => Holds(key) \/ Lifted(1, Len(events), key)
    /\ \A i \in 1..Len(events) :
         events[i].type = "down" /\ events[i].key = key =>
           Holds(key) \/ Lifted(i + 1, Len(events), key)

\* While Caps Lock is down no other key goes down.
CapsInv ==
  \A j \in 1..Len(events) : events[j].type = "down" =>
    /\ "CapsLock" \in kbd.held => Lifted(1, j - 1, "CapsLock")
    /\ \A i \in 1..j - 1 :
         events[i].type = "down" /\ events[i].key = "CapsLock" => Lifted(i + 1, j - 1, "CapsLock")

\* The Ctrl of the two events of AltGr.
Coupled(e, mods) == May("altGr") /\ e.key = "ControlLeft" /\ "AltRight" \in mods

\* The modifiers from event to event: each is what the one before leaves of it.
After(before, e) ==
  IF e.type = "blur" THEN {}
  ELSE IF e.type = "focus" THEN before
  ELSE IF e.type = "down" THEN before \cup (IF Coupled(e, e.mods) THEN {"AltRight"} ELSE {MapCode(e.key)} \cap Shifts)
  ELSE before \ {IF Coupled(e, before) THEN "AltRight" ELSE MapCode(e.key)}
GoesDown(key) == events # <<>> /\ events[1].type = "down" /\ events[1].key = key
Standing == (kbd.held \cap Shifts) \ (IF May("altGr") /\ GoesDown("AltRight") THEN {"ControlLeft"} ELSE {})
Target   == IF user.focused THEN Meant(user.held) ELSE {}
ModInv ==
  /\ ~user.typing /\ events = <<>> => kbd.held \cap Shifts = Target
  /\ ~user.typing /\ events # <<>> => events[1].mods = After(Standing, events[1])
  /\ events # <<>> => events[Len(events)].mods = Target
  /\ \A i \in 1..Len(events) - 1 : events[i + 1].mods = After(events[i].mods, events[i + 1])

\* The other event of AltGr follows its Ctrl, which goes up again when it comes within 50 ms.
AltInv ==
  May("altGr") =>
    /\ ~(CtrlAltGr \subseteq user.held)
    /\ \A i \in 1..Len(events) : ~(CtrlAltGr \subseteq events[i].mods)
    /\ \A i \in 1..Len(events) : events[i].type = "down" /\ Coupled(events[i], events[i].mods) =>
         /\ i < Len(events) /\ events[i + 1].type = "down" /\ events[i + 1].key = "AltRight"
         /\ events[i + 1].mods = events[i].mods
    /\ \A i \in 1..Len(events) - 1 : events[i + 1].type = "up" /\ Coupled(events[i + 1], events[i].mods) =>
         i + 1 < Len(events) /\ events[i + 2].type = "up" /\ events[i + 2].key = "AltRight"
    /\ events # <<>> /\ events[1].type = "up" /\ Coupled(events[1], kbd.held) =>
         1 < Len(events) /\ events[2].type = "up" /\ events[2].key = "AltRight"
    /\ CtrlAltGr \subseteq kbd.held => GoesDown("AltRight")
    /\ GoesDown("AltRight") /\ "ControlLeft" \in kbd.held => kbd.fresh

\* Elsewhere a Ctrl the user holds is older than that when the right Alt goes down.
CtrlInv ==
  May("windows") /\ ~May("altGr") =>
    \A i \in 1..Len(events) :
      events[i].type = "down" /\ events[i].key = "AltRight" /\ "ControlLeft" \in events[i].mods => i = 1 /\ ~kbd.fresh

\* The lock from event to event, and what the host was told of it.
LockInv ==
  /\ \A i \in 1..Len(events) : IsKey(events[i]) =>
       events[i].now = IF events[i].type = "down" /\ events[i].key = "CapsLock" THEN 1 - events[i].lock
                       ELSE events[i].lock
  /\ \A i \in 1..Len(events) - 1 : IsKey(events[i]) /\ IsKey(events[i + 1]) => events[i + 1].lock = events[i].now
  /\ user.focused /\ events # <<>> /\ IsKey(events[Len(events)]) => events[Len(events)].now = user.lock
  /\ kbd.connected =>
       /\ user.typing => kbd.synced \in {Unknown, remote.lock}
       /\ events # <<>> /\ IsKey(events[1]) /\ kbd.synced = events[1].lock => remote.lock = events[1].lock
       /\ events = <<>> /\ user.focused /\ kbd.synced = user.lock => remote.lock = user.lock

TypingInv == FocusInv /\ EventInv /\ LiftInv /\ CapsInv /\ ModInv /\ AltInv /\ CtrlInv /\ LockInv

-----------------------------------------------------------------------------
(* What the page makes of an event.                                        *)

LEMMA SyncedTo ==
  ASSUME NEW k \in KbdType, NEW r \in HostKeys, NEW mask \in 0..1, r.share, r.down = k.held, "CapsLock" \notin k.held,
         k.synced = mask => r.lock = mask
  PROVE  LET s == SyncToggles(k, r, mask)
         IN  /\ s.kbd \in KbdType /\ s.remote \in HostKeys
             /\ s.kbd.held = k.held /\ s.kbd.connected = k.connected /\ s.kbd.fresh = k.fresh
             /\ s.kbd.synth = k.synth /\ s.kbd.synced = mask
             /\ s.remote.share /\ s.remote.down = k.held /\ s.remote.lock = mask
             /\ s.remote.typed = r.typed /\ s.remote.meant = r.meant
<1> DEFINE s == SyncToggles(k, r, mask)
<1>1. s.kbd \in KbdType /\ s.remote \in HostKeys
  BY SyncTogglesType
<1>2. CASE mask = k.synced
  <2>1. s.kbd = k /\ s.remote = r
    BY <1>2 DEF SyncToggles
  <2> HIDE DEF s
  <2> QED
    BY <1>1, <1>2, <2>1 DEF s
<1>3. CASE mask # k.synced
  <2> DEFINE q == Synced(r, mask)
             p == Pressed(q, k.held)
  <2>1. s.kbd = [k EXCEPT !.synced = mask] /\ s.remote = p
    BY <1>3 DEF SyncToggles
  <2>2. q \in HostKeys /\ q.share /\ q.down = {} /\ q.lock = mask /\ q.typed = r.typed /\ q.meant = r.meant
    BY DEF Synced, HostKeys
  <2> HIDE DEF q
  <2>3. p = [q EXCEPT !.down = @ \cup k.held, !.lock = @]
    BY <2>2 DEF Pressed
  <2>4. p.share /\ p.down = k.held /\ p.lock = mask /\ p.typed = r.typed /\ p.meant = r.meant
    BY <2>2, <2>3 DEF HostKeys
  <2> HIDE DEF p, s
  <2> QED
    BY <1>1, <2>1, <2>4 DEF KbdType, s
<1> QED
  BY <1>2, <1>3

\* The rest of handleKeyDown: the keys down, of which AltGr takes its Ctrl, the lock and the character.
KeyDoes(k, r, e, t) ==
  LET code == MapCode(e.key)
      drop == code = "AltRight" /\ Synthetic(k)
  IN  /\ t.kbd.held = (IF drop THEN k.held \ {"ControlLeft"} ELSE k.held) \cup ({code} \ {"Soft"})
      /\ t.kbd.connected = k.connected /\ t.kbd.synced = k.synced
      /\ t.kbd.fresh = (k.fresh \/ (code = "ControlLeft" /\ May("windows")))
      /\ t.kbd.synth = (k.synth \/ drop)
      /\ t.remote.share /\ t.remote.down = t.kbd.held
      /\ t.remote.lock = IF code = "CapsLock" THEN 1 - r.lock ELSE r.lock
      /\ IF e.key = "KeyC"
         THEN t.remote.typed = Hit(t.kbd.held \cap Shifts, r.lock) /\ t.remote.meant = Hit(e.mods, e.now)
         ELSE t.remote.typed = r.typed /\ t.remote.meant = r.meant

LEMMA KeyTaken ==
  ASSUME NEW k \in KbdType, NEW r \in HostKeys, NEW e \in EventType, e.key \in Keys, r.share, r.down = k.held,
         "CapsLock" \notin k.held, "Soft" \notin k.held
  PROVE  KeyDoes(k, r, e, KeyPressed(k, r, e))
<1> DEFINE code == MapCode(e.key)
           drop == code = "AltRight" /\ Synthetic(k)
           held == IF drop THEN k.held \ {"ControlLeft"} ELSE k.held
           s    == IF code = "AltRight" THEN DropSyntheticAltGrCtrl(k, r) ELSE [kbd |-> k, remote |-> r]
           t    == KeyPressed(k, r, e)
<1>1. code \in Keys /\ (e.key = "KeyC" => code = "KeyC") /\ (code = "Soft" => e.key = "Soft")
  BY MapCodeType DEF MapCode
<1>2. k.held \subseteq Keys /\ k.synth \in BOOLEAN /\ k.fresh \in BOOLEAN
  BY DEF KbdType
<1>3. /\ s.kbd \in KbdType /\ s.kbd.held = held /\ s.kbd.connected = k.connected /\ s.kbd.synced = k.synced
      /\ s.kbd.fresh = k.fresh /\ s.kbd.synth = (k.synth \/ drop)
      /\ s.remote \in HostKeys /\ s.remote.share /\ s.remote.down = held /\ s.remote.lock = r.lock
      /\ s.remote.typed = r.typed /\ s.remote.meant = r.meant
  <2>1. CASE drop
    <3>1. s = [kbd |-> [k EXCEPT !.held = @ \ {"ControlLeft"}, !.synth = TRUE], remote |-> Raised(r, {"ControlLeft"})]
      BY <2>1 DEF DropSyntheticAltGrCtrl
    <3>2. s.kbd = [k EXCEPT !.held = @ \ {"ControlLeft"}, !.synth = TRUE] /\ s.remote = [r EXCEPT !.down = @ \ {"ControlLeft"}]
      BY <3>1 DEF Raised
    <3>3. held = k.held \ {"ControlLeft"} /\ (k.synth \/ drop) = TRUE
      BY <2>1
    <3> HIDE DEF s, held, drop
    <3>4. /\ s.kbd \in KbdType /\ s.kbd.held = k.held \ {"ControlLeft"} /\ s.kbd.connected = k.connected
          /\ s.kbd.synced = k.synced /\ s.kbd.fresh = k.fresh /\ s.kbd.synth = TRUE
      BY <3>2 DEF KbdType
    <3>5. /\ s.remote \in HostKeys /\ s.remote.share /\ s.remote.down = k.held \ {"ControlLeft"}
          /\ s.remote.lock = r.lock /\ s.remote.typed = r.typed /\ s.remote.meant = r.meant
      BY <3>2 DEF HostKeys
    <3> QED
      BY <3>3, <3>4, <3>5
  <2>2. CASE ~drop
    <3>1. s.kbd = k /\ s.remote = r
      BY <2>2 DEF DropSyntheticAltGrCtrl
    <3> HIDE DEF s
    <3> QED
      BY <1>2, <2>2, <3>1
  <2> QED
    BY <2>1, <2>2
<1> HIDE DEF s
<1>4. CASE code = "Soft"
  <2>1. t = s /\ e.key # "KeyC" /\ ~drop
    BY <1>1, <1>4 DEF KeyPressed, Mapped, s
  <2> HIDE DEF t
  <2> QED
    BY <1>2, <1>3, <1>4, <2>1 DEF t, KeyDoes
<1>5. CASE code # "Soft"
  <2> DEFINE p == Pressed(s.remote, {code})
             k2 == [s.kbd EXCEPT !.held = @ \cup {code}, !.fresh = @ \/ (code = "ControlLeft" /\ May("windows"))]
  <2>1. t.kbd = k2 /\ t.remote = Types(p, e)
    BY <1>5 DEF KeyPressed, Mapped, s
  <2>2. /\ k2.held = held \cup {code} /\ k2.connected = k.connected /\ k2.synced = k.synced
        /\ k2.fresh = (k.fresh \/ (code = "ControlLeft" /\ May("windows"))) /\ k2.synth = (k.synth \/ drop)
    BY <1>3 DEF KbdType
  <2>3. /\ p \in HostKeys /\ p.share /\ p.down = held \cup {code} /\ p.typed = r.typed /\ p.meant = r.meant
        /\ p.lock = IF code = "CapsLock" THEN 1 - r.lock ELSE r.lock
    <3>1. "CapsLock" \in {code} \ s.remote.down <=> code = "CapsLock"
      BY <1>3
    <3>2. p = [s.remote EXCEPT !.down = @ \cup {code}, !.lock = IF code = "CapsLock" THEN 1 - @ ELSE @]
      BY <1>3, <3>1 DEF Pressed
    <3>3. p \in HostKeys
      BY <1>1, <1>3, PressedType
    <3> QED
      BY <1>3, <3>2, <3>3 DEF HostKeys
  <2> HIDE DEF k2, p
  <2>4. /\ Types(p, e).share /\ Types(p, e).down = p.down /\ Types(p, e).lock = p.lock
        /\ IF e.key = "KeyC"
           THEN Types(p, e).typed = Hit(p.down \cap Shifts, p.lock) /\ Types(p, e).meant = Hit(e.mods, e.now)
           ELSE Types(p, e).typed = p.typed /\ Types(p, e).meant = p.meant
    BY <2>3 DEF Types, HostKeys
  <2>5. {code} \ {"Soft"} = {code}
    BY <1>5
  <2> HIDE DEF t
  <2> QED
    BY <1>1, <2>1, <2>2, <2>3, <2>4, <2>5 DEF t, KeyDoes
<1> QED
  BY <1>4, <1>5

\* What the key an event is about does to what is down.
Dropped(e)  == MapCode(e.key) = "AltRight" /\ Synthetic(kbd)
HeldDown(e) == (IF Dropped(e) THEN kbd.held \ {"ControlLeft"} ELSE kbd.held) \cup ({MapCode(e.key)} \ {"Soft"})
HeldUp(e)   == (kbd.held \ {MapCode(e.key)}) \ (IF May("mac") /\ e.key = "MetaLeft" THEN Keys \ Modifiers ELSE {})

LEMMA DownTaken ==
  ASSUME KeyTypes, NEW e \in EventType, e.key \in Keys, OnKeyDown(e), remote.share, remote.down = kbd.held,
         "CapsLock" \notin kbd.held, "Soft" \notin kbd.held, kbd.synced = e.lock => remote.lock = e.lock
  PROVE  /\ kbd'.held = HeldDown(e) /\ remote'.down = kbd'.held
         /\ kbd'.connected = kbd.connected /\ remote'.share = remote.share
         /\ kbd'.synced = e.lock
         /\ remote'.lock = IF MapCode(e.key) = "CapsLock" THEN 1 - e.lock ELSE e.lock
         /\ kbd'.fresh = (kbd.fresh \/ (MapCode(e.key) = "ControlLeft" /\ May("windows")))
         /\ kbd'.synth = (kbd.synth \/ Dropped(e))
         /\ IF e.key = "KeyC"
            THEN remote'.typed = Hit(kbd'.held \cap Shifts, e.lock) /\ remote'.meant = Hit(e.mods, e.now)
            ELSE remote'.typed = remote.typed /\ remote'.meant = remote.meant
<1> DEFINE s == SyncToggles(kbd, remote, e.lock)
           t == KeyPressed(s.kbd, s.remote, e)
<1>1. e.lock \in 0..1 /\ kbd \in KbdType /\ remote \in HostKeys
  BY DEF EventType, KeyTypes
<1>2. /\ s.kbd \in KbdType /\ s.remote \in HostKeys
      /\ s.kbd.held = kbd.held /\ s.kbd.connected = kbd.connected /\ s.kbd.fresh = kbd.fresh
      /\ s.kbd.synth = kbd.synth /\ s.kbd.synced = e.lock
      /\ s.remote.share /\ s.remote.down = kbd.held /\ s.remote.lock = e.lock
      /\ s.remote.typed = remote.typed /\ s.remote.meant = remote.meant
  BY <1>1, SyncedTo
<1>3. kbd' = t.kbd /\ remote' = t.remote
  BY DEF OnKeyDown
<1>4. PICK k \in KbdType, r \in HostKeys : k = s.kbd /\ r = s.remote
  BY <1>2
<1>5. kbd' = KeyPressed(k, r, e).kbd /\ remote' = KeyPressed(k, r, e).remote
  BY <1>3, <1>4
<1> HIDE DEF s, t
<1>6. /\ k.held = kbd.held /\ k.connected = kbd.connected /\ k.fresh = kbd.fresh
      /\ k.synth = kbd.synth /\ k.synced = e.lock
      /\ r.share /\ r.down = k.held /\ r.lock = e.lock /\ r.typed = remote.typed /\ r.meant = remote.meant
      /\ "CapsLock" \notin k.held /\ "Soft" \notin k.held
  BY <1>2, <1>4
<1>8. Synthetic(k) <=> Synthetic(kbd)
  BY <1>6 DEF Synthetic
<1> DEFINE p == KeyPressed(k, r, e)
<1>9. /\ p.kbd.held = (IF MapCode(e.key) = "AltRight" /\ Synthetic(k) THEN k.held \ {"ControlLeft"} ELSE k.held)
                        \cup ({MapCode(e.key)} \ {"Soft"})
      /\ p.kbd.connected = k.connected /\ p.kbd.synced = k.synced
      /\ p.kbd.fresh = (k.fresh \/ (MapCode(e.key) = "ControlLeft" /\ May("windows")))
      /\ p.kbd.synth = (k.synth \/ (MapCode(e.key) = "AltRight" /\ Synthetic(k)))
      /\ p.remote.share /\ p.remote.down = p.kbd.held
      /\ p.remote.lock = IF MapCode(e.key) = "CapsLock" THEN 1 - r.lock ELSE r.lock
      /\ IF e.key = "KeyC"
         THEN p.remote.typed = Hit(p.kbd.held \cap Shifts, r.lock) /\ p.remote.meant = Hit(e.mods, e.now)
         ELSE p.remote.typed = r.typed /\ p.remote.meant = r.meant
  <2>1. KeyDoes(k, r, e, p)
    BY <1>6, KeyTaken, Zenon
  <2> HIDE DEF p
  <2> QED
    BY <2>1 DEF KeyDoes
<1>10. kbd' = p.kbd /\ remote' = p.remote
  BY <1>5
<1> HIDE DEF p
<1>7. kbd'.held = HeldDown(e) /\ kbd'.synth = (kbd.synth \/ Dropped(e))
  BY <1>6, <1>8, <1>9, <1>10 DEF HeldDown, Dropped
<1>11. remote.share \in BOOLEAN /\ remote'.share = TRUE /\ remote.share = TRUE
  BY <1>1, <1>4, <1>5, KeyPressedType, <1>9, <1>10 DEF HostKeys
<1> QED
  BY <1>6, <1>7, <1>9, <1>10, <1>11

LEMMA UpTaken ==
  ASSUME KeyTypes, NEW e \in EventType, e.key \in Keys, OnKeyUp(e), remote.share, remote.down = kbd.held,
         "Soft" \notin kbd.held, kbd.synth => ~May("mac")
  PROVE  /\ kbd'.held = HeldUp(e) /\ remote'.down = kbd'.held
         /\ kbd'.connected = kbd.connected /\ remote'.share = remote.share
         /\ kbd'.synced = kbd.synced /\ kbd'.fresh = kbd.fresh /\ (kbd'.synth => kbd.synth)
         /\ remote'.lock = remote.lock /\ remote'.typed = remote.typed /\ remote'.meant = remote.meant
<1> DEFINE code == MapCode(e.key)
           k    == [kbd EXCEPT !.held = @ \ {code}, !.synth = @ /\ code # "AltRight"]
           r    == IF Mapped(code) THEN Raised(remote, {code}) ELSE remote
<1>1. kbd \in KbdType /\ remote \in HostKeys /\ kbd.held \subseteq Keys
  BY DEF KeyTypes, KbdType
<1>2. /\ k \in KbdType /\ k.held = kbd.held \ {code} /\ k.connected = kbd.connected /\ k.synced = kbd.synced
      /\ k.fresh = kbd.fresh /\ (k.synth => kbd.synth)
  BY <1>1 DEF KbdType
<1>3. /\ r \in HostKeys /\ r.down = kbd.held \ {code} /\ r.share = remote.share /\ r.lock = remote.lock
      /\ r.typed = remote.typed /\ r.meant = remote.meant
  <2>1. CASE Mapped(code)
    <3>1. r = [remote EXCEPT !.down = @ \ {code}]
      BY <2>1 DEF Raised
    <3> HIDE DEF r
    <3> QED
      BY <1>1, <3>1 DEF HostKeys
  <2>2. CASE ~Mapped(code)
    <3>1. r = remote
      BY <2>2
    <3>2. kbd.held \ {code} = kbd.held
      BY <2>2 DEF Mapped
    <3> HIDE DEF r
    <3> QED
      BY <1>1, <3>1, <3>2
  <2> QED
    BY <2>1, <2>2
<1> DEFINE swallowed == code = "ControlLeft" /\ kbd.synth /\ code \notin kbd.held
           freed     == May("mac") /\ e.key = "MetaLeft"
<1>4. CASE swallowed
  BY <1>4, <1>1 DEF OnKeyUp, HeldUp, KbdType
<1>5. CASE ~swallowed /\ ~freed
  <2>1. kbd' = k /\ remote' = r
    BY <1>5 DEF OnKeyUp
  <2>2. HeldUp(e) = kbd.held \ {code}
    BY <1>5 DEF HeldUp
  <2> HIDE DEF k, r
  <2> QED
    BY <1>2, <1>3, <2>1, <2>2
<1>6. CASE ~swallowed /\ freed
  <2> DEFINE keys == k.held \ Modifiers
  <2>1. kbd' = [k EXCEPT !.held = @ \ keys] /\ remote' = Raised(r, keys)
    BY <1>6 DEF OnKeyUp, ReleaseHeld
  <2> HIDE DEF k, r
  <2>2. HeldUp(e) = k.held \ keys
    BY <1>1, <1>2, <1>6 DEF HeldUp
  <2>3. Raised(r, keys) = [r EXCEPT !.down = @ \ keys]
    BY <1>3 DEF Raised
  <2> HIDE DEF keys
  <2>4. /\ kbd'.held = k.held \ keys /\ kbd'.connected = k.connected /\ kbd'.synced = k.synced
        /\ kbd'.fresh = k.fresh /\ kbd'.synth = k.synth
    BY <1>2, <2>1 DEF KbdType
  <2>5. /\ remote'.down = r.down \ keys /\ remote'.share = r.share /\ remote'.lock = r.lock
        /\ remote'.typed = r.typed /\ remote'.meant = r.meant
    BY <1>3, <2>1, <2>3 DEF HostKeys
  <2> QED
    BY <1>2, <1>3, <2>2, <2>4, <2>5
<1> QED
  BY <1>4, <1>5, <1>6

\* The five things the page does with an event.
TakesDown(e) ==
  /\ e.type = "down" /\ kbd.connected /\ remote.share /\ ~user.typing
  /\ kbd'.held = HeldDown(e) /\ remote'.down = kbd'.held
  /\ kbd'.synced = e.lock
  /\ remote'.lock = IF e.key = "CapsLock" THEN 1 - e.lock ELSE e.lock
  /\ kbd'.fresh = (kbd.fresh \/ (MapCode(e.key) = "ControlLeft" /\ May("windows")))
  /\ kbd'.synth => kbd.synth \/ May("windows")
  /\ IF e.key = "KeyC"
     THEN remote'.typed = Hit(kbd'.held \cap Shifts, e.lock) /\ remote'.meant = Hit(e.mods, e.now)
     ELSE remote'.typed = remote.typed /\ remote'.meant = remote.meant
Rests == remote'.lock = remote.lock /\ remote'.typed = remote.typed /\ remote'.meant = remote.meant
TakesUp(e) ==
  /\ e.type = "up" /\ kbd.connected /\ remote.share /\ ~user.typing /\ Rests
  /\ kbd'.held = HeldUp(e) /\ remote'.down = kbd'.held
  /\ kbd'.synced = kbd.synced /\ kbd'.fresh = kbd.fresh /\ (kbd'.synth => kbd.synth)
Ignores(e) ==
  /\ IsKey(e) /\ (~kbd.connected \/ user.typing) /\ Rests
  /\ UNCHANGED <<kbd, remote>> /\ kbd.held = {}
TakesBlur(e) ==
  /\ e.type = "blur" /\ Rests
  /\ kbd'.held = {} /\ (kbd.connected => remote'.down = {})
  /\ kbd'.synced = kbd.synced /\ kbd'.fresh = kbd.fresh /\ ~kbd'.synth
TakesFocus(e) ==
  /\ e.type = "focus" /\ Rests
  /\ kbd'.held = kbd.held /\ remote'.down = remote.down
  /\ kbd'.synced = Unknown /\ kbd'.fresh = kbd.fresh /\ kbd'.synth = kbd.synth

\* The first event goes.
Shifted ==
  /\ Len(events) \in Nat \ {0} /\ Len(events') = Len(events) - 1
  /\ events' \in Seq(EventType)
  /\ \A i \in 1..Len(events') : i + 1 \in 1..Len(events) /\ events'[i] = events[i + 1]
  /\ \A i \in 1..Len(events) : events[i] \in EventType /\ (IsKey(events[i]) => events[i].key \in Keys)
  /\ events # <<>> /\ (events' = <<>> <=> Len(events) = 1)

PageStep ==
  /\ Shifted /\ UNCHANGED <<user, env, link>> /\ SameSession
  /\ \/ TakesDown(events[1]) \/ TakesUp(events[1]) \/ Ignores(events[1])
     \/ TakesBlur(events[1]) \/ TakesFocus(events[1])

LEMMA PageFacts ==
  ASSUME KeyTypes, ActiveInv, PlainTyping, TypingInv, PageHandles
  PROVE  PageStep
<1> DEFINE e == events[1]
<1>1. /\ events # <<>> /\ events' = Tail(events) /\ UNCHANGED <<user, env, link>> /\ Head(events) = e
      /\ kbd \in KbdType /\ remote \in HostKeys /\ user \in UserType /\ events \in Seq(EventType)
      /\ \A i \in 1..Len(events) : IsKey(events[i]) => events[i].key \in Keys
  BY DEF PageHandles, KeyTypes, IsKey
<1>2. Shifted
  <2>1. /\ Len(events) \in Nat \ {0} /\ Tail(events) \in Seq(EventType) /\ Len(Tail(events)) = Len(events) - 1
        /\ \A i \in 1..Len(Tail(events)) : i + 1 \in 1..Len(events) /\ Tail(events)[i] = events[i + 1]
    BY <1>1, Popped
  <2>2. \A i \in 1..Len(events) : events[i] \in EventType
    BY <1>1, ElementOfSeq
  <2>3. events' = <<>> <=> Len(events') = 0
    BY <1>1, <2>1, EmptySeq
  <2>4. events' = <<>> <=> Len(events) = 1
    BY <1>1, <2>1, <2>3
  <2> QED
    BY <1>1, <2>1, <2>2, <2>4 DEF Shifted
<1>3. SameSession
  BY SessionKept DEF KeyNext
<1>4. 1 \in 1..Len(events) /\ e \in EventType /\ (IsKey(e) => e.key \in Keys)
  BY <1>1, <1>2 DEF Shifted
<1>5. /\ kbd.connected => remote.down = kbd.held /\ remote.share
      /\ "Soft" \notin kbd.held /\ (kbd.synth => May("windows") /\ ~May("mac"))
      /\ ~kbd.connected \/ user.typing => kbd.held = {}
  BY <1>1 DEF TypingInv, FocusInv, PlainTyping
<1> HIDE DEF e
<1>6. \/ e.type = "down" /\ Takes /\ OnKeyDown(e)
      \/ e.type = "up" /\ Takes /\ OnKeyUp(e)
      \/ e.type \in {"down", "up"} /\ ~Takes /\ UNCHANGED <<kbd, remote>>
      \/ e.type = "blur" /\ OnBlur
      \/ e.type = "focus" /\ OnFocus
  BY <1>1 DEF PageHandles
<1>7. ASSUME e.type = "down", Takes, OnKeyDown(e) PROVE TakesDown(e)
  <2>1. kbd.connected /\ ~user.typing /\ remote.share /\ remote.down = kbd.held /\ "Soft" \notin kbd.held
    BY <1>5, <1>7 DEF Takes
  <2>2. e.key \in Keys
    BY <1>4, <1>7 DEF IsKey
  <2>3. "CapsLock" \notin kbd.held
    BY <1>4, <1>7 DEF TypingInv, CapsInv, e, Lifted
  <2>4. kbd.synced = e.lock => remote.lock = e.lock
    BY <1>1, <1>7, <2>1 DEF TypingInv, LockInv, IsKey, e
  <2>5. /\ kbd'.held = HeldDown(e) /\ remote'.down = kbd'.held
        /\ kbd'.synced = e.lock
        /\ remote'.lock = IF MapCode(e.key) = "CapsLock" THEN 1 - e.lock ELSE e.lock
        /\ kbd'.fresh = (kbd.fresh \/ (MapCode(e.key) = "ControlLeft" /\ May("windows")))
        /\ kbd'.synth = (kbd.synth \/ Dropped(e))
        /\ IF e.key = "KeyC"
           THEN remote'.typed = Hit(kbd'.held \cap Shifts, e.lock) /\ remote'.meant = Hit(e.mods, e.now)
           ELSE remote'.typed = remote.typed /\ remote'.meant = remote.meant
    BY <1>4, <1>7, <2>1, <2>2, <2>3, <2>4, DownTaken
  <2>6. MapCode(e.key) = "CapsLock" <=> e.key = "CapsLock"
    BY DEF MapCode
  <2>7. Dropped(e) => May("windows")
    BY DEF Dropped, Synthetic
  <2> QED
    BY <1>7, <2>1, <2>5, <2>6, <2>7 DEF TakesDown
<1>8. ASSUME e.type = "up", Takes, OnKeyUp(e) PROVE TakesUp(e)
  BY <1>5, <1>8, <1>4, UpTaken DEF Takes, IsKey, TakesUp, Rests
<1>9. ASSUME e.type \in {"down", "up"}, ~Takes, UNCHANGED <<kbd, remote>> PROVE Ignores(e)
  BY <1>5, <1>9 DEF Ignores, IsKey, Takes, Rests
<1>10. ASSUME e.type = "blur", OnBlur PROVE TakesBlur(e)
  BY <1>10, <1>5, <1>1 DEF OnBlur, ReleaseHeld, Raised, HostKeys, Rests, KbdType, TakesBlur
<1>11. ASSUME e.type = "focus", OnFocus PROVE TakesFocus(e)
  BY <1>11, <1>1 DEF OnFocus, TakesFocus, KbdType, Rests
<1>12. TakesDown(e) \/ TakesUp(e) \/ Ignores(e) \/ TakesBlur(e) \/ TakesFocus(e)
  BY <1>6, <1>7, <1>8, <1>9, <1>10, <1>11
<1> QED
  BY <1>1, <1>2, <1>3, <1>12 DEF PageStep, e

\* The modifiers that are down are those of the event, but for the Ctrl of AltGr.
LEMMA PageModifiers ==
  ASSUME KeyTypes, PlainTyping, TypingInv, PageStep, ~user.typing
  PROVE  \/ kbd'.held \cap Shifts = events[1].mods
         \/ /\ events[1].type = "down" /\ Coupled(events[1], events[1].mods)
            /\ kbd'.held \cap Shifts = (kbd.held \cap Shifts) \cup {"ControlLeft"} /\ kbd'.fresh
            /\ events[1].mods = (kbd.held \cap Shifts) \cup {"AltRight"} /\ "ControlLeft" \notin events[1].mods
         \/ /\ events[1].type = "up" /\ Coupled(events[1], kbd.held)
            /\ kbd'.held \cap Shifts = kbd.held \cap Shifts /\ "ControlLeft" \notin kbd'.held
            /\ events[1].mods = (kbd.held \cap Shifts) \ {"AltRight"}
<1> DEFINE e    == events[1]
           code == MapCode(e.key)
           mine == kbd.held \cap Shifts
<1>1. /\ events # <<>> /\ 1 \in 1..Len(events) /\ e \in EventType /\ kbd \in KbdType /\ (IsKey(e) => e.key \in Keys)
  BY DEF PageStep, Shifted, KeyTypes
<1>2. e.mods = After(Standing, e)
  BY <1>1 DEF TypingInv, ModInv
<1>3. May("altGr") => /\ MapCode("ControlLeft") = "ControlLeft" /\ May("windows") /\ ~May("mac")
                      /\ ~(CtrlAltGr \subseteq e.mods)
                      /\ CtrlAltGr \subseteq kbd.held => GoesDown("AltRight")
                      /\ GoesDown("AltRight") /\ "ControlLeft" \in kbd.held => kbd.fresh
  BY <1>1 DEF PlainTyping, MapCode, TypingInv, AltInv
<1>4. code = "AltRight" <=> e.key = "AltRight"
  BY DEF MapCode
<1>5. "AltRight" \in Shifts /\ "ControlLeft" \in Shifts /\ "Soft" \notin Shifts /\ Shifts \subseteq Modifiers
  BY DEF Shifts, Modifiers
<1>6. e.type # "down" => Standing = mine
  BY DEF Standing, GoesDown
<1>7. ~May("altGr") => Standing = mine
  BY DEF Standing
<1>8. e.type = "down" /\ e.key = "AltRight" /\ May("altGr") => Standing = mine \ {"ControlLeft"}
  BY <1>1 DEF Standing, GoesDown
<1>9. e.key # "AltRight" => Standing = mine
  BY DEF Standing, GoesDown
<1>10. CASE TakesDown(e)
  <2>1. e.type = "down" /\ kbd'.held = HeldDown(e) /\ kbd'.fresh = (kbd.fresh \/ (code = "ControlLeft" /\ May("windows")))
    BY <1>10 DEF TakesDown
  <2>2. e.mods = Standing \cup (IF Coupled(e, e.mods) THEN {"AltRight"} ELSE {code} \cap Shifts)
    BY <1>2, <2>1 DEF After
  <2>3. ~Dropped(e) => kbd'.held \cap Shifts = mine \cup ({code} \cap Shifts)
    BY <1>5, <2>1 DEF HeldDown
  <2>4. Dropped(e) => kbd'.held \cap Shifts = (mine \ {"ControlLeft"}) \cup ({code} \cap Shifts)
    BY <1>5, <2>1 DEF HeldDown
  <2>5. CASE Coupled(e, e.mods)
    BY <2>5, <1>3, <1>9, <1>5, <2>2, <2>3, <2>1 DEF Coupled, Dropped, CtrlAltGr
  <2>6. CASE ~Coupled(e, e.mods) /\ e.key # "AltRight"
    BY <1>4, <1>9, <2>6, <2>2, <2>3 DEF Dropped
  <2>7. CASE ~Coupled(e, e.mods) /\ e.key = "AltRight" /\ May("altGr")
    <3>1. "ControlLeft" \in kbd.held => Dropped(e)
      BY <1>1, <1>3, <1>4, <2>1, <2>7 DEF Dropped, Synthetic, GoesDown
    <3>2. Dropped(e) \/ mine \ {"ControlLeft"} = mine
      BY <3>1
    <3> QED
      BY <1>8, <2>1, <2>2, <2>3, <2>4, <2>7, <3>2
  <2>8. CASE ~Coupled(e, e.mods) /\ e.key = "AltRight" /\ ~May("altGr")
    BY <1>5, <1>7, <2>2, <2>8, <1>1, <2>1, <2>3 DEF Dropped, Synthetic, TypingInv, CtrlInv
  <2> QED
    BY <2>5, <2>6, <2>7, <2>8
<1>11. CASE TakesUp(e)
  BY <1>6, <1>11, <1>2, <1>5, <1>3 DEF TakesUp, After, HeldUp, Coupled, CtrlAltGr, GoesDown
<1>12. CASE Ignores(e)
  BY <1>12, <1>1 DEF Ignores, TypingInv, FocusInv
<1>13. CASE TakesBlur(e)
  BY <1>13, <1>2 DEF TakesBlur, After
<1>14. CASE TakesFocus(e)
  BY <1>14, <1>2, <1>6 DEF TakesFocus, After
<1> QED
  BY <1>10, <1>11, <1>12, <1>13, <1>14 DEF PageStep

\* What is put down into an input of the page, and between sessions, is put down nowhere.
LEMMA PageIdle ==
  ASSUME PlainTyping, TypingInv, PageStep, user.typing \/ ~kbd.connected
  PROVE  kbd'.held = {} /\ kbd.held = {}
BY DEF TypingInv, FocusInv, TakesDown, TakesUp, PageStep, Ignores, TakesBlur, TakesFocus

LEMMA PageMod ==
  ASSUME KeyTypes, PlainTyping, TypingInv, PageStep
  PROVE  ModInv'
<1> DEFINE e == events[1]
           f == events[2]
           n == Len(events)
<1>1. /\ n \in Nat \ {0} /\ Len(events') = n - 1
      /\ \A i \in 1..Len(events') : i + 1 \in 1..n /\ events'[i] = events[i + 1]
      /\ \A i \in 1..n : events[i] \in EventType
      /\ events # <<>> /\ (events' = <<>> <=> n = 1)
      /\ UNCHANGED <<user, env>>
  BY DEF PageStep, Shifted
<1>2. ModInv /\ AltInv
  BY DEF TypingInv
<1>3. Target' = Target
  BY <1>1 DEF Target, Meant, MapCode, May
<1>4. 1 \in 1..n /\ (n # 1 => 1 \in 1..n - 1 /\ 2 \in 1..n /\ events'[1] = f /\ Len(events') \in 1..Len(events') /\ (n - 1) + 1 = n)
  BY <1>1
<1>5. events' # <<>> => events'[Len(events')].mods = Target
  BY <1>1, <1>2, <1>4 DEF ModInv
<1>6. ASSUME NEW i \in 1..Len(events') - 1 PROVE events'[i + 1].mods = After(events'[i].mods, events'[i + 1])
  BY <1>1, <1>2 DEF ModInv
<1>7. n # 1 => f.mods = After(e.mods, f)
  BY <1>2, <1>4 DEF ModInv
<1> DEFINE sides == \/ kbd'.held \cap Shifts = e.mods
                    \/ /\ e.type = "down" /\ Coupled(e, e.mods)
                       /\ kbd'.held \cap Shifts = (kbd.held \cap Shifts) \cup {"ControlLeft"} /\ kbd'.fresh
                       /\ e.mods = (kbd.held \cap Shifts) \cup {"AltRight"} /\ "ControlLeft" \notin e.mods
                    \/ /\ e.type = "up" /\ Coupled(e, kbd.held)
                       /\ kbd'.held \cap Shifts = kbd.held \cap Shifts /\ "ControlLeft" \notin kbd'.held
                       /\ e.mods = (kbd.held \cap Shifts) \ {"AltRight"}
<1>8. ~user.typing => sides
  BY PageModifiers
<1>9. e.type = "down" /\ Coupled(e, e.mods) => n # 1 /\ f.type = "down" /\ f.key = "AltRight" /\ f.mods = e.mods /\ May("altGr")
  BY <1>1, <1>2, <1>4 DEF AltInv, Coupled
<1>10. e.type = "up" /\ Coupled(e, kbd.held) => n # 1 /\ f.type = "up" /\ f.key = "AltRight" /\ May("altGr")
  BY <1>1, <1>2, <1>4 DEF AltInv, Coupled
<1>11. MapCode("AltRight") = "AltRight" /\ "AltRight" \in Shifts
  BY DEF MapCode, Shifts, Modifiers
<1>12. ~user.typing /\ events' = <<>> => kbd'.held \cap Shifts = Target
  BY <1>1, <1>2, <1>8, <1>9, <1>10 DEF ModInv
<1>13. ASSUME ~user.typing, n # 1 PROVE f.mods = After(Standing', f)
  <2>1. /\ Standing' = (kbd'.held \cap Shifts) \ (IF May("altGr") /\ f.type = "down" /\ f.key = "AltRight" THEN {"ControlLeft"} ELSE {})
    BY <1>1, <1>4, <1>13 DEF Standing, GoesDown, May
  <2>2. f.key = "AltRight" => ~Coupled(f, f.mods)
    BY DEF Coupled
  <2>3. f.type = "down" /\ f.key = "AltRight" => \A b : After(b, f) = b \cup {"AltRight"}
    BY <1>11, <2>2 DEF After
  <2>4. f.type = "up" /\ f.key = "AltRight" => \A b : After(b, f) = b \ {"AltRight"}
    BY <1>11 DEF After, Coupled
  <2>5. CASE kbd'.held \cap Shifts = e.mods
    <3>1. CASE May("altGr") /\ f.type = "down" /\ f.key = "AltRight"
      <4>1. f.mods = e.mods \cup {"AltRight"} /\ ~(CtrlAltGr \subseteq f.mods)
        BY <1>2, <1>4, <1>7, <1>13, <2>3, <3>1 DEF AltInv
      <4>2. "ControlLeft" \notin e.mods
        BY <4>1 DEF CtrlAltGr
      <4>3. Standing' = e.mods
        BY <2>1, <2>5, <4>2
      <4> QED
        BY <1>7, <1>13, <4>3
    <3>2. CASE ~(May("altGr") /\ f.type = "down" /\ f.key = "AltRight")
      BY <2>1, <2>5, <3>2, <1>7, <1>13
    <3> QED
      BY <3>1, <3>2
  <2>6. CASE /\ e.type = "down" /\ Coupled(e, e.mods)
             /\ kbd'.held \cap Shifts = (kbd.held \cap Shifts) \cup {"ControlLeft"}
             /\ e.mods = (kbd.held \cap Shifts) \cup {"AltRight"} /\ "ControlLeft" \notin e.mods
    <3>1. Standing' = kbd.held \cap Shifts
      BY <1>9, <2>1, <2>6
    <3> QED
      BY <1>9, <2>3, <2>6, <3>1
  <2>7. CASE /\ e.type = "up" /\ Coupled(e, kbd.held)
             /\ kbd'.held \cap Shifts = kbd.held \cap Shifts
             /\ e.mods = (kbd.held \cap Shifts) \ {"AltRight"}
    BY <1>10, <2>1, <2>7, <1>7, <1>13, <2>4
  <2> QED
    BY <1>8, <1>13, <2>5, <2>6, <2>7
<1> HIDE DEF e, f, n
<1> QED
  BY <1>1, <1>3, <1>4, <1>5, <1>6, <1>12, <1>13 DEF ModInv, After, Coupled, MapCode, May

LEMMA PageAlt ==
  ASSUME KeyTypes, PlainTyping, TypingInv, PageStep
  PROVE  AltInv' /\ CtrlInv'
<1> DEFINE e == events[1]
           f == events[2]
           n == Len(events)
<1>1. /\ n \in Nat \ {0} /\ Len(events') = n - 1
      /\ \A i \in 1..Len(events') : i + 1 \in 1..n /\ events'[i] = events[i + 1]
      /\ events # <<>> /\ (events' = <<>> <=> n = 1)
      /\ UNCHANGED <<user, env>>
  BY DEF PageStep, Shifted
<1>2. ModInv /\ AltInv /\ CtrlInv
  BY DEF TypingInv
<1>3. 1 \in 1..n /\ (n # 1 => 1 \in 1..n - 1 /\ 2 \in 1..n /\ events'[1] = f /\ 1 + 1 = 2)
  BY <1>1
<1>4. n # 1 => f.mods = After(e.mods, f)
  BY <1>2, <1>3 DEF ModInv
<1>5. "AltRight" \in Shifts /\ "ControlLeft" \in Shifts /\ MapCode("AltRight") = "AltRight"
  BY DEF Shifts, Modifiers, MapCode
<1>6. (events' # <<>> <=> n # 1) /\ (events' # <<>> => events'[1] = f)
  BY <1>1, <1>3
<1>7. GoesDown("AltRight")' <=> n # 1 /\ f.type = "down" /\ f.key = "AltRight"
  BY <1>6 DEF GoesDown
<1>8. ASSUME May("altGr") PROVE AltInv'
  <2>1. /\ ~(CtrlAltGr \subseteq user.held)
        /\ \A i \in 1..n : ~(CtrlAltGr \subseteq events[i].mods)
        /\ \A i \in 1..n : events[i].type = "down" /\ Coupled(events[i], events[i].mods) =>
             /\ i < n /\ events[i + 1].type = "down" /\ events[i + 1].key = "AltRight"
             /\ events[i + 1].mods = events[i].mods
        /\ \A i \in 1..n - 1 : events[i + 1].type = "up" /\ Coupled(events[i + 1], events[i].mods) =>
             i + 1 < n /\ events[i + 2].type = "up" /\ events[i + 2].key = "AltRight"
        /\ e.type = "up" /\ Coupled(e, kbd.held) => 1 < n /\ f.type = "up" /\ f.key = "AltRight"
    BY <1>1, <1>2, <1>8 DEF AltInv
  <2>2. \A i \in 1..Len(events') : ~(CtrlAltGr \subseteq events'[i].mods)
    BY <1>1, <2>1
  <2>3. ASSUME NEW i \in 1..Len(events'), events'[i].type = "down", Coupled(events'[i], events'[i].mods)
        PROVE  /\ i < Len(events') /\ events'[i + 1].type = "down" /\ events'[i + 1].key = "AltRight"
               /\ events'[i + 1].mods = events'[i].mods
    BY <1>1, <2>1, <2>3
  <2>4. ASSUME NEW i \in 1..Len(events') - 1, events'[i + 1].type = "up", Coupled(events'[i + 1], events'[i].mods)
        PROVE  i + 1 < Len(events') /\ events'[i + 2].type = "up" /\ events'[i + 2].key = "AltRight"
    BY <1>1, <2>1, <2>4
  <2> DEFINE sides == \/ kbd'.held \cap Shifts = e.mods
                      \/ /\ e.type = "down" /\ Coupled(e, e.mods)
                         /\ kbd'.held \cap Shifts = (kbd.held \cap Shifts) \cup {"ControlLeft"} /\ kbd'.fresh
                         /\ e.mods = (kbd.held \cap Shifts) \cup {"AltRight"} /\ "ControlLeft" \notin e.mods
                      \/ /\ e.type = "up" /\ Coupled(e, kbd.held)
                         /\ kbd'.held \cap Shifts = kbd.held \cap Shifts /\ "ControlLeft" \notin kbd'.held
                         /\ e.mods = (kbd.held \cap Shifts) \ {"AltRight"}
  <2>5. user.typing => kbd'.held = {}
    BY PageIdle
  <2>6. sides \/ kbd'.held = {}
    BY <2>5, PageModifiers
  <2>7. e.type = "down" /\ Coupled(e, e.mods) => 1 < n /\ f.type = "down" /\ f.key = "AltRight"
    BY <1>3, <2>1
  <2>8. ASSUME n # 1, f.type = "up", Coupled(f, kbd'.held)
        PROVE  2 < n /\ events[3].type = "up" /\ events[3].key = "AltRight"
    BY <2>8, <2>1, <2>7, <1>5, <2>6, <1>8, <1>3 DEF Coupled
  <2>9. n # 1 /\ 2 < n => 2 \in 1..Len(events') /\ events'[2] = events[3] /\ 1 < Len(events')
    BY <1>1
  <2>10. CtrlAltGr \subseteq kbd'.held => n # 1 /\ f.type = "down" /\ f.key = "AltRight"
    BY <1>3, <1>5, <2>1, <2>6, <2>7 DEF CtrlAltGr
  <2>11. n # 1 /\ f.type = "down" /\ f.key = "AltRight" /\ "ControlLeft" \in kbd'.held => kbd'.fresh
    BY <1>4, <1>5, <1>3, <2>1, <2>6 DEF After, Coupled, CtrlAltGr
  <2> HIDE DEF e, f, n, sides
  <2>12. events' # <<>> /\ events'[1].type = "up" /\ Coupled(events'[1], kbd'.held) =>
           1 < Len(events') /\ events'[2].type = "up" /\ events'[2].key = "AltRight"
    BY <1>6, <2>8, <2>9
  <2>13. CtrlAltGr \subseteq kbd'.held => GoesDown("AltRight")'
    BY <1>7, <2>10
  <2>14. GoesDown("AltRight")' /\ "ControlLeft" \in kbd'.held => kbd'.fresh
    BY <1>7, <2>11
  <2> QED
    BY <1>1, <2>1, <2>2, <2>3, <2>4, <2>12, <2>13, <2>14 DEF AltInv, Coupled, CtrlAltGr, May
<1>9. ASSUME ~May("altGr") PROVE AltInv'
  BY <1>1, <1>9 DEF AltInv, May
<1>10. CtrlInv'
  <2>1. ASSUME May("windows"), ~May("altGr"), NEW i \in 1..Len(events'), events'[i].type = "down", events'[i].key = "AltRight",
               "ControlLeft" \in events'[i].mods
        PROVE  FALSE
    BY <1>1, <1>2, <2>1 DEF CtrlInv
  <2> QED
    BY <1>1, <2>1 DEF CtrlInv, May
<1> QED
  BY <1>8, <1>9, <1>10

\* What is down when an event is handled is what was, and the key of the event.
LEMMA PageHeld ==
  ASSUME PlainTyping, TypingInv, PageStep, NEW key \in Lasting, key \in kbd'.held
  PROVE  /\ ~Lifts(events[1], key)
         /\ key \in kbd.held \/ (events[1].type = "down" /\ events[1].key = key)
<1> DEFINE e == events[1]
<1>1. key \in Keys /\ key # "AltRight" /\ \A k : MapCode(k) = key <=> k = key
  BY DEF Lasting, Keys, MapCode
<1>2. CASE TakesDown(e)
  BY <1>2, <1>1 DEF TakesDown, HeldDown, Lifts
<1>3. CASE TakesUp(e)
  BY <1>3, <1>1 DEF TakesUp, HeldUp, Lifts
<1>4. CASE Ignores(e) \/ TakesBlur(e)
  BY <1>4 DEF Ignores, TakesBlur
<1>5. CASE TakesFocus(e)
  BY <1>5 DEF TakesFocus, Lifts
<1> QED
  BY <1>2, <1>3, <1>4, <1>5 DEF PageStep

LEMMA LiftedShift ==
  ASSUME Shifted, SameMay, NEW key, NEW i \in Nat, NEW j \in Nat, i >= 1, j <= Len(events), Lifted(i + 1, j, key)
  PROVE  Lifted(i, j - 1, key)'
<1>1. PICK k \in (i + 1)..j : Lifts(events[k], key)
  BY DEF Lifted
<1>2. k - 1 \in i..j - 1 /\ k - 1 \in 1..Len(events') /\ (k - 1) + 1 = k
  BY DEF Shifted
<1>3. events'[k - 1] = events[k]
  BY <1>2 DEF Shifted
<1>4. Lifts(events'[k - 1], key)
  BY <1>1, <1>3
<1> QED
  BY <1>2, <1>4 DEF Lifted, Lifts, SameMay, May

LEMMA PageLift ==
  ASSUME PlainTyping, TypingInv, PageStep
  PROVE  LiftInv' /\ CapsInv'
<1> DEFINE n == Len(events)
<1>1. /\ Shifted /\ SameMay /\ UNCHANGED <<user, env>>
      /\ n \in Nat \ {0} /\ Len(events') = n - 1
      /\ \A i \in 1..Len(events') : i + 1 \in 1..n /\ events'[i] = events[i + 1]
  BY DEF PageStep, Shifted, SameMay
<1>2. LiftInv /\ CapsInv
  BY DEF TypingInv
<1>3. \A key : Holds(key)' <=> Holds(key)
  BY <1>1 DEF Holds, May
<1>4. ASSUME NEW key, NEW j \in 0..n, Lifted(1, j, key), ~Lifts(events[1], key) PROVE Lifted(1, j - 1, key)'
  <2>1. PICK k \in 1..j : Lifts(events[k], key)
    BY <1>4 DEF Lifted
  <2>2. k \in (1 + 1)..j
    BY <1>4, <2>1
  <2>3. Lifted(1 + 1, j, key)
    BY <2>1, <2>2 DEF Lifted
  <2> QED
    BY <1>1, <2>3, LiftedShift
<1>5. ASSUME NEW key \in Lasting, key \in kbd'.held PROVE Holds(key)' \/ Lifted(1, Len(events), key)'
  BY <1>5, PageHeld, <1>2, <1>1, <1>3, <1>4, LiftedShift DEF LiftInv
<1>6. ASSUME NEW key \in Lasting, NEW i \in 1..Len(events'), events'[i].type = "down", events'[i].key = key
      PROVE  Holds(key)' \/ Lifted(i + 1, Len(events), key)'
  BY <1>1, <1>2, <1>6, <1>3, LiftedShift DEF LiftInv
<1>7. LiftInv'
  BY <1>5, <1>6 DEF LiftInv
<1>8. ASSUME NEW j \in 1..Len(events'), events'[j].type = "down", "CapsLock" \in kbd'.held
      PROVE  Lifted(1, j - 1, "CapsLock")'
  BY <1>1, <1>8, PageHeld, <1>2, <1>4, LiftedShift DEF Lasting, CapsInv
<1>9. ASSUME NEW j \in 1..Len(events'), events'[j].type = "down",
             NEW i \in 1..j - 1, events'[i].type = "down", events'[i].key = "CapsLock"
      PROVE  Lifted(i + 1, j - 1, "CapsLock")'
  <2>1. /\ j + 1 \in 1..n /\ i \in 1..Len(events') /\ i + 1 \in 1..(j + 1) - 1 /\ (j + 1) - 1 = j
        /\ i + 1 \in Nat /\ i + 1 >= 1 /\ j <= Len(events) /\ j \in Nat
    BY <1>1
  <2>2. events'[j] = events[j + 1] /\ events'[i] = events[i + 1]
    BY <1>1, <2>1
  <2>3. Lifted((i + 1) + 1, (j + 1) - 1, "CapsLock")
    BY <1>2, <1>9, <2>1, <2>2 DEF CapsInv
  <2>4. Lifted((i + 1) + 1, j, "CapsLock")
    BY <2>1, <2>3
  <2> QED
    BY <1>1, <2>1, <2>4, LiftedShift
<1>10. CapsInv'
  BY <1>8, <1>9 DEF CapsInv
<1> QED
  BY <1>7, <1>10

LEMMA PageFocus ==
  ASSUME KeyTypes, PlainTyping, TypingInv, PageStep
  PROVE  FocusInv' /\ EventInv'
<1> DEFINE e == events[1]
           n == Len(events)
<1>1. /\ n \in Nat \ {0} /\ Len(events') = n - 1
      /\ \A i \in 1..Len(events') : i + 1 \in 1..n /\ events'[i] = events[i + 1]
      /\ events # <<>> /\ (events' = <<>> <=> n = 1)
      /\ UNCHANGED <<user, env>> /\ kbd'.connected = kbd.connected /\ remote'.share = remote.share
  BY DEF PageStep, Shifted, SameSession
<1>2. FocusInv /\ EventInv
  BY DEF TypingInv
<1>3. TakesDown(e) \/ TakesUp(e) \/ Ignores(e) \/ TakesBlur(e) \/ TakesFocus(e)
  BY DEF PageStep
<1> HIDE DEF e
<1>4. kbd'.connected => remote'.down = kbd'.held
  BY <1>1, <1>2, <1>3 DEF FocusInv, TakesDown, TakesUp, Ignores, TakesBlur, TakesFocus
<1>5. kbd'.connected /\ ~remote'.share => FALSE
  BY <1>1, <1>2 DEF FocusInv
<1>6. user.typing \/ ~kbd.connected => kbd'.held = {}
  BY PageIdle
<1>7. "Soft" \notin kbd'.held
  BY <1>2, <1>3 DEF FocusInv, TakesDown, TakesUp, Ignores, TakesBlur, TakesFocus, HeldDown, HeldUp
<1>8. kbd'.synth => May("windows")
  BY <1>2, <1>3 DEF FocusInv, TakesDown, TakesUp, Ignores, TakesBlur, TakesFocus
<1>9. FocusInv'
  BY <1>1, <1>2, <1>4, <1>5, <1>6, <1>7, <1>8 DEF FocusInv, May
<1>10. EventInv'
  <2>1. ASSUME NEW i \in 1..Len(events')
        PROVE  /\ events'[i].type = "blur" => i = Len(events')
               /\ events'[i].type = "focus" => i = 1
               /\ IsKey(events'[i]) => events'[i].key \in env.keys \/ (May("altGr") /\ events'[i].key = "ControlLeft")
    <3>1. i + 1 \in 1..n /\ events'[i] = events[i + 1] /\ (i + 1 = n <=> i = Len(events')) /\ i + 1 # 1
      BY <1>1
    <3> QED
      BY <1>2, <3>1 DEF EventInv
  <2>2. ASSUME ~user.focused, n # 1 PROVE events'[Len(events')].type = "blur"
    BY <1>1, <2>2, <1>2 DEF EventInv
  <2>3. ASSUME user.focused, NEW i \in 1..Len(events') PROVE events'[i].type # "blur"
    BY <1>1, <1>2, <2>3 DEF EventInv
  <2> HIDE DEF n
  <2> QED
    BY <1>1, <2>1, <2>2, <2>3 DEF EventInv, IsKey, May
<1> QED
  BY <1>9, <1>10

LEMMA PageLock ==
  ASSUME KeyTypes, PlainTyping, TypingInv, PageStep
  PROVE  LockInv'
<1> DEFINE e == events[1]
           f == events[2]
           n == Len(events)
<1>1. /\ n \in Nat \ {0} /\ Len(events') = n - 1
      /\ \A i \in 1..Len(events') : i + 1 \in 1..n /\ events'[i] = events[i + 1]
      /\ events # <<>> /\ (events' = <<>> <=> n = 1)
      /\ UNCHANGED <<user, env>> /\ kbd'.connected = kbd.connected /\ remote'.share = remote.share
  BY DEF PageStep, Shifted, SameSession
<1>2. LockInv /\ EventInv /\ FocusInv
  BY DEF TypingInv
<1>3. TakesDown(e) \/ TakesUp(e) \/ Ignores(e) \/ TakesBlur(e) \/ TakesFocus(e)
  BY DEF PageStep
<1>4. /\ 1 \in 1..n /\ 1 + 1 = 2 /\ e \in EventType
      /\ n # 1 => 1 \in 1..n - 1 /\ 2 \in 1..n /\ 1 \in 1..Len(events') /\ events'[1] = f /\ f \in EventType
  BY <1>1 DEF PageStep, Shifted
<1>5. e.lock \in 0..1 /\ (n # 1 => f.lock \in 0..1) /\ user.lock \in 0..1
      /\ kbd.synced \in {Unknown, 0, 1} /\ remote.lock \in 0..1 /\ Unknown \notin 0..1
  BY <1>4 DEF EventType, KeyTypes, UserType, KbdType, HostKeys, Unknown
<1>6. IsKey(e) => e.now = IF e.type = "down" /\ e.key = "CapsLock" THEN 1 - e.lock ELSE e.lock
  BY <1>2, <1>4 DEF LockInv
<1>7. n # 1 /\ IsKey(e) /\ IsKey(f) => f.lock = e.now
  BY <1>2, <1>4 DEF LockInv
<1>8. n = 1 /\ user.focused /\ IsKey(e) => e.now = user.lock
  BY <1>1, <1>2 DEF LockInv
<1>9. ASSUME NEW i \in 1..Len(events'), IsKey(events'[i])
      PROVE  events'[i].now = IF events'[i].type = "down" /\ events'[i].key = "CapsLock" THEN 1 - events'[i].lock
                              ELSE events'[i].lock
  BY <1>1, <1>2, <1>9 DEF LockInv
<1>10. ASSUME NEW i \in 1..Len(events') - 1, IsKey(events'[i]), IsKey(events'[i + 1])
       PROVE  events'[i + 1].lock = events'[i].now
  BY <1>1, <1>2, <1>10 DEF LockInv
<1>11. ASSUME user.focused, n # 1, IsKey(events'[Len(events')]) PROVE events'[Len(events')].now = user.lock
  BY <1>1, <1>11, <1>2 DEF LockInv
<1> DEFINE told(mask) == kbd'.synced = mask => remote'.lock = mask
<1>12. kbd.connected /\ IsKey(e) /\ kbd.synced = e.lock => remote.lock = e.lock
  BY <1>1, <1>2 DEF LockInv
<1>13. kbd.connected /\ user.typing => kbd.synced \in {Unknown, remote.lock}
  BY <1>2 DEF LockInv
<1>14. ASSUME kbd.connected, IsKey(e) PROVE \A mask \in {e.now} : ~user.typing => told(mask)
  BY <1>6, <1>14, <1>12, <1>3 DEF TakesDown, TakesUp, Rests, Ignores, TakesBlur, TakesFocus, IsKey
<1>15. kbd.connected /\ user.typing => kbd'.synced \in {Unknown, remote'.lock}
  BY <1>3, <1>13 DEF TakesDown, TakesUp, Ignores, TakesBlur, TakesFocus, Rests
<1>16. e.type = "focus" => kbd'.synced = Unknown
  BY <1>3 DEF TakesDown, TakesUp, Ignores, TakesBlur, TakesFocus, IsKey
<1>17. e.type = "blur" => n = 1 /\ ~user.focused
  BY <1>1, <1>2, <1>4 DEF EventInv
<1>18. e.type \in {"down", "up", "blur", "focus"}
  BY <1>4 DEF EventType
<1>19. kbd'.synced \in {Unknown, 0, 1} /\ (kbd.connected /\ user.typing => \A mask \in 0..1 : told(mask))
  BY <1>3, <1>5, <1>15 DEF TakesDown, TakesUp, Ignores, TakesBlur, TakesFocus
<1> HIDE DEF told
<1>20. ASSUME kbd.connected, n # 1, IsKey(f) PROVE told(f.lock)
  BY <1>5, <1>19, <1>20, <1>7, <1>14, <1>16, <1>17, <1>18 DEF told, IsKey
<1>21. ASSUME kbd.connected, n = 1, user.focused PROVE told(user.lock)
  BY <1>5, <1>19, <1>21, <1>8, <1>14, <1>16, <1>17, <1>18 DEF told, IsKey
<1>22. kbd.connected /\ n # 1 /\ IsKey(f) => (kbd'.synced = f.lock => remote'.lock = f.lock)
  BY <1>20 DEF told
<1>23. kbd.connected /\ n = 1 /\ user.focused => (kbd'.synced = user.lock => remote'.lock = user.lock)
  BY <1>21 DEF told
<1> HIDE DEF e, f, n
<1>24. events' # <<>> => events'[1] = f
  BY <1>1, <1>4
<1> QED
  BY <1>1, <1>9, <1>10, <1>11, <1>15, <1>22, <1>23, <1>24 DEF LockInv, IsKey

\* A character is typed with the modifiers and the lock the user meant.
LEMMA PageTyped ==
  ASSUME KeyTypes, PlainTyping, TypingInv, PageStep, TypedAsMeant
  PROVE  TypedAsMeant'
<1> DEFINE e == events[1]
<1>1. TakesDown(e) \/ TakesUp(e) \/ Ignores(e) \/ TakesBlur(e) \/ TakesFocus(e)
  BY DEF PageStep
<1>2. events # <<>> /\ 1 \in 1..Len(events)
  BY DEF PageStep, Shifted
<1> HIDE DEF e
<1>3. CASE TakesDown(e) /\ e.key = "KeyC"
  BY <1>3, PageModifiers, <1>2 DEF TakesDown, Coupled, e, TypingInv, LockInv, IsKey, TypedAsMeant
<1>4. CASE TakesDown(e) /\ e.key # "KeyC"
  BY <1>4 DEF TypedAsMeant, TakesDown
<1>5. CASE TakesUp(e) \/ Ignores(e) \/ TakesBlur(e) \/ TakesFocus(e)
  BY <1>5 DEF TypedAsMeant, TakesUp, Ignores, TakesBlur, TakesFocus, Rests
<1> QED
  BY <1>1, <1>3, <1>4, <1>5

-----------------------------------------------------------------------------
(* What the user does with a key.                                          *)

\* The events the browser adds, two for AltGr.
Pair(key) == key = "AltRight" /\ May("altGr")
Adds(type, key, held, lock) ==
  /\ Len(events) \in Nat /\ events' # <<>>
  /\ Len(events') = Len(events) + (IF Pair(key) THEN 2 ELSE 1)
  /\ \A i \in 1..Len(events) : events'[i] = events[i]
  /\ \A i \in Len(events) + 1..Len(events') :
       /\ events'[i].type = type /\ events'[i].mods = Meant(held)
       /\ events'[i].lock = user.lock /\ events'[i].now = lock
       /\ events'[i].key = IF i = Len(events') THEN key ELSE "ControlLeft"

KeyMoves(type, key, held, lock) ==
  /\ key \in env.keys /\ UNCHANGED <<link, kbd, remote>> /\ SameMay
  /\ user'.held = held /\ user'.lock = lock /\ user'.focused = user.focused /\ user'.typing = user.typing
  /\ \/ /\ type = "down" /\ held = user.held \cup {key} /\ "CapsLock" \notin user.held
        /\ CtrlAndAlt(held) => ~May("altGr") /\ ~kbd.fresh /\ events = <<>>
        /\ lock = IF key = "CapsLock" THEN 1 - user.lock ELSE user.lock
        /\ remote.share \/ (~Up /\ key = "CapsLock")
     \/ /\ type = "up" /\ held = user.held \ {key} /\ key \in user.held /\ lock = user.lock
        /\ remote.share \/ ~Up
  /\ IF user.focused /\ ~Hidden(type, key) THEN Adds(type, key, held, lock) ELSE events' = events

LEMMA Added ==
  ASSUME KeyTypes, NEW type \in {"down", "up"}, NEW key \in Keys, NEW held, NEW lock,
         events' = events \o Reported(type, key, held, user.lock, lock)
  PROVE  Adds(type, key, held, lock)
<1> DEFINE one == Event(type, "ControlLeft", held, user.lock, lock)
           two == Event(type, key, held, user.lock, lock)
           new == Reported(type, key, held, user.lock, lock)
<1>1. new = IF Pair(key) THEN <<one, two>> ELSE <<two>>
  BY ReportedIs DEF Pair
<1>2. /\ one.type = type /\ one.mods = Meant(held) /\ one.lock = user.lock /\ one.now = lock /\ one.key = "ControlLeft"
      /\ two.type = type /\ two.mods = Meant(held) /\ two.lock = user.lock /\ two.now = lock /\ two.key = key
  BY DEF Event
<1> HIDE DEF one, two, new
<1>3. \/ ~Pair(key) /\ new \in Seq({one, two}) /\ Len(new) = 1 /\ new[1] = two
      \/ Pair(key) /\ new \in Seq({one, two}) /\ Len(new) = 2 /\ new[1] = one /\ new[2] = two
  <2>1. CASE Pair(key)
    BY <1>1, <2>1
  <2>2. CASE ~Pair(key)
    BY <1>1, <2>2
  <2> QED
    BY <2>1, <2>2
<1>4. events \in Seq(EventType) /\ Len(events) \in Nat
  BY LenProperties DEF KeyTypes
<1> DEFINE S == EventType \cup {one, two}
<1>5. events \in Seq(S) /\ new \in Seq(S)
  BY <1>3, <1>4
<1>6. /\ Len(events \o new) = Len(events) + Len(new)
      /\ \A i \in 1..Len(events) + Len(new) :
           (events \o new)[i] = IF i <= Len(events) THEN events[i] ELSE new[i - Len(events)]
  BY <1>5, ConcatProperties
<1>7. events' = events \o new
  BY DEF new
<1>8. Len(events') = Len(events) + (IF Pair(key) THEN 2 ELSE 1) /\ Len(new) \in 1..2
  BY <1>3, <1>4, <1>6, <1>7
<1>9. \A i \in 1..Len(events) : events'[i] = events[i]
  BY <1>4, <1>6, <1>7, <1>8
<1>10. ASSUME NEW i \in Len(events) + 1..Len(events')
       PROVE  /\ events'[i].type = type /\ events'[i].mods = Meant(held)
              /\ events'[i].lock = user.lock /\ events'[i].now = lock
              /\ events'[i].key = IF i = Len(events') THEN key ELSE "ControlLeft"
  <2>1. events'[i] = new[i - Len(events)] /\ i - Len(events) \in 1..Len(new) /\ (i = Len(events') <=> i - Len(events) = Len(new))
    BY <1>4, <1>6, <1>7, <1>8
  <2>2. CASE Pair(key)
    <3>1. Len(new) = 2 /\ new[1] = one /\ new[2] = two
      BY <1>3, <2>2
    <3>2. i - Len(events) = 1 \/ i - Len(events) = 2
      BY <1>4, <2>1, <3>1
    <3> QED
      BY <1>2, <2>1, <3>1, <3>2
  <2>3. CASE ~Pair(key)
    <3>1. i - Len(events) = 1 /\ Len(new) = 1 /\ new[1] = two
      BY <1>3, <2>1, <2>3
    <3> QED
      BY <1>2, <2>1, <3>1
  <2> QED
    BY <2>2, <2>3
<1>11. events' # <<>>
  BY <1>4, <1>8
<1> QED
  BY <1>4, <1>8, <1>9, <1>10, <1>11 DEF Adds

LEMMA KeyMoved ==
  ASSUME LinkInv, KeyTypes, PlainTyping, NEW key \in env.keys, Press(key) \/ Repeat(key) \/ Release(key)
  PROVE  \E type \in {"down", "up"} : \E held, lock : KeyMoves(type, key, held, lock)
<1>1. /\ user \in UserType /\ key \in Keys /\ SameMay
      /\ ~May("rolls") /\ ~May("newLock") /\ ~May("typesOver") /\ ~May("ctrlAlt")
  BY LinkKeys DEF KeyNext, KeyTypes, LinkInv, EnvironmentType, SameLink, PlainTyping
<1>2. ASSUME NEW type \in {"down", "up"}, NEW held, NEW lock, Happens(type, key, held, user.lock, lock)
      PROVE  IF user.focused /\ ~Hidden(type, key) THEN Adds(type, key, held, lock) ELSE events' = events
  BY <1>1, <1>2, Added DEF Happens
<1>3. CASE Press(key)
  <2> DEFINE held == user.held \cup {key}
             lock == IF key = "CapsLock" THEN 1 - user.lock ELSE user.lock
  <2>1. /\ "CapsLock" \notin user.held /\ (CtrlAndAlt(held) => ~May("altGr") /\ ~kbd.fresh /\ events = <<>>)
        /\ remote.share \/ (~Up /\ key = "CapsLock")
        /\ user' = [user EXCEPT !.held = held, !.lock = lock] /\ Happens("down", key, held, user.lock, lock)
        /\ UNCHANGED <<link, kbd, remote>>
    BY <1>1, <1>3 DEF Press, Stroke, Distinct
  <2>2. user'.held = held /\ user'.lock = lock /\ user'.focused = user.focused /\ user'.typing = user.typing
    <3> HIDE DEF held, lock
    <3> QED
      BY <1>1, <2>1 DEF UserType
  <2>3. KeyMoves("down", key, held, lock)
    BY <1>1, <1>2, <2>1, <2>2 DEF KeyMoves
  <2> QED
    BY <2>3
<1>4. CASE Repeat(key)
  BY <1>1, <1>4, <1>2 DEF Repeat, Stroke, Distinct, KeyMoves
<1>5. CASE Release(key)
  <2> DEFINE held == user.held \ {key}
  <2>1. /\ key \in user.held /\ (remote.share \/ ~Up)
        /\ user' = [user EXCEPT !.held = held] /\ Happens("up", key, held, user.lock, user.lock)
        /\ UNCHANGED <<link, kbd, remote>>
    BY <1>1, <1>5 DEF Release
  <2>2. user'.held = held /\ user'.lock = user.lock /\ user'.focused = user.focused /\ user'.typing = user.typing
    <3> HIDE DEF held
    <3> QED
      BY <1>1, <2>1 DEF UserType
  <2>3. KeyMoves("up", key, held, user.lock)
    BY <1>1, <1>2, <2>1, <2>2 DEF KeyMoves
  <2> QED
    BY <2>3
<1> QED
  BY <1>3, <1>4, <1>5

\* What a key adds to what the user means.
LEMMA MeantMoves ==
  ASSUME PlainTyping, FocusInv, NEW type, NEW key, NEW held, NEW lock, KeyMoves(type, key, held, lock)
  PROVE  /\ type = "down" => Meant(held) = Meant(user.held) \cup ({MapCode(key)} \cap Shifts)
         /\ type = "up" => Meant(held) = Meant(user.held) \ {MapCode(key)}
         /\ Hidden(type, key) => Meant(held) = Meant(user.held)
         /\ "AltRight" \in Meant(held) <=> "AltRight" \in held
         /\ "AltRight" \in Meant(user.held) <=> "AltRight" \in user.held
         /\ ~May("mac") => /\ "ControlLeft" \in Meant(held) <=> "ControlLeft" \in held
                           /\ "ControlLeft" \in Meant(user.held) <=> "ControlLeft" \in user.held
BY DEF Shifts, Modifiers, PlainTyping, KeyMoves, Meant, FocusInv, MapCode, Hidden

LEMMA MovedFocus ==
  ASSUME KeyTypes, ActiveInv, PlainTyping, TypingInv, NEW type, NEW key, NEW held, NEW lock, KeyMoves(type, key, held, lock)
  PROVE  FocusInv' /\ EventInv'
<1> DEFINE n == Len(events)
           m == Len(events')
<1>1. /\ UNCHANGED <<link, kbd, remote>> /\ SameMay /\ type \in {"down", "up"} /\ key \in env.keys
      /\ user'.held = held /\ user'.lock = lock /\ user'.focused = user.focused /\ user'.typing = user.typing
      /\ held = user.held \cup {key} \/ held = user.held \ {key}
      /\ IF user.focused /\ ~Hidden(type, key) THEN Adds(type, key, held, lock) ELSE events' = events
  BY DEF KeyMoves
<1>2. FocusInv /\ EventInv
  BY DEF TypingInv
<1>3. kbd.connected => Up /\ remote.share
  BY DEF ActiveInv, KeyMoves
<1>4. ~kbd.connected => held \subseteq {"CapsLock"}
  BY <1>2 DEF ActiveInv, KeyMoves, FocusInv
<1>5. held \subseteq {"CapsLock"} => Meant(held) = {}
  BY DEF Meant, MapCode, Shifts
<1>6. n \in Nat /\ m \in Nat
  BY LenProperties DEF KeyTypes, Adds, KeyMoves
<1>7. ASSUME NEW i \in 1..m
      PROVE  \/ i \in 1..n /\ events'[i] = events[i]
             \/ /\ i \notin 1..n /\ user.focused
                /\ events'[i].type = type /\ events'[i].mods = Meant(held)
                /\ events'[i].key = key \/ (May("altGr") /\ events'[i].key = "ControlLeft")
  BY <1>6, <1>1 DEF Adds, Pair
<1>8. user.focused \/ events' = events
  BY <1>1
<1>9. events' = events \/ events' # <<>>
  BY <1>1 DEF Adds
<1>10. FocusInv'
  <2>1. ~kbd.connected => \A i \in 1..m : events'[i].mods = {}
    BY <1>2, <1>4, <1>5, <1>7 DEF FocusInv
  <2> HIDE DEF n, m
  <2> QED
    BY <1>1, <1>2, <1>3, <1>4, <2>1 DEF FocusInv, SameMay, May, m
<1>11. ASSUME NEW i \in 1..m
       PROVE  /\ events'[i].type = "blur" => i = m
              /\ events'[i].type = "focus" => i = 1
              /\ IsKey(events'[i]) => events'[i].key \in env.keys \/ (May("altGr") /\ events'[i].key = "ControlLeft")
  BY <1>2, <1>8, <1>1, <1>7 DEF EventInv
<1>12. user.focused => \A i \in 1..m : events'[i].type # "blur"
  BY <1>1, <1>2, <1>7 DEF EventInv
<1>13. ~user.focused => events' = <<>> \/ events'[m].type = "blur"
  BY <1>2, <1>8 DEF EventInv
<1>14. EventInv'
  <2> HIDE DEF n, m
  <2> QED
    BY <1>1, <1>11, <1>12, <1>13 DEF EventInv, IsKey, SameMay, May, m
<1> QED
  BY <1>10, <1>14

LEMMA MovedLift ==
  ASSUME KeyTypes, PlainTyping, TypingInv, NEW type, NEW key, NEW held, NEW lock, KeyMoves(type, key, held, lock)
  PROVE  LiftInv' /\ CapsInv'
<1> DEFINE n == Len(events)
           m == Len(events')
<1>1. /\ UNCHANGED <<link, kbd, remote>> /\ SameMay /\ type \in {"down", "up"} /\ key \in env.keys
      /\ user'.held = held /\ user'.focused = user.focused
      /\ IF user.focused /\ ~Hidden(type, key) THEN Adds(type, key, held, lock) ELSE events' = events
  BY DEF KeyMoves
<1>2. LiftInv /\ CapsInv
  BY DEF TypingInv
<1>3. n \in Nat /\ m \in Nat /\ n <= m /\ \A i \in 1..n : events'[i] = events[i]
  BY <1>1, LenProperties DEF KeyTypes, Adds
<1>4. ASSUME NEW k, NEW i \in Nat, NEW j \in Nat, i >= 1, j <= n, Lifted(i, j, k)
      PROVE  \A l \in Nat : l >= j => Lifted(i, l, k)'
  BY <1>4, <1>3, <1>1 DEF Lifted, Lifts, SameMay, May
<1>5. "CapsLock" \in Modifiers /\ "KeyC" \notin Modifiers /\ "MetaLeft" \in Modifiers
  BY DEF Modifiers
<1>6. ASSUME NEW k \in Lasting, Holds(k), ~Holds(k)'
      PROVE  m > n /\ Lifts(events'[m], k)
  BY <1>1, <1>6, <1>5, <1>3 DEF Holds, SameMay, May, KeyMoves, Hidden, Adds, Lifts
<1>7. ASSUME NEW k \in Lasting, NEW i \in Nat, i >= 1, i <= n + 1, Holds(k) \/ Lifted(i, n, k)
      PROVE  Holds(k)' \/ Lifted(i, Len(events), k)'
  BY <1>3, <1>4, <1>7, <1>6, <1>1 DEF Lifted, Lifts, SameMay, May
<1>8. ASSUME NEW i \in 1..m, i \notin 1..n
      PROVE  /\ Adds(type, key, held, lock) /\ user.focused /\ events'[i].type = type
             /\ events'[i].key \in {key, "ControlLeft"} /\ (i # m => i = n + 1 /\ m = n + 2 /\ events'[i].key = "ControlLeft")
  BY <1>1, <1>8, <1>3 DEF Adds
<1>9. ASSUME NEW k \in Lasting
      PROVE  /\ k \in kbd'.held => Holds(k)' \/ Lifted(1, Len(events), k)'
             /\ \A i \in 1..m : events'[i].type = "down" /\ events'[i].key = k =>
                  Holds(k)' \/ Lifted(i + 1, Len(events), k)'
  BY <1>1, <1>2, <1>3, <1>7, <1>8 DEF LiftInv, Lasting, KeyMoves, Holds
<1>10. LiftInv'
  <2> HIDE DEF n
  <2> QED
    BY <1>9 DEF LiftInv
<1>11. "CapsLock" \in Lasting
  BY DEF Lasting
<1>12. ASSUME NEW j \in 1..m, events'[j].type = "down"
       PROVE  /\ "CapsLock" \in kbd'.held => Lifted(1, j - 1, "CapsLock")'
              /\ \A i \in 1..j - 1 : events'[i].type = "down" /\ events'[i].key = "CapsLock" => Lifted(i + 1, j - 1, "CapsLock")'
  <2>1. CASE j \in 1..n
    <3>1. events'[j] = events[j] /\ j - 1 \in Nat /\ j - 1 <= n
      BY <1>3, <2>1
    <3>2. "CapsLock" \in kbd'.held => Lifted(1, j - 1, "CapsLock")'
      BY <1>1, <1>2, <1>12, <2>1, <3>1, <1>4 DEF CapsInv
    <3>3. ASSUME NEW i \in 1..j - 1, events'[i].type = "down", events'[i].key = "CapsLock"
          PROVE  Lifted(i + 1, j - 1, "CapsLock")'
      <4>1. i \in 1..n /\ i + 1 \in Nat /\ i + 1 >= 1
        BY <1>3, <2>1
      <4>2. Lifted(i + 1, j - 1, "CapsLock")
        BY <1>2, <1>3, <1>12, <2>1, <3>1, <3>3, <4>1 DEF CapsInv
      <4> QED
        BY <1>4, <3>1, <4>1, <4>2
    <3> QED
      BY <3>2, <3>3
  <2>2. CASE j \notin 1..n
    <3>1. type = "down" /\ ~Holds("CapsLock") /\ j - 1 \in Nat /\ j - 1 >= n
      BY <1>8, <1>12, <2>2, <1>3, <1>5 DEF KeyMoves, Holds
    <3>2. "CapsLock" \in kbd'.held => Lifted(1, j - 1, "CapsLock")'
      BY <1>1, <1>2, <1>11, <3>1, <1>3, <1>4 DEF LiftInv
    <3>3. ASSUME NEW i \in 1..j - 1, events'[i].type = "down", events'[i].key = "CapsLock"
          PROVE  Lifted(i + 1, j - 1, "CapsLock")'
      BY <1>3, <1>8, <3>3, <1>2, <1>11, <3>1, <1>4 DEF LiftInv
    <3> QED
      BY <3>2, <3>3
  <2> QED
    BY <2>1, <2>2
<1>13. CapsInv'
  <2> HIDE DEF n
  <2> QED
    BY <1>12 DEF CapsInv
<1> QED
  BY <1>10, <1>13

\* The modifiers of the events that are added follow from what the user held.
LEMMA AddedMods ==
  ASSUME PlainTyping, FocusInv, AltInv, NEW type, NEW key, NEW held, NEW lock, KeyMoves(type, key, held, lock),
         Adds(type, key, held, lock), NEW i \in Len(events) + 1..Len(events')
  PROVE  events'[i].mods = After(IF i = Len(events) + 1 THEN Meant(user.held) ELSE Meant(held), events'[i])
<1> DEFINE f      == events'[i]
           before == IF i = Len(events) + 1 THEN Meant(user.held) ELSE Meant(held)
<1>1. /\ f.type = type /\ f.mods = Meant(held) /\ f.key = IF i = Len(events') THEN key ELSE "ControlLeft"
      /\ (i # Len(events') => i = Len(events) + 1)
      /\ (Pair(key) => Len(events') = Len(events) + 2) /\ (~Pair(key) => Len(events') = Len(events) + 1)
      /\ Len(events) \in Nat
  BY DEF Adds
<1>2. type = "down" \/ type = "up"
  BY DEF KeyMoves
<1>3. "AltRight" \in Shifts /\ MapCode("AltRight") = "AltRight"
  BY DEF Shifts, Modifiers, MapCode
<1>4. /\ type = "down" => Meant(held) = Meant(user.held) \cup ({MapCode(key)} \cap Shifts)
      /\ type = "up" => Meant(held) = Meant(user.held) \ {MapCode(key)}
      /\ "AltRight" \in Meant(held) <=> "AltRight" \in held
      /\ "AltRight" \in Meant(user.held) <=> "AltRight" \in user.held
  BY MeantMoves
<1>5. May("altGr") /\ type = "down" => ~("ControlLeft" \in held /\ "AltRight" \in held) /\ key \in held
  BY DEF KeyMoves, CtrlAndAlt
<1>6. May("altGr") /\ type = "up" => ~("ControlLeft" \in user.held /\ "AltRight" \in user.held) /\ key \in user.held
  BY DEF KeyMoves, AltInv, CtrlAltGr
<1> HIDE DEF f
<1>7. CASE ~Pair(key)
  BY <1>1, <1>7, <1>4, <1>5, <1>6, <1>2 DEF Coupled, After, f
<1>8. CASE Pair(key)
  BY <1>8, <1>1, <1>3, <1>4, <1>2, <1>6 DEF Pair, Coupled, After, f
<1> QED
  BY <1>7, <1>8 DEF f

LEMMA MovedMod ==
  ASSUME KeyTypes, PlainTyping, TypingInv, NEW type, NEW key, NEW held, NEW lock, KeyMoves(type, key, held, lock)
  PROVE  ModInv'
<1> DEFINE n == Len(events)
           m == Len(events')
<1>1. /\ UNCHANGED kbd /\ SameMay
      /\ user'.held = held /\ user'.focused = user.focused /\ user'.typing = user.typing
      /\ IF user.focused /\ ~Hidden(type, key) THEN Adds(type, key, held, lock) ELSE events' = events
  BY DEF KeyMoves
<1>2. ModInv /\ FocusInv /\ AltInv
  BY DEF TypingInv
<1>3. \A S : Meant(S)' = Meant(S')
  BY <1>1 DEF Meant, MapCode, SameMay, May
<1>4. Target' = IF user.focused THEN Meant(held) ELSE {}
  BY <1>1 DEF Target, Meant, MapCode, SameMay, May
<1>5. CASE events' = events /\ ~(user.focused /\ ~Hidden(type, key))
  <2>1. Target' = Target
    BY <1>2, <1>5, MeantMoves, <1>4 DEF Target
  <2>2. Standing' = Standing /\ \A b, f : After(b, f)' = After(b', f')
    BY <1>1, <1>5 DEF Standing, GoesDown, After, Coupled, MapCode, SameMay, May
  <2> QED
    BY <1>1, <1>2, <1>5, <2>1, <2>2 DEF ModInv, After, Coupled, MapCode, SameMay, May
<1>6. CASE user.focused /\ Adds(type, key, held, lock)
  <2>1. /\ n \in Nat /\ m \in Nat /\ n < m /\ \A i \in 1..n : events'[i] = events[i]
        /\ events' # <<>> /\ m \in n + 1..m /\ m \in 1..m /\ 1 \in 1..m
    BY <1>6 DEF Adds
  <2>2. \A i \in n + 1..m : events'[i].mods = Meant(held)
    BY <1>6 DEF Adds
  <2>3. \A i \in n + 1..m : events'[i].mods = After(IF i = n + 1 THEN Meant(user.held) ELSE Meant(held), events'[i])
    BY <1>2, <1>6, AddedMods
  <2>4. events'[m].mods = Target'
    BY <1>4, <1>6, <2>1, <2>2
  <2>5. n = 0 <=> events = <<>>
    BY EmptySeq DEF KeyTypes
  <2>6. Target = Meant(user.held)
    BY <1>6 DEF Target
  <2>7. ASSUME NEW i \in 1..m - 1 PROVE events'[i + 1].mods = After(events'[i].mods, events'[i + 1])
    BY <2>1, <1>2, <2>5, <2>6, <2>3, <2>2 DEF ModInv
  <2>8. ASSUME ~user.typing PROVE events'[1].mods = After(Standing', events'[1])
    <3>1. CASE events # <<>>
      <4>1. events'[1] = events[1]
        BY <2>1, <2>5, <3>1
      <4>2. Standing' = Standing
        BY <1>1, <2>1, <3>1, <4>1 DEF Standing, GoesDown, SameMay, May
      <4> QED
        BY <1>2, <2>8, <3>1, <4>1, <4>2 DEF ModInv
    <3>2. CASE events = <<>>
      <4>1. kbd.held \cap Shifts = Meant(user.held)
        BY <1>2, <2>6, <2>8, <3>2 DEF ModInv
      <4>2. 1 \in n + 1..m /\ 1 = n + 1
        BY <2>1, <2>5, <3>2
      <4>3. May("altGr") => events'[1].key # "AltRight"
        BY <1>6, <2>1, <4>2 DEF Adds, Pair
      <4>4. Standing' = kbd.held \cap Shifts
        BY <1>1, <4>3 DEF Standing, GoesDown, SameMay, May
      <4> QED
        BY <2>3, <4>1, <4>2, <4>4
    <3> QED
      BY <3>1, <3>2
  <2> HIDE DEF n
  <2> QED
    BY <1>1, <2>1, <2>4, <2>7, <2>8 DEF ModInv, After, Coupled, MapCode, SameMay, May
<1> QED
  BY <1>1, <1>5, <1>6

LEMMA MovedAlt ==
  ASSUME KeyTypes, PlainTyping, TypingInv, NEW type, NEW key, NEW held, NEW lock, KeyMoves(type, key, held, lock)
  PROVE  AltInv' /\ CtrlInv'
<1> DEFINE n == Len(events)
           m == Len(events')
<1>1. /\ UNCHANGED kbd /\ SameMay /\ type \in {"down", "up"}
      /\ user'.held = held /\ user'.focused = user.focused /\ user'.typing = user.typing
      /\ (IF user.focused /\ ~Hidden(type, key) THEN Adds(type, key, held, lock) ELSE events' = events)
      /\ type = "down" => held = user.held \cup {key} /\ (CtrlAndAlt(held) => ~May("altGr") /\ ~kbd.fresh /\ events = <<>>)
      /\ type = "up" => held = user.held \ {key} /\ key \in user.held
  BY DEF KeyMoves
<1>2. ModInv /\ FocusInv /\ AltInv /\ CtrlInv
  BY DEF TypingInv
<1>3. /\ "AltRight" \in Meant(held) <=> "AltRight" \in held
      /\ "AltRight" \in Meant(user.held) <=> "AltRight" \in user.held
      /\ ~May("mac") => /\ "ControlLeft" \in Meant(held) <=> "ControlLeft" \in held
                        /\ "ControlLeft" \in Meant(user.held) <=> "ControlLeft" \in user.held
  BY <1>2, MeantMoves
<1>4. (May("altGr") => May("windows")) /\ (May("windows") => ~May("mac"))
  BY DEF PlainTyping
<1>5. May("altGr") => ~(CtrlAltGr \subseteq held) /\ ~(CtrlAltGr \subseteq user.held)
  BY <1>1, <1>2 DEF AltInv, CtrlAltGr, CtrlAndAlt
<1>6. CASE events' = events
  BY <1>1, <1>2, <1>5, <1>6 DEF AltInv, CtrlInv, GoesDown, Coupled, CtrlAltGr, SameMay, May
<1>7. CASE user.focused /\ Adds(type, key, held, lock)
  <2>1. /\ n \in Nat /\ m \in Nat /\ n < m /\ \A i \in 1..n : events'[i] = events[i]
        /\ events' # <<>> /\ m \in n + 1..m /\ m \in 1..m /\ 1 \in 1..m
        /\ (Pair(key) => m = n + 2) /\ (~Pair(key) => m = n + 1)
    BY <1>7 DEF Adds
  <2>2. \A i \in n + 1..m : /\ events'[i].mods = Meant(held) /\ events'[i].type = type
                            /\ events'[i].key = IF i = m THEN key ELSE "ControlLeft"
    BY <1>7 DEF Adds
  <2>3. n = 0 <=> events = <<>>
    BY EmptySeq DEF KeyTypes
  <2>4. Target = Meant(user.held)
    BY <1>7 DEF Target
  <2>5. ASSUME May("altGr") PROVE AltInv'
    <3>1. /\ \A i \in 1..n : ~(CtrlAltGr \subseteq events[i].mods)
          /\ \A i \in 1..n : events[i].type = "down" /\ Coupled(events[i], events[i].mods) =>
               /\ i < n /\ events[i + 1].type = "down" /\ events[i + 1].key = "AltRight"
               /\ events[i + 1].mods = events[i].mods
          /\ \A i \in 1..n - 1 : events[i + 1].type = "up" /\ Coupled(events[i + 1], events[i].mods) =>
               i + 1 < n /\ events[i + 2].type = "up" /\ events[i + 2].key = "AltRight"
          /\ events # <<>> /\ events[1].type = "up" /\ Coupled(events[1], kbd.held) =>
               1 < n /\ events[2].type = "up" /\ events[2].key = "AltRight"
          /\ CtrlAltGr \subseteq kbd.held => GoesDown("AltRight")
          /\ GoesDown("AltRight") /\ "ControlLeft" \in kbd.held => kbd.fresh
      BY <1>2, <2>5 DEF AltInv
    <3>2. \A i \in 1..m : i \in 1..n \/ i \in n + 1..m
      BY <2>1
    <3>3. ASSUME NEW i \in 1..m PROVE ~(CtrlAltGr \subseteq events'[i].mods)
      BY <2>1, <3>1, <1>3, <1>4, <1>5, <2>5, <2>2, <3>2 DEF CtrlAltGr
    <3>4. ASSUME NEW i \in 1..m, events'[i].type = "down", Coupled(events'[i], events'[i].mods)
          PROVE  /\ i < m /\ events'[i + 1].type = "down" /\ events'[i + 1].key = "AltRight"
                 /\ events'[i + 1].mods = events'[i].mods
      <4>1. CASE i \in 1..n
        BY <2>1, <4>1, <3>1, <3>4
      <4>2. CASE i \in n + 1..m
        BY <2>2, <3>4, <4>2, <1>1, <1>3, <1>5, <2>5, <2>1 DEF Coupled, CtrlAltGr, Pair
      <4> QED
        BY <3>2, <4>1, <4>2
    <3>5. ASSUME NEW i \in 1..m - 1, events'[i + 1].type = "up", Coupled(events'[i + 1], events'[i].mods)
          PROVE  i + 1 < m /\ events'[i + 2].type = "up" /\ events'[i + 2].key = "AltRight"
      <4>1. CASE i \in 1..n - 1
        <5>1. events'[i] = events[i] /\ events'[i + 1] = events[i + 1]
          BY <2>1, <4>1
        <5>2. i + 1 < n /\ events[i + 2].type = "up" /\ events[i + 2].key = "AltRight"
          BY <3>1, <3>5, <4>1, <5>1
        <5>3. i + 2 \in 1..n /\ i + 1 < m
          BY <2>1, <4>1, <5>2
        <5> QED
          BY <2>1, <5>2, <5>3
      <4>2. CASE i = n
        <5>1. i + 1 \in n + 1..m /\ i + 1 = n + 1 /\ events # <<>> /\ events'[i] = events[n]
          BY <2>1, <2>3, <4>2
        <5>2. events'[i].mods = Meant(user.held)
          BY <1>2, <2>4, <5>1 DEF ModInv
        <5>3. events'[i + 1].key = "ControlLeft" /\ "AltRight" \in user.held /\ type = "up"
          BY <1>3, <2>2, <3>5, <5>1, <5>2 DEF Coupled
        <5>4. i + 1 # m
          BY <2>2, <5>1, <5>3, <1>1, <1>5, <2>5 DEF CtrlAltGr
        <5>5. Pair(key) /\ i + 2 = m /\ i + 2 \in n + 1..m /\ i + 1 < m
          BY <2>1, <5>1, <5>4
        <5> QED
          BY <2>2, <5>3, <5>5 DEF Pair
      <4>3. CASE i > n
        BY <2>1, <4>3, <2>2, <3>5 DEF Pair, Coupled
      <4> QED
        BY <2>1, <4>1, <4>2, <4>3
    <3>6. ASSUME events'[1].type = "up", Coupled(events'[1], kbd.held)
          PROVE  1 < m /\ events'[2].type = "up" /\ events'[2].key = "AltRight"
      <4>1. CASE events # <<>>
        BY <2>1, <2>3, <4>1, <3>1, <3>6
      <4>2. CASE events = <<>>
        <5>1. 1 \in n + 1..m /\ n = 0
          BY <2>1, <2>3, <4>2
        <5>2. events'[1].key = "ControlLeft" /\ "AltRight" \in kbd.held /\ type = "up"
          BY <2>2, <3>6, <5>1 DEF Coupled
        <5>3. "AltRight" \in user.held
          BY <1>2, <5>2, <2>4, <4>2, <1>3 DEF FocusInv, ModInv, Shifts, Modifiers
        <5>4. 1 # m
          BY <2>2, <5>1, <5>2, <1>1, <1>5, <2>5, <5>3 DEF CtrlAltGr
        <5>5. Pair(key) /\ 2 = m /\ 2 \in n + 1..m /\ 1 < m
          BY <2>1, <5>1, <5>4
        <5> QED
          BY <2>2, <5>2, <5>5 DEF Pair
      <4> QED
        BY <4>1, <4>2
    <3>7. GoesDown("AltRight")' <=> GoesDown("AltRight")
      BY <2>1, <2>3, <2>5, <2>2 DEF GoesDown, Pair
    <3> HIDE DEF n, m
    <3>8. /\ \A i \in 1..Len(events') : ~(CtrlAltGr \subseteq events'[i].mods)
          /\ CtrlAltGr \subseteq kbd'.held => GoesDown("AltRight")'
          /\ GoesDown("AltRight")' /\ "ControlLeft" \in kbd'.held => kbd'.fresh
          /\ ~(CtrlAltGr \subseteq user'.held)
      BY <1>1, <1>5, <2>5, <3>1, <3>3, <3>7 DEF m
    <3> QED
      BY <1>1, <3>4, <3>5, <3>6, <3>8 DEF AltInv, Coupled, CtrlAltGr, SameMay, May, m
  <2>6. ASSUME ~May("altGr") PROVE AltInv'
    BY <1>1, <2>6 DEF AltInv, SameMay, May
  <2>7. ASSUME May("windows"), ~May("altGr"), NEW i \in 1..m, events'[i].type = "down", events'[i].key = "AltRight",
               "ControlLeft" \in events'[i].mods
        PROVE  i = 1 /\ ~kbd.fresh
    BY <1>2, <2>1, <2>7, <1>3, <1>4, <2>2, <1>1, <2>3 DEF CtrlInv, CtrlAndAlt, Pair
  <2>8. CtrlInv'
    BY <1>1, <2>7 DEF CtrlInv, SameMay, May
  <2> QED
    BY <2>5, <2>6, <2>8
<1> QED
  BY <1>1, <1>6, <1>7

LEMMA MovedLock ==
  ASSUME KeyTypes, PlainTyping, TypingInv, NEW type, NEW key, NEW held, NEW lock, KeyMoves(type, key, held, lock)
  PROVE  LockInv'
<1> DEFINE n == Len(events)
           m == Len(events')
<1>1. /\ UNCHANGED <<kbd, remote>> /\ SameMay /\ type \in {"down", "up"}
      /\ user'.lock = lock /\ user'.focused = user.focused /\ user'.typing = user.typing
      /\ (IF user.focused /\ ~Hidden(type, key) THEN Adds(type, key, held, lock) ELSE events' = events)
      /\ lock = IF type = "down" /\ key = "CapsLock" THEN 1 - user.lock ELSE user.lock
  BY DEF KeyMoves
<1>2. LockInv
  BY DEF TypingInv
<1>3. CASE events' = events /\ ~(user.focused /\ ~Hidden(type, key))
  BY <1>1, <1>3, <1>2 DEF Hidden, LockInv, IsKey
<1>4. CASE user.focused /\ Adds(type, key, held, lock)
  <2>1. /\ n \in Nat /\ m \in Nat /\ n < m /\ \A i \in 1..n : events'[i] = events[i]
        /\ events' # <<>> /\ m \in n + 1..m /\ m \in 1..m /\ 1 \in 1..m
        /\ (Pair(key) => m = n + 2) /\ (~Pair(key) => m = n + 1)
    BY <1>4 DEF Adds
  <2>2. \A i \in n + 1..m : /\ events'[i].lock = user.lock /\ events'[i].now = lock /\ events'[i].type = type
                            /\ events'[i].key = IF i = m THEN key ELSE "ControlLeft"
    BY <1>4 DEF Adds
  <2>3. n = 0 <=> events = <<>>
    BY EmptySeq DEF KeyTypes
  <2>4. Pair(key) => lock = user.lock
    BY <1>1 DEF Pair
  <2>5. ASSUME NEW i \in 1..m, IsKey(events'[i])
        PROVE  events'[i].now = IF events'[i].type = "down" /\ events'[i].key = "CapsLock" THEN 1 - events'[i].lock
                                ELSE events'[i].lock
    <3>1. CASE i \in 1..n
      BY <1>2, <2>1, <2>5, <3>1 DEF LockInv
    <3>2. CASE i \in n + 1..m
      BY <2>1, <3>2, <1>1, <2>2, <2>4
    <3> QED
      BY <2>1, <3>1, <3>2
  <2>6. ASSUME NEW i \in 1..m - 1, IsKey(events'[i]), IsKey(events'[i + 1])
        PROVE  events'[i + 1].lock = events'[i].now
    <3>1. CASE i \in 1..n - 1
      BY <2>1, <3>1, <1>2, <2>6 DEF LockInv
    <3>2. CASE i = n
      BY <2>1, <2>3, <3>2, <1>2, <1>4, <2>6, <2>2 DEF LockInv
    <3>3. CASE i > n
      BY <2>1, <3>3, <2>2, <2>4
    <3> QED
      BY <2>1, <3>1, <3>2, <3>3
  <2>7. events'[m].now = lock
    BY <2>1, <2>2
  <2>8. ASSUME kbd.connected, IsKey(events'[1]), kbd.synced = events'[1].lock PROVE remote.lock = events'[1].lock
    BY <2>1, <2>3, <1>2, <2>8, <2>2, <1>4 DEF LockInv
  <2>9. kbd.connected /\ user.typing => kbd.synced \in {Unknown, remote.lock}
    BY <1>2 DEF LockInv
  <2> HIDE DEF n, m
  <2> QED
    BY <1>1, <2>1, <2>5, <2>6, <2>7, <2>8, <2>9 DEF LockInv, IsKey, m
<1> QED
  BY <1>1, <1>3, <1>4

-----------------------------------------------------------------------------
(* Where the focus goes, the session and the other channels.               *)

LEMMA MovedKey ==
  ASSUME KeyTypes, ActiveInv, PlainTyping, TypingInv, NEW type, NEW key, NEW held, NEW lock, KeyMoves(type, key, held, lock)
  PROVE  TypingInv' /\ (TypedAsMeant => TypedAsMeant')
BY MovedFocus, MovedLift, MovedMod, MovedAlt, MovedLock DEF KeyMoves, TypingInv, TypedAsMeant

\* When the user holds no key, and all is handled, nothing is down.
LEMMA IdleRests ==
  ASSUME KeyTypes, TypingInv, Idle
  PROVE  kbd.held = {}
<1>1. user.held = {} /\ events = <<>> /\ Len(events) = 0
  BY DEF Idle
<1>2. CASE user.typing
  BY <1>2 DEF TypingInv, FocusInv
<1>3. CASE ~user.typing
  <2>1. kbd.held \cap Shifts = {}
    BY <1>1, <1>3 DEF TypingInv, ModInv, Target, Meant
  <2>2. \A key \in Lasting : ~Holds(key) /\ ~Lifted(1, Len(events), key)
    BY <1>1 DEF Holds, Lifted
  <2>3. "KeyC" \notin kbd.held /\ "CapsLock" \notin kbd.held
    BY <2>2 DEF TypingInv, LiftInv, Lasting
  <2>4. "Soft" \notin kbd.held /\ kbd.held \subseteq Keys
    BY DEF TypingInv, FocusInv, KeyTypes, KbdType
  <2>5. \A key \in Keys : key \in Shifts \/ key \in {"KeyC", "CapsLock", "Soft"}
    BY DEF Keys, Shifts, Modifiers
  <2> QED
    BY <2>1, <2>3, <2>4, <2>5
<1> QED
  BY <1>2, <1>3

\* The window loses the focus.
LEMMA BlurStep ==
  ASSUME KeyTypes, LinkInv, PlainTyping, TypingInv, FocusMoves, user.focused
  PROVE  TypingInv'
<1> DEFINE n == Len(events)
           m == Len(events')
           b == Event("blur", None, {}, 0, 0)
<1>1. /\ May("blurs") /\ SameMay /\ UNCHANGED <<link, kbd, remote>>
      /\ events' = Append(events, b) /\ user' = [user EXCEPT !.focused = ~@]
  BY LinkKeys DEF KeyNext, FocusMoves, SameLink
<1>2. user'.held = user.held /\ user'.lock = user.lock /\ ~user'.focused /\ user'.typing = user.typing
  BY <1>1 DEF KeyTypes, UserType
<1>3. b.type = "blur" /\ b.mods = {}
  BY DEF Event, Meant
<1> HIDE DEF b
<1>4. /\ n \in Nat /\ m = n + 1 /\ events' # <<>>
      /\ \A i \in 1..n : events'[i] = events[i]
      /\ events'[m].type = "blur" /\ events'[m].mods = {} /\ m \in 1..m
      /\ \A i \in 1..m : i \in 1..n \/ i = m
  BY MeantType, <1>1, Pushed, EmptySeq, <1>3 DEF b, Event, EventType, KeyTypes
<1>5. n = 0 <=> events = <<>>
  BY EmptySeq DEF KeyTypes
<1>6. events # <<>> => events'[1] = events[1] /\ 1 \in 1..n
  BY <1>4, <1>5
<1>7. events = <<>> => events'[1].type = "blur" /\ events'[1].mods = {}
  BY <1>4, <1>5
<1>8. FocusInv /\ EventInv /\ LiftInv /\ CapsInv /\ ModInv /\ AltInv /\ CtrlInv /\ LockInv
  BY DEF TypingInv
<1>9. FocusInv'
  BY <1>4, <1>8, <1>1, <1>2 DEF FocusInv, SameMay, May
<1>10. EventInv'
  <2>1. ASSUME NEW i \in 1..m
        PROVE  /\ events'[i].type = "blur" => i = m
               /\ events'[i].type = "focus" => i = 1
               /\ IsKey(events'[i]) => events'[i].key \in env.keys \/ (May("altGr") /\ events'[i].key = "ControlLeft")
    BY <1>4, <1>8 DEF EventInv, IsKey
  <2> HIDE DEF n
  <2> QED
    BY <1>1, <1>2, <1>4, <2>1 DEF EventInv, IsKey, SameMay, May
<1>11. \A key, i : i \in 1..m => Lifted(i, Len(events), key)'
  BY <1>4 DEF Lifted, Lifts
<1>12. LiftInv'
  <2>1. ASSUME NEW key \in Lasting, NEW i \in 1..m, events'[i].type = "down" PROVE Lifted(i + 1, Len(events), key)'
    BY <1>4, <2>1, <1>11
  <2>2. 1 \in 1..m
    BY <1>4
  <2> HIDE DEF n
  <2> QED
    BY <1>11, <2>1, <2>2 DEF LiftInv
<1>13. CapsInv'
  <2>1. ASSUME NEW i \in Nat, NEW j \in Nat, NEW key, i >= 1, j <= n, Lifted(i, j, key) PROVE Lifted(i, j, key)'
    BY <2>1, <1>4, <1>1 DEF Lifted, Lifts, SameMay, May
  <2>2. ASSUME NEW j \in 1..m, events'[j].type = "down"
        PROVE  /\ "CapsLock" \in kbd'.held => Lifted(1, j - 1, "CapsLock")'
               /\ \A i \in 1..j - 1 : events'[i].type = "down" /\ events'[i].key = "CapsLock" => Lifted(i + 1, j - 1, "CapsLock")'
    <3>1. j \in 1..n /\ j - 1 \in Nat /\ j - 1 <= n /\ events[j].type = "down"
      BY <1>4, <2>2
    <3>2. "CapsLock" \in kbd'.held => Lifted(1, j - 1, "CapsLock")'
      BY <1>1, <1>8, <2>1, <3>1 DEF CapsInv
    <3>3. ASSUME NEW i \in 1..j - 1, events'[i].type = "down", events'[i].key = "CapsLock"
          PROVE  Lifted(i + 1, j - 1, "CapsLock")'
      BY <3>1, <1>4, <1>8, <3>3, <2>1 DEF CapsInv
    <3> QED
      BY <3>2, <3>3
  <2> HIDE DEF n
  <2> QED
    BY <2>2 DEF CapsInv
<1>14. \A before, e : e.type = "blur" => After(before, e) = {}
  BY DEF After
<1>15. ModInv'
  <2>1. Target' = {}
    BY <1>2 DEF Target
  <2>2. ASSUME NEW i \in 1..m - 1 PROVE events'[i + 1].mods = After(events'[i].mods, events'[i + 1])
    <3>1. CASE i + 1 = m
      BY <1>4, <1>14, <3>1
    <3>2. CASE i + 1 # m
      BY <1>4, <3>2, <1>8 DEF ModInv
    <3> QED
      BY <3>1, <3>2
  <2>3. ASSUME ~user.typing PROVE events'[1].mods = After(Standing', events'[1])
    BY <1>1, <1>4, <1>6, <1>8, <2>3, <1>7, <1>14 DEF Standing, GoesDown, SameMay, May, ModInv
  <2> HIDE DEF n
  <2> QED
    BY <1>1, <1>2, <1>4, <2>1, <2>2, <2>3 DEF ModInv, After, Coupled, MapCode, SameMay, May
<1>16. AltInv'
  <2>1. ASSUME May("altGr") PROVE AltInv'
    <3>1. /\ ~(CtrlAltGr \subseteq user.held)
          /\ \A i \in 1..n : ~(CtrlAltGr \subseteq events[i].mods)
          /\ \A i \in 1..n : events[i].type = "down" /\ Coupled(events[i], events[i].mods) =>
               /\ i < n /\ events[i + 1].type = "down" /\ events[i + 1].key = "AltRight"
               /\ events[i + 1].mods = events[i].mods
          /\ \A i \in 1..n - 1 : events[i + 1].type = "up" /\ Coupled(events[i + 1], events[i].mods) =>
               i + 1 < n /\ events[i + 2].type = "up" /\ events[i + 2].key = "AltRight"
          /\ events # <<>> /\ events[1].type = "up" /\ Coupled(events[1], kbd.held) =>
               1 < n /\ events[2].type = "up" /\ events[2].key = "AltRight"
          /\ CtrlAltGr \subseteq kbd.held => GoesDown("AltRight")
          /\ GoesDown("AltRight") /\ "ControlLeft" \in kbd.held => kbd.fresh
      BY <1>8, <2>1 DEF AltInv
    <3>2. \A i \in 1..m : ~(CtrlAltGr \subseteq events'[i].mods)
      BY <1>4, <3>1 DEF CtrlAltGr
    <3>3. ASSUME NEW i \in 1..m, events'[i].type = "down", Coupled(events'[i], events'[i].mods)
          PROVE  /\ i < m /\ events'[i + 1].type = "down" /\ events'[i + 1].key = "AltRight"
                 /\ events'[i + 1].mods = events'[i].mods
      BY <1>4, <3>3, <3>1
    <3>4. ASSUME NEW i \in 1..m - 1, events'[i + 1].type = "up", Coupled(events'[i + 1], events'[i].mods)
          PROVE  i + 1 < m /\ events'[i + 2].type = "up" /\ events'[i + 2].key = "AltRight"
      BY <1>4, <3>4, <3>1
    <3>5. ASSUME events'[1].type = "up", Coupled(events'[1], kbd.held)
          PROVE  1 < m /\ events'[2].type = "up" /\ events'[2].key = "AltRight"
      BY <1>7, <3>5, <1>6, <3>1, <1>4
    <3>6. GoesDown("AltRight")' <=> GoesDown("AltRight")
      BY <1>4, <1>6, <1>7 DEF GoesDown
    <3> HIDE DEF n, m
    <3>7. /\ \A i \in 1..Len(events') : ~(CtrlAltGr \subseteq events'[i].mods)
          /\ CtrlAltGr \subseteq kbd'.held => GoesDown("AltRight")'
          /\ GoesDown("AltRight")' /\ "ControlLeft" \in kbd'.held => kbd'.fresh
          /\ ~(CtrlAltGr \subseteq user'.held)
      BY <1>1, <1>2, <3>1, <3>2, <3>6 DEF m
    <3> QED
      BY <1>1, <3>3, <3>4, <3>5, <3>7 DEF AltInv, Coupled, CtrlAltGr, SameMay, May, m
  <2>2. ASSUME ~May("altGr") PROVE AltInv'
    BY <1>1, <2>2 DEF AltInv, SameMay, May
  <2> QED
    BY <2>1, <2>2
<1>17. CtrlInv'
  BY <1>4, <1>8, <1>1 DEF CtrlInv, SameMay, May
<1>18. LockInv'
  <2>1. ASSUME NEW i \in 1..m, IsKey(events'[i])
        PROVE  events'[i].now = IF events'[i].type = "down" /\ events'[i].key = "CapsLock" THEN 1 - events'[i].lock
                                ELSE events'[i].lock
    BY <1>4, <2>1, <1>8 DEF IsKey, LockInv
  <2>2. ASSUME NEW i \in 1..m - 1, IsKey(events'[i]), IsKey(events'[i + 1])
        PROVE  events'[i + 1].lock = events'[i].now
    BY <1>4, <2>2, <1>8 DEF IsKey, LockInv
  <2>3. ASSUME kbd.connected, IsKey(events'[1]), kbd.synced = events'[1].lock PROVE remote.lock = events'[1].lock
    BY <1>7, <2>3, <1>6, <1>8 DEF IsKey, LockInv
  <2>4. kbd.connected /\ user.typing => kbd.synced \in {Unknown, remote.lock}
    BY <1>8 DEF LockInv
  <2> HIDE DEF n, m
  <2> QED
    BY <1>1, <1>2, <1>4, <2>1, <2>2, <2>3, <2>4 DEF LockInv, IsKey, m
<1> QED
  BY <1>9, <1>10, <1>12, <1>13, <1>15, <1>16, <1>17, <1>18 DEF TypingInv

LEMMA Calm ==
  ASSUME SameMay, events' = <<>>, user'.held = {}, kbd'.held = {}, kbd'.connected => remote'.down = {},
         kbd'.connected /\ ~remote'.share => ~May("blurs"), kbd'.synth => May("windows"),
         kbd'.connected => /\ user'.typing => kbd'.synced \in {Unknown, remote'.lock}
                           /\ user'.focused /\ kbd'.synced = user'.lock => remote'.lock = user'.lock
  PROVE  TypingInv'
<1>1. Len(events') = 0
  OBVIOUS
<1>2. FocusInv'
  BY <1>1 DEF FocusInv, SameMay, May
<1>3. EventInv' /\ LiftInv' /\ CapsInv' /\ CtrlInv'
  BY <1>1 DEF EventInv, LiftInv, CapsInv, CtrlInv
<1>4. ModInv'
  BY <1>1 DEF ModInv, Target, Meant
<1>5. AltInv'
  BY <1>1 DEF AltInv, GoesDown, CtrlAltGr
<1>6. LockInv'
  BY <1>1 DEF LockInv
<1> QED
  BY <1>2, <1>3, <1>4, <1>5, <1>6 DEF TypingInv

LEMMA Kept ==
  ASSUME SameMay, TypingInv, UNCHANGED <<user, events>>, kbd'.held = kbd.held, kbd'.fresh = kbd.fresh
  PROVE  EventInv' /\ LiftInv' /\ CapsInv' /\ ModInv' /\ AltInv' /\ CtrlInv'
<1>1. EventInv'
  BY DEF TypingInv, EventInv, SameMay, May, IsKey
<1>2. LiftInv'
  BY DEF TypingInv, LiftInv, Lifted, Lifts, Holds, SameMay, May
<1>3. CapsInv'
  BY DEF TypingInv, CapsInv, Lifted, Lifts, SameMay, May
<1>4. ModInv'
  <2>1. Target' = Target
    BY DEF Target, Meant, MapCode, SameMay, May
  <2>2. Standing' = Standing
    BY DEF Standing, GoesDown, SameMay, May
  <2> QED
    BY <2>1, <2>2 DEF TypingInv, ModInv, After, Coupled, MapCode, SameMay, May
<1>5. AltInv' /\ CtrlInv'
  BY DEF TypingInv, AltInv, CtrlInv, GoesDown, Coupled, CtrlAltGr, SameMay, May
<1> QED
  BY <1>1, <1>2, <1>3, <1>4, <1>5

LEMMA SameTyping ==
  ASSUME SameMay, TypingInv, UNCHANGED kbdVars
  PROVE  TypingInv'
BY Kept DEF kbdVars, TypingInv, FocusInv, LockInv, IsKey, SameMay, May

LEMMA GainStep ==
  ASSUME KeyTypes, LinkInv, PlainTyping, TypingInv, FocusMoves, ~user.focused
  PROVE  TypingInv'
<1> DEFINE f == Event("focus", None, {}, 0, 0)
<1>1. /\ May("blurs") /\ SameMay /\ UNCHANGED <<link, kbd, remote>> /\ Idle
      /\ events' = Append(events, f) /\ user' = [user EXCEPT !.focused = ~@]
  BY LinkKeys DEF KeyNext, FocusMoves, SameLink, PlainTyping
<1>2. user'.held = {} /\ user'.lock = user.lock /\ user'.typing = user.typing /\ events = <<>> /\ kbd.held = {}
  BY <1>1, IdleRests DEF KeyTypes, UserType, Idle
<1>3. f.type = "focus" /\ f.mods = {}
  BY DEF Event, Meant
<1> HIDE DEF f
<1>4. events' = <<f>> /\ Len(events') = 1 /\ events'[1] = f /\ events' # <<>>
  BY <1>1, <1>2
<1>5. FocusInv /\ LockInv
  BY DEF TypingInv
<1>6. kbd.connected /\ ~remote.share => FALSE
  BY <1>1, <1>5 DEF FocusInv
<1>7. \A i \in 1..Len(events') : i = 1 /\ events'[i].type = "focus" /\ events'[i].mods = {}
  BY <1>3, <1>4
<1>8. (\A i \in 1..Len(events') - 1 : FALSE) /\ events'[Len(events')] = f
  BY <1>4
<1>9. FocusInv'
  BY <1>1, <1>2, <1>5, <1>6, <1>7 DEF FocusInv, SameMay, May
<1>10. EventInv'
  BY <1>1, <1>2, <1>3, <1>7, <1>8 DEF EventInv, IsKey, KeyTypes, UserType
<1>11. LiftInv' /\ CapsInv' /\ CtrlInv'
  BY <1>1, <1>2, <1>7 DEF LiftInv, CapsInv, CtrlInv
<1>12. ModInv'
  BY <1>1, <1>2, <1>3, <1>4, <1>8 DEF Standing, Target, Meant, After, ModInv
<1>13. AltInv'
  BY <1>1, <1>2, <1>3, <1>4, <1>7, <1>8 DEF AltInv, GoesDown, CtrlAltGr
<1>14. LockInv'
  BY <1>1, <1>2, <1>3, <1>4, <1>5, <1>7, <1>8 DEF LockInv, IsKey
<1> QED
  BY <1>9, <1>10, <1>11, <1>12, <1>13, <1>14 DEF TypingInv

LEMMA OverlayStep ==
  ASSUME KeyTypes, LinkInv, PlainTyping, TypingInv, OverlayMoves
  PROVE  TypingInv'
BY LinkKeys, IdleRests, Calm DEF KeyNext, OverlayMoves, SameLink, PlainTyping, KeyTypes, UserType,
   Idle, TypingInv, FocusInv, LockInv

LEMMA EndTyping ==
  ASSUME SameMay, KeyTypes, PlainTyping, TypingInv, Ends, NEW torn \in BOOLEAN, KeyboardDown(torn)
  PROVE  TypingInv' /\ UNCHANGED <<remote.typed, remote.meant>>
BY IdleRests, Calm DEF Ends, PlainTyping, TypingInv, FocusInv, KeyboardDown, KeyTypes, KbdType,
   HostKeys, Idle

LEMMA ElapseTyping ==
  ASSUME SameMay, KeyTypes, PlainTyping, TypingInv, Elapse
  PROVE  TypingInv' /\ UNCHANGED remote
<1>1. /\ events = <<>> /\ Len(events) = 0 /\ UNCHANGED <<user, events, remote>>
      /\ kbd'.held = kbd.held /\ kbd'.connected = kbd.connected /\ kbd'.synced = kbd.synced /\ kbd'.synth = kbd.synth
  BY DEF Elapse, PlainTyping, KeyTypes, KbdType
<1>2. FocusInv' /\ LockInv'
  BY <1>1 DEF TypingInv, FocusInv, LockInv, IsKey, SameMay, May
<1>3. EventInv' /\ CapsInv' /\ CtrlInv'
  BY <1>1 DEF EventInv, CapsInv, CtrlInv
<1>4. LiftInv'
  BY <1>1 DEF TypingInv, LiftInv, Lifted, Lifts, Holds, SameMay, May
<1>5. ModInv'
  BY <1>1 DEF TypingInv, ModInv, Target, Meant, MapCode, SameMay, May
<1>6. AltInv'
  BY <1>1 DEF TypingInv, AltInv, GoesDown, CtrlAltGr, SameMay, May
<1> QED
  BY <1>1, <1>2, <1>3, <1>4, <1>5, <1>6 DEF TypingInv

LEMMA SendTyping ==
  ASSUME SameMay, KeyTypes, PlainTyping, TypingInv, SendCtrlAltDel
  PROVE  TypingInv' /\ UNCHANGED <<remote.typed, remote.meant>>
<1>1. /\ events = <<>> /\ "ControlLeft" \notin Meant(user.held) /\ kbd.connected
      /\ remote' = Raised(Pressed(remote, {"ControlLeft"}), {"ControlLeft"})
      /\ UNCHANGED <<user, events, kbd>>
  BY DEF SendCtrlAltDel, PlainTyping
<1>2. "ControlLeft" \notin kbd.held
  BY <1>1 DEF TypingInv, FocusInv, ModInv, Target, Shifts, Modifiers
<1>3. /\ remote'.share = remote.share /\ remote'.lock = remote.lock
      /\ remote'.down = remote.down \ {"ControlLeft"} \/ remote'.down = remote.down
      /\ remote'.typed = remote.typed /\ remote'.meant = remote.meant
  <2>1. CASE ~remote.share
    BY <1>1, <2>1 DEF Pressed, Raised
  <2>2. CASE remote.share
    <3> DEFINE p == Pressed(remote, {"ControlLeft"})
    <3>1. p = [remote EXCEPT !.down = @ \cup {"ControlLeft"}, !.lock = @]
      BY <2>2 DEF Pressed
    <3>2. p.share /\ p = [remote EXCEPT !.down = @ \cup {"ControlLeft"}]
      BY <2>2, <3>1 DEF KeyTypes, HostKeys
    <3>3. remote' = [p EXCEPT !.down = @ \ {"ControlLeft"}]
      BY <1>1, <3>2 DEF Raised
    <3> HIDE DEF p
    <3>4. remote' = [remote EXCEPT !.down = (remote.down \cup {"ControlLeft"}) \ {"ControlLeft"}]
      BY <3>2, <3>3 DEF KeyTypes, HostKeys
    <3>5. (remote.down \cup {"ControlLeft"}) \ {"ControlLeft"} = remote.down \ {"ControlLeft"}
      OBVIOUS
    <3> QED
      BY <3>4, <3>5 DEF KeyTypes, HostKeys
  <2> QED
    BY <2>1, <2>2
<1>4. FocusInv /\ LockInv
  BY DEF TypingInv
<1>5. remote'.down = kbd'.held
  BY <1>1, <1>2, <1>3, <1>4 DEF FocusInv
<1>6. FocusInv' /\ LockInv'
  BY <1>1, <1>3, <1>4, <1>5 DEF FocusInv, LockInv, IsKey, SameMay, May
<1> QED
  BY <1>1, <1>3, <1>6, Kept DEF TypingInv

LEMMA BeginTyping ==
  ASSUME SameMay, KeyTypes, PlainTyping, TypingInv, BeginReactivation
  PROVE  TypingInv' /\ UNCHANGED <<remote.typed, remote.meant>>
BY Kept DEF BeginReactivation, PlainTyping, KeyTypes, HostKeys, TypingInv, FocusInv, LockInv,
   IsKey, SameMay, May

LEMMA SyncedIs ==
  ASSUME NEW r \in HostKeys, NEW mask \in 0..1, r.share
  PROVE  LET q == Synced(r, mask)
         IN  q \in HostKeys /\ q.share /\ q.down = {} /\ q.lock = mask /\ q.typed = r.typed /\ q.meant = r.meant
BY DEF Synced, HostKeys

LEMMA ActiveTyping ==
  ASSUME SameMay, KeyTypes, PlainTyping, TypingInv, OnActive
  PROVE  TypingInv' /\ UNCHANGED <<remote.typed, remote.meant>>
<1>1. UNCHANGED <<user, events>> /\ kbd \in KbdType /\ remote \in HostKeys
  BY DEF OnActive, KeyTypes
<1>2. FocusInv /\ LockInv
  BY DEF TypingInv
<1>3. CASE kbd.connected
  BY <1>3, <1>1, <1>2, Kept DEF OnActive, HostKeys, FocusInv, LockInv, IsKey, SameMay, May,
     TypingInv
<1>4. CASE ~kbd.connected
  <2> DEFINE k == [kbd EXCEPT !.connected = TRUE, !.synced = Unknown]
             r == [remote EXCEPT !.share = TRUE]
             q == Synced(r, 0)
             p == Pressed(q, k.held)
  <2>1. k \in KbdType /\ k.synced = Unknown /\ k.held = {} /\ k.connected /\ k.fresh = kbd.fresh /\ k.synth = kbd.synth
    BY <1>1, <1>2, <1>4 DEF KbdType, FocusInv
  <2>2. r \in HostKeys /\ r.share /\ r.typed = remote.typed /\ r.meant = remote.meant
    BY <1>1 DEF HostKeys
  <2>3. kbd' = SyncToggles(k, r, 0).kbd /\ remote' = SyncToggles(k, r, 0).remote
    BY <1>4 DEF OnActive
  <2> HIDE DEF k, r
  <2>4. q \in HostKeys /\ q.share /\ q.down = {} /\ q.lock = 0 /\ q.typed = remote.typed /\ q.meant = remote.meant
    BY <2>2, SyncedIs
  <2>5. 0 # k.synced
    BY <2>1 DEF Unknown
  <2>6. kbd' = [k EXCEPT !.synced = 0] /\ remote' = p
    BY <2>3, <2>5 DEF SyncToggles
  <2> HIDE DEF q
  <2>7. p = [q EXCEPT !.down = @ \cup {}, !.lock = @]
    BY <2>1, <2>4 DEF Pressed
  <2>8. p.share /\ p.down = {} /\ p.lock = 0 /\ p.typed = remote.typed /\ p.meant = remote.meant
    BY <2>4, <2>7 DEF HostKeys
  <2> HIDE DEF p
  <2>9. kbd'.synced = 0 /\ kbd'.held = {} /\ kbd'.connected /\ kbd'.fresh = kbd.fresh /\ kbd'.synth = kbd.synth
    BY <2>1, <2>6 DEF KbdType
  <2>10. kbd.held = {}
    BY <1>2, <1>4 DEF FocusInv
  <2>11. /\ remote'.share /\ remote'.down = {} /\ remote'.lock = 0
         /\ remote'.typed = remote.typed /\ remote'.meant = remote.meant
    BY <2>6, <2>8
  <2>12. FocusInv'
    BY <1>1, <1>2, <2>9, <2>10, <2>11 DEF FocusInv, SameMay, May
  <2>13. LockInv'
    BY <1>1, <1>2, <2>9, <2>11 DEF LockInv, IsKey
  <2> QED
    BY <1>1, <2>9, <2>10, <2>11, <2>12, <2>13, Kept DEF TypingInv
<1> QED
  BY <1>3, <1>4

-----------------------------------------------------------------------------
(* The keyboard in every step.                                             *)

LEMMA TypingStep ==
  ASSUME LinkInv, KeyTypes, ActiveInv, PlainTyping, TypingInv, TypedAsMeant, [Next]_vars
  PROVE  TypingInv' /\ TypedAsMeant'
<1>0. SameMay
  BY LinkNext
<1>1. ASSUME UNCHANGED kbdVars PROVE TypingInv' /\ TypedAsMeant'
  BY <1>0, <1>1, SameTyping DEF kbdVars, TypedAsMeant
<1>2. ASSUME TypingInv', UNCHANGED <<remote.typed, remote.meant>> PROVE TypingInv' /\ TypedAsMeant'
  BY <1>2 DEF TypedAsMeant
<1>3. CASE KeyNext
  <2>1. CASE PageHandles
    BY <2>1, PageFacts, PageFocus, PageLift, PageMod, PageAlt, PageLock, PageTyped DEF TypingInv
  <2>2. CASE SendCtrlAltDel
    BY <1>0, <1>2, <2>2, SendTyping
  <2>3. CASE Elapse
    BY <1>0, <1>2, <2>3, ElapseTyping
  <2>4. CASE FocusMoves
    BY <2>4, BlurStep, GainStep, <1>2 DEF FocusMoves
  <2>5. CASE OverlayMoves
    BY <2>5, OverlayStep, <1>2 DEF OverlayMoves
  <2>6. ASSUME NEW key \in env.keys, Press(key) \/ Repeat(key) \/ Release(key) PROVE TypingInv' /\ TypedAsMeant'
    BY <2>6, KeyMoved, MovedKey
  <2> QED
    BY <1>3, <2>1, <2>2, <2>3, <2>4, <2>5, <2>6 DEF KeyNext
<1>4. CASE Drop \/ Redirect \/ Disconnect
  BY <1>4, <1>0, <1>2, EndTyping DEF Drop, Redirect, Disconnect
<1>5. CASE StartProtocol \/ PointerNext
  BY <1>1, <1>5, PointerKeys DEF StartProtocol
<1>6. CASE Activate
  BY <1>0, <1>2, <1>6, ActiveTyping DEF Activate
<1>7. CASE Reactivate
  BY <1>0, <1>2, <1>7, BeginTyping DEF Reactivate
<1>8. CASE Apart /\ ~KeyNext
  BY <1>1, <1>8 DEF Apart
<1> QED
  BY <1>3, <1>4, <1>5, <1>6, <1>7, <1>8, Steps

LEMMA TypingInit == Init => TypingInv /\ TypedAsMeant
<1> SUFFICES ASSUME Init PROVE TypingInv /\ TypedAsMeant
  OBVIOUS
<1>1. /\ events = <<>> /\ Len(events) = 0
      /\ kbd = [connected |-> TRUE, held |-> {}, synced |-> 0, fresh |-> FALSE, synth |-> FALSE]
      /\ remote = [share |-> TRUE, down |-> {}, lock |-> 0, typed |-> Hit({}, 0), meant |-> Hit({}, 0)]
  BY DEF Init, KeyInit
<1>2. user.held = {} /\ user.focused /\ ~user.typing
  BY DEF Init, KeyInit
<1>3. FocusInv
  BY <1>1, <1>2 DEF FocusInv
<1>4. EventInv /\ LiftInv /\ CapsInv /\ CtrlInv
  BY <1>1, <1>2 DEF EventInv, LiftInv, CapsInv, CtrlInv
<1>5. ModInv
  BY <1>1, <1>2 DEF ModInv, Target, Meant
<1>6. AltInv
  BY <1>1, <1>2 DEF AltInv, GoesDown, CtrlAltGr
<1>7. LockInv
  BY <1>1, <1>2 DEF LockInv
<1> QED
  BY <1>1, <1>3, <1>4, <1>5, <1>6, <1>7 DEF TypingInv, TypedAsMeant

\* When all is handled, what is down is what the user holds.
LEMMA NoneStuck ==
  ASSUME KeyTypes, TypingInv
  PROVE  NothingStuck
<1> DEFINE mine == {MapCode(key) : key \in user.held}
<1> SUFFICES ASSUME Settled, NEW code \in remote.down, ~(May("mac") /\ "MetaLeft" \in user.held)
             PROVE  code \in mine
  BY DEF NothingStuck
<1>1. events = <<>> /\ Len(events) = 0 /\ code \in kbd.held /\ code \in Keys /\ ~user.typing
  BY DEF Settled, TypingInv, FocusInv, KeyTypes, KbdType
<1>2. code \in Shifts \/ code \in Lasting
  BY <1>1 DEF TypingInv, FocusInv, Keys, Shifts, Modifiers, Lasting
<1>3. CASE code \in Shifts
  BY <1>1, <1>3 DEF TypingInv, ModInv, Target, Meant
<1>4. CASE code \in Lasting
  BY <1>1, <1>4 DEF TypingInv, LiftInv, Lifted, Holds, MapCode, Lasting
<1> QED
  BY <1>2, <1>3, <1>4

KeysInv == PlainTyping => TypingInv /\ TypedAsMeant

LEMMA KeysInvariant == Spec => [](InputInv /\ KeysInv)
<1>1. Init => KeysInv
  BY TypingInit DEF KeysInv
<1>2. InputInv /\ KeysInv /\ [Next]_vars => KeysInv'
  BY LinkNext, TypingStep DEF KeysInv, InputInv, PlainTyping, SameMay, May
<1> QED
  BY <1>1, <1>2, InputInvariant, PTL DEF Spec

\* For a user whose keys are up before the session or the focus changes, who types no faster than the page
\* handles it, lets go of Caps Lock before the next key and does not use AltGr with a Ctrl or
\* Command as Ctrl beside one: no key stays down in
\* the host after a focus loss, a synchronisation of the locks, a reconnect or a key that macOS
\* hides, and every character is taken with the modifiers, AltGr included, and the lock it was
\* typed with.
THEOREM KeysAreFollowed == Spec => [](PlainTyping => KeysAgree)
<1>1. InputInv /\ KeysInv => (PlainTyping => KeysAgree)
  BY NoneStuck DEF KeysInv, InputInv, KeysAgree
<1> QED
  BY <1>1, KeysInvariant, PTL

\* Everything the session exchanges beside its picture is what it is taken for: the text the user
\* pastes, the sound both ways, the keys and the mouse, through any interleaving, drop, redirection,
\* reconnection and reactivation, for users and hosts that do nothing of what the hypotheses name.
THEOREM ExchangeIsCoherent ==
  Spec => [](~May("returns") /\ PlainTyping /\ SteadyHand /\ PlainPointers => Coherent)
<1>1. InputInv => KeyTypeOK /\ PointerTypeOK
  BY KeyTypesOK, PointerTypesOK DEF InputInv, HandsInv, CursorInv
<1>2. LinkMicInv => MicTypeOK /\ SoundFits
  BY DEF LinkMicInv, MicInv
<1>3. /\ KeyTypeOK /\ PointerTypeOK /\ MicTypeOK /\ SoundFits /\ ClipTypeOK /\ TextIsRead
      /\ SoundTypeOK /\ NotLate
      /\ ~May("returns") => InOrder
      /\ SteadyHand /\ PlainPointers => MouseAgrees
      /\ PlainTyping => KeysAgree
      => (~May("returns") /\ PlainTyping /\ SteadyHand /\ PlainPointers => Coherent)
  BY DEF Coherent
<1> QED
  BY <1>1, <1>2, <1>3, InputInvariant, MicInvariant, TextsAreRead, SoundIsInTime, SoundIsMeant, MouseIsFollowed,
     KeysAreFollowed, PTL

=============================================================================
