-------------------------------- MODULE Sound --------------------------------
(***************************************************************************)
(* The sound of a session: RdpSnd in wwwroot/lib/rdpweb/rdpsnd.js, which   *)
(* is bound to the static channel and taken over by a dynamic one          *)
(* (protocol.js), and the timeline of client.js on which its blocks are    *)
(* played.  The host makes a block per tick of its clock, keeps a few      *)
(* unconfirmed ones on their way, and sends a block in one PDU or in two.  *)
(***************************************************************************)
EXTENDS RedirectedSession, SequencesExt

CONSTANTS
  Compressed,   \* the formats the client cannot play
  Preferred,    \* what it proposes to a host that offers only such formats
  Offers,       \* lists of formats a host may offer
  Window        \* how many blocks a host leaves unconfirmed

ASSUME SoundAssumption ==
  /\ Compressed \subseteq Formats
  /\ Preferred \in Seq(Formats \ Compressed) /\ Preferred # <<>>
  /\ Offers \subseteq Seq(Formats)
  /\ Window \in Nat

VARIABLES
  snd,      \* RdpSnd: the channel it sends on, its formats, the pending wave
  play,     \* the AudioContext, _audioTime, and what was played in which session
  source,   \* the host: channel, formats agreed, blocks sent and not confirmed
  sndUp,    \* PDUs to the host
  sndDown,  \* and from it
  clock

sndVars == <<snd, play, source, sndUp, sndDown, clock>>

\* A block: its number, the index of its format and what the host means by it, and
\* when it was made.
NoBlock == [no |-> 0, form |-> 0, means |-> None, made |-> 0]
NoSnd   == [on |-> None, formats |-> <<>>, pending |-> NoBlock]
NewSnd(channel) == [NoSnd EXCEPT !.on = channel]

\* The host and its PDUs name formats by their index.
Pdu(kind, channel, block, formats) ==
  [kind |-> kind, on |-> channel, block |-> block, formats |-> formats]

NewSource(sent, made) ==
  [on |-> "static", step |-> "idle", agreed |-> <<>>, open |-> {}, sent |-> sent, made |-> made]

SoundInit ==
  /\ snd = IF May("sound") THEN NewSnd("static") ELSE NoSnd
  /\ play = [now |-> 0, runs |-> ~May("suspends"), head |-> 0, session |-> 1, heard |-> <<>>,
             worst |-> 0]
  /\ source = NewSource(0, 0)
  /\ sndUp = <<>> /\ sndDown = <<>> /\ clock = 0

SoundTypeOK ==
  /\ snd.on \in {None, "static", "dynamic"} /\ snd.formats \in Seq(Formats)
  /\ play.head \in Nat /\ play.now \in 0..clock
  /\ source.open \subseteq 1..source.sent /\ source.step \in {"idle", "offered", "trains", "ready"}

-----------------------------------------------------------------------------
(* The client.                                                             *)

\* _onServerFormats: the client answers with what it can play of the offer.
Playable(offer) ==
  LET pcm == SelectSeq(offer, LAMBDA f : f \notin Compressed)
  IN IF pcm = <<>> THEN Preferred ELSE pcm

\* Said for the provers, which do not know SelectSeq.
ASSUME PlayableAssumption == \A offer \in Offers : Playable(offer) \in Seq(Formats)

Reply(kind, block, formats) == sndUp' = Append(sndUp, Pdu(kind, snd.on, block, formats))

\* Mutant: the playhead is used though it lies in the past.
StartVariant == IF play.head = 0 THEN play.now ELSE play.head

\* _playPcm: blocks are queued without a gap, and at once if there is none queued.
Start == IF play.head > play.now THEN play.head ELSE play.now

Longest(a, b) == IF a > b THEN a ELSE b

\* A source that is started in the past starts now.
PlayPcm(form, block) ==
  LET start == Start
  IN play' = [play EXCEPT
       !.head  = start + 1,
       !.worst = Longest(@, clock - block.made),
       !.heard = Append(@, [no |-> block.no, form |-> form, means |-> block.means,
                            session |-> play.session,
                            start |-> Longest(start, play.now),
                            late |-> (Longest(start, play.now) - play.now)
                                       + (clock - block.made)])]

\* formats[formatNo] || formats[0]
FormatOf(no) == IF no \in DOMAIN snd.formats THEN snd.formats[no] ELSE snd.formats[1]

\* Mutant: a block is confirmed only if it was sent in one PDU.
DeliverWaveVariant(block) ==
  /\ PlayPcm(FormatOf(block.form), block)
  /\ IF snd.pending = NoBlock THEN Reply("confirm", block, <<>>) ELSE UNCHANGED sndUp

\* _deliverWave.
DeliverWave(block) ==
  /\ IF snd.formats = <<>> THEN UNCHANGED play ELSE PlayPcm(FormatOf(block.form), block)
  /\ Reply("confirm", block, <<>>)

SoundKinds == {"formats", "training", "info", "body", "wave2"}

\* A static PDU goes to whatever handler there is, a dynamic one only to its own.
Reaches(pdu) == snd.on # None /\ (pdu.on = "static" \/ snd.on = "dynamic")

TakesSound(kind) ==
  /\ Up /\ sndDown # <<>> /\ Head(sndDown).kind = kind /\ sndDown' = Tail(sndDown)
  /\ UNCHANGED <<env, link, source, clock>>

Handled(kind) == TakesSound(kind) /\ Reaches(Head(sndDown))

OnServerFormats ==
  /\ Handled("formats") /\ snd.pending = NoBlock
  /\ LET formats == Playable(Head(sndDown).formats)
     IN snd' = [snd EXCEPT !.formats = formats] /\ Reply("formats", NoBlock, formats)
  /\ UNCHANGED play

OnTraining ==
  /\ Handled("training") /\ snd.pending = NoBlock
  /\ Reply("trained", NoBlock, <<>>)
  /\ UNCHANGED <<snd, play>>

OnWaveInfo ==
  /\ Handled("info") /\ snd.pending = NoBlock
  /\ snd' = [snd EXCEPT !.pending = Head(sndDown).block]
  /\ UNCHANGED <<play, sndUp>>

OnWave2 ==
  /\ Handled("wave2") /\ snd.pending = NoBlock
  /\ DeliverWave(Head(sndDown).block)
  /\ UNCHANGED snd

\* Whatever follows a WaveInfo is the rest of its block.
OnWaveBody ==
  /\ \E kind \in SoundKinds : Handled(kind)
  /\ snd.pending # NoBlock
  /\ snd' = [snd EXCEPT !.pending = NoBlock]
  /\ DeliverWave(snd.pending)

\* A body without its WaveInfo, or a PDU for which there is no handler.
SoundDropped ==
  /\ \E kind \in SoundKinds :
       /\ TakesSound(kind)
       /\ ~Reaches(Head(sndDown)) \/ (kind = "body" /\ snd.pending = NoBlock)
  /\ UNCHANGED <<snd, play, sndUp>>

\* _initAudioDvc and _dvcOnClose.
OnAudioChannel ==
  /\ \/ TakesSound("create") /\ snd' = NewSnd("dynamic")
     \/ TakesSound("close")  /\ snd' = NoSnd
  /\ UNCHANGED <<play, sndUp>>

ClientHears ==
  \/ OnServerFormats \/ OnTraining \/ OnWaveInfo \/ OnWave2 \/ OnWaveBody
  \/ SoundDropped \/ OnAudioChannel

-----------------------------------------------------------------------------
(* The host, which is external, and time.                                  *)

\* The host begins, or changes its mind.
HostOffersSound(offer) ==
  /\ Up /\ May("sound") /\ env.opens > 0
  /\ source.step = "idle" \/ (source.step = "ready" /\ May("reoffers"))
  /\ env' = [env EXCEPT !.opens = @ - 1]
  /\ source' = [source EXCEPT !.step = "offered"]
  /\ sndDown' = Append(sndDown, Pdu("formats", source.on, NoBlock, offer))
  /\ UNCHANGED <<link, snd, play, sndUp, clock>>

\* A block in one PDU or in two.
HostSends(form) ==
  /\ Up /\ source.step = "ready" /\ form \in DOMAIN source.agreed
  /\ Cardinality(source.open) < Window /\ clock > source.made
  /\ LET block == [no |-> source.sent + 1, form |-> form, means |-> source.agreed[form],
                   made |-> clock]
         wave(kind) == Pdu(kind, source.on, block, <<>>)
     IN /\ source' = [source EXCEPT !.sent = @ + 1, !.made = clock, !.open = @ \cup {block.no}]
        /\ \/ sndDown' = Append(sndDown, wave("wave2"))
           \/ sndDown' = sndDown \o <<wave("info"), wave("body")>>
  /\ UNCHANGED <<env, link, snd, play, sndUp, clock>>

\* Sound moves to a dynamic channel, or back.
HostMovesSound ==
  /\ Up /\ May("sound")
  /\ \/ /\ source.on = "static" /\ May("dynamic") /\ env.opens > 0
        /\ env' = [env EXCEPT !.opens = @ - 1]
        /\ source' = [NewSource(source.sent, source.made) EXCEPT !.on = "dynamic"]
        /\ sndDown' = Append(sndDown, Pdu("create", None, NoBlock, <<>>))
     \/ /\ source.on = "dynamic" /\ May("returns") /\ UNCHANGED env
        /\ source' = NewSource(source.sent, source.made)
        /\ sndDown' = Append(sndDown, Pdu("close", None, NoBlock, <<>>))
  /\ UNCHANGED <<link, snd, play, sndUp, clock>>

\* It hears on the channel it uses.
HostHears ==
  /\ Up /\ sndUp # <<>> /\ sndUp' = Tail(sndUp)
  /\ LET pdu == Head(sndUp)
         train == pdu.kind = "formats" /\ pdu.on = source.on /\ source.step = "offered"
     IN /\ source' =
             IF pdu.on # source.on THEN source
             ELSE IF train THEN [source EXCEPT !.step = "trains", !.agreed = pdu.formats]
             ELSE IF pdu.kind = "trained" THEN [source EXCEPT !.step = "ready"]
             ELSE [source EXCEPT !.open = @ \ {pdu.block.no}]
        /\ sndDown' = IF train THEN Append(sndDown, Pdu("training", source.on, NoBlock, <<>>))
                      ELSE sndDown
  /\ UNCHANGED <<env, link, snd, play, clock>>

Tick ==
  /\ clock < env.ticks
  /\ clock' = clock + 1
  /\ play' = [play EXCEPT !.now = IF play.runs THEN @ + 1 ELSE @]
  /\ UNCHANGED <<env, link, snd, source, sndUp, sndDown>>

\* primeAudio in a gesture of the user.
PrimeAudio ==
  /\ ~play.runs
  /\ play' = [play EXCEPT !.runs = TRUE]
  /\ UNCHANGED <<env, link, snd, source, sndUp, sndDown, clock>>

\* The session ends.  Unless it is torn down the playhead stays.
SoundDown(tornDown) ==
  /\ snd' = NoSnd /\ sndUp' = <<>> /\ sndDown' = <<>>
  /\ source' = NewSource(source.sent, source.made)
  /\ play' = IF tornDown THEN [play EXCEPT !.head = 0, !.session = @ + 1] ELSE play
  /\ UNCHANGED clock

SoundUp ==
  /\ snd' = IF May("sound") THEN NewSnd("static") ELSE NoSnd
  /\ UNCHANGED <<play, source, sndUp, sndDown, clock>>

SoundNext ==
  \/ ClientHears \/ HostHears \/ HostMovesSound \/ Tick \/ PrimeAudio
  \/ \E offer \in Offers : HostOffersSound(offer)
  \/ \E form \in DOMAIN source.agreed : HostSends(form)

-----------------------------------------------------------------------------
(* Properties.                                                             *)

\* Within a session the blocks are played in order and do not overlap ("consecutive
\* waves play gaplessly", _playPcm), each in the format the host means by its index.
InOrder ==
  /\ \A i, j \in DOMAIN play.heard :
       i < j /\ play.heard[i].session = play.heard[j].session =>
         play.heard[i].no < play.heard[j].no /\ play.heard[i].start < play.heard[j].start
  /\ \A i \in DOMAIN play.heard : play.heard[i].form = play.heard[i].means

NeverLate == \A i \in DOMAIN play.heard : play.heard[i].late <= play.worst

\* A block is played no later than the slowest one has been on its way ("an
\* ever-growing latency", _playPcm), if the context runs from the beginning.
NotLate == May("suspends") \/ NeverLate

Answers == source.step \in {"offered", "trains"}

\* An offer of formats leads to blocks, and every block is confirmed ("so the server
\* keeps streaming", _deliverWave), also when sound moves to another channel, as long
\* as it does not move back.
OffersAnswered == Answers ~> ~Answers
SoundAnswered ==
  /\ Answers /\ ~May("returns") ~> ~Answers
  /\ source.open # {} ~> source.open = {}

=============================================================================
