----------------------------- MODULE SideChannels -----------------------------
(***************************************************************************)
(* The clipboard, microphone, sound, keyboard and mouse of one session,    *)
(* whose end tears them down and whose successor sets them up again        *)
(* (wwwroot/lib/rdpweb/client.js).                                         *)
(***************************************************************************)
EXTENDS Clipboard, Microphone, Sound, Pointer

vars == <<env, link, clipVars, micVars, sndVars, kbdVars, ptrVars>>

Init ==
  /\ env \in Environments /\ link = "up"
  /\ ClipInit /\ MicInit /\ SoundInit /\ KeyInit /\ PointerInit

Ends ==
  /\ Up /\ env.ends > 0
  /\ May("endsAsked") \/ ~mic.starting
  /\ May("holds") \/ (Idle /\ hand.buttons = {})
  /\ env' = [env EXCEPT !.ends = @ - 1]

\* deinitialize after a drop, with the protocol object kept.
Drop ==
  /\ Ends /\ May("drops")
  /\ link' = "down" /\ ClipDown /\ SoundDown(TRUE) /\ KeyboardDown(TRUE) /\ PointerDown(TRUE)
  /\ mic' = Released(mic)
  /\ UNCHANGED <<audin, blocks>>

\* The redirect frame: the protocol object is gone and there is no teardown.
Redirect ==
  /\ Ends /\ May("redirects")
  /\ link' = "down" /\ ClipDown /\ SoundDown(FALSE) /\ KeyboardDown(FALSE) /\ PointerDown(FALSE)
  /\ audin' = [NoAudin EXCEPT !.proto = FALSE]
  /\ UNCHANGED <<mic, blocks>>

\* disconnect, by way of deinitialize.
Disconnect ==
  /\ Ends /\ May("leaves")
  /\ link' = "left" /\ ClipDown /\ SoundDown(TRUE) /\ KeyboardDown(TRUE) /\ PointerDown(TRUE)
  /\ mic' = Released(mic)
  /\ UNCHANGED <<audin, blocks>>

\* _startProtocol of the next session, with the channels it joins.
StartProtocol ==
  /\ link = "down" /\ link' = "up"
  /\ ClipUp /\ SoundUp /\ PointerUp
  /\ audin' = NoAudin
  /\ UNCHANGED <<env, mic, blocks, kbdVars>>

\* _onActive: what keyboard and mouse do.
Activate == OnActive /\ PointerActive /\ UNCHANGED <<clipVars, micVars, sndVars>>

\* _beginReactivation, which follows what was sent before it.
Reactivate ==
  /\ BeginReactivation /\ updates = <<>>
  /\ ~moves.frame \/ May("typesOver")
  /\ UNCHANGED <<clipVars, micVars, sndVars, ptrVars>>

\* The user and the host may have nothing more to do.
Rest ==
  /\ up = <<>> /\ down = <<>> /\ page.reads = <<>> /\ sndUp = <<>> /\ sndDown = <<>> /\ events = <<>>
  /\ updates = <<>> /\ ~moves.frame /\ layout.announced
  /\ UNCHANGED vars

Next ==
  \/ ClipNext /\ UNCHANGED <<micVars, sndVars, kbdVars, ptrVars>>
  \/ MicNext /\ UNCHANGED <<clipVars, sndVars, kbdVars, ptrVars>>
  \/ SoundNext /\ UNCHANGED <<clipVars, micVars, kbdVars, ptrVars>>
  \/ KeyNext /\ UNCHANGED <<clipVars, micVars, sndVars, ptrVars>>
  \/ PointerNext /\ UNCHANGED <<clipVars, micVars, sndVars>>
  \/ Drop \/ Redirect \/ Disconnect \/ StartProtocol \/ Activate \/ Reactivate
  \/ Rest

Spec == Init /\ [][Next]_vars

\* Messages arrive and are handled.
FairSpec ==
  /\ Spec
  /\ WF_vars(ClientTakes /\ UNCHANGED <<micVars, sndVars, kbdVars, ptrVars>>)
  /\ WF_vars(HostTakes /\ UNCHANGED <<micVars, sndVars, kbdVars, ptrVars>>)
  /\ WF_vars(ClientHears /\ UNCHANGED <<clipVars, micVars, kbdVars, ptrVars>>)
  /\ WF_vars(HostHears /\ UNCHANGED <<clipVars, micVars, kbdVars, ptrVars>>)

\* The types, and what is exchanged is what it is taken for: texts of the host are
\* read as what they are, sound is sent in the format the host has open, and sound is
\* played in order, in its format and not later than the network makes it. What the
\* user types and clicks the host takes as it is meant, no key or button is stuck, and
\* the pointer is the host's.
Coherent ==
  /\ ClipTypeOK /\ MicTypeOK /\ SoundTypeOK /\ KeyTypeOK /\ PointerTypeOK
  /\ TextIsRead /\ SoundFits /\ InOrder /\ NotLate /\ KeysAgree /\ MouseAgrees

\* What the host waits for comes: the text it pastes, and for its sound the answer to an
\* offer and the confirmation of every block, without which it would stop streaming.
Answered == PastesEnd /\ SoundAnswered

=============================================================================
