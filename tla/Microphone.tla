------------------------------ MODULE Microphone ------------------------------
(***************************************************************************)
(* The redirected microphone: AudInput in wwwroot/lib/rdpweb/audin.js, its *)
(* channel in protocol.js, and the capture in client.js, which acquires    *)
(* the microphone behind a permission prompt and loads the capture worklet *)
(* asynchronously.                                                         *)
(***************************************************************************)
EXTENDS RedirectedSession

VARIABLES
  audin,   \* the client's protocol object with its AudInput
  mic,     \* the capture: _micFmt, _micStarting, _micStream, _micCtx, _micNode
  blocks   \* the last block of sound: its format, and the one the host has opened

micVars == <<audin, mic, blocks>>

Format0 == Formats \cup {None}

MicTypeOK ==
  /\ audin \in [proto : BOOLEAN, channel : BOOLEAN, agreed : BOOLEAN, open : Format0]
  /\ mic \in [fmt : Format0, starting : BOOLEAN, stream : BOOLEAN, ctx : Nat, made : Nat,
              loads : SUBSET Nat, node : BOOLEAN]
  /\ blocks \in [sent : Format0, opened : Format0]

NoAudin == [proto |-> TRUE, channel |-> FALSE, agreed |-> FALSE, open |-> None]

MicInit ==
  /\ audin = NoAudin
  /\ mic = [fmt |-> None, starting |-> FALSE, stream |-> FALSE, ctx |-> 0, made |-> 0,
            loads |-> {}, node |-> FALSE]
  /\ blocks = [sent |-> None, opened |-> None]

-----------------------------------------------------------------------------
(* The capture.                                                            *)

\* micFormat: not None while the host has the device open.
MicFormat == IF audin.proto THEN audin.open ELSE None

\* Mutant: a change of format is taken only by a capture that is not running yet.
StartMicCaptureVariant(fmt) ==
  mic' = IF mic.stream \/ mic.starting THEN mic ELSE [mic EXCEPT !.starting = TRUE, !.fmt = fmt]

\* _startMicCapture: one prompt at a time.
StartMicCapture(fmt) ==
  mic' = [mic EXCEPT !.fmt = fmt, !.starting = @ \/ ~mic.stream]

\* _stopMicCapture: the prompt stays open.
Released(m) == [m EXCEPT !.stream = FALSE, !.ctx = 0, !.node = FALSE]

\* Mutant: the answer is not checked against the channel.
MicWantedVariant == TRUE

MicWanted == MicFormat # None

\* The user allows the microphone: the graph is built, and its worklet loaded.
MicGranted ==
  /\ mic.starting
  /\ mic' = IF MicWanted
            THEN [mic EXCEPT !.starting = FALSE, !.stream = TRUE, !.made = @ + 1,
                             !.ctx = mic.made + 1, !.loads = @ \cup {mic.made + 1}]
            ELSE [mic EXCEPT !.starting = FALSE]
  /\ UNCHANGED <<env, link, audin, blocks>>

MicDenied ==
  /\ mic.starting
  /\ mic' = [mic EXCEPT !.starting = FALSE]
  /\ UNCHANGED <<env, link, audin, blocks>>

\* addModule is done, or has failed and a ScriptProcessor is used: the node of a
\* graph that has been given up is not made.
Loaded(c) ==
  /\ c \in mic.loads
  /\ mic' = [mic EXCEPT !.loads = @ \ {c}, !.node = @ \/ c = mic.ctx]
  /\ UNCHANGED <<env, link, audin, blocks>>

\* _onMicBlock and sendPcm: a block is resampled to the format of the capture.
MicBlock ==
  /\ mic.node /\ MicFormat # None /\ Up
  /\ blocks' = [sent |-> mic.fmt, opened |-> MicFormat]
  /\ UNCHANGED <<env, link, audin, mic>>

-----------------------------------------------------------------------------
(* The channel; the host is external.                                      *)

\* _initAudinDvc.
HostCreates ==
  /\ Up /\ ~audin.channel /\ May("microphone") /\ env.opens > 0
  /\ env' = [env EXCEPT !.opens = @ - 1]
  /\ audin' = [NoAudin EXCEPT !.channel = TRUE]
  /\ UNCHANGED <<link, mic, blocks>>

\* _onFormats.
HostOffers ==
  /\ Up /\ audin.channel /\ ~audin.agreed
  /\ audin' = [audin EXCEPT !.agreed = TRUE]
  /\ UNCHANGED <<env, link, mic, blocks>>

\* _onOpen and _onFormatChange.
HostOpens(fmt) ==
  /\ Up /\ audin.channel /\ audin.agreed /\ audin.open # fmt
  /\ audin' = [audin EXCEPT !.open = fmt]
  /\ StartMicCapture(fmt)
  /\ UNCHANGED <<env, link, blocks>>

\* _dvcOnClose.
HostClosesMic ==
  /\ Up /\ audin.channel /\ May("reopens")
  /\ audin' = NoAudin
  /\ mic' = Released(mic)
  /\ UNCHANGED <<env, link, blocks>>

MicNext ==
  \/ MicGranted \/ MicDenied \/ MicBlock \/ HostCreates \/ HostOffers \/ HostClosesMic
  \/ \E c \in mic.loads : Loaded(c)
  \/ \E f \in Formats : HostOpens(f)

-----------------------------------------------------------------------------
(* Properties.                                                             *)

\* Sound is sent in the format the host has open, also when it opens another one
\* while the user is asked or the worklet loads.
SoundFits == blocks.sent = blocks.opened

\* The microphone runs only while the host has it open in a present session
\* ("stops the OS in-use indicator on disconnect", deinitialize), whatever the
\* user answers and when.
MicReleased ==
  /\ mic.stream => Up /\ audin.open # None
  /\ mic.node => mic.stream

=============================================================================
