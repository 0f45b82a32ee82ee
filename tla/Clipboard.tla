------------------------------ MODULE Clipboard ------------------------------
(***************************************************************************)
(* The redirected clipboard: ClipRdr in wwwroot/lib/rdpweb/cliprdr.js, the *)
(* part of client.js in front of it, and the panel with its automatic      *)
(* synchronisation in Views/Home/Console.cshtml.  Both sides announce what *)
(* they have and fetch it when it is wanted, over one ordered channel; the *)
(* page reads and writes the local clipboard asynchronously.               *)
(***************************************************************************)
EXTENDS RedirectedSession

VARIABLES
  clip,    \* ClipRdr's localText and _requestId, the client's _lastRemoteClip
  page,    \* the text box, lastLocalClip, reads and writes that are under way
  local,   \* the local clipboard, and whether the page has the focus
  host,    \* the host's clipboard: whose it is, its text and kind of text
  up, down \* messages to the host, and from it

clipVars == <<clip, page, local, host, up, down>>

Kinds == {"unicode", "ansi", "files"}
Text0 == Texts \cup {None}

Msg(kind, form, text) == [kind |-> kind, form |-> form, text |-> text]

ClipTypeOK ==
  /\ clip \in [text : Text0, asked : Kinds \cup {None}, last : Text0 \cup {Garbled}]
  /\ page.box \in Text0 \cup {Garbled} /\ page.exchanged \in Text0 \cup {Garbled}
  /\ local.text \in Text0 \cup {Garbled} /\ local.focus \in BOOLEAN
  /\ host \in [open : BOOLEAN, owner : {"host", "client", None}, text : Text0,
               kind : Kinds, pasting : BOOLEAN]

ClipInit ==
  /\ clip = [text |-> None, asked |-> None, last |-> None]
  /\ page = [box |-> None, exchanged |-> None, reads |-> <<>>, writes |-> <<>>]
  /\ local = [text |-> None, focus |-> TRUE]
  /\ host = [open |-> FALSE, owner |-> None, text |-> None, kind |-> "files", pasting |-> FALSE]
  /\ up = <<>>
  /\ down = IF May("clipboard") THEN <<Msg("ready", None, None)>> ELSE <<>>

-----------------------------------------------------------------------------
(* The client.                                                             *)

\* _sendFormatList: without a text the list is empty.
List(text) == Msg("list", IF text = None THEN None ELSE "unicode", None)

\* Mutant: the text is kept but not announced.
SendTextVariant(text) ==
  IF text = clip.last THEN UNCHANGED <<clip, up>>
  ELSE clip' = [clip EXCEPT !.text = text] /\ UNCHANGED up

\* sendClipboardText and setLocalText: what the host sent last is not sent back.
SendText(text) ==
  IF text = clip.last THEN UNCHANGED <<clip, up>>
  ELSE /\ clip' = [clip EXCEPT !.text = text]
       /\ up' = IF Up THEN Append(up, List(text)) ELSE up

Took == Up /\ down # <<>> /\ down' = Tail(down)

\* _onMonitorReady: capabilities and directory are left out.
OnMonitorReady ==
  /\ Took /\ Head(down).kind = "ready"
  /\ up' = Append(up, List(clip.text))
  /\ UNCHANGED <<env, link, clip, page, local, host>>

\* _onFormatList: text is asked for at once.
OnFormatList ==
  /\ Took /\ Head(down).kind = "list"
  /\ LET form == Head(down).form
     IN IF form = "files" THEN UNCHANGED <<clip, up>>
        ELSE /\ clip' = [clip EXCEPT !.asked = form]
             /\ up' = Append(up, Msg("request", form, None))
  /\ UNCHANGED <<env, link, page, local, host>>

Fail == Msg("response", None, None)

\* Mutant: a request is passed over while the client awaits a text itself.
OnFormatDataRequestVariant ==
  /\ Took /\ Head(down).kind = "request"
  /\ up' = IF clip.asked # None THEN up
           ELSE Append(up, IF clip.text = None THEN Fail ELSE Msg("response", "unicode", clip.text))
  /\ UNCHANGED <<env, link, clip, page, local, host>>

\* _onFormatDataRequest.
OnFormatDataRequest ==
  /\ Took /\ Head(down).kind = "request"
  /\ up' = Append(up, IF clip.text = None THEN Fail ELSE Msg("response", "unicode", clip.text))
  /\ UNCHANGED <<env, link, clip, page, local, host>>

\* What a response says if it is read as the kind of text that was asked for.
Decoded(msg, kind) == IF kind = msg.form THEN msg.text ELSE Garbled

\* onRemoteText: the box shows the text, and it is written to the local clipboard
\* if the page has the focus (autoClipFromRemote).
RemoteText(text) ==
  /\ clip' = [clip EXCEPT !.asked = None, !.last = text]
  /\ page' = [page EXCEPT !.box = text,
                          !.writes = IF local.focus THEN Append(@, text) ELSE @]

\* Mutant: a second response to one copy is read as well.
OnFormatDataResponseVariant ==
  /\ Took /\ Head(down).kind = "response"
  /\ IF Head(down).form = None
     THEN clip' = [clip EXCEPT !.asked = None] /\ UNCHANGED page
     ELSE RemoteText(Decoded(Head(down), IF clip.asked = None THEN "ansi" ELSE clip.asked))
  /\ UNCHANGED <<env, link, local, host, up>>

\* _onFormatDataResponse: only the first answer counts.
OnFormatDataResponse ==
  /\ Took /\ Head(down).kind = "response"
  /\ IF clip.asked = None \/ Head(down).form = None
     THEN clip' = [clip EXCEPT !.asked = None] /\ UNCHANGED page
     ELSE RemoteText(Decoded(Head(down), clip.asked))
  /\ UNCHANGED <<env, link, local, host, up>>

ClientTakes ==
  OnMonitorReady \/ OnFormatList \/ OnFormatDataRequest \/ OnFormatDataResponse

-----------------------------------------------------------------------------
(* The page and the local clipboard.                                       *)

\* Text is sent while one is announced or awaited only where that is said.
Uncrossed ==
  \/ May("crosses")
  \/ /\ \A i \in 1..Len(up) : up[i].kind # "request"
     /\ \A i \in 1..Len(down) : down[i].kind \notin {"list", "response"}

Fresh(text) == text \in env.texts
Used(text)  == env' = IF May("repeats") THEN env ELSE [env EXCEPT !.texts = @ \ {text}]

\* The user types a text into the box and presses "Send to remote".
UserSends(text) ==
  /\ Up /\ host.open /\ Fresh(text) /\ Uncrossed /\ env.pastes > 0
  /\ env' = [env EXCEPT !.pastes = @ - 1,
                        !.texts = IF May("repeats") THEN @ ELSE @ \ {text}]
  /\ page' = [page EXCEPT !.box = text]
  /\ SendText(text)
  /\ UNCHANGED <<link, local, host, down>>

\* The user copies a text in another window.
CopyElsewhere(text) ==
  /\ local.focus /\ Fresh(text) /\ May("auto")
  /\ Used(text)
  /\ local' = [text |-> text, focus |-> FALSE]
  /\ UNCHANGED <<link, clip, page, host, up, down>>

\* And comes back: pullLocalClipboard runs for the focus and for the visible page.
Return ==
  /\ ~local.focus
  /\ local' = [local EXCEPT !.focus = TRUE]
  /\ \E n \in 1..2 : page' = [page EXCEPT !.reads =
       IF Up THEN @ \o [i \in 1..n |-> local.text] ELSE @]
  /\ UNCHANGED <<env, link, clip, host, up, down>>

\* The read is done: a text that was not exchanged before is sent.
ReadThen ==
  /\ page.reads # <<>>
  /\ LET text == Head(page.reads)
         rest == [page EXCEPT !.reads = Tail(@)]
     IN \/ /\ text = page.exchanged \/ ~local.focus
           /\ page' = rest /\ UNCHANGED <<clip, up>>
        \/ /\ text # page.exchanged /\ Uncrossed
           /\ page' = [rest EXCEPT !.exchanged = text, !.box = text]
           /\ SendText(text)
  /\ UNCHANGED <<env, link, local, host, down>>

\* The write is done, or refused for want of the focus.
WriteThen ==
  /\ page.writes # <<>>
  /\ LET text == Head(page.writes)
         rest == [page EXCEPT !.writes = Tail(@)]
     IN IF local.focus
        THEN local' = [local EXCEPT !.text = text] /\ page' = [rest EXCEPT !.exchanged = text]
        ELSE page' = rest /\ UNCHANGED local
  /\ UNCHANGED <<env, link, clip, host, up, down>>

-----------------------------------------------------------------------------
(* The host, which is external.                                            *)

\* Something is copied in the session and announced, once or twice.
HostCopies(text, kind) ==
  /\ Up /\ host.open /\ Fresh(text)
  /\ kind # "unicode" => May(IF kind = "ansi" THEN "mixes" ELSE "again")
  /\ Used(text)
  /\ host' = [host EXCEPT !.owner = "host", !.text = text, !.kind = kind]
  /\ \E n \in 1..(IF May("again") THEN 2 ELSE 1) :
       down' = down \o [i \in 1..n |-> Msg("list", kind, None)]
  /\ UNCHANGED <<link, clip, page, local, up>>

\* It pastes what the client has announced.
HostPastes ==
  /\ Up /\ host.open /\ host.owner = "client" /\ ~host.pasting /\ env.pastes > 0
  /\ env' = [env EXCEPT !.pastes = @ - 1]
  /\ host' = [host EXCEPT !.pasting = TRUE]
  /\ down' = Append(down, Msg("request", "unicode", None))
  /\ UNCHANGED <<link, clip, page, local, up>>

HostTakes ==
  /\ Up /\ up # <<>> /\ up' = Tail(up)
  /\ LET msg == Head(up)
     IN CASE msg.kind = "list" ->
               /\ host' = [host EXCEPT !.open = TRUE, !.owner =
                    IF msg.form # None THEN "client" ELSE IF @ = "client" THEN None ELSE @]
               /\ UNCHANGED down
          [] msg.kind = "request" ->
               /\ down' = Append(down, IF host.owner = "host" /\ host.kind = msg.form
                                       THEN Msg("response", msg.form, host.text) ELSE Fail)
               /\ UNCHANGED host
          [] msg.kind = "response" ->
               host' = [host EXCEPT !.pasting = FALSE] /\ UNCHANGED down
  /\ UNCHANGED <<env, link, clip, page, local>>

-----------------------------------------------------------------------------
(* The session ends, and a new one begins with a new ClipRdr; what the     *)
(* client and the page remember of the old one stays.                      *)

ClipDown ==
  /\ up' = <<>> /\ down' = <<>>
  /\ host' = [host EXCEPT !.open = FALSE, !.pasting = FALSE,
                          !.owner = IF @ = "client" THEN None ELSE @]
  /\ UNCHANGED <<clip, page, local>>

ClipUp ==
  /\ clip' = [clip EXCEPT !.text = None, !.asked = None]
  /\ down' = IF May("clipboard") THEN <<Msg("ready", None, None)>> ELSE <<>>
  /\ UNCHANGED <<page, local, host, up>>

ClipNext ==
  \/ ClientTakes \/ Return \/ ReadThen \/ WriteThen \/ HostPastes \/ HostTakes
  \/ \E t \in Texts : UserSends(t) \/ CopyElsewhere(t) \/ \E k \in Kinds : HostCopies(t, k)

-----------------------------------------------------------------------------
(* Properties.                                                             *)

\* A text of the host is read as what it is ("the second used to decode the
\* UTF-16LE payload as first char only", _onFormatDataResponse), however often
\* it is announced and whatever comes in between.
TextIsRead == page.box # Garbled

\* What a paste in the session yields.
HostSees ==
  IF host.owner = "host" THEN host.text ELSE IF host.owner = "client" THEN clip.text ELSE None

AtRest == Up /\ host.open /\ up = <<>> /\ down = <<>> /\ page.reads = <<>>

\* Once everything has arrived, the box shows what a paste in the session yields
\* ("the latest remote copy is the newest event", Console.cshtml), though the host
\* copies while a text is on its way to it, announces a copy twice, and the page
\* reads the local clipboard in between.  Sent into an announcement of the host, or
\* across two connections, a text may be lost (README).
ClipboardsAgree ==
  AtRest /\ ~(host.owner = "host" /\ host.kind = "files") /\ ~May("drops") => page.box = HostSees

\* An application of the host that pastes is not left waiting.
PastesEnd == host.pasting ~> ~host.pasting

=============================================================================
