----------------------------- MODULE RelaySession -----------------------------
(***************************************************************************)
(* The relay of one leg of a console session, RDP/RdpRelaySession.cs: two  *)
(* pumps between the host's stream and the browser's WebSocket, and the    *)
(* method that waits for the first of them to end.  The pump to the        *)
(* browser is a reader and a writer with a queue between them; SendBudget  *)
(* bounds it in bytes without a lock.                                      *)
(*                                                                         *)
(* A chunk is the part of the host's stream one read returned, from the    *)
(* one byte up to the other.  A step is what runs between two accesses     *)
(* that another task can tell apart; the two reads in Full are one, since  *)
(* the queue only gets shorter between them.                               *)
(***************************************************************************)
EXTENDS Integers, Sequences, FiniteSets

CONSTANTS
  Sizes,          \* what a read may return
  Floor,          \* QueueFloorBytes
  Ceiling,        \* QueueCeilingBytes
  MaxMessage,     \* MaxMessageBytes
  Environments    \* each [reads, frames, may]: bounds, and what may happen

Hazards ==
  { "redirects",   \* the host redirects the session
    "token",       \* the leg came with a routing token
    "ends",        \* the host ends the session
    "leaves",      \* the browser closes the WebSocket, or is gone
    "forced",      \* an administrator disconnects the session
    "input",       \* the browser sends input
    "pings",       \* and measures the connection
    "policy",      \* and uses a channel the device policy disables
    "writeFails",  \* input fails while what the host sent before it redirected is on its way
    "pingsLast",   \* a ping is answered as the host's stream ends
    "slowAtEnd" }  \* the message that is being sent when the policy ends the leg is cut off

ASSUME RelayAssumption ==
  /\ Sizes \subseteq Nat \ {0}
  /\ Floor \in Nat \ {0} /\ Ceiling \in Nat /\ Floor <= Ceiling /\ MaxMessage \in Nat
  /\ Environments \subseteq [reads : Nat, frames : Nat, may : SUBSET Hazards]

VARIABLES
  env,
  pos,      \* how much of the host's stream has been read
  reader,   \* the task that reads: what it does, the chunk in hand
  pipe,     \* the chunks it has queued
  budget,   \* SendBudget: _queued, _waiting, _freed, Limit
  writer,   \* the rest of PumpSslToWsAsync: chunk in hand, the next one, the message's bytes
  lock,     \* who has _sendLock
  pump,     \* PumpWsToSslAsync
  main,     \* RunAsync: what it does, the pump that ended first
  flags,    \* _redirected, _handoverContinue, PolicyViolation, the linked token
  ws        \* the WebSocket: its state, what the browser has got and how

hostVars == <<pos, reader>>
vars == <<env, pos, reader, pipe, budget, writer, lock, pump, main, flags, ws>>

Nobody  == "nobody"
NoChunk == [from |-> 0, to |-> 0]
Bytes(c) == c.to - c.from
May(h)  == h \in env.may
Chunk   == [from : Nat, to : Nat]

Init ==
  /\ env \in Environments
  /\ pos = 0 /\ reader = [pc |-> "reads", chunk |-> NoChunk]
  /\ pipe = <<>>
  /\ budget = [queued |-> 0, waiting |-> FALSE, freed |-> 0, limit |-> Floor]
  /\ writer = [pc |-> "waits", chunk |-> NoChunk, next |-> NoChunk, bytes |-> 0]
  /\ lock = Nobody /\ pump = "receives"
  /\ main = [pc |-> "relays", first |-> Nobody]
  /\ flags = [redirected |-> FALSE, armed |-> FALSE, policy |-> FALSE, cancelled |-> FALSE]
  /\ ws = [state |-> "open", fragment |-> FALSE, whole |-> TRUE, got |-> 0, told |-> {}]

Open == ws.state = "open"

-----------------------------------------------------------------------------
(* The reader.                                                             *)

Read ==
  /\ reader.pc = "reads" /\ ~flags.cancelled /\ env.reads > 0
  /\ env' = [env EXCEPT !.reads = @ - 1]
  /\ \E n \in Sizes :
       /\ pos' = pos + n
       /\ reader' = [pc |-> "reserves", chunk |-> [from |-> pos, to |-> pos + n]]
  /\ UNCHANGED <<pipe, budget, writer, lock, pump, main, flags, ws>>

\* No ping is being answered.
Silent == pump \notin {"pongs", "sends"} \/ May("pingsLast")

\* The read returns nothing or fails.
HostEnds ==
  /\ reader.pc = "reads" /\ May("ends") /\ (May("token") => Silent)
  /\ reader' = [reader EXCEPT !.pc = "done"]
  /\ UNCHANGED <<env, pos, pipe, budget, writer, lock, pump, main, flags, ws>>

\* The redirection is not forwarded.
HostRedirects ==
  /\ reader.pc = "reads" /\ May("redirects") /\ ~flags.cancelled /\ Silent
  /\ reader' = [reader EXCEPT !.pc = "done"]
  /\ flags' = [flags EXCEPT !.redirected = TRUE]
  /\ UNCHANGED <<env, pos, pipe, budget, writer, lock, pump, main, ws>>

ReaderCancelled ==
  /\ flags.cancelled /\ reader.pc \in {"reads", "parked"}
  /\ reader' = [reader EXCEPT !.pc = "done"]
  /\ UNCHANGED <<env, pos, pipe, budget, writer, lock, pump, main, flags, ws>>

\* SendBudget.Full.
Full == budget.queued > 0 /\ budget.queued + Bytes(reader.chunk) > budget.limit

Enqueue ==
  /\ pipe' = Append(pipe, reader.chunk)
  /\ reader' = [reader EXCEPT !.pc = "reads"]

\* SendBudget.ReserveAsync: a reader that finds no room
Reserve ==
  /\ reader.pc = "reserves"
  /\ IF Full
     THEN reader' = [reader EXCEPT !.pc = "full"] /\ UNCHANGED <<pipe, budget>>
     ELSE budget' = [budget EXCEPT !.queued = @ + Bytes(reader.chunk)] /\ Enqueue
  /\ UNCHANGED <<env, pos, writer, lock, pump, main, flags, ws>>

\* says that it waits,
Announce ==
  /\ reader.pc = "full"
  /\ budget' = [budget EXCEPT !.waiting = TRUE]
  /\ reader' = [reader EXCEPT !.pc = "announced"]
  /\ UNCHANGED <<env, pos, pipe, writer, lock, pump, main, flags, ws>>

\* Mutant: it does not look again.
RecheckVariant ==
  /\ reader.pc = "announced"
  /\ reader' = [reader EXCEPT !.pc = "parked"]
  /\ UNCHANGED <<env, pos, pipe, budget, writer, lock, pump, main, flags, ws>>

\* looks again,
Recheck ==
  /\ reader.pc = "announced"
  /\ IF Full
     THEN reader' = [reader EXCEPT !.pc = "parked"] /\ UNCHANGED <<pipe, budget>>
     ELSE /\ budget' = [budget EXCEPT !.queued = @ + Bytes(reader.chunk), !.waiting = FALSE]
          /\ Enqueue
  /\ UNCHANGED <<env, pos, writer, lock, pump, main, flags, ws>>

\* and waits to be told, by a signal that may be a stale one.
Wake ==
  /\ reader.pc = "parked" /\ budget.freed > 0
  /\ budget' = [budget EXCEPT !.freed = @ - 1]
  /\ reader' = [reader EXCEPT !.pc = "reserves"]
  /\ UNCHANGED <<env, pos, pipe, writer, lock, pump, main, flags, ws>>

-----------------------------------------------------------------------------
(* The writer.                                                             *)

Take ==
  /\ writer.pc = "waits" /\ pipe # <<>> /\ ~flags.cancelled
  /\ writer' = [writer EXCEPT !.pc = "locks", !.chunk = Head(pipe), !.bytes = 0]
  /\ pipe' = Tail(pipe)
  /\ UNCHANGED <<env, hostVars, budget, lock, pump, main, flags, ws>>

\* One fragment: what is queued goes into the same message, up to a bound.
Send(c, bytes) ==
  LET more == bytes + Bytes(c) < MaxMessage /\ pipe # <<>>
  IN /\ writer' = [pc |-> "sends", chunk |-> c, bytes |-> bytes + Bytes(c),
                   next |-> IF more THEN Head(pipe) ELSE NoChunk]
     /\ pipe' = IF more THEN Tail(pipe) ELSE pipe

More == writer.next # NoChunk

TakeLock ==
  /\ writer.pc = "locks" /\ lock = Nobody /\ ~flags.cancelled
  /\ lock' = "writer" /\ Send(writer.chunk, writer.bytes)
  /\ UNCHANGED <<env, hostVars, budget, pump, main, flags, ws>>

\* SendAsync returns.
Sent ==
  /\ writer.pc = "sends" /\ Open
  /\ ws' = [ws EXCEPT !.fragment = More, !.got = writer.chunk.to]
  /\ writer' = [writer EXCEPT !.pc = "sent"]
  /\ UNCHANGED <<env, hostVars, pipe, budget, lock, pump, main, flags>>

\* SendBudget.Release: the bytes,
Release ==
  /\ writer.pc = "sent"
  /\ budget' = [budget EXCEPT !.queued = @ - Bytes(writer.chunk)]
  /\ writer' = [writer EXCEPT !.pc = "signals"]
  /\ UNCHANGED <<env, hostVars, pipe, lock, pump, main, flags, ws>>

\* Once a second the limit follows what the link took, if that is what held things up.
Limits == IF budget.queued > 0 THEN Floor..Ceiling ELSE {budget.limit}

\* then the signal, if the reader waits; and the next fragment, or the end of the message.
Signal ==
  /\ writer.pc = "signals"
  /\ \E limit \in IF More THEN {budget.limit} ELSE Limits :
       budget' = [budget EXCEPT !.waiting = FALSE, !.limit = limit,
                                !.freed = IF budget.waiting THEN @ + 1 ELSE @]
  /\ IF More THEN Send(writer.next, writer.bytes) /\ UNCHANGED lock
     ELSE /\ writer' = [writer EXCEPT !.pc = "waits"] /\ lock' = Nobody
          /\ UNCHANGED pipe
  /\ UNCHANGED <<env, hostVars, pump, main, flags, ws>>

\* The queue is empty and complete.
Drained ==
  /\ writer.pc = "waits" /\ pipe = <<>> /\ reader.pc = "done"
  /\ writer' = [writer EXCEPT !.pc = "drained"]
  /\ UNCHANGED <<env, hostVars, pipe, budget, lock, pump, main, flags, ws>>

\* A send fails, or a wait is cancelled; then the reader is waited for.
WriterFails ==
  /\ \/ writer.pc = "sends" /\ ~Open
     \/ writer.pc \in {"waits", "locks"} /\ flags.cancelled
  /\ writer' = [writer EXCEPT !.pc = "failed"]
  /\ lock' = IF lock = "writer" THEN Nobody ELSE lock
  /\ UNCHANGED <<env, hostVars, pipe, budget, pump, main, flags, ws>>

ToWsEnded == writer.pc \in {"drained", "failed"} /\ reader.pc = "done"

-----------------------------------------------------------------------------
(* The pump to the host.                                                   *)

PumpGoes(from, to) ==
  /\ pump = from /\ pump' = to
  /\ UNCHANGED <<env, hostVars, pipe, budget, writer, main>>

\* A frame of the browser: input, a ping, or a channel that is refused, which ends
\* the pump.
Receive ==
  /\ ~flags.cancelled /\ Open /\ env.frames > 0
  /\ pump = "receives" /\ env' = [env EXCEPT !.frames = @ - 1]
  /\ \/ May("input") /\ pump' = "writes" /\ UNCHANGED flags
     \/ /\ May("pings") /\ pump' = "pongs" /\ UNCHANGED flags
        /\ May("pingsLast") \/ reader.pc # "done"
     \/ /\ May("policy") /\ pump' = "done"
        /\ flags' = [flags EXCEPT !.policy = TRUE]
  /\ UNCHANGED <<hostVars, pipe, budget, writer, lock, main, ws>>

\* The close frame, or an error.
ReceiveEnds == ~Open /\ PumpGoes("receives", "done") /\ UNCHANGED <<lock, flags, ws>>

\* The host takes the input or the write fails; it may when the host has ended.
Write ==
  \/ PumpGoes("writes", "receives") /\ UNCHANGED <<lock, flags, ws>>
  \/ /\ May("writeFails") \/ (reader.pc = "done" /\ (flags.redirected => ToWsEnded))
     /\ PumpGoes("writes", "done") /\ UNCHANGED <<lock, flags, ws>>

\* Mutant: a pong is sent without the lock.
PongVariant ==
  /\ Open
  /\ PumpGoes("pongs", "sends") /\ UNCHANGED <<lock, flags, ws>>

\* HandlePingAsync, SendJsonAsync: under the lock.
Pong ==
  /\ Open /\ ~flags.cancelled /\ lock = Nobody /\ lock' = "pump"
  /\ PumpGoes("pongs", "sends") /\ UNCHANGED <<flags, ws>>

\* A text frame, which is one if no message is under way.
Frame(told) ==
  ws' = [ws EXCEPT !.whole = @ /\ ~ws.fragment, !.told = @ \cup told]

Unlocked == IF lock = "pump" THEN Nobody ELSE lock

PongSent ==
  /\ Open /\ Frame({}) /\ lock' = Unlocked
  /\ PumpGoes("sends", "receives") /\ UNCHANGED flags

\* What fails is logged.
PongFails ==
  \/ ~Open /\ PumpGoes("sends", "receives") /\ lock' = Unlocked /\ UNCHANGED <<flags, ws>>
  \/ ~Open /\ PumpGoes("pongs", "receives") /\ UNCHANGED <<lock, flags, ws>>

Aborted == [ws EXCEPT !.state = IF @ = "open" THEN "aborted" ELSE @]

\* To cancel a receive aborts the WebSocket.
ReceiveCancelled ==
  /\ flags.cancelled /\ ws' = Aborted
  /\ PumpGoes("receives", "done") /\ UNCHANGED <<lock, flags>>

PumpCancelled ==
  /\ flags.cancelled
  /\ PumpGoes("writes", "done") \/ PumpGoes("pongs", "done")
  /\ UNCHANGED <<lock, flags, ws>>

\* So does, it may be, to cancel a send.
SendCancelled ==
  /\ flags.cancelled /\ Open
  /\ writer.pc = "sends" \/ pump = "sends"
  /\ flags.policy => May("slowAtEnd")
  /\ ws' = Aborted
  /\ UNCHANGED <<env, hostVars, pipe, budget, writer, lock, pump, main, flags>>

-----------------------------------------------------------------------------
(* RunAsync.                                                               *)

MainGoes(from, to) ==
  /\ main.pc = from /\ main' = [main EXCEPT !.pc = to]
  /\ UNCHANGED <<env, hostVars, pipe, budget, writer, lock, pump>>

\* Task.WhenAny.
OnePumpEnded ==
  /\ main.pc = "relays"
  /\ \/ ToWsEnded /\ main' = [pc |-> "tells", first |-> "toWs"]
     \/ pump = "done" /\ main' = [pc |-> "tells", first |-> "toRdp"]
  /\ UNCHANGED <<env, hostVars, pipe, budget, writer, lock, pump, flags, ws>>

\* The host ended a leg that came with a token: the token is armed again.
HandsOver == ~flags.redirected /\ ~flags.policy /\ main.first = "toWs" /\ May("token")

\* Mutant: the browser is told when all has stopped.
TellVariant ==
  /\ flags' = [flags EXCEPT !.armed = HandsOver]
  /\ MainGoes("tells", "cancels") /\ UNCHANGED ws

\* The browser is told to come back, without the lock and whatever becomes of it.
Tell ==
  /\ flags' = [flags EXCEPT !.armed = HandsOver]
  /\ MainGoes("tells", IF Open /\ (flags.redirected \/ HandsOver) THEN "sends" ELSE "cancels")
  /\ UNCHANGED ws

Told ==
  /\ IF Open THEN Frame({"redirect"}) ELSE UNCHANGED ws
  /\ MainGoes("sends", "cancels") /\ UNCHANGED flags

Cancel ==
  /\ flags' = [flags EXCEPT !.cancelled = TRUE]
  /\ MainGoes("cancels", "joins") /\ UNCHANGED ws

\* Both pumps have ended: the error status, and the close.
Finish ==
  LET lost == ~flags.redirected /\ ~flags.armed /\ main.first = "toWs"
  IN /\ ToWsEnded /\ pump = "done"
     /\ ws' = IF Open THEN [ws EXCEPT !.state = "closed",
                                      !.told = IF flags.policy \/ lost THEN @ \cup {"error"} ELSE @]
              ELSE ws
     /\ MainGoes("joins", "over") /\ UNCHANGED flags

-----------------------------------------------------------------------------
(* The browser and the administrator, external.                            *)

BrowserLeaves ==
  /\ May("leaves") /\ Open
  /\ ws' = [ws EXCEPT !.state = "left"]
  /\ UNCHANGED <<env, hostVars, pipe, budget, writer, lock, pump, main, flags>>

Forced ==
  /\ May("forced") /\ ~flags.cancelled
  /\ flags' = [flags EXCEPT !.cancelled = TRUE]
  /\ UNCHANGED <<env, hostVars, pipe, budget, writer, lock, pump, main, ws>>

\* Host and browser are silent, or the leg is over.
Quiet ==
  /\ main.pc = "over" \/ (/\ reader.pc = "reads" /\ writer.pc = "waits" /\ pipe = <<>>
                         /\ pump = "receives" /\ ~flags.cancelled /\ Open)
  /\ UNCHANGED vars

ReaderStep == Reserve \/ Announce \/ Recheck \/ Wake \/ ReaderCancelled
WriterStep == Take \/ TakeLock \/ Sent \/ Release \/ Signal \/ Drained \/ WriterFails
PumpStep   == ReceiveEnds \/ Write \/ Pong \/ PongSent \/ PongFails
              \/ ReceiveCancelled \/ PumpCancelled
MainStep   == OnePumpEnded \/ Tell \/ Told \/ Cancel \/ Finish

Next ==
  \/ Read \/ HostEnds \/ HostRedirects \/ Receive
  \/ ReaderStep \/ WriterStep \/ PumpStep \/ SendCancelled \/ MainStep
  \/ BrowserLeaves \/ Forced \/ Quiet

\* Tasks that can go on do; what is sent is taken in the end, by the browser and by the
\* host, or the connection breaks.
Fairness == WF_vars(ReaderStep) /\ WF_vars(WriterStep) /\ WF_vars(PumpStep) /\ WF_vars(MainStep)

Spec     == Init /\ [][Next]_vars
FairSpec == Spec /\ Fairness

-----------------------------------------------------------------------------
(* Properties.                                                             *)

EnvType    == [reads : Nat, frames : Nat, may : SUBSET Hazards]
ReaderType == [pc : {"reads", "reserves", "full", "announced", "parked", "done"}, chunk : Chunk]
BudgetType == [queued : Nat, waiting : BOOLEAN, freed : Nat, limit : Nat]
WriterType == [pc : {"waits", "locks", "sends", "sent", "signals", "drained", "failed"},
               chunk : Chunk, next : Chunk, bytes : Nat]
MainType   == [pc : {"relays", "tells", "sends", "cancels", "joins", "over"},
               first : {Nobody, "toWs", "toRdp"}]
FlagsType  == [redirected : BOOLEAN, armed : BOOLEAN, policy : BOOLEAN, cancelled : BOOLEAN]
SocketType == [state : {"open", "aborted", "left", "closed"}, fragment : BOOLEAN,
               whole : BOOLEAN, got : Nat, told : SUBSET {"redirect", "error"}]

TypeOK ==
  /\ env \in EnvType /\ pos \in Nat /\ reader \in ReaderType /\ pipe \in Seq(Chunk)
  /\ budget \in BudgetType /\ writer \in WriterType /\ lock \in {Nobody, "writer", "pump"}
  /\ pump \in {"receives", "writes", "pongs", "sends", "done"}
  /\ main \in MainType /\ flags \in FlagsType /\ ws \in SocketType

\* How far the host's stream has been released, taken by the writer, and queued.
Holds    == writer.pc \in {"locks", "sends", "sent"}
Released == IF Holds THEN writer.chunk.from ELSE writer.chunk.to
Taken    == IF More THEN writer.next.to ELSE writer.chunk.to
Enqueued == IF pipe = <<>> THEN Taken ELSE pipe[Len(pipe)].to
LastFrom == IF pipe # <<>> THEN pipe[Len(pipe)].from
            ELSE IF More THEN writer.next.from ELSE writer.chunk.from

\* The browser gets the host's stream without a gap, all of it when the host ends first.
StreamKept ==
  /\ writer.pc = "sends" => writer.chunk.from = ws.got
  /\ writer.pc = "drained" /\ ~flags.cancelled => ws.got = pos

\* Messages are whole, and no two tasks send at a time.
WriterSends == writer.pc = "sends"
PumpSends   == pump = "sends"
MainSends   == main.pc = "sends"

MessagesWhole ==
  ws.whole /\ ~(WriterSends /\ PumpSends) /\ ~(WriterSends /\ MainSends) /\ ~(PumpSends /\ MainSends)

\* _queued is what has been queued and not released, and not more than the ceiling or
\* one chunk.
BudgetExact ==
  writer.pc # "failed" =>
    /\ budget.queued = Enqueued - Released
    /\ budget.queued <= Ceiling \/ Released = LastFrom

\* A reader that waits for room is woken: a signal is there, or the writer has still to
\* release what is queued, or to signal that it has.
NoLostWakeup ==
  reader.pc = "parked" /\ writer.pc # "failed" =>
    budget.freed > 0 \/ (budget.waiting /\ (budget.queued > 0 \/ writer.pc = "signals"))

\* The relay is what it should be to both sides.
Coherent == TypeOK /\ StreamKept /\ MessagesWhole /\ BudgetExact /\ NoLostWakeup

\* A browser that is still there learns how the leg ended: it is told to come back when
\* the next leg is prepared for it, and why it must not when the policy ended it.
EndIsTold ==
  main.pc = "over" /\ ws.state # "left" /\ ~May("forced") =>
    /\ flags.redirected \/ flags.armed => "redirect" \in ws.told
    /\ flags.policy => "error" \in ws.told

\* A browser whose host ended the session is told so ("tell the browser explicitly
\* before closing").  It does not hold: the receive that is cancelled before aborts the
\* WebSocket (README, known departures).
HostEndIsTold ==
  main.pc = "over" /\ ws.state # "left" /\ ~May("forced") /\ main.first = "toWs" => ws.told # {}

\* The reader goes on reading, and the leg ends when one side or an administrator ends
\* it: neither waits for the other for ever.
RelayEnds ==
  /\ reader.pc = "parked" ~> reader.pc # "parked"
  /\ (reader.pc = "done" \/ pump = "done" \/ flags.cancelled \/ ~Open) ~> main.pc = "over"

=============================================================================
