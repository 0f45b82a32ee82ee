----------------------------- MODULE GfxPipeline -----------------------------
(***************************************************************************)
(* The graphics pipeline of the browser client: wwwroot/lib/rdpweb/        *)
(* rdpgfx.js on the page and decode-worker.js in its worker.  The host     *)
(* sends graphics PDUs; fills, copies and cache blits are done at once on  *)
(* the page, RemoteFX Progressive and H.264 are decoded in the worker and  *)
(* painted when it answers.  Counters decide when an operation that came   *)
(* after a decode may run and when a frame is acknowledged.                *)
(*                                                                         *)
(* A step is one event of an event loop: a PDU parsed by the page, a       *)
(* message taken by the worker or by the page, an output or an error of    *)
(* the browser's video decoder, a timer, an animation frame.  A surface    *)
(* holds one picture, the number of the PDU that drew it; the rectangles   *)
(* of a PDU are not told apart, so every write covers the surface.         *)
(* RdpGfx.reset is not modelled: nothing calls it.                         *)
(***************************************************************************)
EXTENDS Integers, FiniteSets, Sequences, SequencesExt

CONSTANTS
  Surfaces,     \* surface ids
  Slots,        \* slots of the bitmap cache
  NoPicture,    \* nothing: an empty slot, no operand
  MaxPdus,      \* bound: the graphics PDUs of any behaviour
  Settings      \* each a record: the PDUs the host uses and how many, whether
                \* there is a worker, and what may happen besides

Kinds == {"create", "recreate", "delete", "map", "reset", "end", "fill", "raw",
          "copy", "save", "load", "progressive", "avc-key", "avc-delta"}

\* What may happen besides.
PipelineHazards ==
  { "overrun",      \* the host draws on while a SURFACE_TO_CACHE still waits
    "reuse",        \* it deletes or re-creates a surface that has work waiting
    "deltaFirst",   \* an H.264 stream starts without a key frame
    "twoVideos",    \* two surfaces show H.264 at a time
    "decodeFails",  \* a progressive decode fails
    "videoThrows",  \* VideoDecoder.decode throws
    "videoFails",   \* the video decoder reports an error later on
    "noVideo",      \* VideoDecoder cannot be configured
    "workerLost",   \* the worker's script does not load
    "closes" }      \* the graphics channel is closed

ASSUME PipelineAssumption ==
  /\ NoPicture \notin Nat /\ NoPicture \notin Surfaces \cup Slots
  /\ Surfaces \cap Slots = {} /\ MaxPdus \in Nat \ {0}
  /\ \A s \in Surfaces : <<"video", s>> \notin Surfaces \cup Slots
  /\ \A e \in Settings : /\ e.kinds \subseteq Kinds
                         /\ e.pdus \in 1..MaxPdus
                         /\ e.worker \in {"up", "off"}
                         /\ e.may \subseteq PipelineHazards

VARIABLES
  setting,   \* the environment of this behaviour, chosen at the start
  host,      \* the PDU sent last, the last END_FRAME, the surfaces created,
             \* those whose H.264 stream has had its key frame
  surf,      \* surfaces and outputMap: see SurfaceType
  cache,     \* cache: the picture in each slot
  shown,     \* the picture of each surface on the page's canvas
  count,     \* _decodeSeq, _decodeSettledSeq, _h264Submitted, _h264Painted
  queue,     \* _orderedQueue: [barrier, pdu]
  pending,   \* _workerPending: the decodes the worker has not answered
  acks,      \* _pendingAcks: [from, at, barrier, video]
  acked,     \* the acknowledgements sent: [from, at, forced]
  worker,    \* _worker: "up", or "off", "lost" or "closed" when null
  ran,       \* the worker has executed its script
  toWorker,  \* messages posted to the worker
  toPage,    \* messages posted to the page
  dec,       \* h264[s] in the worker or decoders[s] on the page
  owed       \* the chunks the decoder of a surface has taken and not put out

pageVars  == <<surf, cache, shown, queue>>
ackVars   == <<acks, acked>>
videoVars == <<dec, owed>>
pipelineVars == <<setting, host, surf, cache, shown, count, queue, pending, acks,
                  acked, worker, ran, toWorker, toPage, dec, owed>>

-----------------------------------------------------------------------------

Given(h) == h \in setting.may

Video    == {"avc-key", "avc-delta"}
Ordered  == {"fill", "raw", "copy", "save", "load"}
Pictures == 0..MaxPdus

Pdu == [id : 1..MaxPdus, kind : Kinds, src : Surfaces \cup Slots \cup {NoPicture},
        dst : Surfaces \cup Slots \cup {NoPicture}]

SurfaceType == [st : {"gone", "orphan", "live"}, px : Pictures,
                touched : BOOLEAN, dirty : BOOLEAN, mapped : BOOLEAN]

NoSurface == [st |-> "gone", px |-> 0, touched |-> FALSE, dirty |-> FALSE,
              mapped |-> FALSE]

PipelineTypeOK ==
  /\ setting \in Settings
  /\ host \in [sent : {[id |-> 0, kind |-> "end", src |-> NoPicture,
                        dst |-> NoPicture]} \cup Pdu,
               frame : 0..MaxPdus, live : SUBSET Surfaces, keyed : SUBSET Surfaces]
  /\ surf \in [Surfaces -> SurfaceType]
  /\ cache \in [Slots -> Pictures \cup {NoPicture}]
  /\ shown \in [Surfaces -> Pictures]
  /\ count \in [decodes : Nat, settled : Nat, submitted : Nat, painted : Nat]
  /\ queue \in Seq([barrier : Nat, pdu : Pdu])
  /\ pending \in SUBSET Pdu
  /\ acks \in Seq([from : Nat, at : Nat, barrier : Nat, video : Nat])
  /\ acked \in Seq([from : Nat, at : Nat, forced : BOOLEAN])
  /\ worker \in {"up", "off", "lost", "closed"} /\ ran \in BOOLEAN
  /\ dec \in [Surfaces -> {"none", "started", "unsupported"}]
  /\ owed \in [Surfaces -> Seq(Pdu)]

PipelineInit ==
  /\ setting \in Settings
  /\ host = [sent |-> [id |-> 0, kind |-> "end", src |-> NoPicture, dst |-> NoPicture],
             frame |-> 0, live |-> {}, keyed |-> {}]
  /\ surf = [s \in Surfaces |-> NoSurface]
  /\ cache = [c \in Slots |-> NoPicture]
  /\ shown = [s \in Surfaces |-> 0]
  /\ count = [decodes |-> 0, settled |-> 0, submitted |-> 0, painted |-> 0]
  /\ queue = <<>> /\ pending = {} /\ acks = <<>> /\ acked = <<>>
  /\ worker = setting.worker /\ ran = FALSE /\ toWorker = <<>> /\ toPage = <<>>
  /\ dec = [s \in Surfaces |-> "none"] /\ owed = [s \in Surfaces |-> <<>>]

\* The length of the longest prefix of 1..n whose members all satisfy P.
PrefixOf(n, P(_)) ==
  CHOOSE k \in 0..n : (\A i \in 1..k : P(i)) /\ (k = n \/ ~P(k + 1))

-----------------------------------------------------------------------------
(* Painting.  A screen is a record of the surfaces and the cache.          *)

Screen == [surf |-> surf, cache |-> cache]

Absent(scr, s) == scr.surf[s].st = "gone"

\* _afterSurfaceUpdate and _markDirty after a write of picture v.
Paint(scr, s, v) ==
  [scr EXCEPT !.surf[s] = [@ EXCEPT !.px = v, !.touched = TRUE, !.dirty = TRUE]]

PaintIfThere(scr, s, v) == IF Absent(scr, s) THEN scr ELSE Paint(scr, s, v)

\* _ensureOrphanSurface: a wire PDU for an id that does not exist.
Materialise(scr, s) ==
  IF Absent(scr, s) THEN [scr EXCEPT !.surf[s].st = "orphan"] ELSE scr

SolidFill(scr, p) == PaintIfThere(scr, p.dst, p.id)

\* UNCOMPRESSED and ClearCodec: decoded and painted on the page at once.
DrawRaw(scr, p) == Paint(Materialise(scr, p.dst), p.dst, p.id)

SurfaceToSurface(scr, p) ==
  IF Absent(scr, p.src) THEN scr
  ELSE PaintIfThere(scr, p.dst, scr.surf[p.src].px)

SurfaceToCache(scr, p) ==
  IF Absent(scr, p.src) THEN scr
  ELSE [scr EXCEPT !.cache[p.dst] = scr.surf[p.src].px]

\* Mutant: an empty slot is painted like any other.
CacheToSurfaceVariant(scr, p) == PaintIfThere(scr, p.dst, scr.cache[p.src])

CacheToSurface(scr, p) ==
  IF scr.cache[p.src] = NoPicture THEN scr
  ELSE PaintIfThere(scr, p.dst, scr.cache[p.src])

\* _dispatchNow of an order-sensitive PDU.
Perform(scr, p) ==
  CASE p.kind = "fill" -> SolidFill(scr, p)
    [] p.kind = "raw"  -> DrawRaw(scr, p)
    [] p.kind = "copy" -> SurfaceToSurface(scr, p)
    [] p.kind = "save" -> SurfaceToCache(scr, p)
    [] p.kind = "load" -> CacheToSurface(scr, p)

\* _paintSurface: what a flush brings onto the canvas.
Visible(su) == su.st # "gone" /\ su.mapped /\ su.touched

\* _flushDirty, on surfaces fs.
FlushDirty(fs) ==
  /\ shown' = [s \in Surfaces |->
                 IF Visible(fs[s]) /\ fs[s].dirty THEN fs[s].px ELSE shown[s]]
  /\ surf' = [s \in Surfaces |-> [fs[s] EXCEPT !.dirty = FALSE]]

-----------------------------------------------------------------------------
(* The counters.                                                           *)

\* _decodeSettled, first line.
Settle(c) == IF c.settled < c.decodes THEN [c EXCEPT !.settled = @ + 1] ELSE c

\* May the i-th queued operation run, all before it having run?
MayRun(c, i) ==
  /\ queue[i].barrier <= c.settled
  /\ ~(queue[i].pdu.kind = "save" /\ c.settled < c.decodes)

\* The operations of queue q, one by one.
Performed(scr, q) == FoldLeft(LAMBDA x, e : Perform(x, e.pdu), scr, q)

\* The rest of _decodeSettled: drain the queue from its head, onto scr.
Drain(c, scr) ==
  LET k   == PrefixOf(Len(queue), LAMBDA i : MayRun(c, i))
      end == Performed(scr, SubSeq(queue, 1, k))
  IN /\ queue' = SubSeq(queue, k + 1, Len(queue))
     /\ surf' = end.surf /\ cache' = end.cache

\* Mutant: an ack does not wait for the pictures of the video decoder.
LandedVariant(c, a) == c.settled >= a.barrier

Landed(c, a) == c.settled >= a.barrier /\ c.painted >= a.video

Receipt(a, forced) == [from |-> a.from, at |-> a.at, forced |-> forced]

\* _tryAckFrames with the pending frames as: acknowledge from the head.
TryAckFrames(c, as) ==
  LET k == PrefixOf(Len(as), LAMBDA i : Landed(c, as[i]))
  IN /\ count' = c
     /\ acks' = SubSeq(as, k + 1, Len(as))
     /\ acked' = acked \o [i \in 1..k |-> Receipt(as[i], FALSE)]

\* An H.264 output that no one will paint is written off.
WriteOff(c, video) == [c EXCEPT !.painted = IF @ < video THEN video ELSE @]

-----------------------------------------------------------------------------
(* Graphics PDUs from the host.                                            *)

\* The PDUs whose effect is still to come: unanswered decodes, queued
\* operations and H.264 pictures that were not painted.
Unpainted == (UNION {ToSet(owed[s]) : s \in Surfaces})
             \cup {m.pdu : m \in {x \in ToSet(toPage) : x.cmd = "h264-frame"}}
Waiting   == (IF worker \in {"lost", "closed"} THEN {} ELSE pending)
             \cup {e.pdu : e \in ToSet(queue)} \cup Unpainted

Touches(p, s) == s \in {p.src, p.dst}
Busy(s) == \E p \in Waiting : Touches(p, s)

\* What the host may send: it draws on surfaces it has created, except that
\* wire PDUs may precede a CREATE_SURFACE.
Sendable(k, src, dst) ==
  /\ k \in setting.kinds
  /\ CASE k = "create" -> src = NoPicture /\ dst \in Surfaces \ host.live
       [] k \in {"recreate", "delete"} ->
            src = NoPicture /\ dst \in host.live /\ (Busy(dst) => Given("reuse"))
       [] k \in {"map", "fill"} -> src = NoPicture /\ dst \in host.live
       [] k \in {"raw", "progressive"} \cup Video ->
            /\ src = NoPicture /\ dst \in Surfaces
            /\ k \in Video => host.keyed \subseteq {dst} \/ Given("twoVideos")
            /\ k = "avc-delta" => dst \in host.keyed \/ Given("deltaFirst")
            /\ k # "raw" /\ (\E e \in ToSet(queue) : e.pdu.kind = "save")
                 => Given("overrun")
       [] k = "copy" -> {src, dst} \subseteq host.live /\ src # dst
       [] k = "save" -> src \in host.live /\ dst \in Slots
       [] k = "load" -> src \in Slots /\ dst \in host.live
       [] OTHER -> src = NoPicture /\ dst = NoPicture

\* The variables every PDU leaves alone, and the one it always sets.
Sends(k, src, dst) ==
  /\ worker # "closed" /\ host.sent.id < setting.pdus
  /\ Sendable(k, src, dst)
  /\ host' = [sent |-> [id |-> host.sent.id + 1, kind |-> k, src |-> src, dst |-> dst],
              frame |-> IF k = "end" THEN host.sent.id + 1 ELSE host.frame,
              live |-> IF k = "create" THEN host.live \cup {dst}
                       ELSE IF k = "delete" THEN host.live \ {dst} ELSE host.live,
              keyed |-> IF k = "avc-key" THEN host.keyed \cup {dst}
                        ELSE IF k \in {"delete", "recreate"} THEN host.keyed \ {dst}
                        ELSE host.keyed]
  /\ UNCHANGED <<setting, worker, ran, toPage>>

\* Mutant: uncompressed and ClearCodec PDUs are painted at once.
MustQueueVariant(k) == /\ k \in Ordered \ {"raw"}
                       /\ count.settled < count.decodes \/ queue # <<>>

\* _dispatch: an order-sensitive PDU waits behind decodes in flight and
\* behind every one that waits already.
MustQueue(k) == /\ k \in Ordered
                /\ count.settled < count.decodes \/ queue # <<>>

DispatchOrdered(k, src, dst) ==
  /\ k \in Ordered /\ Sends(k, src, dst)
  /\ IF MustQueue(k)
     THEN /\ queue' = Append(queue, [barrier |-> count.decodes, pdu |-> host'.sent])
          /\ UNCHANGED <<surf, cache>>
     ELSE /\ LET end == Perform(Screen, host'.sent)
             IN surf' = end.surf /\ cache' = end.cache
          /\ UNCHANGED queue
  /\ UNCHANGED <<shown, count, pending, toWorker, ackVars, videoVars>>

\* CREATE_SURFACE of an id that is free on the host's side: an orphan's
\* picture is adopted, without its pending flush.
CreateSurface(s) ==
  /\ Sends("create", NoPicture, s)
  /\ surf' = [surf EXCEPT ![s] =
                IF @.st = "orphan" THEN [@ EXCEPT !.st = "live", !.dirty = FALSE]
                ELSE [NoSurface EXCEPT !.st = "live"]]
  /\ UNCHANGED <<cache, shown, count, queue, pending, toWorker, ackVars, videoVars>>

\* _destroySurface: the decoder goes with the surface, the worker's when the
\* message reaches it.
DestroySurface(s) ==
  IF worker = "up"
  THEN toWorker' = Append(toWorker, [cmd |-> "destroy", surface |-> s])
       /\ UNCHANGED videoVars
  ELSE dec' = [dec EXCEPT ![s] = "none"] /\ owed' = [owed EXCEPT ![s] = <<>>]
       /\ UNCHANGED toWorker

\* CREATE_SURFACE of an id in use, and DELETE_SURFACE.
RecreateSurface(s) ==
  /\ Sends("recreate", NoPicture, s) /\ DestroySurface(s)
  /\ surf' = [surf EXCEPT ![s] = [NoSurface EXCEPT !.st = "live"]]
  /\ UNCHANGED <<cache, shown, count, queue, pending, ackVars>>

DeleteSurface(s) ==
  /\ Sends("delete", NoPicture, s) /\ DestroySurface(s)
  /\ surf' = [surf EXCEPT ![s] = NoSurface]
  /\ UNCHANGED <<cache, shown, count, queue, pending, ackVars>>

\* MAP_SURFACE_TO_OUTPUT and _TO_SCALED_OUTPUT.
MapSurfaceToOutput(s) ==
  /\ Sends("map", NoPicture, s)
  /\ surf' = [surf EXCEPT ![s].mapped = TRUE, ![s].dirty = surf[s].st # "gone"]
  /\ UNCHANGED <<cache, shown, count, queue, pending, toWorker, ackVars, videoVars>>

\* RESET_GRAPHICS with a new size: the page resizes its canvas, which clears
\* it, and repaints every surface.
ResetGraphics ==
  /\ Sends("reset", NoPicture, NoPicture)
  /\ shown' = [s \in Surfaces |-> IF Visible(surf[s]) THEN surf[s].px ELSE 0]
  /\ surf' = [s \in Surfaces |-> [surf[s] EXCEPT !.dirty = FALSE]]
  /\ UNCHANGED <<cache, count, queue, pending, toWorker, ackVars, videoVars>>

\* END_FRAME: the frame waits for the decodes and the H.264 chunks submitted
\* before it; what it painted goes to the canvas.
EndFrame ==
  /\ Sends("end", NoPicture, NoPicture)
  /\ FlushDirty(surf)
  /\ TryAckFrames(count, Append(acks, [from |-> host.frame, at |-> host'.frame,
                                       barrier |-> count.decodes,
                                       video |-> count.submitted]))
  /\ UNCHANGED <<cache, queue, pending, toWorker, videoVars>>

\* WIRE_TO_SURFACE_2, progressive, to the worker.
DecodeProgressive(s) ==
  /\ worker = "up" /\ Sends("progressive", NoPicture, s)
  /\ surf' = Materialise(Screen, s).surf
  /\ count' = [count EXCEPT !.decodes = @ + 1]
  /\ pending' = pending \cup {host'.sent}
  /\ toWorker' = Append(toWorker, [cmd |-> "progressive", pdu |-> host'.sent])
  /\ UNCHANGED <<cache, shown, queue, ackVars, videoVars>>

\* _decodeProgressiveSync: no worker, decoded and settled on the spot.
DecodeProgressiveSync(s) ==
  /\ worker # "up" /\ Sends("progressive", NoPicture, s)
  /\ \E ok \in {TRUE} \cup {~Given("decodeFails")} :
       LET scr == Materialise(Screen, s)
           c   == Settle([count EXCEPT !.decodes = @ + 1])
       IN /\ Drain(c, IF ok THEN Paint(scr, s, host'.sent.id) ELSE scr)
          /\ count' = c
  /\ UNCHANGED <<shown, pending, toWorker, ackVars, videoVars>>

\* WIRE_TO_SURFACE_1, AVC420 or the main view of AVC444, to the worker.
DecodeAvc420(k, s) ==
  /\ worker = "up" /\ k \in Video /\ Sends(k, NoPicture, s)
  /\ surf' = Materialise(Screen, s).surf
  /\ count' = [count EXCEPT !.decodes = @ + 1, !.submitted = @ + 1]
  /\ pending' = pending \cup {host'.sent}
  /\ toWorker' = Append(toWorker, [cmd |-> "h264", pdu |-> host'.sent])
  /\ UNCHANGED <<cache, shown, queue, ackVars, videoVars>>

-----------------------------------------------------------------------------
(* H.264: one decoder per surface, in the worker or on the page.           *)

\* H264Dec.decode: how taking chunk p can end.  The first chunk of a decoder
\* must be a key frame.
Outcomes(p) ==
  LET d == dec[p.dst]
  IN IF d = "unsupported" \/ (d = "none" /\ p.kind # "avc-key")
     THEN {"dropped"}
     ELSE {"taken"}
          \cup (IF Given("videoThrows") THEN {"threw"} ELSE {})
          \cup (IF d = "none" /\ Given("noVideo") THEN {"unsupported"} ELSE {})

Submit(p, o) ==
  LET s == p.dst
  IN /\ dec' = [dec EXCEPT ![s] = CASE o = "taken" -> "started"
                                    [] o = "threw" -> "none"
                                    [] o = "unsupported" -> "unsupported"
                                    [] OTHER -> @]
     /\ owed' = [owed EXCEPT ![s] = CASE o = "taken" -> Append(@, p)
                                      [] o = "threw" -> <<>>
                                      [] OTHER -> @]

\* The page's own decoder, when there is no worker; nothing is counted.
DecodeAvc420Page(k, s) ==
  /\ worker # "up" /\ k \in Video /\ Sends(k, NoPicture, s)
  /\ surf' = Materialise(Screen, s).surf
  /\ \E o \in Outcomes(host'.sent) : Submit(host'.sent, o)
  /\ UNCHANGED <<cache, shown, count, queue, pending, toWorker, ackVars>>

\* The decoder puts out the oldest chunk it holds: _onFrame.
VideoOutput(s) ==
  /\ worker # "closed" /\ owed[s] # <<>>
  /\ owed' = [owed EXCEPT ![s] = Tail(@)]
  /\ IF worker = "up"
     THEN /\ toPage' = Append(toPage, [cmd |-> "h264-frame", pdu |-> Head(owed[s])])
          /\ UNCHANGED surf
     ELSE /\ surf' = PaintIfThere(Screen, s, Head(owed[s]).id).surf
          /\ UNCHANGED toPage
  /\ UNCHANGED <<setting, host, cache, shown, count, queue, pending, ackVars, worker,
                 ran, toWorker, dec>>

\* The decoder reports an error: what it owed is lost.
VideoError(s) ==
  /\ worker # "closed" /\ Given("videoFails") /\ owed[s] # <<>>
  /\ owed' = [owed EXCEPT ![s] = <<>>] /\ dec' = [dec EXCEPT ![s] = "none"]
  /\ toPage' = IF worker = "up" THEN Append(toPage, [cmd |-> "h264-need-keyframe"])
               ELSE toPage
  /\ UNCHANGED <<setting, host, pageVars, count, pending, ackVars, worker, ran, toWorker>>

-----------------------------------------------------------------------------
(* The worker.                                                             *)

Post(ms) == toPage' = toPage \o ms

WorkerProgressive(m) ==
  /\ m.cmd = "progressive"
  /\ \E ok \in {TRUE} \cup {~Given("decodeFails")} :
       Post(<<[cmd |-> "progressive-result", pdu |-> m.pdu, ok |-> ok]>>)
  /\ UNCHANGED videoVars

WorkerH264(m) ==
  /\ m.cmd = "h264"
  /\ \E o \in Outcomes(m.pdu) :
       /\ Submit(m.pdu, o)
       /\ Post((CASE o = "threw" -> <<[cmd |-> "h264-need-keyframe"]>>
                  [] o = "unsupported" -> <<[cmd |-> "h264-unsupported"]>>
                  [] OTHER -> <<>>)
               \o <<[cmd |-> "h264-submitted", pdu |-> m.pdu, willOutput |-> o = "taken"]>>)

WorkerDestroySurface(m) ==
  /\ m.cmd = "destroy"
  /\ dec' = [dec EXCEPT ![m.surface] = "none"]
  /\ owed' = [owed EXCEPT ![m.surface] = <<>>]
  /\ UNCHANGED toPage

WorkerStep ==
  /\ worker = "up" /\ toWorker # <<>>
  /\ \/ WorkerProgressive(Head(toWorker))
     \/ WorkerH264(Head(toWorker))
     \/ WorkerDestroySurface(Head(toWorker))
  /\ toWorker' = Tail(toWorker) /\ ran' = TRUE
  /\ UNCHANGED <<setting, host, pageVars, count, pending, ackVars, worker>>

\* onerror: the script could not be loaded, so nothing posted was handled.
\* Decodes go to the page from now on; the pending ones stay unanswered.
WorkerError ==
  /\ worker = "up" /\ ~ran /\ Given("workerLost")
  /\ worker' = "lost" /\ toWorker' = <<>>
  /\ UNCHANGED <<setting, host, pageVars, count, pending, ackVars, ran, toPage, videoVars>>

-----------------------------------------------------------------------------
(* Messages of the worker on the page: _onWorkerMessage.                   *)

Take(m) ==
  /\ worker # "closed" /\ toPage # <<>> /\ m = Head(toPage)
  /\ toPage' = Tail(toPage)
  /\ UNCHANGED <<setting, host, shown, ran, toWorker, videoVars>>

OnProgressiveResult(m) ==
  /\ Take(m) /\ m.cmd = "progressive-result"
  /\ pending' = pending \ {m.pdu}
  /\ Drain(Settle(count),
           IF m.ok THEN PaintIfThere(Screen, m.pdu.dst, m.pdu.id) ELSE Screen)
  /\ TryAckFrames(Settle(count), acks)
  /\ UNCHANGED worker

OnH264Submitted(m) ==
  /\ Take(m) /\ m.cmd = "h264-submitted"
  /\ pending' = pending \ {m.pdu}
  /\ LET c == IF m.willOutput THEN count ELSE [count EXCEPT !.painted = @ + 1]
     IN Drain(Settle(c), Screen) /\ TryAckFrames(Settle(c), acks)
  /\ UNCHANGED worker

\* _paintH264Frame.
OnH264Frame(m) ==
  /\ Take(m) /\ m.cmd = "h264-frame"
  /\ surf' = PaintIfThere(Screen, m.pdu.dst, m.pdu.id).surf
  /\ TryAckFrames([count EXCEPT !.painted = @ + 1], acks)
  /\ UNCHANGED <<cache, queue, pending, worker>>

OnNeedKeyframe(m) ==
  /\ Take(m) /\ m.cmd = "h264-need-keyframe"
  /\ TryAckFrames([count EXCEPT !.painted = count.submitted], acks)
  /\ UNCHANGED <<surf, cache, queue, pending, worker>>

\* destroy: the worker is terminated and the timers are cleared.
Shut ==
  /\ worker' = "closed" /\ toWorker' = <<>> /\ toPage' = <<>>
  /\ surf' = [s \in Surfaces |-> [surf[s] EXCEPT !.dirty = FALSE]]

\* The page ends the session: H.264 was negotiated and cannot be decoded.
OnUnsupported ==
  /\ worker = "up" /\ toPage # <<>> /\ Head(toPage).cmd = "h264-unsupported"
  /\ Shut
  /\ UNCHANGED <<setting, host, cache, shown, count, queue, pending, ackVars, ran, videoVars>>

Destroy ==
  /\ worker # "closed" /\ Given("closes") /\ Shut
  /\ UNCHANGED <<setting, host, cache, shown, count, queue, pending, ackVars, ran, videoVars>>

PageMessage ==
  \/ \E m \in ToSet(toPage) : \/ OnProgressiveResult(m) \/ OnH264Submitted(m)
                              \/ OnH264Frame(m) \/ OnNeedKeyframe(m)
  \/ OnUnsupported

-----------------------------------------------------------------------------
(* Timers.                                                                 *)

\* Mutant: the timer acknowledges what has landed and forces nothing.
AckTimerVariant ==
  /\ worker # "closed" /\ acks # <<>> /\ Landed(count, acks[1])
  /\ TryAckFrames(count, acks)
  /\ UNCHANGED <<setting, host, pageVars, pending, worker, ran, toWorker, toPage, videoVars>>

\* _ACK_FORCE_MS after the END_FRAME of the head of the list: it, and the k
\* frames that are as late, are acknowledged and their pictures written off.
AckTimer ==
  /\ worker # "closed" /\ acks # <<>>
  /\ \E k \in 1..Len(acks) :
       LET c    == WriteOff(count, acks[k].video)
           more == PrefixOf(Len(acks) - k, LAMBDA i : Landed(c, acks[k + i]))
       IN /\ count' = c
          /\ acks' = SubSeq(acks, k + more + 1, Len(acks))
          /\ acked' = acked \o
               [i \in 1..(k + more) |-> Receipt(acks[i], i <= k /\ ~Landed(count, acks[i]))]
  /\ UNCHANGED <<setting, host, pageVars, pending, worker, ran, toWorker, toPage, videoVars>>

\* requestAnimationFrame: _flushDirty outside a frame.
Flush ==
  /\ worker # "closed" /\ \E s \in Surfaces : surf[s].dirty
  /\ FlushDirty(surf)
  /\ UNCHANGED <<setting, host, cache, count, queue, pending, ackVars, worker, ran,
                 toWorker, toPage, videoVars>>

-----------------------------------------------------------------------------

HostStep ==
  \/ \E k \in Ordered, a, b \in Surfaces \cup Slots \cup {NoPicture} :
       DispatchOrdered(k, a, b)
  \/ \E s \in Surfaces :
       \/ CreateSurface(s) \/ RecreateSurface(s) \/ DeleteSurface(s)
       \/ MapSurfaceToOutput(s)
       \/ DecodeProgressive(s) \/ DecodeProgressiveSync(s)
       \/ \E k \in Video : DecodeAvc420(k, s) \/ DecodeAvc420Page(k, s)
  \/ ResetGraphics
  \/ EndFrame

\* Nothing is left to do.
Quiet == worker = "closed" \/ (host.sent.id = setting.pdus /\ queue = <<>> /\ acks = <<>>)
Rest  == Quiet /\ UNCHANGED pipelineVars

PipelineNext ==
  \/ HostStep
  \/ WorkerStep \/ WorkerError
  \/ PageMessage
  \/ \E s \in Surfaces : VideoOutput(s) \/ VideoError(s)
  \/ AckTimer \/ Flush \/ Destroy
  \/ Rest

PipelineSpec == PipelineInit /\ [][PipelineNext]_pipelineVars

\* Both event loops take their messages and run their timers; the host need
\* not send anything.  A decoder may keep its last picture for ever.
FairPipelineSpec ==
  /\ PipelineSpec
  /\ WF_pipelineVars(WorkerStep) /\ WF_pipelineVars(PageMessage)
  /\ WF_pipelineVars(AckTimer) /\ WF_pipelineVars(Flush)

-----------------------------------------------------------------------------
(* Properties.                                                             *)

\* The strict order of OrderedGfx, with what waits read off the queues.
Strict == INSTANCE OrderedGfx
            WITH px <- [s \in Surfaces |-> surf[s].px], todo <- Waiting,
                 last <- host.sent

\* The pipeline performs PDUs in the order of their arrival (comment at
\* rdpgfx.js:154-166), whatever the worker, the decoders and the timers do,
\* for a host that does not overrun a cache operation and reuses a surface
\* only when it is idle.
PdusInOrder == Strict!Spec

\* Every submitted decode advances the barrier exactly once, also when it
\* failed or its surface is gone (comment in _onWorkerMessage).
BarrierExact == count.settled + Cardinality(pending) = count.decodes

\* A mapped surface without a pending flush is on the canvas as it is, also
\* after the canvas was cleared or an orphan was adopted.
CleanIsShown ==
  worker # "closed" =>
    \A s \in Surfaces : Visible(surf[s]) /\ ~surf[s].dirty => shown[s] = surf[s].px

\* The state of the pipeline hangs together: its types, the barrier and the
\* canvas.
PipelineCoherent == PipelineTypeOK /\ BarrierExact /\ CleanIsShown

\* The acknowledgements of a step.
NewAcks == {acked'[i] : i \in DOMAIN acked' \ DOMAIN acked}

\* A frame that is acknowledged has landed: none of its own PDUs still waits
\* (comment in _onEndFrame), as long as no picture had to be written off: no
\* acknowledgement was forced and no video decoder was rebuilt.  The chunks of
\* the page's own decoder are not counted, so it needs the worker.
NoEarlyAck ==
  [][\A a \in NewAcks :
       \/ worker # "up"
       \/ Given("videoThrows") \/ Given("videoFails")
       \/ \E i \in DOMAIN acked' : acked'[i].forced
       \/ ~\E p \in Waiting' : a.from < p.id /\ p.id < a.at]_pipelineVars

\* A frame that was not acknowledged by force has landed, also after one that was
\* ("later frames are judged on their own content", comment in _tryAckFrames).
LaterFramesJudged ==
  [][\A a \in NewAcks :
       \/ worker # "up" \/ a.forced
       \/ Given("videoThrows") \/ Given("videoFails")
       \/ ~\E p \in Waiting' : a.from < p.id /\ p.id < a.at]_pipelineVars

\* Every frame is acknowledged in the end, whatever is lost, or the host's
\* window of unacknowledged frames would close for good.
FramesAcked == acks # <<>> ~> (acks = <<>> \/ worker = "closed")

\* No order-sensitive operation waits for ever.
QueueDrains == queue # <<>> ~> (queue = <<>> \/ worker = "closed")

\* Neither the acknowledgements nor the queue ever wedge.
NothingWedges == FramesAcked /\ QueueDrains

=============================================================================
