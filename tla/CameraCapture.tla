---------------------------- MODULE CameraCapture ----------------------------
(***************************************************************************)
(* The redirected webcam: the device channels of wwwroot/lib/rdpweb/       *)
(* rdpecam.js, their upkeep in protocol.js, and the capture in client.js   *)
(* and camera-worker.js.  The host pulls: each SampleRequest is owed one   *)
(* frame of the size that StartStreams asked for.  The webcam is acquired  *)
(* behind a permission prompt; a frame is scaled by the browser and then   *)
(* converted by a worker, and both answers come later.                     *)
(*                                                                         *)
(* The host's requests and the answers go through in order and the client  *)
(* answers within the step, so channels between them are left out.         *)
(***************************************************************************)
EXTENDS Integers, FiniteSets

CONSTANTS
  Devices,       \* device channels of the one camera
  Types,         \* media types (sizes)
  DefaultType,   \* CAM_MEDIA_TYPES[0]
  Environments   \* each [opens, starts, samples, pauses, may]

Hazards ==
  { "restarts",   \* the host starts a stream that runs, or stops it
    "closes",     \* it closes device channels
    "adopts",     \* it samples a channel on which no stream was started
    "reprompts",  \* it stops and starts again while the user is asked
    "mixes",      \* it starts streams of different sizes side by side
    "fails",      \* the browser cannot scale, or convert in a worker
    "leaves",     \* the user disconnects
    "leavesAsked" }  \* and also while asked for the webcam

NoType == "none"

EnvironmentType == [opens : Nat, starts : Nat, samples : Nat, pauses : Nat, may : SUBSET Hazards]

ASSUME CameraAssumption ==
  DefaultType \in Types /\ NoType \notin Types /\ Environments \subseteq EnvironmentType

VARIABLES
  env,
  devs,     \* camDevices: what the handler of each channel knows
  cam,      \* the client's camera: _camMt, _camGen, _camSamplePending, ...
  webcam,   \* prompts that are open, streams that run, the one in use, its state
  jobs,     \* frames on their way through the scaler and the worker
  sent      \* the last sample sent on a device channel

vars == <<env, devs, cam, webcam, jobs, sent>>

May(h) == h \in env.may

NoFrame  == [live |-> FALSE, type |-> NoType]
NoSample == [frame |-> NoFrame, asked |-> NoType, paused |-> FALSE]
Frames   == [live : BOOLEAN, type : Types \cup {NoType}]
Closed   == [open |-> FALSE, streaming |-> FALSE, started |-> FALSE, type |-> NoType,
             pend |-> 0, frame |-> NoFrame]

TypeOK ==
  /\ env \in EnvironmentType
  /\ devs \in [Devices -> [open : BOOLEAN, streaming : BOOLEAN, started : BOOLEAN,
                           type : Types \cup {NoType}, pend : Nat, frame : Frames]]
  /\ cam \in [type : Types \cup {NoType}, gen : Nat, pending : BOOLEAN, more : BOOLEAN,
              busy : BOOLEAN, timer : BOOLEAN, paused : BOOLEAN, worker : BOOLEAN,
              req : Nat, gone : BOOLEAN]
  /\ webcam \in [prompts : SUBSET Nat, starting : BOOLEAN, running : SUBSET Nat,
                 used : Nat, state : {"off", "requesting", "live", "denied"}]
  /\ jobs \subseteq [stage : {"scale", "worker"}, gen : Nat, type : Types, id : Nat]
  /\ sent \in [Devices -> [frame : Frames, asked : Types \cup {NoType}, paused : BOOLEAN]]
  /\ \A d \in Devices : devs[d].streaming => devs[d].open /\ devs[d].type # NoType

Init ==
  /\ env \in Environments
  /\ devs = [d \in Devices |-> Closed]
  /\ cam = [type |-> NoType, gen |-> 0, pending |-> FALSE, more |-> FALSE, busy |-> FALSE,
            timer |-> FALSE, paused |-> FALSE, worker |-> TRUE, req |-> 0, gone |-> FALSE]
  /\ webcam = [prompts |-> {}, starting |-> FALSE, running |-> {}, used |-> 0, state |-> "off"]
  /\ jobs = {} /\ sent = [d \in Devices |-> NoSample]

-----------------------------------------------------------------------------
(* Capturing.                                                              *)

\* _pumpCamera.  A capture that is due at once is one whose timer fires next.
Pump(c) ==
  IF c.type # NoType /\ c.pending /\ ~c.busy THEN [c EXCEPT !.timer = TRUE] ELSE c

\* pushFrame and _flushIfPossible: a frame is kept, and given up to the first
\* sample that is owed.
Pushed(d, frame) ==
  IF ~d.open THEN d
  ELSE IF d.streaming /\ d.pend > 0
       THEN [d EXCEPT !.pend = @ - 1, !.frame = NoFrame]
       ELSE [d EXCEPT !.frame = frame]

Sample(d, frame) ==
  [frame |-> frame, asked |-> IF d.started THEN d.type ELSE NoType, paused |-> cam.paused]

\* sendCameraFrame: to every device channel.
Fan(frame) ==
  /\ devs' = [d \in Devices |-> Pushed(devs[d], frame)]
  /\ sent' = [d \in Devices |-> IF devs[d].streaming /\ devs[d].pend > 0
                                THEN Sample(devs[d], frame) ELSE sent[d]]

\* Mutant: a frame of an earlier stream does not free the camera.
DeliverVariant(gen, frame) ==
  IF gen # cam.gen \/ cam.type = NoType
  THEN cam' = Pump(cam) /\ UNCHANGED <<devs, sent>>
  ELSE /\ cam' = Pump([cam EXCEPT !.busy = FALSE, !.pending = cam.more, !.more = FALSE])
       /\ Fan(frame)

\* _deliverCameraFrame: one of an earlier stream is dropped.
Deliver(gen, frame) ==
  IF gen # cam.gen \/ cam.type = NoType
  THEN cam' = Pump([cam EXCEPT !.busy = FALSE]) /\ UNCHANGED <<devs, sent>>
  ELSE /\ cam' = Pump([cam EXCEPT !.busy = FALSE, !.pending = cam.more, !.more = FALSE])
       /\ Fan(frame)

Frame(live, type) == [live |-> live, type |-> type]

\* What tells a frame from equal ones that are being scaled.
ScaleIds == {k.id : k \in {j \in jobs : j.stage = "scale"}}
NewScale(n) == n \notin ScaleIds /\ 0..(n - 1) \subseteq ScaleIds

\* _captureCameraFrame: the picture of the webcam, scaled and then converted,
\* here when there is no worker; a placeholder when there is no picture.
Capture ==
  /\ cam.timer
  /\ \/ /\ cam.type = NoType \/ ~cam.pending \/ cam.busy
        /\ cam' = [cam EXCEPT !.timer = FALSE] /\ UNCHANGED <<devs, sent, jobs>>
     \/ /\ cam.type # NoType /\ cam.pending /\ ~cam.busy
        /\ \/ /\ cam' = Pump([cam EXCEPT !.timer = FALSE, !.pending = cam.more, !.more = FALSE])
              /\ \E live \in {FALSE, webcam.state = "live" /\ ~cam.paused /\ ~cam.worker} :
                   Fan(Frame(live, cam.type))
              /\ UNCHANGED jobs
           \/ /\ webcam.state = "live" /\ ~cam.paused /\ cam.worker
              /\ cam' = [cam EXCEPT !.timer = FALSE, !.busy = TRUE]
              /\ \E n \in 0..Cardinality(jobs) : NewScale(n) /\
                   jobs' = jobs \cup {[stage |-> "scale", gen |-> cam.gen,
                                      type |-> cam.type, id |-> n]}
              /\ UNCHANGED <<devs, sent>>
  /\ UNCHANGED <<env, webcam>>

\* createImageBitmap is done and the worker is asked; if that worker has been
\* given up, nobody answers.
Scaled(j) ==
  /\ j.stage = "scale"
  /\ cam' = [cam EXCEPT !.req = @ + 1]
  /\ jobs' = (jobs \ {j}) \cup
       (IF cam.worker THEN {[j EXCEPT !.stage = "worker", !.id = cam.req + 1]} ELSE {})
  /\ UNCHANGED <<env, devs, webcam, sent>>

\* createImageBitmap fails: the frame is converted here.
ScaleFails(j) ==
  /\ j.stage = "scale" /\ May("fails")
  /\ jobs' = jobs \ {j}
  /\ Deliver(j.gen, Frame(TRUE, j.type))
  /\ UNCHANGED <<env, webcam>>

\* camera-worker.js answers; only the answer to the last request counts.
Converted(j) ==
  /\ j.stage = "worker"
  /\ jobs' = jobs \ {j}
  /\ IF j.id = cam.req THEN Deliver(j.gen, Frame(TRUE, j.type))
                       ELSE UNCHANGED <<cam, devs, sent>>
  /\ UNCHANGED <<env, webcam>>

\* It answers with an error and is given up.
ConvertFails(j) ==
  /\ j.stage = "worker" /\ May("fails") /\ j.id = cam.req
  /\ jobs' = {k \in jobs : k.stage # "worker"}
  /\ cam' = Pump([cam EXCEPT !.worker = FALSE, !.busy = FALSE])
  /\ UNCHANGED <<env, devs, webcam, sent>>

-----------------------------------------------------------------------------
(* The webcam.                                                             *)

\* Mutant: frames of the stream before are not told apart.
StartedVariant(c, type) == Pump([c EXCEPT !.type = type])

Started(c, type) == Pump([c EXCEPT !.type = type, !.gen = @ + 1])

\* _startCameraCapture: the webcam is asked for unless there is one.  A prompt, and
\* the webcam's stream that comes of it, have the number of the start that asked.
StartCapture(type) ==
  /\ cam' = Started(cam, type)
  /\ webcam' = IF webcam.used # 0 \/ webcam.starting THEN webcam
               ELSE [webcam EXCEPT !.starting = TRUE, !.state = "requesting",
                       !.prompts = @ \cup {cam.gen + 1}]

\* _stopCameraCapture.
StopCapture(c) ==
  /\ cam' = [c EXCEPT !.type = NoType, !.gen = @ + 1, !.pending = FALSE, !.more = FALSE,
                      !.busy = FALSE, !.timer = FALSE]
  /\ webcam' = [webcam EXCEPT !.starting = FALSE, !.state = "off", !.used = 0,
                              !.running = @ \ {webcam.used}]

\* cameraMediaType: a device channel is streaming.
Streaming == \E d \in Devices : devs[d].streaming

\* Mutant: a stream is kept that the host has stopped meanwhile.
WantedVariant == TRUE

\* What _startCameraCapture asks of the protocol when the webcam is granted:
\* disconnect keeps the protocol with its device channels.
Wanted == Streaming

\* The user allows the webcam: its stream is used if it is still wanted.
Granted(p) ==
  /\ p \in webcam.prompts
  /\ webcam' = IF Wanted
               THEN [webcam EXCEPT !.prompts = @ \ {p}, !.starting = FALSE, !.used = p,
                                   !.running = @ \cup {p}, !.state = "live"]
               ELSE [webcam EXCEPT !.prompts = @ \ {p}, !.starting = FALSE]
  /\ UNCHANGED <<env, devs, cam, jobs, sent>>

\* The user does not, or there is none.
Denied(p) ==
  /\ p \in webcam.prompts
  /\ webcam' = [webcam EXCEPT !.prompts = @ \ {p}, !.starting = FALSE, !.state = "denied"]
  /\ UNCHANGED <<env, devs, cam, jobs, sent>>

\* setCameraPaused.
Pause ==
  /\ env.pauses > 0
  /\ env' = [env EXCEPT !.pauses = @ - 1]
  /\ cam' = [cam EXCEPT !.paused = ~@]
  /\ UNCHANGED <<devs, webcam, jobs, sent>>

-----------------------------------------------------------------------------
(* The device channels.                                                    *)

HostOpens(d) ==
  /\ ~devs[d].open /\ ~cam.gone /\ env.opens > 0
  /\ env' = [env EXCEPT !.opens = @ - 1]
  /\ devs' = [devs EXCEPT ![d] = [Closed EXCEPT !.open = TRUE]]
  /\ UNCHANGED <<cam, webcam, jobs, sent>>

\* _onStartStreams.
HostStarts(d, t) ==
  /\ devs[d].open /\ ~cam.gone /\ env.starts > 0
  /\ devs[d].streaming => May("restarts")
  /\ May("mixes") \/ \A e \in Devices \ {d} : devs[e].started => devs[e].type = t
  /\ May("reprompts") \/ webcam.prompts = {} \/ webcam.starting
  /\ env' = [env EXCEPT !.starts = @ - 1]
  /\ devs' = [devs EXCEPT ![d] = [@ EXCEPT !.streaming = TRUE, !.started = TRUE, !.type = t,
                                           !.pend = 0, !.frame = NoFrame]]
  /\ StartCapture(t)
  /\ UNCHANGED <<jobs, sent>>

\* _onCamDeviceStopped: the capture ends with the last stream.
Stopped(ds) ==
  /\ devs' = ds
  /\ IF \E d \in Devices : ds[d].streaming THEN UNCHANGED <<cam, webcam>> ELSE StopCapture(cam)

\* StopStreams or DeactivateDevice.
HostStops(d) ==
  /\ devs[d].streaming /\ May("restarts") /\ ~cam.gone
  /\ Stopped([devs EXCEPT ![d] = [@ EXCEPT !.streaming = FALSE, !.started = FALSE,
                                           !.pend = 0, !.frame = NoFrame]])
  /\ UNCHANGED <<env, jobs, sent>>

\* _dvcOnClose.
HostCloses(d) ==
  /\ devs[d].open /\ May("closes") /\ ~cam.gone
  /\ Stopped([devs EXCEPT ![d] = Closed])
  /\ UNCHANGED <<env, jobs, sent>>

\* _onCameraSampleNeeded.
Needed(c) == Pump([c EXCEPT !.more = c.more \/ c.busy, !.pending = TRUE])

\* _onSampleRequest: a kept frame answers it at once, and another is captured.
\* The host has one request open on a channel.
HostSamples(d) ==
  /\ devs[d].open /\ ~cam.gone /\ env.samples > 0 /\ devs[d].pend = 0
  /\ devs[d].streaming \/ May("adopts")
  /\ env' = [env EXCEPT !.samples = @ - 1]
  /\ LET dev == [devs[d] EXCEPT !.streaming = TRUE,
                                !.type = IF @ = NoType THEN DefaultType ELSE @]
     IN IF dev.frame # NoFrame
        THEN /\ devs' = [devs EXCEPT ![d] = [dev EXCEPT !.frame = NoFrame]]
             /\ sent' = [sent EXCEPT ![d] = Sample(dev, dev.frame)]
        ELSE /\ devs' = [devs EXCEPT ![d] = [dev EXCEPT !.pend = 1]] /\ UNCHANGED sent
  /\ cam' = Needed(cam)
  /\ UNCHANGED <<webcam, jobs>>

\* disconnect, by way of deinitialize, which stops the capture.  The host is not
\* heard any more.
Disconnect ==
  /\ May("leaves") /\ ~cam.gone
  /\ May("leavesAsked") \/ webcam.prompts = {}
  /\ StopCapture([cam EXCEPT !.gone = TRUE])
  /\ UNCHANGED <<env, devs, jobs, sent>>

-----------------------------------------------------------------------------

Work == Capture \/ \E j \in jobs : Scaled(j) \/ ScaleFails(j) \/ Converted(j) \/ ConvertFails(j)
User == Pause \/ Disconnect \/ \E p \in webcam.prompts : Granted(p) \/ Denied(p)
Host == \E d \in Devices :
  \/ HostOpens(d) \/ HostStops(d) \/ HostCloses(d) \/ HostSamples(d)
  \/ \E t \in Types : HostStarts(d, t)

\* The host may have nothing more to ask.
Rest == ~cam.timer /\ jobs = {} /\ webcam.prompts = {} /\ UNCHANGED vars

Next == Work \/ User \/ Host \/ Rest

Spec == Init /\ [][Next]_vars

\* Timers fire, and the scaler and the worker answer; the user need not.
FairSpec == Spec /\ WF_vars(Work)

-----------------------------------------------------------------------------
(* Properties.                                                             *)

\* A sample on a stream that was started has the size that was asked for, also
\* when the stream was started anew, in another size, while a frame was being
\* scaled or converted.
FrameFits ==
  \A d \in Devices : sent[d].asked # NoType => sent[d].frame.type = sent[d].asked

\* The types, and no sample of a wrong size.
Coherent == TypeOK /\ FrameFits

\* Only the stream in use keeps the webcam running, and none after the last
\* stream of the host has ended or the user has left ("release the webcam",
\* _stopCameraCapture), whatever the user answers and when.
WebcamReleased ==
  /\ webcam.running \subseteq {webcam.used} \ {0}
  /\ webcam.used # 0 => ~cam.gone /\ Streaming

\* A sample that is owed is sent, or its stream ends, or the user leaves: the
\* user need not answer the prompt, the stream may be started anew, the worker
\* may fail.
SamplesAnswered ==
  \A d \in Devices : devs[d].started /\ devs[d].pend > 0 ~> devs[d].pend = 0 \/ cam.gone

\* While the camera is paused no picture of the webcam is sent ("while paused
\* we send a blanked (black) frame", setCameraPaused).
PausedIsBlank ==
  \A d \in Devices : ~(sent[d].paused /\ sent[d].frame.live)

=============================================================================
