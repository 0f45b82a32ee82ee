--------------------------- MODULE RedirectionProofs ---------------------------
(***************************************************************************)
(* Proofs about the redirected camera and about the virtual channels that  *)
(* carry it.                                                               *)
(*                                                                         *)
(* CameraCapture, for any number of device channels, sizes and requests:   *)
(* samples have the size that was asked for, and the webcam runs for a     *)
(* present stream only, each in every environment but the ones in which it *)
(* is known to fail.                                                       *)
(*                                                                         *)
(* RdpChannels, for any ids and any number of channels and PDUs on the     *)
(* way: what the client holds for a role is the host's channel of that     *)
(* name, and every handler is given the messages of its own channel, all   *)
(* of them and whole.                                                      *)
(***************************************************************************)
EXTENDS CameraCapture, RdpChannels, SequenceTheorems, TLAPS

-----------------------------------------------------------------------------
(* The camera.                                                             *)

\* All streams that the host starts are of one size at a time.
OneSize == ~May("mixes")

\* The user answers the prompt before the host asks anew, and before leaving.
Answers == ~May("reprompts") /\ ~May("leavesAsked")

-----------------------------------------------------------------------------
(* The inductive invariant.                                                *)

\* What is captured, kept or on its way is of the size of the started streams.
SizeInv ==
  /\ cam.gone => cam.type = NoType
  /\ \A d \in Devices : devs[d].started =>
       /\ devs[d].streaming
       /\ ~cam.gone => devs[d].type = cam.type
       /\ devs[d].frame # NoFrame => devs[d].frame.type = devs[d].type
  /\ \A j \in jobs : j.gen <= cam.gen /\ (j.gen = cam.gen => j.type = cam.type)
  /\ FrameFits

\* There is one prompt or one stream of the webcam.
PromptInv ==
  /\ \A p, q \in webcam.prompts : p = q /\ p # 0
  /\ webcam.used # 0 \/ cam.gone => webcam.prompts = {}
  /\ WebcamReleased

Inv == TypeOK /\ (OneSize => SizeInv) /\ (Answers => PromptInv)

-----------------------------------------------------------------------------
(* Types.                                                                  *)

DevType == [open : BOOLEAN, streaming : BOOLEAN, started : BOOLEAN,
            type : Types \cup {NoType}, pend : Nat, frame : Frames]
CamType == [type : Types \cup {NoType}, gen : Nat, pending : BOOLEAN, more : BOOLEAN,
            busy : BOOLEAN, timer : BOOLEAN, paused : BOOLEAN, worker : BOOLEAN,
            req : Nat, gone : BOOLEAN]
WebcamType == [prompts : SUBSET Nat, starting : BOOLEAN, running : SUBSET Nat,
               used : Nat, state : {"off", "requesting", "live", "denied"}]
SampleType == [frame : Frames, asked : Types \cup {NoType}, paused : BOOLEAN]
JobType == [stage : {"scale", "worker"}, gen : Nat, type : Types, id : Nat]
Sound(ds) == \A d \in Devices : ds[d].streaming => ds[d].open /\ ds[d].type # NoType

\* TypeOK with the types of the records named.
LEMMA TypeParts ==
  TypeOK <=> /\ env \in EnvironmentType /\ devs \in [Devices -> DevType] /\ cam \in CamType
             /\ webcam \in WebcamType /\ jobs \subseteq JobType /\ Sound(devs)
             /\ sent \in [Devices -> SampleType]
BY DEF TypeOK, DevType, CamType, WebcamType, JobType, SampleType, Sound

\* The same of the next state.
LEMMA TypePartsNext ==
  ASSUME env' \in EnvironmentType, devs' \in [Devices -> DevType], cam' \in CamType,
         webcam' \in WebcamType, jobs' \subseteq JobType, Sound(devs'),
         sent' \in [Devices -> SampleType]
  PROVE  TypeOK'
BY DEF TypeOK, DevType, CamType, WebcamType, JobType, SampleType, Sound

\* A camera that is pumped may set its timer, and nothing else.
LEMMA PumpFacts ==
  ASSUME NEW c \in CamType
  PROVE  /\ Pump(c) \in CamType /\ Pump(c).type = c.type /\ Pump(c).gen = c.gen
         /\ Pump(c).gone = c.gone /\ Pump(c).req = c.req
BY DEF CamType, Pump

\* A stream that is started has a number of its own.
LEMMA StartedFacts ==
  ASSUME NEW c \in CamType, NEW t \in Types
  PROVE  /\ Started(c, t) \in CamType /\ Started(c, t).type = t
         /\ Started(c, t).gen = c.gen + 1 /\ Started(c, t).gone = c.gone
<1> DEFINE k == [c EXCEPT !.type = t, !.gen = c.gen + 1]
<1>0. c.gen + 1 \in Nat
  BY DEF CamType
<1>1. k \in CamType /\ k.type = t /\ k.gen = c.gen + 1 /\ k.gone = c.gone
  BY <1>0 DEF CamType
<1>2. Started(c, t) = Pump(k)
  BY DEF Started
<1> HIDE DEF k
<1> QED
  BY <1>1, <1>2, PumpFacts

\* A frame that is given to the channels: it is kept or sent.
LEMMA PushedFacts ==
  ASSUME NEW d \in DevType, NEW frame \in Frames
  PROVE  /\ Pushed(d, frame) \in DevType
         /\ Pushed(d, frame).open = d.open /\ Pushed(d, frame).streaming = d.streaming
         /\ Pushed(d, frame).started = d.started /\ Pushed(d, frame).type = d.type
         /\ Pushed(d, frame).frame \in {d.frame, frame, NoFrame}
<1>1. NoFrame \in Frames
  BY DEF NoFrame, Frames
<1>2. CASE ~d.open
  BY <1>2 DEF Pushed
<1>3. CASE d.open /\ d.streaming /\ d.pend > 0
  <2>1. Pushed(d, frame) = [d EXCEPT !.pend = d.pend - 1, !.frame = NoFrame]
    BY <1>3 DEF Pushed
  <2>2. d.pend \in Nat /\ d.pend - 1 \in Nat
    BY <1>3 DEF DevType
  <2> QED
    BY <1>1, <2>1, <2>2 DEF DevType
<1>4. CASE d.open /\ ~(d.streaming /\ d.pend > 0)
  <2>1. Pushed(d, frame) = [d EXCEPT !.frame = frame]
    BY <1>4 DEF Pushed
  <2> QED
    BY <2>1 DEF DevType
<1> QED
  BY <1>2, <1>3, <1>4

\* A sample.
LEMMA SampleFacts ==
  ASSUME NEW d \in DevType, NEW frame \in Frames, cam \in CamType
  PROVE  /\ Sample(d, frame) \in SampleType /\ Sample(d, frame).frame = frame
         /\ Sample(d, frame).asked = IF d.started THEN d.type ELSE NoType
BY DEF Sample, SampleType, DevType, CamType

\* All channels are given a frame.
LEMMA FanFacts ==
  ASSUME TypeOK, NEW frame \in Frames, Fan(frame)
  PROVE  /\ devs' \in [Devices -> DevType] /\ Sound(devs')
         /\ sent' \in [Devices -> SampleType]
         /\ \A d \in Devices :
              /\ devs'[d].open = devs[d].open /\ devs'[d].streaming = devs[d].streaming
              /\ devs'[d].started = devs[d].started /\ devs'[d].type = devs[d].type
              /\ devs'[d].frame \in {devs[d].frame, frame, NoFrame}
              /\ \/ sent'[d] = sent[d]
                 \/ sent'[d].asked # NoType => devs[d].started /\ sent'[d].asked = devs[d].type
                                               /\ sent'[d].frame = frame
<1>1. \A d \in Devices : devs'[d] = Pushed(devs[d], frame)
  BY DEF Fan
<1>0. devs \in [Devices -> DevType] /\ Sound(devs) /\ sent \in [Devices -> SampleType]
      /\ cam \in CamType
  BY TypeParts
<1>2. \A d \in Devices : devs[d] \in DevType /\ Sample(devs[d], frame) \in SampleType
  BY <1>0, SampleFacts
<1>3. devs' \in [Devices -> DevType]
  <2>1. devs' = [d \in Devices |-> Pushed(devs[d], frame)]
    BY DEF Fan
  <2> QED
    BY <1>2, <2>1, PushedFacts
<1>4. \A d \in Devices :
        /\ devs'[d].open = devs[d].open /\ devs'[d].streaming = devs[d].streaming
        /\ devs'[d].started = devs[d].started /\ devs'[d].type = devs[d].type
        /\ devs'[d].frame \in {devs[d].frame, frame, NoFrame}
  BY <1>1, <1>2, PushedFacts
<1>5. Sound(devs')
  BY <1>0, <1>4 DEF Sound
<1>7. sent' \in [Devices -> SampleType]
  BY <1>0, <1>2 DEF Fan
<1>6. ASSUME NEW d \in Devices
      PROVE  \/ sent'[d] = sent[d]
             \/ sent'[d].asked # NoType => devs[d].started /\ sent'[d].asked = devs[d].type
                                           /\ sent'[d].frame = frame
  <2>1. sent'[d] = sent[d] \/ sent'[d] = Sample(devs[d], frame)
    BY DEF Fan
  <2> QED
    BY <1>0, <2>1, SampleFacts
<1> QED
  BY <1>3, <1>4, <1>5, <1>6, <1>7

-----------------------------------------------------------------------------
(* Frames.                                                                 *)

\* The stream goes on.
SameStream == /\ cam' \in CamType /\ cam'.type = cam.type /\ cam'.gen = cam.gen
              /\ cam'.gone = cam.gone

\* Nothing is sent, or a frame of the present stream.
Sent(frame) ==
  \/ UNCHANGED <<devs, sent>>
  \/ Fan(frame) /\ cam.type # NoType /\ (OneSize => frame.type = cam.type)

\* Frames on their way are those from before, or of the present stream.
JobsFollow ==
  /\ jobs' \subseteq JobType
  /\ \A j \in jobs' : \/ \E k \in jobs : j.gen = k.gen /\ j.type = k.type
                      \/ j.gen = cam.gen /\ j.type = cam.type

\* A frame of the present stream is given to the channels, one of an earlier
\* stream is dropped.
LEMMA DeliverFacts ==
  ASSUME TypeOK, NEW gen \in Nat, NEW frame \in Frames, Deliver(gen, frame)
  PROVE  /\ SameStream
         /\ UNCHANGED <<devs, sent>> \/ (gen = cam.gen /\ cam.type # NoType /\ Fan(frame))
<1>0. cam \in CamType
  BY TypeParts
<1>1. PICK c \in CamType : /\ cam' = Pump(c) /\ c.type = cam.type /\ c.gen = cam.gen
                           /\ c.gone = cam.gone
  <2>1. [cam EXCEPT !.busy = FALSE] \in CamType
        /\ [cam EXCEPT !.busy = FALSE, !.pending = cam.more, !.more = FALSE] \in CamType
    BY <1>0 DEF CamType
  <2> QED
    BY <1>0, <2>1 DEF Deliver, CamType
<1> QED
  BY <1>1, PumpFacts DEF Deliver, SameStream

\* A frame that is made with the camera and delivered, or taken on its way,
\* keeps the invariant.
LEMMA FramesKeep ==
  ASSUME Inv, UNCHANGED <<env, webcam>>, NEW frame \in Frames,
         SameStream, Sent(frame), JobsFollow
  PROVE  Inv'
<1>0. /\ env \in EnvironmentType /\ devs \in [Devices -> DevType] /\ cam \in CamType
      /\ webcam \in WebcamType /\ jobs \subseteq JobType /\ Sound(devs)
      /\ sent \in [Devices -> SampleType] /\ TypeOK
  BY TypeParts DEF Inv
<1>1. /\ devs' \in [Devices -> DevType] /\ Sound(devs') /\ sent' \in [Devices -> SampleType]
      /\ \A d \in Devices : devs'[d].streaming = devs[d].streaming
                            /\ devs'[d].started = devs[d].started
                            /\ devs'[d].type = devs[d].type
  BY <1>0, FanFacts DEF Sent
<1>2. TypeOK'
  BY <1>0, <1>1, TypePartsNext DEF SameStream, JobsFollow
<1>3. (OneSize' <=> OneSize) /\ (Answers' <=> Answers)
  BY DEF OneSize, Answers, May
<1>4. ASSUME OneSize PROVE SizeInv'
  <2>0. SizeInv
    BY <1>4 DEF Inv
  <2>1. cam'.gone => cam'.type = NoType
    BY <2>0 DEF SizeInv, SameStream
  <2>2. ASSUME NEW d \in Devices, devs'[d].started
        PROVE  /\ devs'[d].streaming
               /\ ~cam'.gone => devs'[d].type = cam'.type
               /\ devs'[d].frame # NoFrame => devs'[d].frame.type = devs'[d].type
    <3>1. devs[d].started /\ devs'[d].streaming /\ (~cam'.gone => devs'[d].type = cam'.type)
      BY <1>1, <2>0, <2>2 DEF SizeInv, SameStream
    <3>2. CASE UNCHANGED <<devs, sent>>
      BY <2>0, <3>1, <3>2 DEF SizeInv
    <3>3. CASE Fan(frame) /\ cam.type # NoType /\ frame.type = cam.type
      <4>1. devs'[d].frame \in {devs[d].frame, frame, NoFrame} /\ devs'[d].type = devs[d].type
        BY <1>0, <3>3, FanFacts
      <4>2. ~cam.gone
        BY <2>0, <3>3 DEF SizeInv
      <4> QED
        BY <2>0, <3>1, <3>3, <4>1, <4>2 DEF SizeInv
    <3> QED
      BY <1>4, <3>2, <3>3 DEF Sent
  <2>3. \A j \in jobs' : j.gen <= cam'.gen /\ (j.gen = cam'.gen => j.type = cam'.type)
    BY <1>0, <2>0 DEF SizeInv, CamType, SameStream, JobsFollow
  <2>4. FrameFits'
    <3>1. CASE UNCHANGED <<devs, sent>>
      BY <2>0, <3>1 DEF SizeInv, FrameFits
    <3>2. CASE Fan(frame) /\ cam.type # NoType /\ frame.type = cam.type
      <4>1. \A d \in Devices :
              \/ sent'[d] = sent[d]
              \/ sent'[d].asked # NoType => devs[d].started /\ sent'[d].asked = devs[d].type
                                            /\ sent'[d].frame = frame
        BY <1>0, <3>2, FanFacts
      <4>2. ~cam.gone
        BY <2>0, <3>2 DEF SizeInv
      <4> QED
        BY <2>0, <3>2, <4>1, <4>2 DEF SizeInv, FrameFits
    <3> QED
      BY <1>4, <3>1, <3>2 DEF Sent
  <2> QED
    BY <2>1, <2>2, <2>3, <2>4 DEF SizeInv
<1>5. ASSUME Answers PROVE PromptInv'
  <2>1. PromptInv
    BY <1>5 DEF Inv
  <2>2. Streaming => Streaming'
    BY <1>1 DEF Streaming
  <2> QED
    BY <2>1, <2>2 DEF PromptInv, WebcamReleased, SameStream
<1> QED
  BY <1>2, <1>3, <1>4, <1>5 DEF Inv

\* The timer fires: a frame is given out or sent on its way.
LEMMA CaptureKeeps ==
  ASSUME Inv, Capture
  PROVE  Inv'
<1>0. cam \in CamType /\ jobs \subseteq JobType /\ UNCHANGED <<env, webcam>>
      /\ NoFrame \in Frames
  BY TypeParts DEF Inv, Capture, NoFrame, Frames
<1>1. CASE UNCHANGED <<devs, sent, jobs>> /\ cam' = [cam EXCEPT !.timer = FALSE]
  <2>1. SameStream
    BY <1>0, <1>1 DEF CamType, SameStream
  <2>2. Sent(NoFrame) /\ JobsFollow
    BY <1>0, <1>1 DEF Sent, JobsFollow
  <2> QED
    BY <1>0, <2>1, <2>2, FramesKeep
<1>2. CASE /\ cam.type # NoType /\ UNCHANGED jobs
           /\ cam' = Pump([cam EXCEPT !.timer = FALSE, !.pending = cam.more, !.more = FALSE])
           /\ \E live \in BOOLEAN : Fan(Frame(live, cam.type))
  <2>1. PICK live \in BOOLEAN : Fan(Frame(live, cam.type))
    BY <1>2
  <2>2. Frame(live, cam.type) \in Frames /\ Frame(live, cam.type).type = cam.type
    BY <1>0 DEF Frame, Frames, CamType
  <2> DEFINE c == [cam EXCEPT !.timer = FALSE, !.pending = cam.more, !.more = FALSE]
  <2>3. c \in CamType /\ c.type = cam.type /\ c.gen = cam.gen /\ c.gone = cam.gone
    BY <1>0 DEF CamType
  <2>4. cam' = Pump(c)
    BY <1>2
  <2> HIDE DEF c
  <2>5. SameStream
    BY <2>3, <2>4, PumpFacts DEF SameStream
  <2>6. Sent(Frame(live, cam.type)) /\ JobsFollow
    BY <1>0, <1>2, <2>1, <2>2 DEF Sent, JobsFollow
  <2> QED
    BY <1>0, <2>2, <2>5, <2>6, FramesKeep
<1>3. CASE /\ UNCHANGED <<devs, sent>> /\ cam.type # NoType
           /\ cam' = [cam EXCEPT !.timer = FALSE, !.busy = TRUE]
           /\ \E n \in 0..Cardinality(jobs) :
                jobs' = jobs \cup {[stage |-> "scale", gen |-> cam.gen, type |-> cam.type, id |-> n]}
  <2>1. SameStream
    BY <1>0, <1>3 DEF CamType, SameStream
  <2>4. PICK n \in Nat :
          jobs' = jobs \cup {[stage |-> "scale", gen |-> cam.gen, type |-> cam.type, id |-> n]}
    BY <1>3
  <2> DEFINE k == [stage |-> "scale", gen |-> cam.gen, type |-> cam.type, id |-> n]
  <2>2. k \in JobType /\ k.gen = cam.gen /\ k.type = cam.type /\ jobs' = jobs \cup {k}
    <3>1. cam.gen \in Nat /\ cam.type \in Types
      BY <1>0, <1>3 DEF CamType
    <3> QED
      BY <2>4, <3>1 DEF JobType
  <2> HIDE DEF k
  <2>3. Sent(NoFrame) /\ JobsFollow
    BY <1>0, <1>3, <2>2 DEF Sent, JobsFollow
  <2> QED
    BY <1>0, <2>1, <2>3, FramesKeep
<1> QED
  BY <1>1, <1>2, <1>3 DEF Capture

\* The scaler and the worker answer.
LEMMA JobsKeep ==
  ASSUME Inv, NEW j \in jobs, Scaled(j) \/ ScaleFails(j) \/ Converted(j) \/ ConvertFails(j)
  PROVE  Inv'
<1>0. /\ cam \in CamType /\ jobs \subseteq JobType /\ j \in JobType
      /\ UNCHANGED <<env, webcam>> /\ TypeOK /\ NoFrame \in Frames
  BY TypeParts DEF Inv, Scaled, ScaleFails, Converted, ConvertFails, NoFrame, Frames
<1>1. CASE Scaled(j)
  <2>1. cam' = [cam EXCEPT !.req = cam.req + 1] /\ UNCHANGED <<devs, sent>>
        /\ jobs' \subseteq jobs \cup {[j EXCEPT !.stage = "worker", !.id = cam.req + 1]}
    BY <1>1 DEF Scaled
  <2>2. SameStream
    BY <1>0, <2>1 DEF CamType, SameStream
  <2> DEFINE k == [j EXCEPT !.stage = "worker", !.id = cam.req + 1]
  <2>6. cam.req + 1 \in Nat
    BY <1>0 DEF CamType
  <2>3. k \in JobType /\ k.gen = j.gen /\ k.type = j.type
    BY <1>0, <2>6 DEF JobType
  <2>4. jobs' \subseteq jobs \cup {k}
    BY <2>1
  <2> HIDE DEF k
  <2>5. Sent(NoFrame) /\ JobsFollow
    BY <1>0, <2>1, <2>3, <2>4 DEF Sent, JobsFollow
  <2> QED
    BY <1>0, <2>2, <2>5, FramesKeep
<1>2. CASE ScaleFails(j) \/ Converted(j)
  <2>1. jobs' \subseteq jobs
    BY <1>2 DEF ScaleFails, Converted
  <2> DEFINE frame == Frame(TRUE, j.type)
  <2>2. frame \in Frames /\ frame.type = j.type /\ j.gen \in Nat
    BY <1>0 DEF Frame, Frames, JobType
  <2>3. Deliver(j.gen, frame) \/ UNCHANGED <<cam, devs, sent>>
    BY <1>2 DEF ScaleFails, Converted
  <2> HIDE DEF frame
  <2>4. /\ SameStream
        /\ UNCHANGED <<devs, sent>> \/ (j.gen = cam.gen /\ cam.type # NoType /\ Fan(frame))
    BY <1>0, <2>2, <2>3, DeliverFacts DEF SameStream
  <2>5. OneSize /\ j.gen = cam.gen => j.type = cam.type
    BY DEF Inv, SizeInv
  <2>6. Sent(frame) /\ JobsFollow
    BY <1>0, <2>1, <2>2, <2>4, <2>5 DEF Sent, JobsFollow
  <2> QED
    BY <1>0, <2>2, <2>4, <2>6, FramesKeep
<1>3. CASE ConvertFails(j)
  <2> DEFINE c == [cam EXCEPT !.worker = FALSE, !.busy = FALSE]
  <2>1. jobs' \subseteq jobs /\ cam' = Pump(c) /\ UNCHANGED <<devs, sent>>
    BY <1>3 DEF ConvertFails
  <2>2. c \in CamType /\ c.type = cam.type /\ c.gen = cam.gen /\ c.gone = cam.gone
    BY <1>0 DEF CamType
  <2> HIDE DEF c
  <2>3. SameStream
    BY <2>1, <2>2, PumpFacts DEF SameStream
  <2>4. Sent(NoFrame) /\ JobsFollow
    BY <1>0, <2>1 DEF Sent, JobsFollow
  <2> QED
    BY <1>0, <2>3, <2>4, FramesKeep
<1> QED
  BY <1>1, <1>2, <1>3

-----------------------------------------------------------------------------
(* Channels and streams.                                                   *)

\* A channel that is opened, or whose samples are asked for, keeps its stream.
LEMMA ChannelKeeps ==
  ASSUME Inv, NEW d \in Devices, NEW v \in DevType, devs' = [devs EXCEPT ![d] = v],
         v.streaming => v.open /\ v.type # NoType,
         devs[d].streaming => v.streaming,
         OneSize /\ SizeInv /\ v.started => devs[d].started /\ v.type = devs[d].type
                                             /\ v.frame \in {devs[d].frame, NoFrame},
         SameStream, UNCHANGED <<webcam, jobs>>,
         env' \in EnvironmentType, env'.may = env.may, sent' \in [Devices -> SampleType],
         OneSize /\ SizeInv => FrameFits'
  PROVE  Inv'
<1>0. /\ devs \in [Devices -> DevType] /\ cam \in CamType
      /\ webcam \in WebcamType /\ jobs \subseteq JobType /\ Sound(devs)
  BY TypeParts DEF Inv
<1>1. /\ devs' \in [Devices -> DevType] /\ devs'[d] = v
      /\ \A e \in Devices \ {d} : devs'[e] = devs[e]
  BY <1>0
<1>2. TypeOK'
  <2>1. Sound(devs')
    BY <1>0, <1>1 DEF Sound
  <2> QED
    BY <1>0, <1>1, <2>1, TypePartsNext DEF SameStream
<1>3. (OneSize' <=> OneSize) /\ (Answers' <=> Answers)
  BY DEF OneSize, Answers, May
<1>4. ASSUME OneSize PROVE SizeInv'
  <2>0. SizeInv
    BY <1>4 DEF Inv
  <2>1. (cam'.gone => cam'.type = NoType) /\ FrameFits'
    BY <1>4, <2>0 DEF SizeInv, SameStream
  <2>2. ASSUME NEW e \in Devices, devs'[e].started
        PROVE  /\ devs'[e].streaming
               /\ ~cam'.gone => devs'[e].type = cam'.type
               /\ devs'[e].frame # NoFrame => devs'[e].frame.type = devs'[e].type
    BY <1>1, <1>4, <2>0, <2>2 DEF SizeInv, SameStream
  <2>3. \A j \in jobs' : j.gen <= cam'.gen /\ (j.gen = cam'.gen => j.type = cam'.type)
    BY <2>0 DEF SizeInv, SameStream
  <2> QED
    BY <2>1, <2>2, <2>3 DEF SizeInv
<1>5. ASSUME Answers PROVE PromptInv'
  <2>1. PromptInv
    BY <1>5 DEF Inv
  <2>2. Streaming => Streaming'
    BY <1>1 DEF Streaming
  <2> QED
    BY <2>1, <2>2 DEF PromptInv, WebcamReleased, SameStream
<1> QED
  BY <1>2, <1>3, <1>4, <1>5 DEF Inv

\* The host opens a device channel.
LEMMA OpensKeeps ==
  ASSUME Inv, NEW d \in Devices, HostOpens(d)
  PROVE  Inv'
<1> DEFINE v == [Closed EXCEPT !.open = TRUE]
<1>0. TypeOK /\ env \in EnvironmentType /\ devs \in [Devices -> DevType] /\ Sound(devs)
      /\ cam \in CamType
  BY TypeParts DEF Inv
<1>1. devs' = [devs EXCEPT ![d] = v] /\ UNCHANGED <<cam, webcam, jobs, sent>>
      /\ ~devs[d].open
  BY DEF HostOpens
<1>2. v \in DevType /\ ~v.streaming /\ ~v.started
  <2>1. NoFrame \in Frames
    BY DEF NoFrame, Frames
  <2> QED
    BY <2>1 DEF Closed, DevType
<1>3. ~devs[d].streaming
  BY <1>0, <1>1 DEF Sound
<1>4. env' \in EnvironmentType /\ env'.may = env.may
  BY <1>0 DEF HostOpens, EnvironmentType
<1>5. (OneSize /\ SizeInv => FrameFits') /\ sent' \in [Devices -> SampleType]
  BY <1>1, TypeParts DEF SizeInv, FrameFits, Inv
<1>6. SameStream
  BY <1>0, <1>1 DEF SameStream
<1> HIDE DEF v
<1> QED
  BY <1>1, <1>2, <1>3, <1>4, <1>5, <1>6, ChannelKeeps

\* The host asks for a sample: a kept frame answers it, or it is owed.
LEMMA SamplesKeeps ==
  ASSUME Inv, NEW d \in Devices, HostSamples(d)
  PROVE  Inv'
<1> DEFINE dev == [devs[d] EXCEPT !.streaming = TRUE,
                     !.type = IF devs[d].type = NoType THEN DefaultType ELSE devs[d].type]
           v == IF dev.frame # NoFrame THEN [dev EXCEPT !.frame = NoFrame]
                ELSE [dev EXCEPT !.pend = 1]
<1>0. /\ TypeOK /\ env \in EnvironmentType /\ devs \in [Devices -> DevType] /\ cam \in CamType
      /\ Sound(devs) /\ devs[d] \in DevType /\ NoFrame \in Frames
  BY TypeParts DEF Inv, NoFrame, Frames
<1>1. /\ dev \in DevType /\ dev.streaming /\ dev.type # NoType /\ dev.open = devs[d].open
      /\ dev.started = devs[d].started /\ dev.frame = devs[d].frame
      /\ devs[d].type # NoType => dev.type = devs[d].type
  <2>1. DefaultType \in Types /\ DefaultType # NoType
    BY CameraAssumption
  <2> QED
    BY <1>0, <2>1 DEF DevType
<1>2. devs' = [devs EXCEPT ![d] = v] /\ UNCHANGED <<webcam, jobs>> /\ devs[d].open
      /\ sent' = IF dev.frame # NoFrame THEN [sent EXCEPT ![d] = Sample(dev, dev.frame)] ELSE sent
  BY DEF HostSamples
<1> HIDE DEF dev
<1>3. /\ v \in DevType /\ v.streaming /\ v.type = dev.type /\ v.open = dev.open
      /\ v.started = dev.started /\ v.frame \in {dev.frame, NoFrame}
  BY <1>0, <1>1 DEF DevType
<1> HIDE DEF v
<1>4. OneSize /\ SizeInv /\ devs[d].started => devs[d].type # NoType
  BY <1>0 DEF SizeInv, Sound
<1>5. env' \in EnvironmentType /\ env'.may = env.may
  BY <1>0 DEF HostSamples, EnvironmentType
<1>6. SameStream
  <2> DEFINE c == [cam EXCEPT !.more = cam.more \/ cam.busy, !.pending = TRUE]
  <2>1. c \in CamType /\ c.type = cam.type /\ c.gen = cam.gen /\ c.gone = cam.gone
    BY <1>0 DEF CamType
  <2>2. cam' = Pump(c)
    BY DEF HostSamples, Needed
  <2> HIDE DEF c
  <2> QED
    BY <2>1, <2>2, PumpFacts DEF SameStream
<1>7. sent' \in [Devices -> SampleType]
      /\ \A e \in Devices : \/ sent'[e] = sent[e]
                            \/ e = d /\ dev.frame # NoFrame /\ sent'[e].frame = dev.frame
                               /\ sent'[e].asked = IF dev.started THEN dev.type ELSE NoType
  <2>1. sent \in [Devices -> SampleType] /\ dev.frame \in Frames
    BY <1>0, <1>1, TypeParts DEF DevType
  <2>2. /\ Sample(dev, dev.frame) \in SampleType /\ Sample(dev, dev.frame).frame = dev.frame
        /\ Sample(dev, dev.frame).asked = IF dev.started THEN dev.type ELSE NoType
    BY <1>0, <1>1, <2>1, SampleFacts
  <2> QED
    BY <1>2, <2>1, <2>2
<1>8. OneSize /\ SizeInv => FrameFits'
  <2> SUFFICES ASSUME OneSize, SizeInv, NEW e \in Devices, sent'[e].asked # NoType
               PROVE  sent'[e].frame.type = sent'[e].asked
    BY DEF FrameFits
  <2>1. CASE sent'[e] = sent[e]
    BY <2>1 DEF SizeInv, FrameFits
  <2>2. CASE e = d /\ dev.frame # NoFrame /\ sent'[e].frame = dev.frame /\ dev.started
             /\ sent'[e].asked = dev.type
    BY <1>1, <1>4, <2>2 DEF SizeInv
  <2> QED
    BY <1>7, <2>1, <2>2
<1> QED
  BY <1>0, <1>1, <1>2, <1>3, <1>4, <1>5, <1>6, <1>7, <1>8, ChannelKeeps

\* The capture stops: nothing of it is used any more.
LEMMA StopFacts ==
  ASSUME NEW c \in CamType, webcam \in WebcamType, StopCapture(c)
  PROVE  /\ cam' \in CamType /\ cam'.type = NoType /\ cam'.gen = c.gen + 1 /\ cam'.gone = c.gone
         /\ webcam' \in WebcamType /\ webcam'.prompts = webcam.prompts
         /\ webcam'.used = 0 /\ webcam'.running = webcam.running \ {webcam.used}
<1>1. c.gen + 1 \in Nat
  BY DEF CamType
<1>2. cam' = [c EXCEPT !.type = NoType, !.gen = c.gen + 1, !.pending = FALSE, !.more = FALSE,
                       !.busy = FALSE, !.timer = FALSE]
  BY DEF StopCapture
<1>3. webcam' = [webcam EXCEPT !.starting = FALSE, !.state = "off", !.used = 0,
                               !.running = webcam.running \ {webcam.used}]
  BY DEF StopCapture
<1> QED
  BY <1>1, <1>2, <1>3 DEF CamType, WebcamType

\* Streams that stop: the capture ends with the last one, or the user leaves.
LEMMA StopKeeps ==
  ASSUME Inv, UNCHANGED <<env, jobs, sent>>,
         devs' \in [Devices -> DevType], Sound(devs'),
         \A d \in Devices : devs'[d] = devs[d] \/ ~devs'[d].started,
         NEW c \in CamType, c.gen = cam.gen, c.gone => cam.gone \/ webcam.prompts = {} \/ ~Answers,
         \/ StopCapture(c) /\ (c.gone \/ ~Streaming')
         \/ UNCHANGED <<cam, webcam>> /\ Streaming'
  PROVE  Inv'
<1>0. /\ env \in EnvironmentType /\ devs \in [Devices -> DevType] /\ cam \in CamType
      /\ webcam \in WebcamType /\ jobs \subseteq JobType /\ sent \in [Devices -> SampleType]
  BY TypeParts DEF Inv
<1>1. (OneSize' <=> OneSize) /\ (Answers' <=> Answers)
  BY DEF OneSize, Answers, May
<1>2. CASE UNCHANGED <<cam, webcam>> /\ Streaming'
  <2>1. TypeOK'
    BY <1>0, <1>2, TypePartsNext
  <2>2. OneSize => SizeInv'
    BY <1>2 DEF Inv, SizeInv, FrameFits
  <2>3. Answers => PromptInv'
    BY <1>2 DEF Inv, PromptInv, WebcamReleased
  <2> QED
    BY <1>1, <2>1, <2>2, <2>3 DEF Inv
<1>3. CASE StopCapture(c) /\ (c.gone \/ ~Streaming')
  <2>1. /\ cam' \in CamType /\ cam'.type = NoType /\ cam'.gen = cam.gen + 1 /\ cam'.gone = c.gone
        /\ webcam' \in WebcamType /\ webcam'.prompts = webcam.prompts
        /\ webcam'.used = 0 /\ webcam'.running = webcam.running \ {webcam.used}
    BY <1>0, <1>3, StopFacts
  <2>2. TypeOK'
    BY <1>0, <2>1, TypePartsNext
  <2>3. ASSUME OneSize PROVE SizeInv'
    <3>0. SizeInv
      BY <2>3 DEF Inv
    <3>1. \A j \in jobs' : j.gen <= cam'.gen /\ (j.gen = cam'.gen => j.type = cam'.type)
      BY <1>0, <2>1, <3>0 DEF SizeInv, JobType, CamType
    <3>2. ASSUME NEW d \in Devices, devs'[d].started
          PROVE  /\ devs'[d].streaming /\ cam'.gone
                 /\ devs'[d].frame # NoFrame => devs'[d].frame.type = devs'[d].type
      <4>1. devs'[d] = devs[d] /\ devs'[d].streaming
        BY <3>0, <3>2 DEF SizeInv
      <4>2. cam'.gone
        BY <1>3, <2>1, <4>1 DEF Streaming
      <4> QED
        BY <3>0, <3>2, <4>1, <4>2 DEF SizeInv
    <3> QED
      BY <2>1, <3>0, <3>1, <3>2 DEF SizeInv, FrameFits
  <2>4. Answers => PromptInv'
    BY <1>0, <2>1 DEF Inv, PromptInv, WebcamReleased, WebcamType
  <2> QED
    BY <1>1, <2>2, <2>3, <2>4 DEF Inv
<1> QED
  BY <1>2, <1>3

\* The host stops a stream or closes a channel, or the user leaves.
LEMMA StopsKeep ==
  ASSUME Inv, Disconnect \/ \E d \in Devices : HostStops(d) \/ HostCloses(d)
  PROVE  Inv'
<1>0. /\ TypeOK /\ devs \in [Devices -> DevType] /\ cam \in CamType /\ Sound(devs)
      /\ NoFrame \in Frames
  BY TypeParts DEF Inv, NoFrame, Frames
<1>1. CASE Disconnect
  <2> DEFINE c == [cam EXCEPT !.gone = TRUE]
  <2>1. c \in CamType /\ c.gen = cam.gen /\ c.gone
    BY <1>0 DEF CamType
  <2>2. StopCapture(c) /\ UNCHANGED <<env, devs, jobs, sent>>
    BY <1>1 DEF Disconnect
  <2> HIDE DEF c
  <2>3. webcam.prompts = {} \/ ~Answers
    BY <1>1 DEF Disconnect, Answers
  <2>4. devs' \in [Devices -> DevType] /\ Sound(devs') /\ devs' = devs
    BY <1>0, <2>2 DEF Sound
  <2> QED
    BY <2>1, <2>2, <2>3, <2>4, StopKeeps
<1>2. ASSUME NEW d \in Devices, HostStops(d) \/ HostCloses(d) PROVE Inv'
  <2>1. PICK v \in DevType : ~v.streaming /\ ~v.started /\ Stopped([devs EXCEPT ![d] = v])
    <3>1. Closed \in DevType /\ ~Closed.streaming /\ ~Closed.started
      BY <1>0 DEF Closed, DevType
    <3> DEFINE w == [devs[d] EXCEPT !.streaming = FALSE, !.started = FALSE,
                                    !.pend = 0, !.frame = NoFrame]
    <3>2. w \in DevType /\ ~w.streaming /\ ~w.started
      BY <1>0 DEF DevType
    <3>3. Stopped([devs EXCEPT ![d] = w]) \/ Stopped([devs EXCEPT ![d] = Closed])
      BY <1>2 DEF HostStops, HostCloses
    <3> HIDE DEF w
    <3> QED
      BY <3>1, <3>2, <3>3
  <2>2. devs' = [devs EXCEPT ![d] = v] /\ UNCHANGED <<env, jobs, sent>> /\ ~cam.gone
    BY <1>2, <2>1 DEF Stopped, HostStops, HostCloses
  <2>3. /\ devs' \in [Devices -> DevType] /\ Sound(devs')
        /\ \A e \in Devices : devs'[e] = devs[e] \/ ~devs'[e].started
    BY <1>0, <2>1, <2>2 DEF Sound
  <2>4. \/ StopCapture(cam) /\ ~Streaming'
        \/ UNCHANGED <<cam, webcam>> /\ Streaming'
    BY <2>1, <2>2 DEF Stopped, Streaming
  <2> QED
    BY <1>0, <2>2, <2>3, <2>4, StopKeeps
<1> QED
  BY <1>1, <1>2

\* The host starts a stream: a new prompt, when there is neither a prompt nor a
\* stream of the webcam.
LEMMA StartsKeep ==
  ASSUME Inv, NEW d \in Devices, NEW t \in Types, HostStarts(d, t)
  PROVE  Inv'
<1> DEFINE v == [devs[d] EXCEPT !.streaming = TRUE, !.started = TRUE, !.type = t,
                                !.pend = 0, !.frame = NoFrame]
<1>0. /\ TypeOK /\ env \in EnvironmentType /\ devs \in [Devices -> DevType] /\ cam \in CamType
      /\ webcam \in WebcamType /\ jobs \subseteq JobType /\ sent \in [Devices -> SampleType]
      /\ Sound(devs) /\ devs[d] \in DevType /\ NoFrame \in Frames
  BY TypeParts DEF Inv, NoFrame, Frames
<1>1. /\ devs' = [devs EXCEPT ![d] = v] /\ cam' = Started(cam, t) /\ devs[d].open
      /\ UNCHANGED <<jobs, sent>> /\ ~cam.gone
      /\ OneSize => \A e \in Devices \ {d} : devs[e].started => devs[e].type = t
  BY DEF HostStarts, StartCapture, OneSize
<1>2. v \in DevType /\ v.streaming /\ v.open /\ v.type = t /\ v.frame = NoFrame
  BY <1>0, <1>1 DEF DevType
<1> HIDE DEF v
<1>3. /\ devs' \in [Devices -> DevType] /\ devs'[d] = v
      /\ \A e \in Devices \ {d} : devs'[e] = devs[e]
  BY <1>0, <1>1, <1>2
<1>4. /\ cam' \in CamType /\ cam'.type = t /\ cam'.gen = cam.gen + 1 /\ ~cam'.gone
  BY <1>0, <1>1, StartedFacts
<1>5. t # NoType
  BY CameraAssumption
<1>6. Sound(devs')
  BY <1>0, <1>2, <1>3, <1>5 DEF Sound
<1>7. env' \in EnvironmentType /\ env'.may = env.may
  BY <1>0 DEF HostStarts, EnvironmentType
<1>8. ASSUME OneSize PROVE SizeInv'
  <2>0. SizeInv
    BY <1>8 DEF Inv
  <2>1. \A j \in jobs' : j.gen <= cam'.gen /\ (j.gen = cam'.gen => j.type = cam'.type)
    BY <1>0, <1>1, <1>4, <2>0 DEF SizeInv, JobType, CamType
  <2>2. ASSUME NEW e \in Devices, devs'[e].started
        PROVE  /\ devs'[e].streaming /\ devs'[e].type = cam'.type
               /\ devs'[e].frame # NoFrame => devs'[e].frame.type = devs'[e].type
    BY <1>1, <1>2, <1>3, <1>4, <1>8, <2>0, <2>2 DEF SizeInv
  <2>3. FrameFits'
    BY <1>1, <2>0 DEF SizeInv, FrameFits
  <2> QED
    BY <1>4, <2>1, <2>2, <2>3 DEF SizeInv
<1>9. /\ webcam' \in WebcamType /\ webcam'.used = webcam.used
      /\ webcam'.running = webcam.running
      /\ \/ webcam'.prompts = webcam.prompts
         \/ webcam.used = 0 /\ ~webcam.starting
            /\ webcam'.prompts = webcam.prompts \cup {cam.gen + 1}
  <2>1. CASE webcam.used # 0 \/ webcam.starting
    BY <1>0, <2>1 DEF HostStarts, StartCapture
  <2>2. CASE webcam.used = 0 /\ ~webcam.starting
    <3>1. cam.gen + 1 \in Nat
      BY <1>0 DEF CamType
    <3>2. webcam' = [webcam EXCEPT !.starting = TRUE, !.state = "requesting",
                                   !.prompts = webcam.prompts \cup {cam.gen + 1}]
      BY <2>2 DEF HostStarts, StartCapture
    <3> QED
      BY <1>0, <2>2, <3>1, <3>2 DEF WebcamType
  <2> QED
    BY <2>1, <2>2
<1>10. ASSUME Answers PROVE PromptInv'
  <2>0. PromptInv
    BY <1>10 DEF Inv
  <2>1. webcam.prompts = {} \/ webcam.starting
    BY <1>10 DEF HostStarts, Answers
  <2>2. cam.gen + 1 # 0
    BY <1>0 DEF CamType
  <2>3. Streaming'
    BY <1>2, <1>3 DEF Streaming
  <2> QED
    BY <1>4, <1>9, <2>0, <2>1, <2>2, <2>3 DEF PromptInv, WebcamReleased
<1>11. (OneSize' <=> OneSize) /\ (Answers' <=> Answers)
  BY <1>7 DEF OneSize, Answers, May
<1>12. TypeOK'
  BY <1>0, <1>1, <1>3, <1>4, <1>6, <1>7, <1>9, TypePartsNext
<1> QED
  BY <1>8, <1>10, <1>11, <1>12 DEF Inv

\* The user answers a prompt, or pauses.
LEMMA UserKeeps ==
  ASSUME Inv, Pause \/ \E p \in webcam.prompts : Granted(p) \/ Denied(p)
  PROVE  Inv'
<1>0. /\ TypeOK /\ env \in EnvironmentType /\ devs \in [Devices -> DevType] /\ cam \in CamType
      /\ webcam \in WebcamType /\ jobs \subseteq JobType /\ sent \in [Devices -> SampleType]
      /\ Sound(devs)
  BY TypeParts DEF Inv
<1>1. UNCHANGED <<devs, jobs, sent>>
  BY DEF Pause, Granted, Denied
<1>2. SameStream
  <2>1. cam' = cam \/ cam' = [cam EXCEPT !.paused = ~cam.paused]
    BY DEF Pause, Granted, Denied
  <2> QED
    BY <1>0, <2>1 DEF CamType, SameStream
<1>3. env' \in EnvironmentType /\ env'.may = env.may
  <2>1. env' = env \/ (env.pauses > 0 /\ env' = [env EXCEPT !.pauses = env.pauses - 1])
    BY DEF Pause, Granted, Denied
  <2> QED
    BY <1>0, <2>1 DEF EnvironmentType
<1>4. /\ webcam' \in WebcamType
      /\ \/ webcam' = webcam
         \/ \E p \in webcam.prompts :
              /\ webcam'.prompts = webcam.prompts \ {p}
              /\ \/ webcam'.used = webcam.used /\ webcam'.running = webcam.running
                 \/ webcam'.used = p /\ webcam'.running = webcam.running \cup {p} /\ Streaming
  <2>1. CASE Pause
    BY <1>0, <2>1 DEF Pause
  <2>2. ASSUME NEW p \in webcam.prompts, Denied(p)
        PROVE  /\ webcam' \in WebcamType /\ webcam'.prompts = webcam.prompts \ {p}
               /\ webcam'.used = webcam.used /\ webcam'.running = webcam.running
    BY <1>0, <2>2 DEF Denied, WebcamType
  <2>3. ASSUME NEW p \in webcam.prompts, Granted(p)
        PROVE  /\ webcam' \in WebcamType /\ webcam'.prompts = webcam.prompts \ {p}
               /\ \/ webcam'.used = webcam.used /\ webcam'.running = webcam.running
                  \/ webcam'.used = p /\ webcam'.running = webcam.running \cup {p} /\ Streaming
    <3>1. p \in Nat
      BY <1>0 DEF WebcamType
    <3>2. CASE Streaming
      <4>1. webcam' = [webcam EXCEPT !.prompts = webcam.prompts \ {p}, !.starting = FALSE,
                         !.used = p, !.running = webcam.running \cup {p}, !.state = "live"]
        BY <2>3, <3>2 DEF Granted, Wanted
      <4> QED
        BY <1>0, <3>1, <3>2, <4>1 DEF WebcamType
    <3>3. CASE ~Streaming
      <4>1. webcam' = [webcam EXCEPT !.prompts = webcam.prompts \ {p}, !.starting = FALSE]
        BY <2>3, <3>3 DEF Granted, Wanted
      <4> QED
        BY <1>0, <4>1 DEF WebcamType
    <3> QED
      BY <3>2, <3>3
  <2> QED
    BY <2>1, <2>2, <2>3
<1>5. TypeOK'
  BY <1>0, <1>1, <1>2, <1>3, <1>4, TypePartsNext DEF SameStream
<1>6. OneSize => SizeInv'
  BY <1>1, <1>2 DEF Inv, SizeInv, FrameFits, SameStream
<1>7. ASSUME Answers PROVE PromptInv'
  <2>0. PromptInv
    BY <1>7 DEF Inv
  <2>1. Streaming' <=> Streaming
    BY <1>1 DEF Streaming
  <2>2. CASE webcam' = webcam
    BY <1>2, <2>0, <2>1, <2>2 DEF PromptInv, WebcamReleased, SameStream
  <2>3. ASSUME NEW p \in webcam.prompts, webcam'.prompts = webcam.prompts \ {p},
               \/ webcam'.used = webcam.used /\ webcam'.running = webcam.running
               \/ webcam'.used = p /\ webcam'.running = webcam.running \cup {p} /\ Streaming
        PROVE  PromptInv'
    <3>1. webcam'.prompts = {} /\ webcam.used = 0 /\ ~cam'.gone /\ p # 0
      BY <1>2, <2>0, <2>3 DEF PromptInv, SameStream
    <3> QED
      BY <2>0, <2>1, <2>3, <3>1 DEF PromptInv, WebcamReleased
  <2> QED
    BY <1>4, <2>2, <2>3
<1>8. (OneSize' <=> OneSize) /\ (Answers' <=> Answers)
  BY <1>3 DEF OneSize, Answers, May
<1> QED
  BY <1>5, <1>6, <1>7, <1>8 DEF Inv

-----------------------------------------------------------------------------
(* Theorems.                                                               *)

\* The first state.
LEMMA InitInv == Init => Inv
<1> SUFFICES ASSUME Init PROVE Inv
  OBVIOUS
<1>1. NoFrame \in Frames
  BY DEF NoFrame, Frames
<1>2. TypeOK
  <2>1. Closed \in DevType /\ ~Closed.streaming /\ NoSample \in SampleType
    BY <1>1 DEF Closed, DevType, NoSample, SampleType
  <2>2. env \in EnvironmentType /\ jobs \subseteq JobType
    BY CameraAssumption DEF Init
  <2>3. cam \in CamType /\ webcam \in WebcamType
    BY DEF Init, CamType, WebcamType
  <2>4. devs \in [Devices -> DevType] /\ Sound(devs) /\ sent \in [Devices -> SampleType]
    BY <2>1 DEF Init, Sound
  <2> QED
    BY <2>2, <2>3, <2>4, TypeParts
<1>3. SizeInv
  BY DEF Init, SizeInv, FrameFits, Closed, NoSample
<1>4. PromptInv
  BY DEF Init, PromptInv, WebcamReleased
<1> QED
  BY <1>2, <1>3, <1>4 DEF Inv

\* Every step keeps the invariant.
LEMMA StepInv == Inv /\ [Next]_vars => Inv'
<1> SUFFICES ASSUME Inv, [Next]_vars PROVE Inv'
  OBVIOUS
<1>1. CASE UNCHANGED vars
  BY <1>1 DEF vars, Inv, TypeOK, OneSize, Answers, May, SizeInv, FrameFits, PromptInv,
              WebcamReleased, Streaming
<1>2. CASE Work
  BY <1>2, CaptureKeeps, JobsKeep DEF Work
<1>3. CASE User
  BY <1>3, UserKeeps, StopsKeep DEF User
<1>4. CASE Host
  BY <1>4, OpensKeeps, StopsKeep, SamplesKeeps, StartsKeep DEF Host
<1> QED
  BY <1>1, <1>2, <1>3, <1>4 DEF Next, Rest

\* The invariant holds.
LEMMA InvHolds == Spec => []Inv
BY InitInv, StepInv, PTL DEF Spec

\* A sample on a stream that was started has the size that was asked for
\* (_deliverCameraFrame drops frames of an earlier stream), as long as the host
\* starts streams of one size at a time.
THEOREM SamplesFit == Spec => [](OneSize => Coherent)
<1>1. Inv => (OneSize => Coherent)
  BY DEF Inv, SizeInv, Coherent
<1> QED
  BY <1>1, InvHolds, PTL

\* The webcam runs only for a present stream (_stopCameraCapture), when the
\* prompt is answered before the host asks anew and before the user leaves.
THEOREM WebcamIsReleased == Spec => [](Answers => WebcamReleased)
<1>1. Inv => (Answers => WebcamReleased)
  BY DEF Inv, PromptInv
<1> QED
  BY <1>1, InvHolds, PTL

-----------------------------------------------------------------------------
(* Virtual channels: types.                                                *)

ChanType == [name : Names \cup {NoName}, inst : 0..MaxInstances,
             st : {"none", "asked", "open", "refused"},
             msg : Nat, chunk : Nat, half : BOOLEAN]
PartType == [inst : 0..MaxInstances, msg : Nat \cup SetupSteps \cup {"copy"},
             no : {1, 2}, of : {1, 2}, chunk : Nat]
Creates  == [kind : {"create"}, id : Ids, name : Names, inst : Instances]
Closes   == [kind : {"close"}, id : Ids]
Data     == [kind : {"data"}, id : Ids, part : PartType]
Statics  == [kind : {"static"}, channel : Static, part : PartType]
DownType == Creates \cup Closes \cup Data \cup Statics
ReplyKinds == {"accept", "refuse", "announce-reply", "client-name",
               "capability-reply", "device-list"}
UpType   == [kind : ReplyKinds, id : Ids \cup {NoId}]
HostType == [chan : [Ids -> ChanType], made : 0..MaxInstances, step : SetupSteps,
             sent : {f \in [Static -> 0..2] : f["cliprdr"] < 2}]

\* The types of all variables, ChannelsTypeOK among them.
ChannelTypes ==
  /\ setting \in SettingType
  /\ byId \in [Ids -> Names \cup {NoName}] /\ role \in [Roles -> Ids \cup {NoId}]
  /\ handler \in [Roles -> 0..MaxInstances] /\ cams \in [Ids -> 0..MaxInstances]
  /\ camName \in BOOLEAN
  /\ svc \in [Static -> Seq(PartType)] /\ reasm \in [Ids -> Seq(PartType)]
  /\ zgfx \in [Ids -> [inst : 0..MaxInstances, chunk : Nat]]
  /\ heard \in [Static -> Seq(Seq(PartType))] /\ got \in [Instances -> Seq(Seq(PartType))]
  /\ down \in Seq(DownType) /\ up \in Seq(UpType) /\ host \in HostType
  /\ \A r \in Roles \ {"display"} : handler[r] # 0 => role[r] # NoId

\* The client has the types of its own state.
ClientTypes ==
  /\ byId \in [Ids -> Names \cup {NoName}] /\ role \in [Roles -> Ids \cup {NoId}]
  /\ handler \in [Roles -> 0..MaxInstances] /\ cams \in [Ids -> 0..MaxInstances]
  /\ camName \in BOOLEAN
  /\ svc \in [Static -> Seq(PartType)] /\ reasm \in [Ids -> Seq(PartType)]
  /\ zgfx \in [Ids -> [inst : 0..MaxInstances, chunk : Nat]]
  /\ heard \in [Static -> Seq(Seq(PartType))] /\ got \in [Instances -> Seq(Seq(PartType))]
  /\ \A r \in Roles \ {"display"} : handler[r] # 0 => role[r] # NoId

\* The types of the client, of the host and of what is between them.
LEMMA ChannelTypesParts ==
  ChannelTypes <=> /\ ClientTypes /\ setting \in SettingType
                   /\ down \in Seq(DownType) /\ up \in Seq(UpType) /\ host \in HostType
BY DEF ChannelTypes, ClientTypes

\* The same of the next state.
LEMMA ChannelTypesPartsNext ==
  ASSUME ClientTypes', setting' \in SettingType, down' \in Seq(DownType), up' \in Seq(UpType),
         host' \in HostType
  PROVE  ChannelTypes'
BY DEF ChannelTypes, ClientTypes

\* These types say at least what ChannelsTypeOK says.
LEMMA ChannelTypeOKHolds == ChannelTypes => ChannelsTypeOK
<1> SUFFICES ASSUME ChannelTypes PROVE ChannelsTypeOK
  OBVIOUS
<1>1. /\ host.step \in SetupSteps /\ host.made \in 0..MaxInstances
      /\ \A i \in Ids : host.chan[i].st \in {"none", "asked", "open", "refused"}
  <2>1. host.chan \in [Ids -> ChanType]
    BY DEF ChannelTypes, HostType
  <2>2. \A c \in ChanType : c.st \in {"none", "asked", "open", "refused"}
    BY DEF ChanType
  <2> QED
    BY <2>1, <2>2 DEF ChannelTypes, HostType
<1>2. zgfx \in [Ids -> [inst : 0..MaxInstances, chunk : Nat]]
  BY DEF ChannelTypes
<1>3. DOMAIN reasm = Ids /\ DOMAIN svc = Static /\ DOMAIN heard = Static /\ DOMAIN got = Instances
  BY DEF ChannelTypes
<1> QED
  BY <1>1, <1>2, <1>3 DEF ChannelTypes, ChannelsTypeOK

\* Sequences: one that loses its head, and one that gets an element.
LEMMA Popped ==
  ASSUME NEW S, NEW q \in Seq(S), q # <<>>
  PROVE  /\ Len(q) \in Nat \ {0} /\ Head(q) = q[1] /\ Head(q) \in S
         /\ Tail(q) \in Seq(S) /\ Len(Tail(q)) = Len(q) - 1
         /\ DOMAIN q = 1..Len(q) /\ DOMAIN Tail(q) = 1..Len(Tail(q)) /\ 1 \in DOMAIN q
         /\ \A i \in DOMAIN Tail(q) : i + 1 \in DOMAIN q /\ Tail(q)[i] = q[i + 1]
         /\ \A i \in DOMAIN q : i = 1 \/ (i - 1 \in DOMAIN Tail(q) /\ Tail(q)[i - 1] = q[i])
<1>1. Len(q) \in Nat \ {0} /\ Head(q) = q[1] /\ DOMAIN q = 1..Len(q)
  BY EmptySeq, LenProperties
<1>2. /\ Head(q) \in S /\ Tail(q) \in Seq(S) /\ Len(Tail(q)) = Len(q) - 1
      /\ \A i \in 1..Len(Tail(q)) : Tail(q)[i] = q[i + 1]
  BY HeadTailProperties
<1>3. DOMAIN Tail(q) = 1..Len(Tail(q))
  BY <1>2, LenProperties
<1>4. \A i \in DOMAIN q : i = 1 \/ (i - 1 \in DOMAIN Tail(q) /\ Tail(q)[i - 1] = q[i])
  <2> SUFFICES ASSUME NEW i \in DOMAIN q, i # 1
               PROVE  i - 1 \in DOMAIN Tail(q) /\ Tail(q)[i - 1] = q[i]
    OBVIOUS
  <2>1. i - 1 \in 1..Len(Tail(q)) /\ (i - 1) + 1 = i
    BY <1>1, <1>2
  <2> QED
    BY <1>2, <1>3, <2>1
<1>5. \A i \in DOMAIN Tail(q) : i + 1 \in DOMAIN q /\ Tail(q)[i] = q[i + 1]
  BY <1>1, <1>2, <1>3
<1> QED
  BY <1>1, <1>2, <1>3, <1>4, <1>5

\* The other end of a sequence: an element more.
LEMMA Appended ==
  ASSUME NEW S, NEW q \in Seq(S), NEW e \in S
  PROVE  /\ Append(q, e) \in Seq(S) /\ Len(Append(q, e)) = Len(q) + 1 /\ Len(q) \in Nat
         /\ DOMAIN q = 1..Len(q) /\ DOMAIN Append(q, e) = 1..(Len(q) + 1)
         /\ \A i \in DOMAIN q : Append(q, e)[i] = q[i]
         /\ Append(q, e)[Len(q) + 1] = e
<1>1. /\ Append(q, e) \in Seq(S) /\ Len(Append(q, e)) = Len(q) + 1 /\ Len(q) \in Nat
      /\ DOMAIN q = 1..Len(q)
      /\ \A i \in 1..Len(q) : Append(q, e)[i] = q[i]
      /\ Append(q, e)[Len(q) + 1] = e
  BY AppendProperties, LenProperties
<1>2. DOMAIN Append(q, e) = 1..(Len(q) + 1)
  BY <1>1, LenProperties
<1> QED
  BY <1>1, <1>2

\* The PDUs to the client are of four kinds.
LEMMA DownKinds ==
  ASSUME NEW m \in DownType
  PROVE  /\ m.kind \in {"create", "close", "data", "static"}
         /\ m.kind = "create" => m \in Creates /\ m.id \in Ids /\ m.name \in Names /\ m.inst \in Instances
         /\ m.kind = "close"  => m.id \in Ids
         /\ m.kind = "data"   => m.id \in Ids /\ m.part \in PartType
         /\ m.kind = "static" => m.channel \in Static /\ m.part \in PartType
<1>1. CASE m \in Creates
  BY <1>1 DEF Creates
<1>2. CASE m \in Closes
  BY <1>2 DEF Closes
<1>3. CASE m \in Data
  BY <1>3 DEF Data
<1>4. CASE m \in Statics
  BY <1>4 DEF Statics
<1> QED
  BY <1>1, <1>2, <1>3, <1>4 DEF DownType

\* What the client takes, and what is left.
LEMMA Taken ==
  ASSUME ChannelTypes, NEW kind, Takes(kind)
  PROVE  /\ down # <<>> /\ Head(down) = down[1] /\ Head(down) \in DownType
         /\ Head(down).kind = kind /\ down' = Tail(down)
         /\ down' \in Seq(DownType) /\ UNCHANGED <<setting, host>>
<1>1. down \in Seq(DownType) /\ down # <<>> /\ Head(down).kind = kind /\ down' = Tail(down)
      /\ UNCHANGED <<setting, host>>
  BY DEF ChannelTypes, Takes
<1> QED
  BY <1>1, Popped

\* What the client sends is a reply or nothing.
LEMMA Answered ==
  ASSUME up \in Seq(UpType), NEW ks, NEW id \in Ids \cup {NoId}, Send(ks, id),
         ks \in Seq(ReplyKinds)
  PROVE  /\ up' \in Seq(UpType) /\ Len(up) \in Nat /\ Len(ks) \in Nat
         /\ DOMAIN up = 1..Len(up) /\ DOMAIN up' = 1..(Len(up) + Len(ks))
         /\ \A k \in DOMAIN up : up'[k] = up[k]
         /\ \A k \in 1..Len(ks) : up'[Len(up) + k] = [kind |-> ks[k], id |-> id]
         /\ \A k \in DOMAIN up' : k \in DOMAIN up \/ (k - Len(up) \in 1..Len(ks))
<1> DEFINE s == [k \in DOMAIN ks |-> [kind |-> ks[k], id |-> id]]
<1>1. Len(ks) \in Nat /\ DOMAIN ks = 1..Len(ks) /\ \A k \in 1..Len(ks) : ks[k] \in ReplyKinds
  BY LenProperties, ElementOfSeq
<1>2. \A k \in 1..Len(ks) : [kind |-> ks[k], id |-> id] \in UpType
  BY <1>1 DEF UpType
<1>3. s = [k \in 1..Len(ks) |-> [kind |-> ks[k], id |-> id]]
  BY <1>1
<1>4. s \in Seq(UpType) /\ Len(s) = Len(ks)
  BY <1>1, <1>2, <1>3, IsASeq
<1>5. \A k \in 1..Len(ks) : s[k] = [kind |-> ks[k], id |-> id]
  BY <1>3
<1>6. up' = up \o s
  BY DEF Send
<1> HIDE DEF s
<1>7. /\ up \o s \in Seq(UpType) /\ Len(up \o s) = Len(up) + Len(s)
      /\ \A i \in 1..(Len(up) + Len(s)) :
           (up \o s)[i] = IF i <= Len(up) THEN up[i] ELSE s[i - Len(up)]
  BY <1>4, ConcatProperties
<1>8. Len(up) \in Nat /\ DOMAIN up = 1..Len(up) /\ DOMAIN up' = 1..(Len(up) + Len(ks))
  BY <1>4, <1>6, <1>7, LenProperties
<1>9. \A k \in DOMAIN up : up'[k] = up[k]
  BY <1>1, <1>4, <1>6, <1>7, <1>8
<1>10. ASSUME NEW k \in 1..Len(ks) PROVE up'[Len(up) + k] = [kind |-> ks[k], id |-> id]
  <2>1. /\ Len(up) + k \in 1..(Len(up) + Len(s)) /\ ~(Len(up) + k <= Len(up))
        /\ (Len(up) + k) - Len(up) = k
    BY <1>1, <1>4, <1>8
  <2>2. up'[Len(up) + k] = s[k]
    BY <1>6, <1>7, <2>1
  <2> QED
    BY <1>5, <2>2
<1>11. \A k \in DOMAIN up' : k \in DOMAIN up \/ (k - Len(up) \in 1..Len(ks))
  BY <1>1, <1>8
<1> QED
  BY <1>1, <1>6, <1>7, <1>8, <1>9, <1>10, <1>11

-----------------------------------------------------------------------------
(* Virtual channels: every step keeps the types.                           *)

\* A part in a sequence of parts.
LEMMA PartsFacts ==
  ASSUME NEW q \in Seq(PartType), NEW part \in PartType
  PROVE  /\ <<part>> \in Seq(PartType) /\ Append(q, part) \in Seq(PartType)
         /\ <<>> \in Seq(PartType)
         /\ \A h \in Seq(Seq(PartType)) :
              /\ Append(h, <<part>>) \in Seq(Seq(PartType))
              /\ Append(h, Append(q, part)) \in Seq(Seq(PartType))
<1>1. <<part>> \in Seq(PartType) /\ <<>> \in Seq(PartType)
  OBVIOUS
<1>2. Append(q, part) \in Seq(PartType)
  BY AppendProperties
<1> QED
  BY <1>1, <1>2, AppendProperties

\* The handler that is found is that of an instance, or none.
LEMMA HandlerType ==
  ASSUME handler \in [Roles -> 0..MaxInstances], cams \in [Ids -> 0..MaxInstances],
         NEW id \in Ids
  PROVE  HandlerOf(id) \in 0..MaxInstances
<1> DEFINE asked == <<"display", "audio", "audin", "camEnum">>
<1> DEFINE I == {i \in 1..Len(asked) : role[asked[i]] = id /\ handler[asked[i]] # 0}
<1> DEFINE k == IF I # {} THEN Min(I) ELSE 0
<1>1. HandlerOf(id) = IF k # 0 THEN handler[asked[k]]
                      ELSE IF cams[id] # 0 THEN cams[id]
                      ELSE IF role["gfx"] = id THEN handler["gfx"] ELSE 0
  BY DEF HandlerOf, SelectInSeq
<1>2. I \subseteq 1..4
  OBVIOUS
<1>3. k # 0 => asked[k] \in Roles
  <2> SUFFICES ASSUME I # {} PROVE asked[Min(I)] \in Roles
    OBVIOUS
  <2>1. Min(I) \in I
    <3>2. \E x \in I : x \in 1..4
      OBVIOUS
    <3> HIDE DEF I
    <3>1. \E x \in I : \A y \in I : x =< y
      <4>1. CASE 1 \in I
        BY <1>2, <4>1
      <4>2. CASE 1 \notin I /\ 2 \in I
        BY <1>2, <4>2
      <4>3. CASE 1 \notin I /\ 2 \notin I /\ 3 \in I
        BY <1>2, <4>3
      <4>4. CASE 1 \notin I /\ 2 \notin I /\ 3 \notin I
        <5>1. \E x \in I : x = 4
          BY <1>2, <3>2, <4>4
        <5> QED
          BY <1>2, <4>4, <5>1
      <4> QED
        BY <4>1, <4>2, <4>3, <4>4
    <3> QED
      BY <3>1 DEF Min
  <2>2. Min(I) \in 1..4
    BY <1>2, <2>1
  <2> HIDE DEF I
  <2>3. \A i \in 1..4 : asked[i] \in Roles
    BY DEF Roles
  <2> QED
    BY <2>2, <2>3
<1> HIDE DEF k
<1> QED
  BY <1>1, <1>3 DEF Roles

\* The answers of device redirection.
LEMMA RedirectionReplies ==
  ASSUME NEW what
  PROVE  DeviceRedirection(what) \in Seq(ReplyKinds) /\ <<>> \in Seq(ReplyKinds)
<1>1. /\ <<"announce-reply", "client-name">> \in Seq(ReplyKinds)
      /\ <<"capability-reply">> \in Seq(ReplyKinds) /\ <<"device-list">> \in Seq(ReplyKinds)
      /\ <<>> \in Seq(ReplyKinds)
  BY DEF ReplyKinds
<1>2. DeviceRedirection(what) \in {<<"announce-reply", "client-name">>, <<"capability-reply">>,
                                   <<"device-list">>, <<>>}
  BY DEF DeviceRedirection
<1> QED
  BY <1>1, <1>2

\* The client's own steps.
LEMMA StaticTypes ==
  ASSUME ChannelTypes, OnStatic
  PROVE  ChannelTypes'
<1> DEFINE m == Head(down)
<1> DEFINE c == m.channel
<1> DEFINE part == m.part
<1> DEFINE begun == IF part.no = 1 THEN <<part>> ELSE Append(svc[c], part)
<1> DEFINE lost == part.no > 1 /\ svc[c] = <<>>
<1> DEFINE whole == ~lost /\ part.no = part.of
<1> DEFINE ks == IF whole /\ c = "rdpdr" THEN DeviceRedirection(part.msg) ELSE <<>>
<1>1. /\ svc' = [svc EXCEPT ![c] = IF part.of = 1 \/ lost THEN @ ELSE IF whole THEN <<>> ELSE begun]
      /\ heard' = IF whole THEN [heard EXCEPT ![c] = Append(@, begun)] ELSE heard
      /\ Send(ks, NoId) /\ Takes("static")
      /\ UNCHANGED <<byId, role, handler, cams, camName, reasm, zgfx, got>>
  BY DEF OnStatic, tables
<1>2. /\ m \in DownType /\ down' \in Seq(DownType) /\ UNCHANGED <<setting, host>>
      /\ c \in Static /\ part \in PartType
  BY <1>1, Taken, DownKinds
<1>3. ks \in Seq(ReplyKinds)
  <2> HIDE DEF whole, c
  <2> QED
    BY RedirectionReplies
<1> HIDE DEF ks
<1>4. up' \in Seq(UpType)
  BY <1>1, <1>3, Answered DEF ChannelTypes
<1> HIDE DEF m, c, part
<1>5. svc \in [Static -> Seq(PartType)] /\ heard \in [Static -> Seq(Seq(PartType))]
  BY DEF ChannelTypes
<1>6. begun \in Seq(PartType) /\ <<>> \in Seq(PartType)
      /\ \A h \in Seq(Seq(PartType)) : Append(h, begun) \in Seq(Seq(PartType))
  <2>1. svc[c] \in Seq(PartType)
    BY <1>2, <1>5
  <2> QED
    BY <1>2, <2>1, PartsFacts
<1> HIDE DEF begun, lost, whole
<1>7. svc' \in [Static -> Seq(PartType)]
  BY <1>1, <1>2, <1>5, <1>6
<1>8. heard' \in [Static -> Seq(Seq(PartType))]
  BY <1>1, <1>2, <1>5, <1>6
<1>9. ClientTypes'
  BY <1>1, <1>7, <1>8 DEF ChannelTypes, ClientTypes
<1> QED
  BY <1>2, <1>4, <1>9, ChannelTypesPartsNext DEF ChannelTypes

\* A creation keeps the types of the client.
LEMMA CreateTypes ==
  ASSUME ChannelTypes, OnCreate
  PROVE  ChannelTypes'
<1> DEFINE m == Head(down)
<1> DEFINE id == m.id
<1> DEFINE name == m.name
<1> DEFINE ok == Accepts(name)
<1> DEFINE gone == LosesDisplay(id, name)
<1> DEFINE made == IF name = "gfx" /\ Given("noGfx") THEN 0 ELSE m.inst
<1>1. /\ Takes("create") /\ Send(<<IF ok THEN "accept" ELSE "refuse">>, id)
      /\ byId' = IF ok THEN [byId EXCEPT ![id] = name]
                 ELSE IF gone THEN [byId EXCEPT ![id] = NoName] ELSE byId
      /\ role' = IF ok /\ name \in Roles THEN [role EXCEPT ![name] = id]
                 ELSE IF gone THEN [role EXCEPT !["display"] = NoId] ELSE role
      /\ handler' = IF ok /\ name \in Roles THEN [handler EXCEPT ![name] = made] ELSE handler
      /\ cams' = IF ok /\ name = "camDevice" THEN [cams EXCEPT ![id] = m.inst] ELSE cams
      /\ UNCHANGED <<camName, svc, reasm, zgfx, heard, got>>
  BY DEF OnCreate
<1>2. /\ down' \in Seq(DownType) /\ UNCHANGED <<setting, host>>
      /\ id \in Ids /\ name \in Names /\ m.inst \in 0..MaxInstances /\ id # NoId
  BY <1>1, Taken, DownKinds, ChannelsAssumption DEF Instances
<1>3. made \in 0..MaxInstances
  BY <1>2, ChannelsAssumption
<1>4. up' \in Seq(UpType)
  <2> HIDE DEF ok, id
  <2>1. <<IF ok THEN "accept" ELSE "refuse">>
          \in Seq(ReplyKinds)
    BY DEF ReplyKinds
  <2> QED
    BY <1>1, <1>2, <2>1, Answered DEF ChannelTypes
<1> HIDE DEF made, ok, gone, name, id, m
<1>5. /\ byId \in [Ids -> Names \cup {NoName}] /\ role \in [Roles -> Ids \cup {NoId}]
      /\ handler \in [Roles -> 0..MaxInstances] /\ cams \in [Ids -> 0..MaxInstances]
      /\ \A r \in Roles \ {"display"} : handler[r] # 0 => role[r] # NoId
  BY DEF ChannelTypes
<1>6. byId' \in [Ids -> Names \cup {NoName}]
  BY <1>1, <1>2, <1>5
<1>7. role' \in [Roles -> Ids \cup {NoId}]
  BY <1>1, <1>2, <1>5
<1>8. handler' \in [Roles -> 0..MaxInstances]
  BY <1>1, <1>3, <1>5
<1>9. cams' \in [Ids -> 0..MaxInstances]
  BY <1>1, <1>2, <1>5
<1>10. \A r \in Roles \ {"display"} : handler'[r] # 0 => role'[r] # NoId
  BY <1>1, <1>2, <1>5 DEF Roles
<1>11. ClientTypes'
  BY <1>1, <1>6, <1>7, <1>8, <1>9, <1>10 DEF ChannelTypes, ClientTypes
<1> QED
  BY <1>2, <1>4, <1>11, ChannelTypesPartsNext DEF ChannelTypes

\* A close keeps them.
LEMMA CloseTypes ==
  ASSUME ChannelTypes, OnClose
  PROVE  ChannelTypes'
<1> DEFINE id == Head(down).id
<1>1. /\ Takes("close") /\ byId' = [byId EXCEPT ![id] = NoName]
      /\ role' = [r \in Roles |-> IF role[r] = id THEN NoId ELSE role[r]]
      /\ handler' = Kept(id) /\ cams' = [cams EXCEPT ![id] = 0] /\ Forget(id)
      /\ UNCHANGED <<camName, svc, heard, got, up>>
  BY DEF OnClose
<1>2. down' \in Seq(DownType) /\ UNCHANGED <<setting, host>> /\ id \in Ids
  BY <1>1, Taken, DownKinds
<1> HIDE DEF id
<1>3. /\ byId \in [Ids -> Names \cup {NoName}] /\ role \in [Roles -> Ids \cup {NoId}]
      /\ handler \in [Roles -> 0..MaxInstances] /\ cams \in [Ids -> 0..MaxInstances]
      /\ reasm \in [Ids -> Seq(PartType)] /\ zgfx \in [Ids -> [inst : 0..MaxInstances, chunk : Nat]]
      /\ \A r \in Roles \ {"display"} : handler[r] # 0 => role[r] # NoId
      /\ 0 \in 0..MaxInstances /\ <<>> \in Seq(PartType)
  BY ChannelsAssumption DEF ChannelTypes
<1>4. /\ byId' \in [Ids -> Names \cup {NoName}] /\ role' \in [Roles -> Ids \cup {NoId}]
      /\ cams' \in [Ids -> 0..MaxInstances]
  BY <1>1, <1>3
<1>5. /\ handler' \in [Roles -> 0..MaxInstances]
      /\ \A r \in Roles \ {"display"} : handler'[r] # 0 => role'[r] # NoId
  BY <1>1, <1>3 DEF Kept
<1>6. Fresh \in [inst : 0..MaxInstances, chunk : Nat]
  BY <1>3 DEF Fresh
<1>7. reasm' \in [Ids -> Seq(PartType)] /\ zgfx' \in [Ids -> [inst : 0..MaxInstances, chunk : Nat]]
  BY <1>1, <1>3, <1>6 DEF Forget
<1>8. ClientTypes'
  BY <1>1, <1>4, <1>5, <1>7 DEF ChannelTypes, ClientTypes
<1> QED
  BY <1>1, <1>2, <1>8, ChannelTypesPartsNext DEF ChannelTypes

\* A chunk of a dynamic channel keeps them.
LEMMA DataTypes ==
  ASSUME ChannelTypes, OnData
  PROVE  ChannelTypes'
<1> DEFINE m == Head(down)
<1> DEFINE id == m.id
<1> DEFINE part == m.part
<1> DEFINE parts == IF part.no = 1 /\ part.of > 1 THEN <<part>> ELSE Append(reasm[id], part)
<1> DEFINE ok == Inflatable(id, part)
<1> DEFINE whole == ok /\ Len(parts) >= Head(parts).of
<1> DEFINE h == HandlerOf(id)
<1>1. /\ Takes("data")
      /\ zgfx' = [zgfx EXCEPT ![id] = IF ok THEN Context(part, whole) ELSE @]
      /\ reasm' = [reasm EXCEPT ![id] = IF ok /\ ~whole THEN parts ELSE <<>>]
      /\ got' = IF whole /\ h # 0 THEN [got EXCEPT ![h] = Append(@, parts)] ELSE got
      /\ camName' = (camName \/ (whole /\ h # 0 /\ h = handler["camEnum"]))
      /\ UNCHANGED <<byId, role, handler, cams, svc, heard, up>>
  BY DEF OnData, tables
<1>2. /\ down' \in Seq(DownType) /\ UNCHANGED <<setting, host>>
      /\ id \in Ids /\ part \in PartType
  BY <1>1, Taken, DownKinds
<1>3. Context(part, whole) \in [inst : 0..MaxInstances, chunk : Nat]
  BY <1>2 DEF Context, PartType
<1>4. h # 0 => h \in Instances
  BY <1>2, HandlerType, ChannelsAssumption DEF ChannelTypes, Instances
<1> HIDE DEF m, id, part, ok, h
<1>5. reasm \in [Ids -> Seq(PartType)] /\ zgfx \in [Ids -> [inst : 0..MaxInstances, chunk : Nat]]
      /\ got \in [Instances -> Seq(Seq(PartType))]
  BY DEF ChannelTypes
<1>6. parts \in Seq(PartType) /\ <<>> \in Seq(PartType)
      /\ \A q \in Seq(Seq(PartType)) : Append(q, parts) \in Seq(Seq(PartType))
  <2>1. reasm[id] \in Seq(PartType)
    BY <1>2, <1>5
  <2> QED
    BY <1>2, <2>1, PartsFacts
<1>7. camName' \in BOOLEAN
  BY <1>1
<1> HIDE DEF parts, whole
<1>8. zgfx' \in [Ids -> [inst : 0..MaxInstances, chunk : Nat]]
  BY <1>1, <1>2, <1>3, <1>5
<1>9. reasm' \in [Ids -> Seq(PartType)]
  BY <1>1, <1>2, <1>5, <1>6
<1>10. got' \in [Instances -> Seq(Seq(PartType))]
  BY <1>1, <1>4, <1>5, <1>6
<1>11. ClientTypes'
  BY <1>1, <1>7, <1>8, <1>9, <1>10 DEF ChannelTypes, ClientTypes
<1> QED
  BY <1>1, <1>2, <1>11, ChannelTypesPartsNext DEF ChannelTypes

-----------------------------------------------------------------------------
(* Virtual channels: what the host's steps do.                             *)

ClientSame == UNCHANGED <<byId, role, handler, cams, camName, svc, reasm, zgfx, heard, got>>
SameSetting == setting' \in SettingType /\ setting'.may = setting.may /\ setting'.names = setting.names

\* A step that leaves the client as it is keeps them.
LEMMA ClientSameTypes ==
  ASSUME ClientTypes, ClientSame
  PROVE  ClientTypes'
BY DEF ClientTypes, ClientSame

\* A step of the host that sends m.
Emits(m) == m \in DownType /\ down' = Append(down, m) /\ UNCHANGED up /\ ClientSame /\ SameSetting

\* The host sends a PDU.
LEMMA EmitsTypes ==
  ASSUME ChannelTypes, NEW m, Emits(m), host' \in HostType
  PROVE  ChannelTypes'
<1>1. down' \in Seq(DownType)
  BY Appended DEF Emits, ChannelTypes
<1>2. ClientTypes'
  BY ClientSameTypes, ChannelTypesParts DEF Emits
<1> QED
  BY <1>1, <1>2, ChannelTypesPartsNext DEF Emits, ChannelTypes, SameSetting

\* The fields of the host.
LEMMA HostParts ==
  ASSUME host \in HostType
  PROVE  /\ host.chan \in [Ids -> ChanType] /\ host.made \in 0..MaxInstances
         /\ host.step \in SetupSteps /\ host.sent \in [Static -> 0..2] /\ host.sent["cliprdr"] < 2
         /\ host = [chan |-> host.chan, made |-> host.made, step |-> host.step, sent |-> host.sent]
BY DEF HostType

\* Channels are told apart by their fields.
LEMMA ChannelsEqual ==
  ASSUME NEW c \in ChanType, NEW d \in ChanType,
         c.name = d.name, c.inst = d.inst, c.st = d.st,
         c.msg = d.msg, c.chunk = d.chunk, c.half = d.half
  PROVE  c = d
BY DEF ChanType

\* An id that has no channel.
LEMMA IdleFacts ==
  /\ Idle \in ChanType /\ Idle.name = NoName /\ Idle.inst = 0 /\ Idle.st = "none"
  /\ Idle.msg = 0 /\ Idle.chunk = 0 /\ Idle.half = FALSE
BY ChannelsAssumption DEF Idle, ChanType

\* A channel that was created.
Created(name, inst, st) ==
  [name |-> name, inst |-> inst, st |-> st, msg |-> 0, chunk |-> 0, half |-> FALSE]

\* What a creation changes of the host.
LEMMA CreatesFacts ==
  ASSUME ChannelTypes, NEW id \in Ids, NEW name \in Names, HostCreates(id, name)
  PROVE  LET n == host.made + 1
             c == Created(name, n, "asked")
         IN /\ n \in Instances /\ c \in ChanType /\ host' \in HostType
            /\ host'.chan = [host.chan EXCEPT ![id] = c] /\ host'.made = n
            /\ host'.step = host.step /\ host'.sent = host.sent
            /\ Emits([kind |-> "create", id |-> id, name |-> name, inst |-> n])
            /\ name \in setting.names
            /\ name # "camDevice" => \A i \in Ids : host.chan[i].name # name
            /\ \/ host.chan[id].st \in {"none", "refused"}
               \/ host.chan[id].st = "open" /\ Given("takesOver")
<1> DEFINE n == host.made + 1
<1> DEFINE c == Created(name, n, "asked")
<1> DEFINE d == [Idle EXCEPT !.name = name, !.inst = n, !.st = "asked"]
<1> DEFINE m == [kind |-> "create", id |-> id, name |-> name, inst |-> n]
<1>1. /\ host.made < MaxInstances /\ host' = [host EXCEPT !.made = n, !.chan[id] = d]
      /\ down' = Append(down, m) /\ HostOnly /\ UNCHANGED <<setting, up>> /\ Offers(name)
      /\ \/ host.chan[id].st \in {"none", "refused"}
         \/ host.chan[id].st = "open" /\ Given("takesOver")
  BY DEF HostCreates, Emit
<1>2. host \in HostType /\ setting \in SettingType
  BY DEF ChannelTypes
<1>3. n \in Instances
  BY <1>1, <1>2, HostParts, ChannelsAssumption DEF Instances
<1>6. n \in 0..MaxInstances
  BY <1>3, ChannelsAssumption DEF Instances
<1>5. m \in DownType
  BY <1>3 DEF DownType, Creates
<1> HIDE DEF n
<1>4. c \in ChanType
  BY <1>6 DEF Created, ChanType
<1>12. c = d
  <2>1. /\ d \in ChanType /\ d.name = name /\ d.inst = n /\ d.st = "asked"
        /\ d.msg = 0 /\ d.chunk = 0 /\ d.half = FALSE
    BY <1>6, IdleFacts DEF ChanType
  <2>2. /\ c.name = name /\ c.inst = n /\ c.st = "asked"
        /\ c.msg = 0 /\ c.chunk = 0 /\ c.half = FALSE
    BY DEF Created
  <2> HIDE DEF c, d
  <2> QED
    BY <1>4, <2>1, <2>2, ChannelsEqual
<1> HIDE DEF c, d, m
<1>7. /\ host' = [chan |-> [host.chan EXCEPT ![id] = c], made |-> n,
                  step |-> host.step, sent |-> host.sent]
  BY <1>1, <1>2, <1>12, HostParts
<1>8. /\ host'.chan = [host.chan EXCEPT ![id] = c] /\ host'.made = n
      /\ host'.step = host.step /\ host'.sent = host.sent
  BY <1>7
<1>9. host' \in HostType
  <2>1. [host.chan EXCEPT ![id] = c] \in [Ids -> ChanType]
    BY <1>2, <1>4, HostParts
  <2> QED
    BY <1>2, <1>6, <1>7, <2>1, HostParts DEF HostType
<1>10. Emits(m)
  BY <1>1, <1>2, <1>5 DEF Emits, ClientSame, HostOnly, tables, SameSetting
<1>11. name \in setting.names /\ (name # "camDevice" => \A i \in Ids : host.chan[i].name # name)
  BY <1>1 DEF Offers
<1> QED
  BY <1>1, <1>3, <1>4, <1>8, <1>9, <1>10, <1>11 DEF c, n, m

\* A part of a channel's next chunk, and the channel after it.
NextPart(c, of) ==
  Part(c.inst, IF c.half THEN c.msg ELSE c.msg + 1, IF c.half THEN 2 ELSE 1, of, c.chunk + 1)
Written(c, of) ==
  [c EXCEPT !.chunk = c.chunk + 1, !.msg = IF c.half THEN c.msg ELSE c.msg + 1,
            !.half = ~c.half /\ of = 2]

\* The next part and the channel after it, field by field.
LEMMA WrittenType ==
  ASSUME NEW c \in ChanType, NEW of \in {1, 2}
  PROVE  /\ NextPart(c, of) \in PartType /\ Written(c, of) \in ChanType
         /\ Written(c, of).name = c.name /\ Written(c, of).inst = c.inst
         /\ Written(c, of).st = c.st
         /\ Written(c, of).chunk = c.chunk + 1 /\ Written(c, of).half = (~c.half /\ of = 2)
         /\ Written(c, of).msg = IF c.half THEN c.msg ELSE c.msg + 1
         /\ NextPart(c, of) = [inst |-> c.inst, msg |-> IF c.half THEN c.msg ELSE c.msg + 1,
                               no |-> IF c.half THEN 2 ELSE 1, of |-> of, chunk |-> c.chunk + 1]
<1>1. /\ c.inst \in 0..MaxInstances /\ c.msg \in Nat /\ c.chunk \in Nat /\ c.half \in BOOLEAN
      /\ c.msg + 1 \in Nat /\ c.chunk + 1 \in Nat
  BY DEF ChanType
<1>2. NextPart(c, of) \in PartType
  BY <1>1 DEF NextPart, Part, PartType
<1>3. Written(c, of) \in ChanType
  BY <1>1 DEF Written, ChanType
<1> QED
  BY <1>1, <1>2, <1>3 DEF Written, ChanType, NextPart, Part

\* What a chunk changes of the host.
LEMMA WritesFacts ==
  ASSUME ChannelTypes, NEW id \in Ids, HostWrites(id)
  PROVE  LET c == host.chan[id]
         IN /\ c.st = "open" /\ c \in ChanType
            /\ \E of \in {1, 2} :
                 /\ (c.half => of = 2) /\ (~c.half /\ of = 2 => Given("splits"))
                 /\ Emits([kind |-> "data", id |-> id, part |-> NextPart(c, of)])
                 /\ host'.chan = [host.chan EXCEPT ![id] = Written(c, of)]
            /\ host' \in HostType /\ host'.made = host.made
            /\ host'.step = host.step /\ host'.sent = host.sent
<1> DEFINE c == host.chan[id]
<1> DEFINE m(of) == [kind |-> "data", id |-> id, part |-> NextPart(c, of)]
<1>1. host \in HostType /\ setting \in SettingType /\ c.st = "open" /\ c \in ChanType
  BY HostParts DEF ChannelTypes, HostWrites
<1>2. \A of \in {1, 2} : m(of) \in DownType
  BY <1>1, WrittenType DEF DownType, Data
<1>3. PICK of \in {1, 2} :
        /\ (c.half => of = 2) /\ (~c.half /\ of = 2 => Given("splits"))
        /\ Emits(m(of)) /\ host' = [host EXCEPT !.chan[id] = Written(c, of)]
  <2>1. CASE c.half
    <3>1. /\ down' = Append(down, m(2)) /\ UNCHANGED setting
          /\ host' = [host EXCEPT !.chan[id].chunk = @ + 1, !.chan[id].half = FALSE]
          /\ HostOnly /\ UNCHANGED up
      BY <2>1 DEF HostWrites, Emit, NextPart
    <3>2. [c EXCEPT !.chunk = c.chunk + 1, !.half = FALSE] = Written(c, 2)
      BY <1>1, <2>1 DEF Written, ChanType
    <3>3. host' = [host EXCEPT !.chan[id] = Written(c, 2)]
      <4>1. host' = [host EXCEPT !.chan[id] = [c EXCEPT !.chunk = c.chunk + 1, !.half = FALSE]]
        BY <1>1, <3>1, HostParts
      <4> QED
        BY <3>2, <4>1
    <3>4. Emits(m(2))
      BY <1>1, <1>2, <3>1 DEF Emits, ClientSame, HostOnly, tables, SameSetting
    <3> QED
      BY <2>1, <3>3, <3>4
  <2>2. CASE ~c.half
    <3>1. PICK of \in {1, 2} :
            /\ of = 2 => Given("splits")
            /\ down' = Append(down, m(of)) /\ setting.messages > 0
            /\ setting' = [setting EXCEPT !.messages = setting.messages - 1]
            /\ host' = [host EXCEPT !.chan[id].chunk = @ + 1, !.chan[id].msg = @ + 1,
                                    !.chan[id].half = (of = 2)]
            /\ HostOnly /\ UNCHANGED up
      <4>1. PICK of \in IF Given("splits") THEN {1, 2} ELSE {1} :
              /\ Emit([kind |-> "data", id |-> id, part |-> Part(c.inst, c.msg + 1, 1, of, c.chunk + 1)])
              /\ host' = [host EXCEPT !.chan[id].chunk = @ + 1, !.chan[id].msg = @ + 1,
                                      !.chan[id].half = (of = 2)]
        BY <2>2 DEF HostWrites
      <4>2. /\ setting.messages > 0 /\ setting' = [setting EXCEPT !.messages = setting.messages - 1]
            /\ HostOnly /\ UNCHANGED up
        BY <2>2 DEF HostWrites
      <4>3. NextPart(c, of) = Part(c.inst, c.msg + 1, 1, of, c.chunk + 1)
        BY <2>2 DEF NextPart
      <4>4. of \in {1, 2} /\ (of = 2 => Given("splits"))
        BY <4>1
      <4>5. down' = Append(down, m(of))
        BY <4>1, <4>3 DEF Emit
      <4> QED
        BY <4>1, <4>2, <4>4, <4>5
    <3>2. [c EXCEPT !.chunk = c.chunk + 1, !.msg = c.msg + 1, !.half = (of = 2)] = Written(c, of)
      BY <1>1, <2>2 DEF Written, ChanType
    <3>3. host' = [host EXCEPT !.chan[id] = Written(c, of)]
      <4>1. host' = [host EXCEPT !.chan[id] =
                       [c EXCEPT !.chunk = c.chunk + 1, !.msg = c.msg + 1, !.half = (of = 2)]]
        BY <1>1, <3>1, HostParts
      <4> QED
        BY <3>2, <4>1
    <3>4. SameSetting
      <4>1. setting.messages - 1 \in Nat
        BY <1>1, <3>1 DEF SettingType
      <4> QED
        BY <1>1, <3>1, <4>1 DEF SettingType, SameSetting
    <3>5. Emits(m(of))
      BY <1>1, <1>2, <3>1, <3>4 DEF Emits, ClientSame, HostOnly, tables
    <3> QED
      BY <2>2, <3>1, <3>3, <3>5
  <2> QED
    BY <2>1, <2>2
<1>4. Written(c, of) \in ChanType
  BY <1>1, WrittenType
<1> HIDE DEF c, m
<1>5. host' = [chan |-> [host.chan EXCEPT ![id] = Written(c, of)], made |-> host.made,
               step |-> host.step, sent |-> host.sent]
  BY <1>1, <1>3, HostParts
<1>6. host' \in HostType
  <2>1. [host.chan EXCEPT ![id] = Written(c, of)] \in [Ids -> ChanType]
    BY <1>1, <1>4, HostParts
  <2> QED
    BY <1>1, <1>5, <2>1, HostParts DEF HostType
<1> QED
  BY <1>1, <1>3, <1>5, <1>6 DEF c, m

\* What a close changes of the host.
LEMMA ClosesFacts ==
  ASSUME ChannelTypes, NEW id \in Ids, HostClosesChannel(id)
  PROVE  /\ host.chan[id].st = "open" /\ host' \in HostType
         /\ host'.chan = [host.chan EXCEPT ![id] = Idle] /\ host'.made = host.made
         /\ host'.step = host.step /\ host'.sent = host.sent
         /\ Emits([kind |-> "close", id |-> id])
<1>1. /\ host.chan[id].st = "open" /\ host' = [host EXCEPT !.chan[id] = Idle]
      /\ down' = Append(down, [kind |-> "close", id |-> id]) /\ HostOnly
      /\ UNCHANGED <<setting, up>>
  BY DEF HostClosesChannel, Emit
<1>2. host \in HostType /\ setting \in SettingType
  BY DEF ChannelTypes
<1>3. Idle \in ChanType
  BY IdleFacts
<1>4. host' = [chan |-> [host.chan EXCEPT ![id] = Idle], made |-> host.made,
               step |-> host.step, sent |-> host.sent]
  BY <1>1, <1>2, HostParts
<1>5. host' \in HostType
  <2>1. [host.chan EXCEPT ![id] = Idle] \in [Ids -> ChanType]
    BY <1>2, <1>3, HostParts
  <2> QED
    BY <1>2, <1>4, <2>1, HostParts DEF HostType
<1>6. Emits([kind |-> "close", id |-> id])
  BY <1>1, <1>2 DEF Emits, ClientSame, HostOnly, tables, SameSetting, DownType, Closes
<1> QED
  BY <1>1, <1>4, <1>5, <1>6

\* A host whose set-up alone changes.
SentType == {f \in [Static -> 0..2] : f["cliprdr"] < 2}
SetUp(step, f) == [host EXCEPT !.step = step, !.sent = f]

\* The steps of the set-up are parts too.
LEMMA SetupTypes ==
  ASSUME host \in HostType, NEW step \in SetupSteps, NEW f \in SentType,
         host' = SetUp(step, f)
  PROVE  /\ host' \in HostType /\ host'.chan = host.chan /\ host'.made = host.made
         /\ host'.step = step /\ host'.sent = f
<1>1. host' = [chan |-> host.chan, made |-> host.made, step |-> step, sent |-> f]
  BY HostParts DEF SetUp
<1>2. /\ host'.chan = host.chan /\ host'.made = host.made /\ host'.step = step /\ host'.sent = f
  BY <1>1
<1>3. host' \in HostType
  BY <1>1, HostParts DEF HostType, SentType
<1> QED
  BY <1>2, <1>3

\* How far the messages of the static channels were sent.
LEMMA SentTypes ==
  ASSUME host \in HostType, NEW k \in 0..2
  PROVE  /\ [host.sent EXCEPT !["rdpdr"] = k] \in SentType
         /\ k < 2 => [host.sent EXCEPT !["cliprdr"] = k] \in SentType
BY HostParts DEF SentType, Static

\* What a step of the set-up changes of the host.
LEMMA RedirectsFacts ==
  ASSUME ChannelTypes, HostRedirects
  PROVE  LET no == host.sent["rdpdr"] + 1
         IN /\ no \in {1, 2} /\ host.step # "ready" /\ host' \in HostType
            /\ host'.chan = host.chan /\ host'.made = host.made
            /\ \E of \in {1, 2} :
                 /\ no = 2 => of = 2
                 /\ Emits([kind |-> "static", channel |-> "rdpdr",
                           part |-> Part(0, host.step, no, of, 0)])
                 /\ \/ /\ no < of /\ host'.step = host.step
                       /\ host'.sent = [host.sent EXCEPT !["rdpdr"] = 1]
                    \/ /\ no = of /\ host.step = "confirm" /\ host'.step = "logon"
                       /\ host'.sent = [host.sent EXCEPT !["rdpdr"] = 0]
                    \/ /\ no = of /\ host.step # "confirm" /\ host'.step = host.step
                       /\ host'.sent = [host.sent EXCEPT !["rdpdr"] = 2]
<1> DEFINE no == host.sent["rdpdr"] + 1
<1> DEFINE m(of) == [kind |-> "static", channel |-> "rdpdr", part |-> Part(0, host.step, no, of, 0)]
<1>1. /\ host.step # "ready" /\ host.sent["rdpdr"] < 2 /\ HostOnly /\ UNCHANGED <<setting, up>>
  BY DEF HostRedirects
<1>2. host \in HostType /\ setting \in SettingType /\ "rdpdr" \in Static
  BY DEF ChannelTypes, Static
<1>12. /\ host.step \in SetupSteps /\ "rdpdr" # "cliprdr"
       /\ 0 \in 0..2 /\ 1 \in 0..2 /\ 2 \in 0..2
  BY <1>2, HostParts
<1>3. no \in {1, 2}
  BY <1>1, <1>2, HostParts
<1>4. PICK of \in IF no = 2 THEN {2} ELSE {1, 2} :
        /\ Emit(m(of))
        /\ host' = IF no < of THEN [host EXCEPT !.sent["rdpdr"] = 1]
                   ELSE IF host.step = "confirm"
                   THEN [host EXCEPT !.step = "logon", !.sent["rdpdr"] = 0]
                   ELSE [host EXCEPT !.sent["rdpdr"] = 2]
  BY DEF HostRedirects
<1>5. of \in {1, 2} /\ (no = 2 => of = 2)
  BY <1>3, <1>4
<1>6. m(of) \in DownType
  <2>1. Part(0, host.step, no, of, 0) \in PartType
    BY <1>2, <1>3, <1>5, HostParts, ChannelsAssumption DEF Part, PartType
  <2> QED
    BY <1>2, <2>1 DEF DownType, Statics
<1>7. Emits(m(of))
  BY <1>1, <1>2, <1>4, <1>6 DEF Emits, Emit, ClientSame, HostOnly, tables, SameSetting
<1> HIDE DEF m
<1>8. CASE no < of
  <2>1. host' = SetUp(host.step, [host.sent EXCEPT !["rdpdr"] = 1])
    BY <1>2, <1>4, <1>8, HostParts DEF SetUp
  <2>2. /\ host' \in HostType /\ host'.chan = host.chan /\ host'.made = host.made
        /\ host'.step = host.step /\ host'.sent = [host.sent EXCEPT !["rdpdr"] = 1]
    BY <1>2, <1>12, <2>1, SetupTypes, SentTypes
  <2> QED
    BY <1>1, <1>2, <1>3, <1>5, <1>7, <1>8, <2>2 DEF m
<1>9. CASE no = of /\ host.step = "confirm"
  <2>1. host' = SetUp("logon", [host.sent EXCEPT !["rdpdr"] = 0])
    BY <1>2, <1>3, <1>4, <1>9, HostParts DEF SetUp
  <2>2. "logon" \in SetupSteps
    BY DEF SetupSteps
  <2>3. /\ host' \in HostType /\ host'.chan = host.chan /\ host'.made = host.made
        /\ host'.step = "logon" /\ host'.sent = [host.sent EXCEPT !["rdpdr"] = 0]
    BY <1>2, <1>12, <2>1, <2>2, SetupTypes, SentTypes
  <2> QED
    BY <1>1, <1>2, <1>3, <1>5, <1>7, <1>9, <2>3 DEF m
<1>10. CASE no = of /\ host.step # "confirm"
  <2>1. host' = SetUp(host.step, [host.sent EXCEPT !["rdpdr"] = 2])
    <3>1. host' = [host EXCEPT !.sent["rdpdr"] = 2]
      BY <1>3, <1>4, <1>10
    <3> QED
      BY <1>2, <3>1, HostParts DEF SetUp
  <2>3. /\ host' \in HostType /\ host'.chan = host.chan /\ host'.made = host.made
        /\ host'.step = host.step /\ host'.sent = [host.sent EXCEPT !["rdpdr"] = 2]
    BY <1>2, <1>12, <2>1, SetupTypes, SentTypes
  <2> QED
    BY <1>1, <1>2, <1>3, <1>5, <1>7, <1>10, <2>3 DEF m
<1>11. no < of \/ no = of
  BY <1>3, <1>5
<1> QED
  BY <1>8, <1>9, <1>10, <1>11

\* What a part of a clipboard message changes of the host.
LEMMA CopiesFacts ==
  ASSUME ChannelTypes, HostCopies
  PROVE  LET no == host.sent["cliprdr"] + 1
         IN /\ no \in {1, 2} /\ host' \in HostType
            /\ host'.chan = host.chan /\ host'.made = host.made /\ host'.step = host.step
            /\ host'.sent = [host.sent EXCEPT !["cliprdr"] = IF no = 1 THEN 1 ELSE 0]
            /\ Emits([kind |-> "static", channel |-> "cliprdr", part |-> Part(0, "copy", no, 2, 0)])
<1> DEFINE no == host.sent["cliprdr"] + 1
<1> DEFINE m == [kind |-> "static", channel |-> "cliprdr", part |-> Part(0, "copy", no, 2, 0)]
<1>1. /\ no = 2 \/ setting.messages > 0
      /\ down' = Append(down, m) /\ HostOnly /\ UNCHANGED up
      /\ host' = [host EXCEPT !.sent["cliprdr"] = no % 2]
      /\ setting' = [setting EXCEPT !.messages = IF no = 1 THEN @ - 1 ELSE @]
  BY DEF HostCopies, Emit
<1>2. host \in HostType /\ setting \in SettingType /\ "cliprdr" \in Static
  BY DEF ChannelTypes, Static
<1>3. no \in {1, 2}
  BY <1>2, HostParts
<1>4. no % 2 = IF no = 1 THEN 1 ELSE 0
  BY <1>3
<1>5. m \in DownType
  <2>1. Part(0, "copy", no, 2, 0) \in PartType
    BY <1>3, ChannelsAssumption DEF Part, PartType
  <2> QED
    BY <1>2, <2>1 DEF DownType, Statics
<1>6. SameSetting
  <2>1. (IF no = 1 THEN setting.messages - 1 ELSE setting.messages) \in Nat
    BY <1>1, <1>2, <1>3 DEF SettingType
  <2>2. setting' = [setting EXCEPT !.messages = IF no = 1 THEN setting.messages - 1 ELSE setting.messages]
    BY <1>1
  <2> QED
    BY <1>2, <2>1, <2>2 DEF SettingType, SameSetting
<1>7. Emits(m)
  BY <1>1, <1>5, <1>6 DEF Emits, ClientSame, HostOnly, tables
<1> HIDE DEF m, no
<1>8. host' = SetUp(host.step, [host.sent EXCEPT !["cliprdr"] = IF no = 1 THEN 1 ELSE 0])
  BY <1>1, <1>2, <1>4, HostParts DEF SetUp
<1>9. /\ host' \in HostType /\ host'.chan = host.chan /\ host'.made = host.made /\ host'.step = host.step
      /\ host'.sent = [host.sent EXCEPT !["cliprdr"] = IF no = 1 THEN 1 ELSE 0]
  <2>1. [host.sent EXCEPT !["cliprdr"] = IF no = 1 THEN 1 ELSE 0] \in SentType
    BY <1>2, SentTypes
  <2> QED
    BY <1>2, <1>8, <2>1, HostParts, SetupTypes
<1> QED
  BY <1>3, <1>7, <1>9 DEF m, no

\* The step that a reply of the client ends, and the one that follows.
Ended(kind) == CASE kind = "client-name" -> "announce" [] kind = "capability-reply" -> "capability"
                 [] kind = "device-list" -> "logon" [] OTHER -> NoName
After(step) == CASE step = "announce" -> "capability" [] step = "capability" -> "confirm"
                 [] OTHER -> "ready"

\* What the host makes of an answer.
LEMMA HostTakesFacts ==
  ASSUME ChannelTypes, HostTakes
  PROVE  /\ up # <<>> /\ up' = Tail(up) /\ Head(up) = up[1] /\ Head(up) \in UpType
         /\ ClientSame /\ UNCHANGED <<setting, down>>
         /\ \/ /\ Head(up).kind \in {"accept", "refuse"}
               /\ host' = [host EXCEPT !.chan[Head(up).id].st =
                              IF Head(up).kind = "accept" THEN "open" ELSE "refused"]
            \/ /\ Head(up).kind \notin {"accept", "refuse"} /\ Ended(Head(up).kind) = host.step
               /\ host' = [host EXCEPT !.step = After(host.step), !.sent["rdpdr"] = 0]
            \/ /\ Head(up).kind \notin {"accept", "refuse"} /\ Ended(Head(up).kind) # host.step
               /\ host' = host
<1>1. /\ up # <<>> /\ up' = Tail(up) /\ HostOnly /\ UNCHANGED <<setting, down>>
  BY DEF HostTakes
<1>2. Head(up) \in UpType /\ Head(up) = up[1] /\ Head(up).kind \in ReplyKinds
  <2>1. up \in Seq(UpType)
    BY DEF ChannelTypes
  <2>2. Head(up) \in UpType /\ Head(up) = up[1]
    BY <1>1, <2>1, Popped
  <2> QED
    BY <2>2 DEF UpType
<1>3. ClientSame
  BY <1>1 DEF ClientSame, HostOnly, tables
<1>4. host \in HostType /\ host.step \in SetupSteps
  BY HostParts DEF ChannelTypes
<1> DEFINE kind == Head(up).kind
<1>5. host' = CASE kind = "accept"           -> [host EXCEPT !.chan[Head(up).id].st = "open"]
                [] kind = "refuse"           -> [host EXCEPT !.chan[Head(up).id].st = "refused"]
                [] kind = "client-name"      -> IF host.step = "announce" THEN [host EXCEPT !.step = "capability", !.sent["rdpdr"] = 0] ELSE host
                [] kind = "capability-reply" -> IF host.step = "capability" THEN [host EXCEPT !.step = "confirm", !.sent["rdpdr"] = 0] ELSE host
                [] kind = "device-list"      -> IF host.step = "logon" THEN [host EXCEPT !.step = "ready", !.sent["rdpdr"] = 0] ELSE host
                [] OTHER                     -> host
  BY DEF HostTakes
<1>6. kind \in ReplyKinds
  BY <1>2
<1> HIDE DEF kind
<1>7. NoName # host.step
  BY <1>4 DEF NoName, SetupSteps
<1>8. \/ /\ kind \in {"accept", "refuse"}
         /\ host' = [host EXCEPT !.chan[Head(up).id].st = IF kind = "accept" THEN "open" ELSE "refused"]
      \/ /\ kind \notin {"accept", "refuse"} /\ Ended(kind) = host.step
         /\ host' = [host EXCEPT !.step = After(host.step), !.sent["rdpdr"] = 0]
      \/ /\ kind \notin {"accept", "refuse"} /\ Ended(kind) # host.step
         /\ host' = host
  <2>1. CASE kind = "accept"
    BY <1>5, <2>1
  <2>2. CASE kind = "refuse"
    BY <1>5, <2>2
  <2>3. CASE kind = "client-name"
    BY <1>5, <2>3 DEF Ended, After
  <2>4. CASE kind = "capability-reply"
    BY <1>5, <2>4 DEF Ended, After
  <2>5. CASE kind = "device-list"
    BY <1>5, <2>5 DEF Ended, After
  <2>6. CASE kind = "announce-reply"
    BY <1>5, <1>7, <2>6 DEF Ended
  <2> QED
    BY <1>6, <2>1, <2>2, <2>3, <2>4, <2>5, <2>6 DEF ReplyKinds
<1> QED
  BY <1>1, <1>2, <1>3, <1>8 DEF kind

\* The host after an answer, field by field.
LEMMA TakesTypes ==
  ASSUME ChannelTypes, HostTakes
  PROVE  /\ host' \in HostType /\ ChannelTypes' /\ host'.made = host.made
         /\ Head(up).kind \in {"accept", "refuse"} =>
              /\ host'.step = host.step /\ host'.sent = host.sent
              /\ \A i \in Ids : host'.chan[i] =
                   [host.chan[i] EXCEPT !.st =
                      IF i = Head(up).id
                      THEN IF Head(up).kind = "accept" THEN "open" ELSE "refused"
                      ELSE @]
         /\ Head(up).kind \notin {"accept", "refuse"} => host'.chan = host.chan
         /\ Head(up).kind \notin {"accept", "refuse"} /\ Ended(Head(up).kind) = host.step =>
              host'.step = After(host.step) /\ host'.sent = [host.sent EXCEPT !["rdpdr"] = 0]
         /\ Head(up).kind \notin {"accept", "refuse"} /\ Ended(Head(up).kind) # host.step =>
              host'.step = host.step /\ host'.sent = host.sent
<1> DEFINE kind == Head(up).kind
<1> DEFINE id == Head(up).id
<1> DEFINE st == IF kind = "accept" THEN "open" ELSE "refused"
<1>1. /\ host \in HostType /\ setting \in SettingType /\ up \in Seq(UpType) /\ up # <<>>
      /\ up' = Tail(up) /\ ClientSame /\ UNCHANGED <<setting, down>> /\ ClientTypes
      /\ down \in Seq(DownType)
  BY HostTakesFacts DEF ChannelTypes, ClientTypes
<1>2. up' \in Seq(UpType) /\ ClientTypes'
  BY <1>1, Popped, ClientSameTypes
<1>3. ASSUME host' \in HostType PROVE ChannelTypes'
  BY <1>1, <1>2, <1>3, ChannelTypesPartsNext
<1>4. CASE kind \in {"accept", "refuse"}
  <2>1. host' = [host EXCEPT !.chan[id].st = st]
    BY <1>4, HostTakesFacts
  <2> DEFINE chan == [host.chan EXCEPT ![id] = [host.chan[id] EXCEPT !.st = st]]
  <2>2. host' = [chan |-> chan, made |-> host.made, step |-> host.step, sent |-> host.sent]
    BY <1>1, <2>1, HostParts
  <2>3. \A i \in Ids : chan[i] = [host.chan[i] EXCEPT !.st = IF i = id THEN st ELSE @]
    <3> SUFFICES ASSUME NEW i \in Ids
                 PROVE  chan[i] = [host.chan[i] EXCEPT !.st = IF i = id THEN st ELSE @]
      OBVIOUS
    <3>1. host.chan[i] \in ChanType /\ host.chan \in [Ids -> ChanType]
      BY <1>1, HostParts
    <3> HIDE DEF st, id
    <3>2. i # id => [host.chan[i] EXCEPT !.st = IF i = id THEN st ELSE @] = host.chan[i]
      BY <3>1 DEF ChanType
    <3> QED
      BY <3>1, <3>2
  <2>4. chan \in [Ids -> ChanType]
    <3>1. \A c \in ChanType : [c EXCEPT !.st = st] \in ChanType
      BY DEF ChanType
    <3>2. host.chan \in [Ids -> ChanType]
      BY <1>1, HostParts
    <3> HIDE DEF st, id
    <3> QED
      BY <3>1, <3>2
  <2> HIDE DEF chan
  <2>5. host' \in HostType
    BY <1>1, <2>2, <2>4, HostParts DEF HostType
  <2> QED
    BY <1>3, <1>4, <2>2, <2>3, <2>5
<1>5. CASE kind \notin {"accept", "refuse"} /\ Ended(kind) = host.step
  <2>1. host' = SetUp(After(host.step), [host.sent EXCEPT !["rdpdr"] = 0])
    BY <1>1, <1>5, HostTakesFacts, HostParts DEF SetUp
  <2>2. /\ After(host.step) \in SetupSteps /\ [host.sent EXCEPT !["rdpdr"] = 0] \in SentType
    BY <1>1, SentTypes DEF After, SetupSteps
  <2>3. /\ host' \in HostType /\ host'.chan = host.chan /\ host'.made = host.made
        /\ host'.step = After(host.step) /\ host'.sent = [host.sent EXCEPT !["rdpdr"] = 0]
    BY <1>1, <2>1, <2>2, SetupTypes
  <2> QED
    BY <1>3, <1>5, <2>3
<1>6. CASE kind \notin {"accept", "refuse"} /\ Ended(kind) # host.step
  BY <1>1, <1>3, <1>6, HostTakesFacts
<1> QED
  BY <1>4, <1>5, <1>6

\* Every step keeps the types.
LEMMA ChannelTypesStep ==
  ASSUME ChannelTypes, [ChannelsNext]_channelsVars
  PROVE  ChannelTypes'
<1>1. CASE OnStatic
  BY <1>1, StaticTypes
<1>2. CASE OnCreate
  BY <1>2, CreateTypes
<1>3. CASE OnClose
  BY <1>3, CloseTypes
<1>4. CASE OnData
  BY <1>4, DataTypes
<1>5. CASE HostRedirects
  BY <1>5, RedirectsFacts, EmitsTypes
<1>6. CASE HostCopies
  BY <1>6, CopiesFacts, EmitsTypes
<1>7. CASE HostTakes
  BY <1>7, TakesTypes
<1>8. ASSUME NEW id \in Ids, HostWrites(id) PROVE ChannelTypes'
  BY <1>8, WritesFacts, EmitsTypes
<1>9. ASSUME NEW id \in Ids, HostClosesChannel(id) PROVE ChannelTypes'
  BY <1>9, ClosesFacts, EmitsTypes
<1>10. ASSUME NEW id \in Ids, NEW n \in Names, HostCreates(id, n) PROVE ChannelTypes'
  BY <1>10, CreatesFacts, EmitsTypes
<1>11. CASE UNCHANGED channelsVars
  BY <1>11 DEF ChannelTypes, channelsVars, tables
<1> QED
  BY <1>1, <1>2, <1>3, <1>4, <1>5, <1>6, <1>7, <1>8, <1>9, <1>10, <1>11
     DEF ChannelsNext, Client, ChannelsRest

\* The first state is of the types.
LEMMA ChannelTypesInit ==
  ChannelsInit => ChannelTypes
<1> SUFFICES ASSUME ChannelsInit PROVE ChannelTypes
  OBVIOUS
<1>1. /\ setting \in SettingType
      /\ byId = [i \in Ids |-> NoName] /\ role = [r \in Roles |-> NoId]
      /\ handler = [r \in Roles |-> 0] /\ cams = [i \in Ids |-> 0] /\ camName = FALSE
      /\ svc = [s \in Static |-> <<>>] /\ reasm = [i \in Ids |-> <<>>]
      /\ zgfx = [i \in Ids |-> Fresh]
      /\ heard = [s \in Static |-> <<>>] /\ got = [n \in Instances |-> <<>>]
      /\ down = <<>> /\ up = <<>>
  BY ChannelsAssumption DEF ChannelsInit
<1>2. 0 \in 0..MaxInstances
  BY ChannelsAssumption
<1>3. \A S : <<>> \in Seq(S)
  OBVIOUS
<1>4. Fresh \in [inst : 0..MaxInstances, chunk : Nat]
  BY <1>2 DEF Fresh
<1>5. host \in HostType
  <2>1. host = [chan |-> [i \in Ids |-> Idle], made |-> 0,
                step |-> "announce", sent |-> [s \in Static |-> 0]]
    BY DEF ChannelsInit
  <2>2. [i \in Ids |-> Idle] \in [Ids -> ChanType]
    BY IdleFacts
  <2>3. [s \in Static |-> 0] \in SentType
    BY DEF SentType, Static
  <2> QED
    BY <1>2, <2>1, <2>2, <2>3 DEF HostType, SentType, SetupSteps
<1>6. ClientTypes
  BY <1>1, <1>2, <1>3, <1>4 DEF ClientTypes
<1> QED
  BY <1>1, <1>3, <1>5, <1>6, ChannelTypesParts

-----------------------------------------------------------------------------
(* Virtual channels: the client sees the host's channels as they were.     *)

\* What the host has when a PDU is sent, but not how far a channel is opened:
\* the client that takes the PDU has seen just the ones before it.
View == [chan : [Ids -> ChanType], made : 0..MaxInstances, open : [Static -> Seq(PartType)]]
Bare(c) == [c EXCEPT !.st = "none"]
OpenOf(h, s) ==
  IF h.sent[s] = 1
  THEN <<Part(0, IF s = "rdpdr" THEN h.step ELSE "copy", 1, 2, 0)>> ELSE <<>>
ViewOf(h) == [chan |-> [i \in Ids |-> Bare(h.chan[i])], made |-> h.made,
              open |-> [s \in Static |-> OpenOf(h, s)]]

\* What is seen after a PDU.
AfterStatic(x, m, y) ==
  LET s == m.channel  p == m.part
  IN /\ y.chan = x.chan /\ y.made = x.made
     /\ y.open = [x.open EXCEPT ![s] = IF p.no = p.of THEN <<>> ELSE <<p>>]
     /\ p.inst = 0
     /\ p.no = 1 => x.open[s] = <<>>
     /\ p.no = 2 => p.of = 2 /\ x.open[s] = <<[p EXCEPT !.no = 1]>>
AfterCreate(x, m, y) ==
  /\ y.open = x.open /\ y.made = x.made + 1 /\ m.inst = y.made
  /\ m.name # "camDevice" => \A j \in Ids : x.chan[j].name # m.name
  /\ y.chan = [x.chan EXCEPT ![m.id] = Created(m.name, m.inst, "none")]
AfterData(x, m, y) ==
  LET c == x.chan[m.id]
  IN /\ y.open = x.open /\ y.made = x.made
     /\ c.half => m.part.of = 2
     /\ m.part = NextPart(c, m.part.of)
     /\ y.chan = [x.chan EXCEPT ![m.id] = Written(c, m.part.of)]
AfterClose(x, m, y) ==
  y.open = x.open /\ y.made = x.made /\ y.chan = [x.chan EXCEPT ![m.id] = Idle]
Follows(x, m, y) ==
  /\ m.kind = "static" => AfterStatic(x, m, y)
  /\ m.kind = "create" => AfterCreate(x, m, y)
  /\ m.kind = "data"   => AfterData(x, m, y)
  /\ m.kind = "close"  => AfterClose(x, m, y)

\* A channel without its state.
LEMMA BareFacts ==
  ASSUME NEW c \in ChanType
  PROVE  /\ Bare(c) \in ChanType /\ Bare(c).st = "none"
         /\ Bare(c).name = c.name /\ Bare(c).inst = c.inst /\ Bare(c).msg = c.msg
         /\ Bare(c).chunk = c.chunk /\ Bare(c).half = c.half
BY DEF Bare, ChanType

\* The view of a host, field by field.
LEMMA ViewOfFacts ==
  ASSUME NEW h \in HostType
  PROVE  /\ ViewOf(h) \in View /\ ViewOf(h).made = h.made
         /\ \A i \in Ids : ViewOf(h).chan[i] = Bare(h.chan[i])
         /\ \A s \in Static : ViewOf(h).open[s] = OpenOf(h, s)
         /\ ViewOf(h).chan = [i \in Ids |-> Bare(h.chan[i])]
         /\ ViewOf(h).open = [s \in Static |-> OpenOf(h, s)]
<1>1. /\ h.chan \in [Ids -> ChanType] /\ h.made \in 0..MaxInstances /\ h.step \in SetupSteps
  BY DEF HostType
<1>2. [i \in Ids |-> Bare(h.chan[i])] \in [Ids -> ChanType]
  BY <1>1, BareFacts
<1>3. \A s \in Static : OpenOf(h, s) \in Seq(PartType)
  <2> SUFFICES ASSUME NEW s \in Static PROVE OpenOf(h, s) \in Seq(PartType)
    OBVIOUS
  <2> DEFINE p == Part(0, IF s = "rdpdr" THEN h.step ELSE "copy", 1, 2, 0)
  <2>1. p \in PartType
    BY <1>1, ChannelsAssumption DEF Part, PartType
  <2>2. <<p>> \in Seq(PartType) /\ <<>> \in Seq(PartType)
    BY <2>1
  <2> QED
    BY <2>2 DEF OpenOf
<1> QED
  BY <1>1, <1>2, <1>3 DEF View, ViewOf

\* The same channels are seen the same.
LEMMA SameChan ==
  ASSUME NEW h \in HostType, NEW k \in HostType, h.chan = k.chan
  PROVE  ViewOf(h).chan = ViewOf(k).chan
BY ViewOfFacts

\* The same messages are open.
LEMMA SameOpen ==
  ASSUME NEW h \in HostType, NEW k \in HostType, h.step = k.step, h.sent = k.sent
  PROVE  ViewOf(h).open = ViewOf(k).open
<1>1. \A s \in Static : OpenOf(h, s) = OpenOf(k, s)
  BY DEF OpenOf
<1> QED
  BY <1>1, ViewOfFacts

\* One channel that is another one.
LEMMA SetChan ==
  ASSUME NEW h \in HostType, NEW k \in HostType, NEW id \in Ids, NEW c \in ChanType,
         k.chan = [h.chan EXCEPT ![id] = c]
  PROVE  ViewOf(k).chan = [ViewOf(h).chan EXCEPT ![id] = Bare(c)]
<1>1. h.chan \in [Ids -> ChanType]
  BY DEF HostType
<1>2. \A i \in Ids : Bare(k.chan[i]) = IF i = id THEN Bare(c) ELSE Bare(h.chan[i])
  BY <1>1
<1>3. ViewOf(k).chan = [i \in Ids |-> IF i = id THEN Bare(c) ELSE Bare(h.chan[i])]
  BY <1>2, ViewOfFacts
<1> QED
  BY <1>3, ViewOfFacts

\* What is seen of a channel that has sent a chunk.
LEMMA BareWritten ==
  ASSUME NEW c \in ChanType, NEW of \in {1, 2}
  PROVE  Bare(Written(c, of)) = Written(Bare(c), of) /\ NextPart(Bare(c), of) = NextPart(c, of)
<1>1. Bare(c) \in ChanType /\ Written(c, of) \in ChanType /\ Written(Bare(c), of) \in ChanType
      /\ Bare(Written(c, of)) \in ChanType
  BY BareFacts, WrittenType
<1>2. NextPart(Bare(c), of) = NextPart(c, of)
  BY BareFacts DEF NextPart
<1> DEFINE a == Bare(Written(c, of))
<1> DEFINE b == Written(Bare(c), of)
<1>3. /\ a.name = b.name /\ a.inst = b.inst /\ a.st = b.st
      /\ a.msg = b.msg /\ a.chunk = b.chunk /\ a.half = b.half
  BY <1>1, BareFacts, WrittenType
<1> HIDE DEF a, b
<1>4. a = b
  BY <1>1, <1>3, ChannelsEqual DEF a, b
<1> QED
  BY <1>2, <1>4 DEF a, b

\* What is seen of a channel that was created.
LEMMA BareCreated ==
  ASSUME NEW name \in Names, NEW n \in 0..MaxInstances
  PROVE  /\ Bare(Created(name, n, "asked")) = Created(name, n, "none") /\ Bare(Idle) = Idle
         /\ Created(name, n, "none") \in ChanType
<1>2. \A st \in {"none", "asked"} :
        LET c == Created(name, n, st)
        IN /\ c \in ChanType /\ c.name = name /\ c.inst = n /\ c.st = st
           /\ c.msg = 0 /\ c.chunk = 0 /\ c.half = FALSE
  BY DEF Created, ChanType
<1>1. Bare(Created(name, n, "asked")) = Created(name, n, "none")
  <2> DEFINE c == Bare(Created(name, n, "asked"))
  <2> DEFINE d == Created(name, n, "none")
  <2>1. /\ c \in ChanType /\ d \in ChanType /\ c.name = d.name /\ c.inst = d.inst /\ c.st = d.st
        /\ c.msg = d.msg /\ c.chunk = d.chunk /\ c.half = d.half
    BY <1>2, BareFacts
  <2> HIDE DEF c, d
  <2>2. c = d
    BY <2>1, ChannelsEqual
  <2> QED
    BY <2>2 DEF c, d
<1>3. Bare(Idle) = Idle
  <2>1. /\ Bare(Idle) \in ChanType /\ Bare(Idle).st = "none" /\ Bare(Idle).name = Idle.name
        /\ Bare(Idle).inst = Idle.inst /\ Bare(Idle).msg = Idle.msg
        /\ Bare(Idle).chunk = Idle.chunk /\ Bare(Idle).half = Idle.half
    BY IdleFacts, BareFacts
  <2> QED
    BY <2>1, IdleFacts, ChannelsEqual
<1> QED
  BY <1>1, <1>2, <1>3

\* What the host's steps add to what is seen.
LEMMA CreatesFollows ==
  ASSUME ChannelTypes, NEW id \in Ids, NEW name \in Names, HostCreates(id, name)
  PROVE  Follows(ViewOf(host),
                 [kind |-> "create", id |-> id, name |-> name, inst |-> host.made + 1],
                 ViewOf(host'))
<1> DEFINE m == [kind |-> "create", id |-> id, name |-> name, inst |-> host.made + 1]
<1> DEFINE c == Created(name, host.made + 1, "asked")
<1>1. /\ host \in HostType /\ host' \in HostType /\ c \in ChanType
      /\ host.made + 1 \in 0..MaxInstances
      /\ host'.chan = [host.chan EXCEPT ![id] = c] /\ host'.made = host.made + 1
      /\ host'.step = host.step /\ host'.sent = host.sent
      /\ name # "camDevice" => \A i \in Ids : host.chan[i].name # name
  <2>1. host.made + 1 \in Instances /\ host \in HostType
    BY CreatesFacts DEF ChannelTypes
  <2>2. host.made + 1 \in 0..MaxInstances
    BY <2>1, ChannelsAssumption DEF Instances
  <2> QED
    BY <2>1, <2>2, CreatesFacts
<1>2. ViewOf(host').open = ViewOf(host).open
  BY <1>1, SameOpen
<1>3. ViewOf(host').chan = [ViewOf(host).chan EXCEPT ![id] = Bare(c)]
  <2> HIDE DEF c
  <2> QED
    BY <1>1, SetChan
<1>4. Bare(c) = Created(name, host.made + 1, "none")
  BY <1>1, BareCreated
<1>5. ViewOf(host').made = ViewOf(host).made + 1 /\ ViewOf(host').made = host.made + 1
  BY <1>1, ViewOfFacts
<1>6. name # "camDevice" => \A i \in Ids : ViewOf(host).chan[i].name # name
  <2>1. \A i \in Ids : ViewOf(host).chan[i].name = host.chan[i].name
    <3>1. \A i \in Ids : host.chan[i] \in ChanType
      BY <1>1, HostParts
    <3> QED
      BY <1>1, <3>1, ViewOfFacts, BareFacts
  <2> QED
    BY <1>1, <2>1
<1>7. AfterCreate(ViewOf(host), m, ViewOf(host'))
  BY <1>2, <1>3, <1>4, <1>5, <1>6 DEF AfterCreate
<1> QED
  BY <1>7 DEF Follows

\* A chunk tells the client of itself.
LEMMA WritesFollows ==
  ASSUME ChannelTypes, NEW id \in Ids, NEW of \in {1, 2},
         host' \in HostType, host'.made = host.made,
         host'.step = host.step, host'.sent = host.sent,
         host.chan[id].half => of = 2,
         host'.chan = [host.chan EXCEPT ![id] = Written(host.chan[id], of)]
  PROVE  Follows(ViewOf(host), [kind |-> "data", id |-> id, part |-> NextPart(host.chan[id], of)],
                 ViewOf(host'))
<1> DEFINE c == host.chan[id]
<1> DEFINE m == [kind |-> "data", id |-> id, part |-> NextPart(c, of)]
<1>1. host \in HostType /\ c \in ChanType /\ Written(c, of) \in ChanType
  BY HostParts, WrittenType DEF ChannelTypes
<1>2. ViewOf(host').open = ViewOf(host).open /\ ViewOf(host').made = ViewOf(host).made
  BY <1>1, SameOpen, ViewOfFacts
<1>3. ViewOf(host').chan = [ViewOf(host).chan EXCEPT ![id] = Bare(Written(c, of))]
  BY <1>1, SetChan
<1>4. ViewOf(host).chan[id] = Bare(c)
  BY <1>1, ViewOfFacts
<1>5. Bare(c).half = c.half /\ Bare(Written(c, of)) = Written(Bare(c), of)
      /\ NextPart(Bare(c), of) = NextPart(c, of) /\ NextPart(c, of).of = of
  <2>1. Bare(c).half = c.half /\ NextPart(Bare(c), of) = NextPart(c, of)
        /\ Bare(Written(c, of)) = Written(Bare(c), of)
    BY <1>1, BareFacts, BareWritten
  <2>2. NextPart(c, of).of = of
    BY DEF NextPart, Part
  <2> QED
    BY <2>1, <2>2
<1>6. m.part = NextPart(c, of) /\ m.id = id /\ m.kind = "data"
  OBVIOUS
<1> HIDE DEF c, m
<1>7. AfterData(ViewOf(host), m, ViewOf(host'))
  BY <1>2, <1>3, <1>4, <1>5, <1>6 DEF AfterData, c
<1>8. Follows(ViewOf(host), m, ViewOf(host'))
  BY <1>6, <1>7 DEF Follows
<1> QED
  BY <1>8 DEF m, c

\* So does a close.
LEMMA ClosesFollows ==
  ASSUME ChannelTypes, NEW id \in Ids, HostClosesChannel(id)
  PROVE  Follows(ViewOf(host), [kind |-> "close", id |-> id], ViewOf(host'))
<1>1. /\ host \in HostType /\ host' \in HostType
      /\ host'.chan = [host.chan EXCEPT ![id] = Idle] /\ host'.made = host.made
      /\ host'.step = host.step /\ host'.sent = host.sent
  BY ClosesFacts DEF ChannelTypes
<1>2. ViewOf(host').open = ViewOf(host).open /\ ViewOf(host').made = ViewOf(host).made
  BY <1>1, SameOpen, ViewOfFacts
<1>3. Idle \in ChanType /\ Bare(Idle) = Idle
  BY IdleFacts, BareCreated, ChannelsAssumption DEF Names, Roles
<1>4. ViewOf(host').chan = [ViewOf(host).chan EXCEPT ![id] = Idle]
  BY <1>1, <1>3, SetChan
<1> QED
  BY <1>2, <1>4 DEF Follows, AfterClose

\* The host's part of a message of two chunks is what it has opened.
LEMMA RedirectsFollows ==
  ASSUME ChannelTypes, NEW of \in {1, 2}, host' \in HostType,
         host'.chan = host.chan, host'.made = host.made, host.sent["rdpdr"] < 2,
         host.sent["rdpdr"] + 1 = 2 => of = 2,
         LET no == host.sent["rdpdr"] + 1
         IN \/ /\ no < of /\ host'.step = host.step
               /\ host'.sent = [host.sent EXCEPT !["rdpdr"] = 1]
            \/ /\ no = of /\ host.step = "confirm" /\ host'.step = "logon"
               /\ host'.sent = [host.sent EXCEPT !["rdpdr"] = 0]
            \/ /\ no = of /\ host.step # "confirm" /\ host'.step = host.step
               /\ host'.sent = [host.sent EXCEPT !["rdpdr"] = 2]
  PROVE  Follows(ViewOf(host),
                 [kind |-> "static", channel |-> "rdpdr",
                  part |-> Part(0, host.step, host.sent["rdpdr"] + 1, of, 0)],
                 ViewOf(host'))
<1> DEFINE no == host.sent["rdpdr"] + 1
<1> DEFINE p == Part(0, host.step, no, of, 0)
<1> DEFINE m == [kind |-> "static", channel |-> "rdpdr", part |-> p]
<1> DEFINE x == ViewOf(host)
<1> DEFINE y == ViewOf(host')
<1>1. /\ host \in HostType /\ host.sent \in [Static -> 0..2] /\ "rdpdr" \in Static
      /\ "cliprdr" \in Static /\ Static = {"rdpdr", "cliprdr"} /\ no \in {1, 2}
  BY HostParts DEF ChannelTypes, Static
<1>2. y.chan = x.chan /\ y.made = x.made
  BY <1>1, SameChan, ViewOfFacts
<1>3. p = [inst |-> 0, msg |-> host.step, no |-> no, of |-> of, chunk |-> 0]
  BY DEF Part
<1>4. /\ p.inst = 0 /\ p.no = no /\ p.of = of
      /\ [p EXCEPT !.no = 1] = Part(0, host.step, 1, 2, 0) \/ of # 2
  BY <1>3 DEF Part
<1>5. /\ x.open["rdpdr"] = OpenOf(host, "rdpdr") /\ x.open["cliprdr"] = OpenOf(host, "cliprdr")
      /\ y.open["rdpdr"] = OpenOf(host', "rdpdr") /\ y.open["cliprdr"] = OpenOf(host', "cliprdr")
      /\ x.open = [s \in Static |-> OpenOf(host, s)] /\ y.open = [s \in Static |-> OpenOf(host', s)]
  BY <1>1, ViewOfFacts
<1>6. /\ no = 1 => OpenOf(host, "rdpdr") = <<>>
      /\ no = 2 => of = 2 /\ OpenOf(host, "rdpdr") = <<[p EXCEPT !.no = 1]>>
  <2>1. no = 1 => OpenOf(host, "rdpdr") = <<>>
    BY <1>1 DEF OpenOf
  <2>2. no = 2 => of = 2 /\ OpenOf(host, "rdpdr") = <<Part(0, host.step, 1, 2, 0)>>
    BY <1>1 DEF OpenOf
  <2> QED
    BY <1>4, <2>1, <2>2
<1>7. OpenOf(host', "cliprdr") = OpenOf(host, "cliprdr")
  <2>1. host'.sent["cliprdr"] = host.sent["cliprdr"]
    BY <1>1
  <2> QED
    BY <2>1 DEF OpenOf
<1>8. OpenOf(host', "rdpdr") = IF no = of THEN <<>> ELSE <<p>>
  <2>1. CASE no < of
    <3>1. no = 1 /\ of = 2 /\ no # of
      BY <1>1, <2>1
    <3>2. host'.sent["rdpdr"] = 1 /\ host'.step = host.step
      BY <1>1, <2>1
    <3>3. p = Part(0, host.step, 1, 2, 0)
      BY <3>1
    <3>4. OpenOf(host', "rdpdr") = <<Part(0, host.step, 1, 2, 0)>>
      BY <3>2 DEF OpenOf
    <3> HIDE DEF p, no
    <3> QED
      BY <3>1, <3>3, <3>4
  <2>2. CASE ~(no < of)
    <3>1. no = of /\ host'.sent["rdpdr"] \in {0, 2}
      BY <1>1, <2>2
    <3>2. OpenOf(host', "rdpdr") = <<>>
      BY <3>1 DEF OpenOf
    <3> HIDE DEF p, no
    <3> QED
      BY <3>1, <3>2
  <2> QED
    BY <2>1, <2>2
<1>9. y.open = [x.open EXCEPT !["rdpdr"] = IF p.no = p.of THEN <<>> ELSE <<p>>]
  <2> HIDE DEF p, no, x, y
  <2>1. \A s \in Static : OpenOf(host', s) = IF s = "rdpdr" THEN IF no = of THEN <<>> ELSE <<p>>
                                             ELSE OpenOf(host, s)
    BY <1>1, <1>7, <1>8
  <2> QED
    BY <1>4, <1>5, <2>1
<1>10. m.kind = "static" /\ m.channel = "rdpdr" /\ m.part = p
  OBVIOUS
<1> HIDE DEF p, no, x, y, m
<1>11. AfterStatic(x, m, y)
  BY <1>2, <1>4, <1>5, <1>6, <1>9, <1>10 DEF AfterStatic
<1>12. Follows(x, m, y)
  BY <1>10, <1>11 DEF Follows
<1> QED
  BY <1>12 DEF x, y, m, p, no

\* So does a part of a clipboard message.
LEMMA CopiesFollows ==
  ASSUME ChannelTypes, HostCopies
  PROVE  Follows(ViewOf(host),
                 [kind |-> "static", channel |-> "cliprdr",
                  part |-> Part(0, "copy", host.sent["cliprdr"] + 1, 2, 0)],
                 ViewOf(host'))
<1> DEFINE no == host.sent["cliprdr"] + 1
<1> DEFINE p == Part(0, "copy", no, 2, 0)
<1> DEFINE m == [kind |-> "static", channel |-> "cliprdr", part |-> p]
<1> DEFINE x == ViewOf(host)
<1> DEFINE y == ViewOf(host')
<1>1. /\ host \in HostType /\ host.sent \in [Static -> 0..2] /\ "rdpdr" \in Static
      /\ "cliprdr" \in Static /\ Static = {"rdpdr", "cliprdr"} /\ "rdpdr" # "cliprdr"
  BY HostParts DEF ChannelTypes, Static
<1>2. /\ no \in {1, 2} /\ host' \in HostType
      /\ host'.chan = host.chan /\ host'.made = host.made /\ host'.step = host.step
      /\ host'.sent = [host.sent EXCEPT !["cliprdr"] = IF no = 1 THEN 1 ELSE 0]
  BY CopiesFacts
<1>3. y.chan = x.chan /\ y.made = x.made
  BY <1>1, <1>2, SameChan, ViewOfFacts
<1>4. /\ p.inst = 0 /\ p.no = no /\ p.of = 2
      /\ [p EXCEPT !.no = 1] = Part(0, "copy", 1, 2, 0)
  BY DEF Part
<1>5. /\ x.open["rdpdr"] = OpenOf(host, "rdpdr") /\ x.open["cliprdr"] = OpenOf(host, "cliprdr")
      /\ y.open["rdpdr"] = OpenOf(host', "rdpdr") /\ y.open["cliprdr"] = OpenOf(host', "cliprdr")
      /\ x.open = [s \in Static |-> OpenOf(host, s)] /\ y.open = [s \in Static |-> OpenOf(host', s)]
  BY <1>1, <1>2, ViewOfFacts
<1>6. /\ no = 1 => OpenOf(host, "cliprdr") = <<>>
      /\ no = 2 => OpenOf(host, "cliprdr") = <<[p EXCEPT !.no = 1]>>
  <2>1. no = 1 => OpenOf(host, "cliprdr") = <<>>
    BY <1>1, <1>2 DEF OpenOf
  <2>2. no = 2 => OpenOf(host, "cliprdr") = <<Part(0, "copy", 1, 2, 0)>>
    BY <1>1, <1>2 DEF OpenOf
  <2> QED
    BY <1>4, <2>1, <2>2
<1>7. OpenOf(host', "rdpdr") = OpenOf(host, "rdpdr")
  <2>1. host'.sent["rdpdr"] = host.sent["rdpdr"]
    BY <1>1, <1>2
  <2> QED
    BY <1>2, <2>1 DEF OpenOf
<1>8. OpenOf(host', "cliprdr") = IF no = 2 THEN <<>> ELSE <<p>>
  <2>1. CASE no = 1
    <3>1. host'.sent["cliprdr"] = 1 /\ p = Part(0, "copy", 1, 2, 0)
      BY <1>1, <1>2, <2>1
    <3>2. OpenOf(host', "cliprdr") = <<Part(0, "copy", 1, 2, 0)>>
      BY <3>1 DEF OpenOf
    <3> HIDE DEF p, no
    <3> QED
      BY <2>1, <3>1, <3>2
  <2>2. CASE no = 2
    <3>1. host'.sent["cliprdr"] = 0
      BY <1>1, <1>2, <2>2
    <3>2. OpenOf(host', "cliprdr") = <<>>
      BY <3>1 DEF OpenOf
    <3> HIDE DEF p, no
    <3> QED
      BY <2>2, <3>2
  <2> QED
    BY <1>2, <2>1, <2>2
<1>9. y.open = [x.open EXCEPT !["cliprdr"] = IF p.no = p.of THEN <<>> ELSE <<p>>]
  <2> HIDE DEF p, no, x, y
  <2>1. \A s \in Static : OpenOf(host', s) = IF s = "cliprdr" THEN IF no = 2 THEN <<>> ELSE <<p>>
                                             ELSE OpenOf(host, s)
    BY <1>1, <1>7, <1>8
  <2> QED
    BY <1>4, <1>5, <2>1
<1>10. m.kind = "static" /\ m.channel = "cliprdr" /\ m.part = p
  OBVIOUS
<1> HIDE DEF p, no, x, y, m
<1>11. AfterStatic(x, m, y)
  BY <1>3, <1>4, <1>5, <1>6, <1>9, <1>10 DEF AfterStatic
<1>12. Follows(x, m, y)
  BY <1>10, <1>11 DEF Follows
<1> QED
  BY <1>12 DEF x, y, m, p, no

\* How far the set-up is: a step that the client has answered, or is about to,
\* has been sent to its end.
Rank(s) == CASE s = "announce" -> 1 [] s = "capability" -> 2 [] s = "confirm" -> 3
             [] s = "logon" -> 4 [] OTHER -> 5
Reached(h, s) == Rank(s) <= Rank(h.step) /\ (s = h.step => h.sent["rdpdr"] = 2)

\* A reply leaves what is seen.
LEMMA TakesView ==
  ASSUME ChannelTypes, HostTakes,
         Ended(Head(up).kind) # NoName => Reached(host, Ended(Head(up).kind))
  PROVE  ViewOf(host') = ViewOf(host)
<1> DEFINE kind == Head(up).kind
<1>1. host \in HostType /\ host' \in HostType /\ host'.made = host.made
  BY TakesTypes DEF ChannelTypes
<1>2. \A h \in HostType : ViewOf(h) = [chan |-> ViewOf(h).chan, made |-> ViewOf(h).made,
                                       open |-> ViewOf(h).open]
  BY DEF ViewOf
<1>3. CASE kind \in {"accept", "refuse"}
  <2>1. /\ host'.step = host.step /\ host'.sent = host.sent
        /\ \A i \in Ids : host'.chan[i] =
             [host.chan[i] EXCEPT !.st = IF i = Head(up).id
                                         THEN IF kind = "accept" THEN "open" ELSE "refused"
                                         ELSE @]
    BY <1>3, TakesTypes
  <2>2. \A i \in Ids : Bare(host'.chan[i]) = Bare(host.chan[i])
    <3> SUFFICES ASSUME NEW i \in Ids PROVE Bare(host'.chan[i]) = Bare(host.chan[i])
      OBVIOUS
    <3>1. host.chan[i] \in ChanType
      BY <1>1, HostParts
    <3>2. \A c \in ChanType : \A st : Bare([c EXCEPT !.st = st]) = Bare(c)
      BY DEF Bare, ChanType
    <3> DEFINE st == IF i = Head(up).id THEN IF kind = "accept" THEN "open" ELSE "refused"
                     ELSE host.chan[i].st
    <3>3. host'.chan[i] = [host.chan[i] EXCEPT !.st = st]
      BY <2>1
    <3> HIDE DEF st
    <3> QED
      BY <3>1, <3>2, <3>3
  <2>3. ViewOf(host').chan = ViewOf(host).chan
    <3>1. ViewOf(host').chan = [i \in Ids |-> Bare(host'.chan[i])]
      BY <1>1, ViewOfFacts
    <3>2. ViewOf(host).chan = [i \in Ids |-> Bare(host.chan[i])]
      BY <1>1, ViewOfFacts
    <3> QED
      BY <2>2, <3>1, <3>2
  <2>4. ViewOf(host').open = ViewOf(host).open
    BY <1>1, <2>1, SameOpen
  <2> QED
    BY <1>1, <1>2, <2>3, <2>4, ViewOfFacts
<1>4. CASE kind \notin {"accept", "refuse"} /\ Ended(kind) = host.step
  <2>1. /\ host'.chan = host.chan /\ host'.step = After(host.step)
        /\ host'.sent = [host.sent EXCEPT !["rdpdr"] = 0]
    BY <1>4, TakesTypes
  <2>2. host.sent["rdpdr"] = 2 /\ host.sent \in [Static -> 0..2] /\ "rdpdr" \in Static
    <3>1. host.step # NoName
      BY <1>1, HostParts DEF NoName, SetupSteps
    <3> QED
      BY <1>1, <1>4, <3>1, HostParts DEF Reached, Static
  <2>3. \A s \in Static : OpenOf(host', s) = OpenOf(host, s)
    <3>1. OpenOf(host, "rdpdr") = <<>> /\ OpenOf(host', "rdpdr") = <<>>
      BY <2>1, <2>2 DEF OpenOf
    <3>2. OpenOf(host', "cliprdr") = OpenOf(host, "cliprdr")
      BY <2>1, <2>2 DEF OpenOf, Static
    <3> QED
      BY <3>1, <3>2 DEF Static
  <2>4. ViewOf(host').open = ViewOf(host).open
    BY <1>1, <2>3, ViewOfFacts
  <2>5. ViewOf(host').chan = ViewOf(host).chan
    BY <1>1, <2>1, SameChan
  <2> QED
    BY <1>1, <1>2, <2>4, <2>5, ViewOfFacts
<1>5. CASE kind \notin {"accept", "refuse"} /\ Ended(kind) # host.step
  <2>1. host'.chan = host.chan /\ host'.step = host.step /\ host'.sent = host.sent
    BY <1>5, TakesTypes
  <2>2. ViewOf(host').open = ViewOf(host).open /\ ViewOf(host').chan = ViewOf(host).chan
    BY <1>1, <2>1, SameOpen, SameChan
  <2> QED
    BY <1>1, <1>2, <2>2, ViewOfFacts
<1> QED
  BY <1>3, <1>4, <1>5

-----------------------------------------------------------------------------
(* Virtual channels: the client's state is that of the channels it has     *)
(* seen.                                                                   *)

\* The tables name the channel that was last created on an id.
HandlerMade(c) == IF c.name = "gfx" /\ Given("noGfx") THEN 0 ELSE c.inst
Tables(x) ==
  /\ \A id \in Ids : byId[id] # NoName =>
       /\ x.chan[id].name = byId[id] /\ x.chan[id].inst # 0 /\ byId[id] # "other"
       /\ byId[id] \in Roles =>
            role[byId[id]] = id /\ handler[byId[id]] = HandlerMade(x.chan[id])
       /\ byId[id] = "camDevice" => cams[id] = x.chan[id].inst
  /\ \A r \in Roles : role[r] # NoId => byId[role[r]] = r
  /\ \A id \in Ids : cams[id] # 0 => byId[id] = "camDevice"

\* Instances are numbered as they are made, and nothing was given to a handler
\* of one that is still to come.
Numbered(x) ==
  /\ \A i \in Ids : x.chan[i].inst <= x.made
  /\ \A i, j \in Ids : x.chan[i].inst = x.chan[j].inst => i = j \/ x.chan[i].inst = 0
  /\ \A i \in Ids : x.chan[i].half => Given("splits")
  /\ \A n \in Instances : n > x.made => got[n] = <<>>

\* What a channel has sent is given to its handler but for the part of a
\* message, which is kept.
Content(c, id) ==
  /\ c.chunk > 0 => zgfx[id] = [inst |-> c.inst, chunk |-> c.chunk]
  /\ Served(c.name) => Len(got[c.inst]) = c.msg - (IF c.half THEN 1 ELSE 0)
  /\ reasm[id] = IF c.half THEN <<Part(c.inst, c.msg, 1, 2, c.chunk)>> ELSE <<>>
Contents(x) ==
  \A id \in Ids : IF byId[id] = NoName THEN reasm[id] = <<>> ELSE Content(x.chan[id], id)

\* A channel is not taken over in the middle of a message.
Whole == ~(Given("takesOver") /\ Given("splits"))

Corr(x) == svc = x.open /\ Tables(x) /\ (Whole => Numbered(x) /\ Contents(x))

\* What the client has is that of a view as long as neither changes.
LEMMA CorrSame ==
  ASSUME NEW x, Corr(x), ClientSame, SameSetting
  PROVE  Corr(x)'
<1>1. \A h : Given(h)' <=> Given(h)
  BY DEF SameSetting, Given
<1>2. \A c : HandlerMade(c)' = HandlerMade(c)
  BY <1>1 DEF HandlerMade
<1>3. \A name : Served(name)' <=> Served(name)
  BY <1>1 DEF Served
<1>4. Tables(x)'
  BY <1>2 DEF Corr, Tables, ClientSame
<1>5. Whole' <=> Whole
  BY <1>1 DEF Whole
<1>6. Numbered(x) => Numbered(x)'
  BY <1>1 DEF Numbered, ClientSame
<1>7. \A c, id : Content(c, id) => Content(c, id)'
  BY <1>3 DEF Content, ClientSame
<1>8. Contents(x) => Contents(x)'
  BY <1>7 DEF Contents, ClientSame
<1> QED
  BY <1>4, <1>5, <1>6, <1>8 DEF Corr, ClientSame

\* The settings stay as they are on a step of the client.
LEMMA SettingSame ==
  ASSUME UNCHANGED setting
  PROVE  /\ \A h : Given(h)' <=> Given(h)
         /\ \A c : HandlerMade(c)' = HandlerMade(c)
         /\ \A name : Served(name)' <=> Served(name)
         /\ Whole' <=> Whole
<1>1. \A h : Given(h)' <=> Given(h)
  BY DEF Given
<1> QED
  BY <1>1 DEF HandlerMade, Served, Whole

\* After a PDU of a static channel the client has what the next view says.
LEMMA StaticCorr ==
  ASSUME ChannelTypes, OnStatic, NEW x \in View, NEW y \in View,
         Corr(x), Follows(x, Head(down), y)
  PROVE  Corr(y)'
<1> DEFINE m == Head(down)
<1> DEFINE c == m.channel
<1> DEFINE part == m.part
<1> DEFINE begun == IF part.no = 1 THEN <<part>> ELSE Append(svc[c], part)
<1> DEFINE lost == part.no > 1 /\ svc[c] = <<>>
<1> DEFINE whole == ~lost /\ part.no = part.of
<1>1. /\ svc' = [svc EXCEPT ![c] = IF part.of = 1 \/ lost THEN @ ELSE IF whole THEN <<>> ELSE begun]
      /\ Takes("static") /\ UNCHANGED <<byId, role, handler, cams, camName, reasm, zgfx, got>>
  BY DEF OnStatic, tables
<1>2. /\ m \in DownType /\ m.kind = "static" /\ UNCHANGED setting
      /\ c \in Static /\ part \in PartType
  BY <1>1, Taken, DownKinds
<1>3. AfterStatic(x, m, y)
  BY <1>2 DEF Follows
<1>4. part.no \in {1, 2} /\ part.of \in {1, 2} /\ svc = x.open /\ svc \in [Static -> Seq(PartType)]
  BY <1>2 DEF PartType, Corr, ChannelTypes
<1> HIDE DEF m, c, part
<1>5. /\ y.chan = x.chan /\ y.made = x.made
      /\ y.open = [svc EXCEPT ![c] = IF part.no = part.of THEN <<>> ELSE <<part>>]
      /\ part.no = 1 => svc[c] = <<>>
      /\ part.no = 2 => part.of = 2 /\ svc[c] = <<[part EXCEPT !.no = 1]>>
  BY <1>3, <1>4 DEF AfterStatic, c, part
<1>6. (IF part.of = 1 \/ lost THEN svc[c] ELSE IF whole THEN <<>> ELSE begun)
      = IF part.no = part.of THEN <<>> ELSE <<part>>
  <2>1. CASE part.no = 1
    BY <1>4, <1>5, <2>1
  <2>2. CASE part.no = 2
    <3>2. \A a : <<a>> # <<>>
      OBVIOUS
    <3>1. svc[c] # <<>>
      BY <1>5, <2>2, <3>2
    <3> QED
      BY <1>4, <1>5, <2>2, <3>1
  <2> QED
    BY <1>4, <2>1, <2>2
<1> HIDE DEF begun, lost, whole
<1>7. svc' = y.open
  BY <1>1, <1>5, <1>6
<1>8. Tables(y)'
  BY <1>1, <1>2, <1>5, SettingSame DEF Corr, Tables
<1>9. Numbered(x) => Numbered(y)'
  BY <1>1, <1>2, <1>5, SettingSame DEF Numbered
<1>10. \A d, i : Content(d, i) => Content(d, i)'
  BY <1>1, <1>2, SettingSame DEF Content
<1>11. Contents(x) => Contents(y)'
  BY <1>1, <1>5, <1>10 DEF Contents
<1> QED
  BY <1>2, <1>7, <1>8, <1>9, <1>11, SettingSame DEF Corr

\* After a creation too.
LEMMA CreateCorr ==
  ASSUME ChannelTypes, OnCreate, NEW x \in View, NEW y \in View,
         Corr(x), Follows(x, Head(down), y),
         byId[Head(down).id] # NoName =>
           Given("takesOver") /\ LosesDisplay(Head(down).id, Head(down).name)
  PROVE  Corr(y)'
<1> DEFINE m == Head(down)
<1> DEFINE id == m.id
<1> DEFINE name == m.name
<1> DEFINE inst == m.inst
<1> DEFINE ok == Accepts(name)
<1> DEFINE gone == LosesDisplay(id, name)
<1> DEFINE made == IF name = "gfx" /\ Given("noGfx") THEN 0 ELSE inst
<1>1. /\ Takes("create")
      /\ byId' = IF ok THEN [byId EXCEPT ![id] = name]
                 ELSE IF gone THEN [byId EXCEPT ![id] = NoName] ELSE byId
      /\ role' = IF ok /\ name \in Roles THEN [role EXCEPT ![name] = id]
                 ELSE IF gone THEN [role EXCEPT !["display"] = NoId] ELSE role
      /\ handler' = IF ok /\ name \in Roles THEN [handler EXCEPT ![name] = made] ELSE handler
      /\ cams' = IF ok /\ name = "camDevice" THEN [cams EXCEPT ![id] = inst] ELSE cams
      /\ UNCHANGED <<camName, svc, reasm, zgfx, heard, got>>
  BY DEF OnCreate
<1>2. /\ m.kind = "create" /\ UNCHANGED setting /\ id \in Ids /\ name \in Names
      /\ inst \in Instances /\ id # NoId
  BY <1>1, Taken, DownKinds, ChannelsAssumption
<1>3. inst \in Nat /\ inst > 0 /\ inst \in 0..MaxInstances
  BY <1>2, ChannelsAssumption DEF Instances
<1>4. AfterCreate(x, m, y)
  BY <1>2 DEF Follows
<1>5. gone <=> role["display"] = id /\ ~ok
  BY DEF LosesDisplay
<1>6. ok => name # "other"
  BY DEF Accepts
<1>7. byId[id] # NoName => Given("takesOver") /\ gone
  OBVIOUS
<1> HIDE DEF m, id, name, inst, ok, gone, made
<1>8. /\ byId \in [Ids -> Names \cup {NoName}] /\ role \in [Roles -> Ids \cup {NoId}]
      /\ handler \in [Roles -> 0..MaxInstances] /\ cams \in [Ids -> 0..MaxInstances]
      /\ x.chan \in [Ids -> ChanType] /\ NoName \notin Names /\ "display" \in Roles
      /\ x.made \in 0..MaxInstances
  BY DEF ChannelTypes, View, NoName, Names, Roles
<1> DEFINE c == Created(name, inst, "none")
<1>9. /\ y.open = x.open /\ y.made = x.made + 1 /\ inst = y.made
      /\ name # "camDevice" => \A j \in Ids : x.chan[j].name # name
      /\ y.chan[id] = c /\ \A j \in Ids : j # id => y.chan[j] = x.chan[j]
  BY <1>2, <1>4, <1>8 DEF AfterCreate, id, name, inst
<1>10. /\ c.name = name /\ c.inst = inst /\ c.chunk = 0 /\ c.msg = 0 /\ c.half = FALSE
  BY DEF Created
<1> HIDE DEF c
<1>11. Tables(x) /\ svc = x.open /\ (Whole => Numbered(x) /\ Contents(x))
  BY DEF Corr
<1>12. HandlerMade(c) = made /\ \A d : HandlerMade(d)' = HandlerMade(d)
  BY <1>2, <1>10, SettingSame DEF HandlerMade, made
<1>13. Tables(y)'
  <2>1. CASE ok
    <3>1. byId[id] = NoName
      BY <1>5, <1>7, <2>1
    <3>2. /\ byId' = [byId EXCEPT ![id] = name]
          /\ name \in Roles => role' = [role EXCEPT ![name] = id] /\ handler' = [handler EXCEPT ![name] = made]
          /\ name \notin Roles => role' = role /\ handler' = handler
          /\ name = "camDevice" => cams' = [cams EXCEPT ![id] = inst]
          /\ name # "camDevice" => cams' = cams
      BY <1>1, <1>5, <2>1
    <3>3. ASSUME NEW i \in Ids, byId'[i] # NoName
          PROVE  /\ y.chan[i].name = byId'[i] /\ y.chan[i].inst # 0 /\ byId'[i] # "other"
                 /\ byId'[i] \in Roles =>
                      role'[byId'[i]] = i /\ handler'[byId'[i]] = HandlerMade(y.chan[i])
                 /\ byId'[i] = "camDevice" => cams'[i] = y.chan[i].inst
      <4>1. CASE i = id
        <5>1. byId'[i] = name
          BY <1>8, <3>2, <4>1
        <5>2. name \in Roles => role'[name] = id /\ handler'[name] = made
          BY <1>8, <3>2
        <5>3. name = "camDevice" => cams'[id] = inst
          BY <1>8, <1>2, <3>2
        <5> QED
          BY <1>3, <1>6, <1>9, <1>10, <1>12, <2>1, <4>1, <5>1, <5>2, <5>3
      <4>2. CASE i # id
        <5>1. byId'[i] = byId[i] /\ y.chan[i] = x.chan[i]
          BY <1>8, <1>9, <3>2, <4>2
        <5>2. /\ x.chan[i].name = byId[i] /\ x.chan[i].inst # 0 /\ byId[i] # "other"
              /\ byId[i] \in Roles =>
                   role[byId[i]] = i /\ handler[byId[i]] = HandlerMade(x.chan[i])
              /\ byId[i] = "camDevice" => cams[i] = x.chan[i].inst
          BY <1>11, <3>3, <5>1 DEF Tables
        <5>3. byId[i] \in Roles /\ name \in Roles => byId[i] # name
          BY <1>9, <5>2 DEF Roles
        <5>4. byId[i] \in Roles => role'[byId[i]] = role[byId[i]] /\ handler'[byId[i]] = handler[byId[i]]
          BY <1>8, <3>2, <5>3
        <5>5. cams'[i] = cams[i]
          BY <1>8, <3>2, <4>2
        <5> QED
          BY <5>1, <5>2, <5>4, <5>5
      <4> QED
        BY <4>1, <4>2
    <3>4. ASSUME NEW r \in Roles, role'[r] # NoId PROVE byId'[role'[r]] = r
      <4>1. CASE r = name
        BY <1>8, <3>2, <4>1, <1>2
      <4>2. CASE r # name
        <5>1. role'[r] = role[r]
          BY <1>8, <3>2, <4>2
        <5>2. byId[role[r]] = r
          BY <1>11, <3>4, <5>1 DEF Tables
        <5>3. role[r] # id /\ role[r] \in Ids
          BY <1>8, <3>1, <3>4, <5>1, <5>2 DEF Roles, NoName
        <5> QED
          BY <1>8, <3>2, <5>1, <5>2, <5>3
      <4> QED
        BY <4>1, <4>2
    <3>5. ASSUME NEW i \in Ids, cams'[i] # 0 PROVE byId'[i] = "camDevice"
      <4>1. CASE name = "camDevice" /\ i = id
        BY <1>8, <3>2, <4>1
      <4>2. CASE ~(name = "camDevice" /\ i = id)
        <5>1. cams'[i] = cams[i]
          BY <1>8, <3>2, <4>2
        <5>2. byId[i] = "camDevice"
          BY <1>11, <3>5, <5>1 DEF Tables
        <5>3. i # id
          BY <3>1, <5>2 DEF NoName
        <5> QED
          BY <1>8, <3>2, <5>2, <5>3
      <4> QED
        BY <4>1, <4>2
    <3> QED
      BY <1>12, <3>3, <3>4, <3>5 DEF Tables
  <2>2. CASE ~ok
    <3>1. handler' = handler /\ cams' = cams
      BY <1>1, <2>2
    <3>2. CASE gone
      <4>1. /\ byId' = [byId EXCEPT ![id] = NoName] /\ role' = [role EXCEPT !["display"] = NoId]
            /\ role["display"] = id
        BY <1>1, <1>5, <2>2, <3>2
      <4>2. byId[id] = "display"
        BY <1>2, <1>8, <1>11, <4>1 DEF Tables
      <4>3. ASSUME NEW i \in Ids, byId'[i] # NoName
            PROVE  /\ y.chan[i].name = byId'[i] /\ y.chan[i].inst # 0 /\ byId'[i] # "other"
                   /\ byId'[i] \in Roles =>
                        role'[byId'[i]] = i /\ handler'[byId'[i]] = HandlerMade(y.chan[i])
                   /\ byId'[i] = "camDevice" => cams'[i] = y.chan[i].inst
        <5>1. i # id
          BY <1>8, <4>1, <4>3
        <5>2. byId'[i] = byId[i] /\ y.chan[i] = x.chan[i]
          BY <1>8, <1>9, <4>1, <5>1
        <5>3. /\ x.chan[i].name = byId[i] /\ x.chan[i].inst # 0 /\ byId[i] # "other"
              /\ byId[i] \in Roles =>
                   role[byId[i]] = i /\ handler[byId[i]] = HandlerMade(x.chan[i])
              /\ byId[i] = "camDevice" => cams[i] = x.chan[i].inst
          BY <1>11, <4>3, <5>2 DEF Tables
        <5>4. byId[i] # "display"
          BY <1>8, <4>1, <5>1, <5>3
        <5>5. byId[i] \in Roles => role'[byId[i]] = role[byId[i]]
          BY <1>8, <4>1, <5>4
        <5> QED
          BY <3>1, <5>2, <5>3, <5>5
      <4>4. ASSUME NEW r \in Roles, role'[r] # NoId PROVE byId'[role'[r]] = r
        <5>1. r # "display" /\ role'[r] = role[r]
          BY <1>8, <4>1, <4>4
        <5>2. byId[role[r]] = r /\ role[r] \in Ids
          BY <1>8, <1>11, <4>4, <5>1 DEF Tables
        <5>3. role[r] # id
          BY <4>2, <5>1, <5>2
        <5> QED
          BY <1>8, <4>1, <5>1, <5>2, <5>3
      <4>5. ASSUME NEW i \in Ids, cams'[i] # 0 PROVE byId'[i] = "camDevice"
        <5>1. byId[i] = "camDevice"
          BY <1>11, <3>1, <4>5 DEF Tables
        <5>2. i # id
          BY <4>2, <5>1
        <5> QED
          BY <1>8, <4>1, <5>1, <5>2
      <4> QED
        BY <1>12, <4>3, <4>4, <4>5 DEF Tables
    <3>3. CASE ~gone
      <4>1. byId' = byId /\ role' = role /\ byId[id] = NoName
        BY <1>1, <1>7, <2>2, <3>3
      <4>2. \A i \in Ids : byId[i] # NoName => y.chan[i] = x.chan[i]
        BY <1>9, <4>1
      <4> QED
        BY <1>11, <1>12, <3>1, <4>1, <4>2 DEF Tables
    <3> QED
      BY <3>2, <3>3
  <2> QED
    BY <2>1, <2>2
<1>14. Numbered(x) => Numbered(y)'
  <2> SUFFICES ASSUME Numbered(x) PROVE Numbered(y)'
    OBVIOUS
  <2>1. \A i \in Ids : x.chan[i].inst \in Nat /\ x.chan[i].inst <= x.made
    BY <1>8 DEF Numbered, ChanType
  <2>2. \A i \in Ids : y.chan[i].inst <= y.made
    BY <1>3, <1>8, <1>9, <1>10, <2>1
  <2>3. ASSUME NEW i \in Ids, NEW j \in Ids, y.chan[i].inst = y.chan[j].inst
        PROVE  i = j \/ y.chan[i].inst = 0
    <3>1. \A k \in Ids : k # id => y.chan[k].inst # inst
      BY <1>8, <1>9, <2>1
    <3>2. y.chan[id].inst = inst
      BY <1>9, <1>10
    <3>3. i # id /\ j # id => i = j \/ y.chan[i].inst = 0
      BY <1>9, <2>3 DEF Numbered
    <3> QED
      BY <2>3, <3>1, <3>2, <3>3
  <2>4. \A i \in Ids : y.chan[i].half => Given("splits")
    BY <1>9, <1>10 DEF Numbered
  <2>5. \A n \in Instances : n > y.made => got[n] = <<>>
    BY <1>8, <1>9 DEF Numbered, Instances
  <2> QED
    BY <1>1, <1>2, <2>2, <2>3, <2>4, <2>5, SettingSame DEF Numbered
<1>15. Whole /\ Numbered(x) /\ Contents(x) => Contents(y)'
  <2> SUFFICES ASSUME Whole, Numbered(x), Contents(x) PROVE Contents(y)'
    OBVIOUS
  <2>1. \A d, i : Content(d, i) => Content(d, i)'
    BY <1>1, <1>2, SettingSame DEF Content
  <2>2. reasm[id] = <<>>
    <3>1. byId[id] = NoName => reasm[id] = <<>>
      BY <1>2 DEF Contents
    <3>2. byId[id] # NoName => ~x.chan[id].half
      BY <1>2, <1>7 DEF Whole, Numbered
    <3>3. byId[id] # NoName => Content(x.chan[id], id)
      BY <1>2 DEF Contents
    <3> QED
      BY <3>1, <3>2, <3>3 DEF Content
  <2>3. Content(c, id)
    <3>1. got[inst] = <<>>
      BY <1>2, <1>8, <1>9 DEF Numbered
    <3>2. Len(got[inst]) = 0
      BY <3>1
    <3> QED
      <4>1. ~c.half /\ ~(c.chunk > 0) /\ Len(got[c.inst]) = c.msg
        BY <1>10, <3>2
      <4>2. Len(got[c.inst]) = c.msg - (IF c.half THEN 1 ELSE 0)
        <5>1. (IF c.half THEN 1 ELSE 0) = 0
          BY <4>1
        <5>2. c.msg = 0 /\ Len(got[c.inst]) = 0
          BY <1>10, <3>2
        <5>3. 0 = 0 - 0
          OBVIOUS
        <5> QED
          BY <5>1, <5>2, <5>3, Zenon
      <4>3. reasm[id] = IF c.half THEN <<Part(c.inst, c.msg, 1, 2, c.chunk)>> ELSE <<>>
        BY <2>2, <4>1
      <4> QED
        BY <4>1, <4>2, <4>3 DEF Content
  <2>4. \A i \in Ids : i # id => byId'[i] = byId[i]
    BY <1>1, <1>8
  <2>5. ASSUME NEW i \in Ids PROVE IF byId'[i] = NoName THEN reasm'[i] = <<>> ELSE Content(y.chan[i], i)'
    <3>1. CASE i = id
      BY <1>1, <1>9, <2>1, <2>2, <2>3, <3>1
    <3>2. CASE i # id
      BY <1>1, <1>9, <2>1, <2>4, <3>2 DEF Contents
    <3> QED
      BY <3>1, <3>2
  <2> QED
    BY <2>5 DEF Contents
<1>16. svc' = y.open
  BY <1>1, <1>9, <1>11
<1> QED
  BY <1>2, <1>11, <1>13, <1>14, <1>15, <1>16, SettingSame DEF Corr

\* After a close too.
LEMMA CloseCorr ==
  ASSUME ChannelTypes, OnClose, NEW x \in View, NEW y \in View,
         Corr(x), Follows(x, Head(down), y)
  PROVE  Corr(y)'
<1> DEFINE m == Head(down)
<1> DEFINE id == m.id
<1>1. /\ Takes("close") /\ byId' = [byId EXCEPT ![id] = NoName]
      /\ role' = [r \in Roles |-> IF role[r] = id THEN NoId ELSE role[r]]
      /\ handler' = [r \in Roles |-> IF role[r] = id THEN 0 ELSE handler[r]]
      /\ cams' = [cams EXCEPT ![id] = 0]
      /\ zgfx' = [zgfx EXCEPT ![id] = Fresh] /\ reasm' = [reasm EXCEPT ![id] = <<>>]
      /\ UNCHANGED <<camName, svc, heard, got, up>>
  BY DEF OnClose, Kept, Forget
<1>2. m.kind = "close" /\ UNCHANGED setting /\ id \in Ids
  BY <1>1, Taken, DownKinds
<1>3. AfterClose(x, m, y)
  BY <1>2 DEF Follows
<1> HIDE DEF m, id
<1>4. /\ byId \in [Ids -> Names \cup {NoName}] /\ role \in [Roles -> Ids \cup {NoId}]
      /\ handler \in [Roles -> 0..MaxInstances] /\ cams \in [Ids -> 0..MaxInstances]
      /\ DOMAIN reasm = Ids /\ DOMAIN zgfx = Ids
      /\ x.chan \in [Ids -> ChanType] /\ x.made \in 0..MaxInstances
  BY DEF ChannelTypes, View
<1>5. /\ y.open = x.open /\ y.made = x.made
      /\ y.chan[id] = Idle /\ \A i \in Ids : i # id => y.chan[i] = x.chan[i]
  BY <1>2, <1>3, <1>4 DEF AfterClose, id
<1>6. Tables(x) /\ svc = x.open /\ (Whole => Numbered(x) /\ Contents(x))
  BY DEF Corr
<1>7. Tables(y)'
  <2>1. ASSUME NEW i \in Ids, byId'[i] # NoName
        PROVE  /\ y.chan[i].name = byId'[i] /\ y.chan[i].inst # 0 /\ byId'[i] # "other"
               /\ byId'[i] \in Roles =>
                    role'[byId'[i]] = i /\ handler'[byId'[i]] = HandlerMade(y.chan[i])
               /\ byId'[i] = "camDevice" => cams'[i] = y.chan[i].inst
    <3>1. i # id
      BY <1>1, <1>4, <2>1
    <3>2. byId'[i] = byId[i] /\ y.chan[i] = x.chan[i] /\ cams'[i] = cams[i]
      BY <1>1, <1>4, <1>5, <3>1
    <3>3. /\ x.chan[i].name = byId[i] /\ x.chan[i].inst # 0 /\ byId[i] # "other"
          /\ byId[i] \in Roles =>
               role[byId[i]] = i /\ handler[byId[i]] = HandlerMade(x.chan[i])
          /\ byId[i] = "camDevice" => cams[i] = x.chan[i].inst
      BY <1>6, <2>1, <3>2 DEF Tables
    <3>4. byId[i] \in Roles => role'[byId[i]] = i /\ handler'[byId[i]] = handler[byId[i]]
      BY <1>1, <3>1, <3>3
    <3> QED
      BY <3>2, <3>3, <3>4
  <2>2. ASSUME NEW r \in Roles, role'[r] # NoId PROVE byId'[role'[r]] = r
    <3>1. role[r] # id /\ role'[r] = role[r]
      BY <1>1, <2>2
    <3>2. byId[role[r]] = r /\ role[r] \in Ids
      BY <1>4, <1>6, <2>2, <3>1 DEF Tables
    <3> QED
      BY <1>1, <1>4, <3>1, <3>2
  <2>3. ASSUME NEW i \in Ids, cams'[i] # 0 PROVE byId'[i] = "camDevice"
    <3>1. i # id /\ cams'[i] = cams[i]
      BY <1>1, <1>4, <2>3
    <3>2. byId[i] = "camDevice"
      BY <1>6, <2>3, <3>1 DEF Tables
    <3> QED
      BY <1>1, <1>4, <3>1, <3>2
  <2> QED
    BY <1>2, <2>1, <2>2, <2>3, SettingSame DEF Tables
<1>8. Numbered(x) => Numbered(y)'
  <2> SUFFICES ASSUME Numbered(x) PROVE Numbered(y)'
    OBVIOUS
  <2>1. Idle.inst = 0 /\ ~Idle.half /\ 0 <= x.made
    BY <1>4, IdleFacts
  <2>2. \A i \in Ids : y.chan[i].inst <= y.made
    BY <1>5, <2>1 DEF Numbered
  <2>3. \A i, j \in Ids : y.chan[i].inst = y.chan[j].inst => i = j \/ y.chan[i].inst = 0
    BY <1>5, <2>1 DEF Numbered
  <2>4. \A i \in Ids : y.chan[i].half => Given("splits")
    BY <1>5, <2>1 DEF Numbered
  <2> QED
    BY <1>1, <1>2, <1>5, <2>2, <2>3, <2>4, SettingSame DEF Numbered
<1>9. Contents(x) => Contents(y)'
  <2> SUFFICES ASSUME Contents(x) PROVE Contents(y)'
    OBVIOUS
  <2>1. byId'[id] = NoName /\ reasm'[id] = <<>>
    BY <1>1, <1>2, <1>4
  <2>2. ASSUME NEW i \in Ids, i # id
        PROVE IF byId'[i] = NoName THEN reasm'[i] = <<>> ELSE Content(y.chan[i], i)'
    <3>1. byId'[i] = byId[i] /\ reasm'[i] = reasm[i] /\ zgfx'[i] = zgfx[i] /\ y.chan[i] = x.chan[i]
      BY <1>1, <1>4, <1>5, <2>2
    <3>2. IF byId[i] = NoName THEN reasm[i] = <<>> ELSE Content(x.chan[i], i)
      BY DEF Contents
    <3>3. \A c : Content(c, i) => Content(c, i)'
      BY <1>1, <1>2, <3>1, SettingSame DEF Content
    <3> QED
      BY <3>1, <3>2, <3>3
  <2> QED
    BY <2>1, <2>2 DEF Contents
<1> QED
  BY <1>1, <1>2, <1>5, <1>6, <1>7, <1>8, <1>9, SettingSame DEF Corr

\* The data of a channel goes to its own handler.
LEMMA HandlerFound ==
  ASSUME ChannelTypes, NEW x \in View, Tables(x), NEW id \in Ids, byId[id] # NoName
  PROVE  HandlerOf(id) = IF Served(byId[id]) THEN x.chan[id].inst ELSE 0
<1> DEFINE asked == <<"display", "audio", "audin", "camEnum">>
<1> DEFINE I == {i \in 1..Len(asked) : role[asked[i]] = id /\ handler[asked[i]] # 0}
<1> DEFINE k == IF I # {} THEN Min(I) ELSE 0
<1> DEFINE n == byId[id]
<1>1. HandlerOf(id) = IF k # 0 THEN handler[asked[k]]
                      ELSE IF cams[id] # 0 THEN cams[id]
                      ELSE IF role["gfx"] = id THEN handler["gfx"] ELSE 0
  BY DEF HandlerOf, SelectInSeq
<1>2. \A i \in 1..4 : asked[i] \in Roles /\ asked[i] # "gfx" /\ asked[i] # "camDevice"
      /\ asked[i] # "geometry"
  BY DEF Roles
<1>3. \A i : i \in I <=> i \in 1..4 /\ role[asked[i]] = id /\ handler[asked[i]] # 0
  OBVIOUS
<1>4. \A i, j \in 1..4 : asked[i] = asked[j] => i = j
  OBVIOUS
<1>5. n \in {"display", "audio", "audin", "camEnum"} => \E i \in 1..4 : asked[i] = n
  <2>1. asked[1] = "display" /\ asked[2] = "audio" /\ asked[3] = "audin" /\ asked[4] = "camEnum"
    OBVIOUS
  <2> HIDE DEF asked, n
  <2> QED
    BY <2>1
<1> HIDE DEF I, asked
<1>6. /\ n \in Names /\ n # "other" /\ id # NoId /\ x.chan[id].inst # 0 /\ x.chan[id].name = n
      /\ n \in Roles => role[n] = id /\ handler[n] = HandlerMade(x.chan[id])
      /\ n = "camDevice" => cams[id] = x.chan[id].inst
      /\ \A r \in Roles : role[r] = id => n = r
      /\ cams[id] # 0 => n = "camDevice"
  BY ChannelsAssumption DEF Tables, ChannelTypes
<1>7. CASE n \in {"display", "audio", "audin", "camEnum"}
  <2>1. PICK i \in 1..4 : asked[i] = n
    BY <1>5, <1>7
  <2>2. n \in Roles /\ n # "gfx"
    BY <1>7 DEF Roles
  <2>3. handler[n] = x.chan[id].inst /\ role[n] = id
    BY <1>6, <2>2 DEF HandlerMade
  <2>4. I = {i}
    BY <1>2, <1>3, <1>4, <1>6, <2>1, <2>3
  <2>5. Min(I) = i
    BY <2>4 DEF Min
  <2>6. k = i /\ k # 0
    BY <2>4, <2>5
  <2> HIDE DEF k, n
  <2>7. Served(n)
    BY <2>2 DEF Served
  <2> QED
    BY <1>1, <2>1, <2>3, <2>6, <2>7 DEF n
<1>8. CASE n \notin {"display", "audio", "audin", "camEnum"}
  <2>1. I = {}
    <3>1. \A i \in 1..4 : asked[i] \in {"display", "audio", "audin", "camEnum"}
      BY DEF asked
    <3> HIDE DEF n
    <3> QED
      BY <1>2, <1>3, <1>6, <1>8, <3>1
  <2>2. HandlerOf(id) = IF cams[id] # 0 THEN cams[id]
                        ELSE IF role["gfx"] = id THEN handler["gfx"] ELSE 0
    BY <1>1, <2>1
  <2> HIDE DEF k, n
  <2>3. CASE n = "gfx"
    BY <1>6, <2>2, <2>3 DEF HandlerMade, Served, Roles, n
  <2>4. CASE n = "camDevice"
    BY <1>6, <2>2, <2>4 DEF Served, n
  <2>5. CASE n = "geometry"
    BY <1>6, <2>2, <2>5 DEF Served, Roles, n
  <2> QED
    BY <1>6, <1>8, <2>3, <2>4, <2>5 DEF Names, Roles
<1> QED
  BY <1>7, <1>8

\* The chunks of a message are put together.
LEMMA PartsOf ==
  ASSUME NEW c \in ChanType, NEW of \in {1, 2}, c.half => of = 2, NEW r,
         r = IF c.half THEN <<Part(c.inst, c.msg, 1, 2, c.chunk)>> ELSE <<>>,
         NEW parts,
         parts = IF NextPart(c, of).no = 1 /\ NextPart(c, of).of > 1 THEN <<NextPart(c, of)>>
                 ELSE Append(r, NextPart(c, of))
  PROVE  LET d == Written(c, of)
         IN /\ (Len(parts) >= Head(parts).of) <=> ~d.half
            /\ d.half => parts = <<Part(d.inst, d.msg, 1, 2, d.chunk)>>
            /\ ~d.half => IsMessage(parts, c.inst, d.msg)
<1> DEFINE d == Written(c, of)
<1> DEFINE part == NextPart(c, of)
<1>1. /\ c.half \in BOOLEAN /\ d.half = (~c.half /\ of = 2) /\ d.inst = c.inst
      /\ d.chunk = c.chunk + 1 /\ d.msg = IF c.half THEN c.msg ELSE c.msg + 1
  <2>1. c.half \in BOOLEAN
    BY DEF ChanType
  <2>2. d.half = (~c.half /\ of = 2)
    BY WrittenType
  <2>3. d.inst = c.inst /\ d.chunk = c.chunk + 1
    BY WrittenType
  <2>4. d.msg = IF c.half THEN c.msg ELSE c.msg + 1
    BY WrittenType
  <2> QED
    BY <2>1, <2>2, <2>3, <2>4
<1>2. /\ part.inst = c.inst /\ part.of = of /\ part.msg = d.msg
      /\ part.no = (IF c.half THEN 2 ELSE 1)
      /\ part = Part(c.inst, d.msg, IF c.half THEN 2 ELSE 1, of, d.chunk)
  BY <1>1 DEF NextPart, Part
<1>3. parts = IF part.no = 1 /\ part.of > 1 THEN <<part>> ELSE Append(r, part)
  OBVIOUS
<1> HIDE DEF d, part
<1>4. CASE c.half
  <2> DEFINE p == Part(c.inst, c.msg, 1, 2, c.chunk)
  <2>1. p.inst = c.inst /\ p.msg = c.msg /\ p.no = 1 /\ p.of = 2
    BY DEF Part
  <2>2. parts = Append(<<p>>, part)
    BY <1>2, <1>3, <1>4
  <2> HIDE DEF p
  <2>3. <<p>> \in Seq({p, part}) /\ Len(<<p>>) = 1 /\ <<p>>[1] = p /\ part \in {p, part}
    OBVIOUS
  <2>8. /\ parts \in Seq({p, part}) /\ Len(parts) = 2 /\ DOMAIN parts = 1..2
        /\ parts[1] = p /\ parts[2] = part
    <3>1. DOMAIN <<p>> = 1..1 /\ 1 \in 1..1
      OBVIOUS
    <3> DEFINE q == <<p>>
    <3>2. q \in Seq({p, part}) /\ Len(q) = 1 /\ q[1] = p /\ DOMAIN q = 1..1 /\ parts = Append(q, part)
      BY <2>2, <2>3, <3>1
    <3> HIDE DEF q
    <3>3. /\ Append(q, part) \in Seq({p, part}) /\ Len(Append(q, part)) = Len(q) + 1
          /\ DOMAIN Append(q, part) = 1..(Len(q) + 1)
          /\ \A i \in DOMAIN q : Append(q, part)[i] = q[i]
          /\ Append(q, part)[Len(q) + 1] = part
      BY <2>3, <3>2, Appended
    <3> QED
      BY <3>2, <3>3
  <2>4. /\ Len(parts) = 2 /\ Head(parts) = p /\ DOMAIN parts = {1, 2}
        /\ parts[1] = p /\ parts[2] = part
    <3>1. parts # <<>>
      BY <2>8
    <3>2. Head(parts) = parts[1]
      BY <2>8, <3>1, Popped
    <3> QED
      BY <2>8, <3>2
  <2>5. ~d.half /\ d.msg = c.msg /\ part.no = 2
    BY <1>1, <1>2, <1>4
  <2>6. IsMessage(parts, c.inst, d.msg)
    BY <1>2, <2>1, <2>4, <2>5 DEF IsMessage
  <2>7. Len(parts) >= Head(parts).of
    BY <2>1, <2>4
  <2> QED
    BY <2>5, <2>6, <2>7 DEF d
<1>5. CASE ~c.half
  <2>1. parts = <<part>>
    <3>1. r = <<>> /\ Append(<<>>, part) = <<part>>
      BY <1>5
    <3> QED
      BY <1>3, <3>1
  <2>2. /\ Len(parts) = 1 /\ Head(parts) = part /\ DOMAIN parts = {1} /\ parts[1] = part
    BY <2>1
  <2>3. part.no = 1 /\ d.half = (of = 2)
    BY <1>1, <1>2, <1>5
  <2>4. (Len(parts) >= Head(parts).of) <=> ~d.half
    <3>1. Len(parts) = 1 /\ Head(parts).of = of
      BY <1>2, <2>2
    <3>2. (1 >= of) <=> ~(of = 2)
      OBVIOUS
    <3> QED
      BY <2>3, <3>1, <3>2
  <2>5. d.half => parts = <<Part(d.inst, d.msg, 1, 2, d.chunk)>>
    BY <1>1, <1>2, <1>5, <2>1, <2>3
  <2>6. ~d.half => IsMessage(parts, c.inst, d.msg)
    BY <1>2, <2>2, <2>3 DEF IsMessage
  <2> QED
    BY <2>4, <2>5, <2>6 DEF d
<1> QED
  BY <1>1, <1>4, <1>5

\* A chunk changes no table.
LEMMA DataTables ==
  ASSUME ChannelTypes, NEW x \in View, NEW y \in View, NEW id \in Ids, NEW of \in {1, 2},
         UNCHANGED <<setting, byId, role, handler, cams>>, Tables(x),
         y.chan = [x.chan EXCEPT ![id] = Written(x.chan[id], of)]
  PROVE  Tables(y)'
<1>1. x.chan \in [Ids -> ChanType]
  BY DEF View
<1>2. \A i \in Ids : y.chan[i].name = x.chan[i].name /\ y.chan[i].inst = x.chan[i].inst
  BY <1>1, WrittenType
<1>3. \A i \in Ids : HandlerMade(y.chan[i])' = HandlerMade(x.chan[i])
  BY <1>2, SettingSame DEF HandlerMade
<1> QED
  BY <1>2, <1>3 DEF Tables

\* A part of a channel's message: what it does is what Content says of the
\* channel after it, and only a whole message is given away.
LEMMA DataCorr ==
  ASSUME ChannelTypes, OnData, NEW x \in View, NEW y \in View,
         Corr(x), Follows(x, Head(down), y),
         byId[Head(down).id] # NoName, Head(down).part.of = 2 => Given("splits")
  PROVE  Corr(y)' /\ (Whole /\ OnlyMessages => OnlyMessages')
<1> DEFINE m == Head(down)
<1> DEFINE id == m.id
<1> DEFINE part == m.part
<1> DEFINE parts == IF part.no = 1 /\ part.of > 1 THEN <<part>> ELSE Append(reasm[id], part)
<1> DEFINE ok == Inflatable(id, part)
<1> DEFINE whole == ok /\ Len(parts) >= Head(parts).of
<1> DEFINE h == HandlerOf(id)
<1> DEFINE c == x.chan[id]
<1> DEFINE of == part.of
<1> DEFINE d == Written(c, of)
<1>1. /\ Takes("data")
      /\ zgfx' = [zgfx EXCEPT ![id] = IF ok THEN Context(part, whole) ELSE @]
      /\ reasm' = [reasm EXCEPT ![id] = IF ok /\ ~whole THEN parts ELSE <<>>]
      /\ got' = IF whole /\ h # 0 THEN [got EXCEPT ![h] = Append(@, parts)] ELSE got
      /\ UNCHANGED <<byId, role, handler, cams, svc, heard, up>>
  BY DEF OnData, tables
<1>2. /\ m.kind = "data" /\ UNCHANGED setting /\ id \in Ids /\ part \in PartType
  BY <1>1, Taken, DownKinds
<1>3. AfterData(x, m, y)
  BY <1>2 DEF Follows
<1>4. of \in {1, 2} /\ c \in ChanType /\ x.chan \in [Ids -> ChanType] /\ x.made \in 0..MaxInstances
  BY <1>2 DEF PartType, View
<1>5. byId[id] # NoName /\ (of = 2 => Given("splits"))
  OBVIOUS
<1>6. y.open = x.open /\ y.made = x.made /\ (c.half => of = 2) /\ part = NextPart(c, of)
      /\ y.chan = [x.chan EXCEPT ![id] = d]
  BY <1>3 DEF AfterData
<1> HIDE DEF m
<1>7. /\ DOMAIN zgfx = Ids /\ DOMAIN reasm = Ids /\ got \in [Instances -> Seq(Seq(PartType))]
      /\ reasm[id] \in Seq(PartType)
  BY <1>2 DEF ChannelTypes
<1>8. Tables(x) /\ svc = x.open /\ (Whole => Numbered(x) /\ Contents(x))
  BY DEF Corr
<1>9. Tables(y)' /\ svc' = y.open
  BY <1>1, <1>2, <1>4, <1>6, <1>8, DataTables
<1>10. h = IF Served(c.name) THEN c.inst ELSE 0
  <2>1. c.name = byId[id]
    BY <1>2, <1>5, <1>8 DEF Tables
  <2> QED
    BY <1>2, <1>5, <1>8, <2>1, HandlerFound
<1>11. c.inst # 0 /\ c.inst \in Instances
  BY <1>2, <1>4, <1>5, <1>8, ChannelsAssumption DEF Tables, ChanType, Instances
<1>12. parts \in Seq(Seq(PartType)) \/ parts \in Seq(PartType)
  BY <1>2, <1>7, PartsFacts
<1>13. ASSUME Whole
       PROVE  /\ Numbered(y)' /\ Contents(y)'
              /\ OnlyMessages => OnlyMessages'
  <2>1. Numbered(x) /\ Contents(x) /\ Content(c, id)
    BY <1>2, <1>5, <1>8, <1>13 DEF Contents
  <2>2. ok
    <3>1. part.chunk = c.chunk + 1 /\ part.inst = c.inst /\ c.chunk \in Nat
      BY <1>4, <1>6 DEF NextPart, Part, ChanType
    <3>2. c.chunk > 0 => zgfx[id].inst = c.inst /\ zgfx[id].chunk = c.chunk
      BY <2>1 DEF Content
    <3> HIDE DEF part, c, id
    <3>3. part.chunk = 1 \/ (zgfx[id].inst = part.inst /\ zgfx[id].chunk = part.chunk - 1)
      BY <3>1, <3>2
    <3> QED
      BY <3>3 DEF Inflatable
  <2> HIDE DEF ok
  <2>3. /\ (Len(parts) >= Head(parts).of) <=> ~d.half
        /\ d.half => parts = <<Part(d.inst, d.msg, 1, 2, d.chunk)>>
        /\ ~d.half => IsMessage(parts, c.inst, d.msg)
    <3>1. reasm[id] = IF c.half THEN <<Part(c.inst, c.msg, 1, 2, c.chunk)>> ELSE <<>>
      BY <2>1 DEF Content
    <3>2. parts = IF NextPart(c, of).no = 1 /\ NextPart(c, of).of > 1 THEN <<NextPart(c, of)>>
                  ELSE Append(reasm[id], NextPart(c, of))
      BY <1>6
    <3> DEFINE r == reasm[id]
    <3>3. /\ c \in ChanType /\ of \in {1, 2} /\ (c.half => of = 2)
          /\ r = IF c.half THEN <<Part(c.inst, c.msg, 1, 2, c.chunk)>> ELSE <<>>
          /\ parts = IF NextPart(c, of).no = 1 /\ NextPart(c, of).of > 1 THEN <<NextPart(c, of)>>
                     ELSE Append(r, NextPart(c, of))
      BY <1>4, <1>6, <3>1, <3>2
    <3> HIDE DEF parts, c, of, id, r
    <3>4. /\ (Len(parts) >= Head(parts).of) <=> ~Written(c, of).half
          /\ Written(c, of).half =>
               parts = <<Part(Written(c, of).inst, Written(c, of).msg, 1, 2, Written(c, of).chunk)>>
          /\ ~Written(c, of).half => IsMessage(parts, c.inst, Written(c, of).msg)
      BY <3>3, PartsOf
    <3> QED
      BY <3>4 DEF d
  <2>4. whole <=> ~d.half
    BY <2>2, <2>3
  <2>5. Context(part, whole) = [inst |-> d.inst, chunk |-> d.chunk]
    <3>1. part.chunk = d.chunk /\ part.inst = d.inst
      BY <1>4, <1>6, WrittenType
    <3> QED
      BY <3>1 DEF Context
  <2>6. /\ d.half = (~c.half /\ of = 2) /\ d.name = c.name /\ d.inst = c.inst /\ d \in ChanType
        /\ d.chunk = c.chunk + 1 /\ d.msg = (IF c.half THEN c.msg ELSE c.msg + 1)
        /\ c.half \in BOOLEAN /\ c.chunk \in Nat /\ c.msg \in Nat /\ d.half \in BOOLEAN
    <3>1. /\ d.half = (~c.half /\ of = 2) /\ d.name = c.name /\ d.inst = c.inst /\ d \in ChanType
          /\ d.chunk = c.chunk + 1
      BY <1>4, WrittenType
    <3>2. d.msg = (IF c.half THEN c.msg ELSE c.msg + 1)
      BY <1>4, WrittenType
    <3>3. c.half \in BOOLEAN /\ c.chunk \in Nat /\ c.msg \in Nat
      BY <1>4 DEF ChanType
    <3>4. d.half \in BOOLEAN
      BY <3>1 DEF ChanType
    <3> QED
      BY <3>1, <3>2, <3>3, <3>4
  <2> HIDE DEF parts, whole, h, c, d, of
  <2>7. /\ zgfx'[id] = [inst |-> d.inst, chunk |-> d.chunk]
        /\ \A i \in Ids : i # id => zgfx'[i] = zgfx[i]
    BY <1>1, <1>2, <1>7, <2>2, <2>5
  <2>8. /\ reasm'[id] = (IF d.half THEN <<Part(d.inst, d.msg, 1, 2, d.chunk)>> ELSE <<>>)
        /\ \A i \in Ids : i # id => reasm'[i] = reasm[i]
    BY <1>1, <1>2, <1>7, <2>2, <2>3, <2>4
  <2>9. \A n \in Instances : n # c.inst \/ ~whole \/ ~Served(c.name) => got'[n] = got[n]
    BY <1>1, <1>7, <1>10
  <2>10. whole /\ Served(c.name) =>
           got'[c.inst] = Append(got[c.inst], parts) /\ Len(got'[c.inst]) = Len(got[c.inst]) + 1
    <3> SUFFICES ASSUME whole, Served(c.name)
                 PROVE got'[c.inst] = Append(got[c.inst], parts)
                       /\ Len(got'[c.inst]) = Len(got[c.inst]) + 1
      OBVIOUS
    <3>1. h = c.inst /\ h # 0
      BY <1>10, <1>11
    <3>2. got'[c.inst] = Append(got[c.inst], parts)
      BY <1>1, <1>7, <1>11, <3>1
    <3>3. parts \in Seq(PartType) /\ got[c.inst] \in Seq(Seq(PartType))
      BY <1>2, <1>7, <1>11, PartsFacts DEF parts
    <3>4. Len(Append(got[c.inst], parts)) = Len(got[c.inst]) + 1
      BY <3>3, AppendProperties
    <3> QED
      BY <3>2, <3>4
  <2>11. Served(c.name) => /\ Len(got[c.inst]) = c.msg - (IF c.half THEN 1 ELSE 0)
                           /\ Len(got'[c.inst]) = d.msg - (IF d.half THEN 1 ELSE 0)
    <3> SUFFICES ASSUME Served(c.name)
                 PROVE /\ Len(got[c.inst]) = c.msg - (IF c.half THEN 1 ELSE 0)
                       /\ Len(got'[c.inst]) = d.msg - (IF d.half THEN 1 ELSE 0)
      OBVIOUS
    <3>1. Len(got[c.inst]) = c.msg - (IF c.half THEN 1 ELSE 0)
      BY <2>1 DEF Content
    <3>2. CASE d.half
      <4>1. ~c.half /\ ~whole /\ d.msg = c.msg + 1
        BY <2>4, <2>6, <3>2
      <4>2. got'[c.inst] = got[c.inst] /\ Len(got[c.inst]) = c.msg
        BY <1>11, <2>6, <2>9, <3>1, <4>1
      <4>3. c.msg = d.msg - 1
        BY <2>6, <4>1
      <4>4. Len(got'[c.inst]) = d.msg - 1
        BY <4>2, <4>3
      <4> QED
        BY <3>1, <3>2, <4>4
    <3>3. CASE ~d.half
      <4>1. whole /\ Len(got'[c.inst]) = Len(got[c.inst]) + 1
        BY <2>4, <2>10, <3>3
      <4>2. d.msg = Len(got[c.inst]) + 1
        <5>1. CASE c.half
          <6>1. Len(got[c.inst]) = c.msg - 1 /\ d.msg = c.msg
            BY <2>6, <3>1, <5>1
          <6> QED
            BY <2>6, <6>1
        <5>2. CASE ~c.half
          <6>1. Len(got[c.inst]) = c.msg /\ d.msg = c.msg + 1
            BY <2>6, <3>1, <5>2
          <6> QED
            BY <6>1
        <5> QED
          BY <5>1, <5>2
      <4>3. Len(got'[c.inst]) = d.msg /\ d.msg = d.msg - 0
        BY <2>6, <4>1, <4>2
      <4> QED
        BY <3>1, <3>3, <4>3
    <3> QED
      BY <2>6, <3>2, <3>3
  <2>12. ASSUME NEW i \in Ids, i = id, NEW e, e = d PROVE Content(e, i)'
    <3>1. zgfx'[i] = [inst |-> e.inst, chunk |-> e.chunk]
      BY <2>7, <2>12
    <3>2. reasm'[i] = IF e.half THEN <<Part(e.inst, e.msg, 1, 2, e.chunk)>> ELSE <<>>
      BY <2>8, <2>12
    <3>3. Served(e.name) => Len(got'[e.inst]) = e.msg - (IF e.half THEN 1 ELSE 0)
      BY <2>6, <2>11, <2>12
    <3>4. Served(e.name)' <=> Served(e.name)
      BY <1>2, SettingSame
    <3> QED
      BY <3>1, <3>2, <3>3, <3>4 DEF Content
  <2>13. Contents(y)'
    <3>1. y.chan[id] = d /\ \A i \in Ids : i # id => y.chan[i] = x.chan[i]
      BY <1>2, <1>4, <1>6
    <3>2. ASSUME NEW i \in Ids, i # id, byId[i] # NoName PROVE Content(y.chan[i], i)'
      <4>1. Content(x.chan[i], i)
        BY <2>1, <3>2 DEF Contents
      <4>2. x.chan[i].inst # 0 /\ x.chan[i].inst # c.inst /\ x.chan[i].inst \in Instances
        <5>1. x.chan[i].inst # 0 /\ x.chan[i].inst \in Instances
          BY <1>4, <1>8, <3>2, ChannelsAssumption DEF Tables, ChanType, Instances
        <5>2. x.chan[i].inst # x.chan[id].inst
          BY <1>2, <2>1, <3>2, <5>1 DEF Numbered
        <5> QED
          BY <5>1, <5>2 DEF c
      <4>3. got'[x.chan[i].inst] = got[x.chan[i].inst]
        BY <2>9, <4>2
      <4>4. zgfx'[i] = zgfx[i] /\ reasm'[i] = reasm[i]
        BY <2>7, <2>8, <3>2
      <4> HIDE DEF id
      <4> QED
        BY <1>2, <3>1, <3>2, <4>1, <4>3, <4>4, SettingSame DEF Content
    <3>3. \A i \in Ids : i # id => reasm'[i] = reasm[i]
      BY <2>8
    <3>4. byId' = byId /\ byId[id] # NoName
      BY <1>1, <1>5
    <3>5. ASSUME NEW i \in Ids
          PROVE  IF byId'[i] = NoName THEN reasm'[i] = <<>> ELSE Content(y.chan[i], i)'
      <4>1. CASE i = id
        <5>1. Content(y.chan[i], i)'
          BY <2>12, <3>1, <4>1
        <5> QED
          BY <3>4, <4>1, <5>1
      <4>2. CASE i # id
        <5>1. byId[i] = NoName => reasm[i] = <<>>
          BY <2>1 DEF Contents
        <5> QED
          BY <3>2, <3>3, <3>4, <4>2, <5>1
      <4> QED
        BY <4>1, <4>2
    <3> QED
      BY <3>5 DEF Contents
  <2>14. Numbered(y)'
    <3>1. \A i \in Ids : y.chan[i].inst = x.chan[i].inst
      BY <1>2, <1>4, <1>6, <2>6 DEF c
    <3>2. \A i \in Ids : y.chan[i].half => Given("splits")
      BY <1>2, <1>4, <1>5, <1>6, <2>1, <2>6 DEF Numbered, of
    <3>3. c.inst <= x.made
      BY <1>2, <2>1 DEF Numbered, c
    <3>4. \A n \in Instances : n > x.made => n # c.inst
      BY <1>4, <1>11, <3>3 DEF Instances
    <3>5. \A n \in Instances : n > x.made => got'[n] = <<>>
      BY <2>1, <2>9, <3>4 DEF Numbered
    <3> QED
      BY <1>2, <1>6, <2>1, <3>1, <3>2, <3>5, SettingSame DEF Numbered
  <2>15. OnlyMessages => OnlyMessages'
    <3> SUFFICES ASSUME OnlyMessages PROVE OnlyMessages'
      OBVIOUS
    <3>1. ASSUME NEW n \in Instances, NEW k \in DOMAIN got'[n]
          PROVE  IsMessage(got'[n][k], n, k)
      <4>1. CASE got'[n] = got[n]
        BY <3>1, <4>1 DEF OnlyMessages
      <4>2. CASE got'[n] # got[n]
        <5>1. n = c.inst /\ whole /\ Served(c.name)
          BY <2>9, <4>2
        <5>2. got[n] \in Seq(Seq(PartType)) /\ parts \in Seq(PartType) /\ got'[n] = Append(got[n], parts)
          BY <1>2, <1>7, <1>11, <2>10, <5>1, PartsFacts DEF parts
        <5>3. /\ DOMAIN got[n] = 1..Len(got[n]) /\ Len(got[n]) \in Nat
              /\ DOMAIN got'[n] = 1..(Len(got[n]) + 1)
              /\ \A i \in DOMAIN got[n] : got'[n][i] = got[n][i]
              /\ got'[n][Len(got[n]) + 1] = parts
          BY <5>2, Appended
        <5>4. CASE k = Len(got[n]) + 1
          <6>1. ~d.half /\ d.msg = Len(got'[n])
            <7>1. ~d.half /\ d.msg - 0 = d.msg
              BY <2>4, <2>6, <5>1
            <7> QED
              BY <2>11, <5>1, <7>1
          <6>2. d.msg = k
            BY <2>10, <5>1, <5>4, <6>1
          <6>3. IsMessage(parts, c.inst, d.msg)
            BY <2>3, <6>1
          <6> QED
            BY <5>1, <5>3, <5>4, <6>2, <6>3
        <5>5. CASE k # Len(got[n]) + 1
          <6>1. k \in DOMAIN got[n] /\ got'[n][k] = got[n][k]
            BY <5>3, <5>5
          <6> QED
            BY <6>1 DEF OnlyMessages
        <5> QED
          BY <5>4, <5>5
      <4> QED
        BY <4>1, <4>2
    <3> QED
      BY <1>1, <3>1 DEF OnlyMessages
  <2> QED
    BY <2>13, <2>14, <2>15
<1> QED
  BY <1>2, <1>9, <1>13, SettingSame DEF Corr

-----------------------------------------------------------------------------
(* Virtual channels: what is on the way fits what the client and the host  *)
(* hold.                                                                   *)

On(m, id)  == m.kind # "static" /\ m.id = id
IsReply(u) == u.kind \in {"accept", "refuse"}

\* A creation is of a channel that was asked for, everything else of one that
\* the client has; a close is of one that the host has no more.
Fits(m) ==
  /\ m.kind = "create" => host.chan[m.id].st = "asked" /\ m.name \in setting.names
  /\ m.kind \in {"data", "close"} => byId[m.id] # NoName
  /\ m.kind = "close" => host.chan[m.id].st \in {"none", "asked"}
  /\ m.kind = "data" /\ m.part.of = 2 => Given("splits")

\* On an id nothing follows a creation, and nothing but a creation a close.
Before(m, n) ==
  m.kind # "static" /\ On(n, m.id) =>
    m.kind = "data" \/ (m.kind = "close" /\ n.kind = "create")

WireDown ==
  /\ \A i \in DOMAIN down : Fits(down[i])
  /\ \A i, j \in DOMAIN down : i < j => Before(down[i], down[j])

\* The answer to a creation is the last that there is of it.
Settles(k) ==
  /\ up[k].id \in Ids /\ host.chan[up[k].id].st = "asked"
  /\ (up[k].kind = "accept") <=> (byId[up[k].id] # NoName)
  /\ \A i \in DOMAIN down : ~On(down[i], up[k].id)
  /\ \A l \in DOMAIN up : IsReply(up[l]) /\ up[l].id = up[k].id => l = k
WireUp == \A k \in DOMAIN up : IsReply(up[k]) => Settles(k)

\* What the client has for an id that is not open is about to change.
Closing(id) == \E i \in DOMAIN down : down[i].kind = "close" /\ down[i].id = id
Replied(id) == host.chan[id].st = "asked" /\ \E k \in DOMAIN up : IsReply(up[k]) /\ up[k].id = id
WireHost ==
  \A id \in Ids :
    /\ byId[id] \in setting.names \cup {NoName}
    /\ host.chan[id].st = "open" => byId[id] # NoName
    /\ byId[id] # NoName =>
         host.chan[id].st = "open" \/ Given("takesOver") \/ Closing(id) \/ Replied(id)

Wire == WireDown /\ WireUp /\ WireHost

\* To show it of the next state, PDU by PDU.
LEMMA WireDownNext ==
  ASSUME \A m : (\E i \in DOMAIN down' : down'[i] = m) => Fits(m)',
         \A i, j \in DOMAIN down' : i < j => Before(down'[i], down'[j])
  PROVE  WireDown'
<1>1. ASSUME NEW i \in DOMAIN down'
      PROVE  /\ down'[i].kind = "create" =>
                  host'.chan[down'[i].id].st = "asked" /\ down'[i].name \in setting'.names
             /\ down'[i].kind \in {"data", "close"} => byId'[down'[i].id] # NoName
             /\ down'[i].kind = "close" => host'.chan[down'[i].id].st \in {"none", "asked"}
             /\ down'[i].kind = "data" /\ down'[i].part.of = 2 => Given("splits")'
  BY DEF Fits
<1>2. \A i, j \in DOMAIN down' : i < j =>
        (down'[i].kind # "static" /\ down'[j].kind # "static" /\ down'[j].id = down'[i].id =>
           down'[i].kind = "data" \/ (down'[i].kind = "close" /\ down'[j].kind = "create"))
  BY DEF Before, On
<1> QED
  BY <1>1, <1>2 DEF WireDown, Fits, Before, On

\* A PDU that changes no table is taken, and no creation is answered.
LEMMA PopWire ==
  ASSUME ChannelTypes, Wire, down # <<>>, down' = Tail(down), down[1].kind \in {"static", "data"},
         UNCHANGED <<setting, host, byId>>,
         \A k \in DOMAIN up : k \in DOMAIN up' /\ up'[k] = up[k],
         \A k \in DOMAIN up' : k \in DOMAIN up \/ ~IsReply(up'[k])
  PROVE  Wire'
<1>1. /\ 1 \in DOMAIN down /\ DOMAIN down \subseteq Nat /\ DOMAIN down' \subseteq Nat
      /\ \A i \in DOMAIN down' : i + 1 \in DOMAIN down /\ down'[i] = down[i + 1]
      /\ \A i \in DOMAIN down : i = 1 \/ (i - 1 \in DOMAIN down' /\ down'[i - 1] = down[i])
  <2>1. down \in Seq(DownType)
    BY DEF ChannelTypes
  <2>2. DOMAIN down = 1..Len(down) /\ DOMAIN down' = 1..Len(down')
    BY <2>1, Popped
  <2> QED
    BY <2>1, <2>2, Popped
<1>2. \A m : Fits(m) => Fits(m)'
  BY SettingSame DEF Fits
<1>3. WireDown'
  <2>1. ASSUME NEW m, NEW i \in DOMAIN down', down'[i] = m PROVE Fits(m)'
    <3>1. Fits(down[i + 1]) /\ m = down[i + 1]
      BY <1>1, <2>1 DEF Wire, WireDown
    <3> QED
      BY <1>2, <3>1
  <2>2. \A i, j \in DOMAIN down' : i < j => Before(down'[i], down'[j])
    <3> SUFFICES ASSUME NEW i \in DOMAIN down', NEW j \in DOMAIN down', i < j
                 PROVE  Before(down'[i], down'[j])
      OBVIOUS
    <3>1. i + 1 \in DOMAIN down /\ j + 1 \in DOMAIN down /\ i + 1 < j + 1
      BY <1>1
    <3>2. Before(down[i + 1], down[j + 1])
      BY <3>1 DEF Wire, WireDown
    <3> QED
      BY <1>1, <3>2
  <2> QED
    BY <2>1, <2>2, WireDownNext
<1>4. WireUp'
  <2> SUFFICES ASSUME NEW k \in DOMAIN up', IsReply(up'[k]) PROVE Settles(k)'
    BY DEF WireUp, IsReply
  <2>1. k \in DOMAIN up /\ up'[k] = up[k]
    OBVIOUS
  <2>2. Settles(k)
    BY <2>1 DEF Wire, WireUp
  <2>3. \A i \in DOMAIN down' : ~On(down'[i], up[k].id)
    BY <1>1, <2>2 DEF Settles
  <2>4. ASSUME NEW l \in DOMAIN up', IsReply(up'[l]), up'[l].id = up'[k].id PROVE l = k
    <3>1. l \in DOMAIN up /\ up'[l] = up[l]
      BY <2>4
    <3> QED
      BY <2>1, <2>2, <2>4, <3>1 DEF Settles
  <2> QED
    BY <2>1, <2>2, <2>3, <2>4 DEF Settles, IsReply, On
<1>5. WireHost'
  <2> SUFFICES ASSUME NEW id \in Ids
               PROVE  /\ byId'[id] \in setting'.names \cup {NoName}
                      /\ host'.chan[id].st = "open" => byId'[id] # NoName
                      /\ byId'[id] # NoName =>
                           host'.chan[id].st = "open" \/ Given("takesOver")' \/ Closing(id)' \/ Replied(id)'
    BY DEF WireHost
  <2>1. /\ byId[id] \in setting.names \cup {NoName}
        /\ host.chan[id].st = "open" => byId[id] # NoName
        /\ byId[id] # NoName =>
             host.chan[id].st = "open" \/ Given("takesOver") \/ Closing(id) \/ Replied(id)
    BY DEF Wire, WireHost
  <2>2. Closing(id) => Closing(id)'
    <3> SUFFICES ASSUME NEW i \in DOMAIN down, down[i].kind = "close" /\ down[i].id = id
                 PROVE  Closing(id)'
      BY DEF Closing
    <3>1. i - 1 \in DOMAIN down' /\ down'[i - 1] = down[i]
      BY <1>1
    <3> QED
      BY <3>1 DEF Closing
  <2>3. Replied(id) => Replied(id)'
    BY DEF Replied
  <2> QED
    BY <2>1, <2>2, <2>3, SettingSame
<1> QED
  BY <1>3, <1>4, <1>5 DEF Wire

\* The host sends a PDU, about a channel that it has or makes.
LEMMA EmitWire ==
  ASSUME ChannelTypes, Wire, NEW m, Emits(m), host' \in HostType, NEW id,
         m.kind # "static" => m.id = id /\ id \in Ids,
         \A j \in Ids : m.kind \in {"static", "data"} \/ j # id => host'.chan[j].st = host.chan[j].st,
         m.kind = "data" => host.chan[id].st = "open" /\ (m.part.of = 2 => Given("splits")),
         m.kind = "close" => host.chan[id].st = "open" /\ host'.chan[id].st = "none",
         m.kind = "create" => /\ host'.chan[id].st = "asked" /\ m.name \in setting.names
                              /\ \/ host.chan[id].st \in {"none", "refused"}
                                 \/ host.chan[id].st = "open" /\ Given("takesOver")
  PROVE  Wire'
<1> DEFINE n == Len(down) + 1
<1>1. /\ m \in DownType /\ down' = Append(down, m) /\ down \in Seq(DownType) /\ up' = up /\ byId' = byId
      /\ setting'.names = setting.names /\ \A h : Given(h)' <=> Given(h)
  BY DEF Emits, ChannelTypes, ClientSame, SameSetting, Given
<1>2. /\ DOMAIN down' = 1..n /\ DOMAIN down = 1..Len(down) /\ Len(down) \in Nat
      /\ down'[n] = m /\ \A i \in DOMAIN down : down'[i] = down[i]
  BY <1>1, Appended
<1>3. /\ n \in DOMAIN down' /\ \A i \in DOMAIN down : i \in DOMAIN down' /\ i < n
      /\ \A i \in DOMAIN down' : i = n \/ i \in DOMAIN down
      /\ \A i, j \in DOMAIN down' : i < j => i \in DOMAIN down
  BY <1>2
<1> HIDE DEF n
<1>4. m.kind \in {"create", "close", "data", "static"}
  BY <1>1, DownKinds
<1>5. /\ \A i \in DOMAIN down : Fits(down[i]) /\ down[i] \in DownType
      /\ \A i, j \in DOMAIN down : i < j => Before(down[i], down[j])
  BY <1>1, <1>2, ElementOfSeq DEF Wire, WireDown
<1>6. \A j \in Ids :
        /\ byId[j] \in setting.names \cup {NoName}
        /\ host.chan[j].st = "open" => byId[j] # NoName
        /\ byId[j] # NoName =>
             host.chan[j].st = "open" \/ Given("takesOver") \/ Closing(j) \/ Replied(j)
  BY DEF Wire, WireHost
<1>7. WireDown'
  <2>1. ASSUME NEW e, NEW i \in DOMAIN down', down'[i] = e PROVE Fits(e)'
    <3>1. CASE i = n
      <4>1. e = m
        BY <1>2, <2>1, <3>1
      <4>2. e.kind = "create" => host'.chan[e.id].st = "asked" /\ e.name \in setting'.names
        BY <1>1, <4>1
      <4>3. e.kind \in {"data", "close"} => byId'[e.id] # NoName
        BY <1>1, <1>6, <4>1
      <4>4. e.kind = "close" => host'.chan[e.id].st \in {"none", "asked"}
        BY <4>1
      <4>5. e.kind = "data" /\ e.part.of = 2 => Given("splits")'
        BY <1>1, <4>1
      <4> QED
        BY <4>2, <4>3, <4>4, <4>5 DEF Fits
    <3>2. CASE i \in DOMAIN down
      <4>1. e = down[i] /\ Fits(e) /\ e \in DownType
        BY <1>2, <1>5, <2>1, <3>2
      <4>2. e.kind \in {"create", "close"} => e.id \in Ids
        BY <4>1, DownKinds
      <4>3. e.kind = "create" => host'.chan[e.id].st = "asked" /\ e.name \in setting'.names
        BY <1>1, <1>4, <4>1, <4>2 DEF Fits
      <4>4. e.kind = "close" => host'.chan[e.id].st \in {"none", "asked"}
        BY <1>4, <4>1, <4>2 DEF Fits
      <4> QED
        BY <1>1, <4>1, <4>3, <4>4 DEF Fits
    <3> QED
      BY <1>3, <3>1, <3>2
  <2>2. ASSUME NEW i \in DOMAIN down', NEW j \in DOMAIN down', i < j
        PROVE  Before(down'[i], down'[j])
    <3>1. i \in DOMAIN down /\ down'[i] = down[i]
      BY <1>2, <1>3, <2>2
    <3>2. CASE j = n
      <4>1. down'[j] = m /\ Fits(down[i]) /\ down[i] \in DownType
        BY <1>2, <1>5, <3>1, <3>2
      <4>2. SUFFICES ASSUME down[i].kind # "static", On(m, down[i].id), down[i].kind # "data"
                     PROVE  down[i].kind = "close" /\ m.kind = "create"
        BY <3>1, <4>1 DEF Before
      <4>3. down[i].id = id /\ m.kind # "static" /\ down[i].kind \in {"create", "close"}
        BY <4>1, <4>2, DownKinds DEF On
      <4> QED
        BY <1>4, <4>1, <4>3 DEF Fits
    <3>3. CASE j \in DOMAIN down
      BY <1>2, <1>5, <2>2, <3>1, <3>3
    <3> QED
      BY <1>3, <3>2, <3>3
  <2> QED
    BY <2>1, <2>2, WireDownNext
<1>8. WireUp'
  <2> SUFFICES ASSUME NEW k \in DOMAIN up, IsReply(up[k]) PROVE Settles(k)'
    BY <1>1 DEF WireUp, IsReply
  <2>1. Settles(k)
    BY DEF Wire, WireUp
  <2>2. up[k].id = id => m.kind = "static"
    BY <1>4, <2>1 DEF Settles
  <2>3. host'.chan[up[k].id].st = "asked"
    BY <2>1, <2>2 DEF Settles
  <2>4. ~On(m, up[k].id)
    BY <2>2 DEF On
  <2>5. \A i \in DOMAIN down' : ~On(down'[i], up[k].id)
    BY <1>2, <1>3, <2>1, <2>4 DEF Settles
  <2> QED
    BY <1>1, <2>1, <2>3, <2>5 DEF Settles, IsReply, On
<1>9. WireHost'
  <2>1. \A j \in Ids : Closing(j) => Closing(j)'
    BY <1>2, <1>3 DEF Closing
  <2>2. ASSUME NEW j \in Ids
        PROVE  /\ byId'[j] \in setting'.names \cup {NoName}
               /\ host'.chan[j].st = "open" => byId'[j] # NoName
               /\ byId'[j] # NoName =>
                    host'.chan[j].st = "open" \/ Given("takesOver")' \/ Closing(j)' \/ Replied(j)'
    <3>1. byId'[j] \in setting'.names \cup {NoName}
      BY <1>1, <1>6
    <3>2. CASE host'.chan[j].st = host.chan[j].st
      <4>1. Replied(j) => Replied(j)'
        BY <1>1, <3>2 DEF Replied, IsReply
      <4> QED
        BY <1>1, <1>6, <2>1, <3>1, <3>2, <4>1
    <3>3. CASE host'.chan[j].st # host.chan[j].st
      <4>1. j = id /\ m.kind \in {"create", "close"}
        BY <1>4, <3>3
      <4>2. CASE m.kind = "close"
        <5>1. Closing(j)'
          BY <1>2, <1>3, <4>1, <4>2 DEF Closing
        <5> QED
          BY <1>1, <3>1, <4>1, <4>2, <5>1
      <4>3. CASE m.kind = "create"
        <5>1. host.chan[j].st # "asked" /\ host'.chan[j].st = "asked"
          BY <4>1, <4>3
        <5>2. ~Replied(j)
          BY <5>1 DEF Replied
        <5> QED
          BY <1>1, <1>6, <2>1, <3>1, <4>1, <4>3, <5>1, <5>2
      <4> QED
        BY <4>1, <4>2, <4>3
    <3> QED
      BY <3>2, <3>3
  <2> QED
    BY <2>2 DEF WireHost
<1> QED
  BY <1>7, <1>8, <1>9 DEF Wire

\* The host takes a reply.
LEMMA TakesWire ==
  ASSUME ChannelTypes, Wire, HostTakes
  PROVE  Wire'
<1> DEFINE u == Head(up)
<1>1. /\ up # <<>> /\ up' = Tail(up) /\ u = up[1] /\ up \in Seq(UpType) /\ host \in HostType
      /\ UNCHANGED <<setting, down>> /\ byId' = byId
  BY HostTakesFacts DEF ChannelTypes, ClientSame
<1>2. /\ 1 \in DOMAIN up
      /\ \A i \in DOMAIN up' : i + 1 \in DOMAIN up /\ up'[i] = up[i + 1] /\ i \in Nat \ {0}
      /\ \A i \in DOMAIN up : i = 1 \/ (i - 1 \in DOMAIN up' /\ up'[i - 1] = up[i])
  <2>1. DOMAIN up' = 1..Len(up')
    BY <1>1, Popped
  <2> QED
    BY <1>1, <2>1, Popped
<1>3. /\ IsReply(u) => Settles(1)
      /\ \A i \in DOMAIN down : Fits(down[i]) /\ down[i] \in DownType
      /\ \A i, j \in DOMAIN down : i < j => Before(down[i], down[j])
  <2>1. \A i \in DOMAIN down : down[i] \in DownType
    BY ElementOfSeq, LenProperties DEF ChannelTypes
  <2> QED
    BY <1>1, <1>2, <2>1 DEF Wire, WireUp, WireDown
<1>4. ASSUME NEW i \in Ids
      PROVE host'.chan[i].st = IF IsReply(u) /\ i = u.id
                               THEN IF u.kind = "accept" THEN "open" ELSE "refused"
                               ELSE host.chan[i].st
  <2>1. host.chan[i] \in ChanType
    BY <1>1, HostParts
  <2>2. CASE IsReply(u)
    <3>1. host'.chan[i] = [host.chan[i] EXCEPT !.st =
                              IF i = u.id THEN IF u.kind = "accept" THEN "open" ELSE "refused" ELSE @]
      BY <2>2, TakesTypes DEF IsReply
    <3> QED
      BY <2>1, <2>2, <3>1 DEF ChanType
  <2>3. CASE ~IsReply(u)
    BY <2>3, TakesTypes DEF IsReply
  <2> QED
    BY <2>2, <2>3
<1> HIDE DEF u
<1>5. WireDown'
  <2>1. ASSUME NEW e, NEW i \in DOMAIN down', down'[i] = e PROVE Fits(e)'
    <3>1. Fits(e) /\ e \in DownType /\ (IsReply(u) => ~On(e, u.id))
      BY <1>1, <1>3, <2>1 DEF Settles
    <3>2. e.kind \in {"create", "close"} => e.id \in Ids /\ host'.chan[e.id].st = host.chan[e.id].st
      BY <1>4, <3>1, DownKinds DEF On
    <3> QED
      BY <1>1, <3>1, <3>2, SettingSame DEF Fits
  <2> QED
    BY <1>1, <1>3, <2>1, WireDownNext
<1>6. WireUp'
  <2> SUFFICES ASSUME NEW k \in DOMAIN up', IsReply(up'[k]) PROVE Settles(k)'
    BY DEF WireUp, IsReply
  <2>1. k + 1 \in DOMAIN up /\ up'[k] = up[k + 1] /\ k + 1 # 1
    BY <1>2
  <2>2. Settles(k + 1)
    BY <2>1 DEF Wire, WireUp
  <2>3. IsReply(u) => u.id # up[k + 1].id
    BY <1>1, <1>2, <2>1, <2>2 DEF Settles
  <2>4. host'.chan[up[k + 1].id].st = "asked" /\ up[k + 1].id \in Ids
    BY <1>4, <2>2, <2>3 DEF Settles
  <2>5. ASSUME NEW l \in DOMAIN up', IsReply(up'[l]), up'[l].id = up'[k].id PROVE l = k
    <3>1. l + 1 \in DOMAIN up /\ up'[l] = up[l + 1]
      BY <1>2
    <3>2. l + 1 = k + 1
      BY <2>1, <2>2, <2>5, <3>1 DEF Settles
    <3> QED
      BY <1>2, <3>2
  <2> QED
    BY <1>1, <2>1, <2>2, <2>4, <2>5 DEF Settles, IsReply, On
<1>7. WireHost'
  <2>1. ASSUME NEW j \in Ids
        PROVE  /\ byId'[j] \in setting'.names \cup {NoName}
               /\ host'.chan[j].st = "open" => byId'[j] # NoName
               /\ byId'[j] # NoName =>
                    host'.chan[j].st = "open" \/ Given("takesOver")' \/ Closing(j)' \/ Replied(j)'
    <3>1. /\ byId[j] \in setting.names \cup {NoName}
          /\ host.chan[j].st = "open" => byId[j] # NoName
          /\ byId[j] # NoName =>
               host.chan[j].st = "open" \/ Given("takesOver") \/ Closing(j) \/ Replied(j)
      BY DEF Wire, WireHost
    <3>2. CASE IsReply(u) /\ j = u.id
      <4>1. (u.kind = "accept") <=> (byId[j] # NoName)
        BY <1>1, <1>3, <3>2 DEF Settles
      <4> QED
        BY <1>1, <1>4, <3>1, <3>2, <4>1
    <3>3. CASE ~(IsReply(u) /\ j = u.id)
      <4>1. host'.chan[j].st = host.chan[j].st
        BY <1>4, <3>3
      <4>2. Replied(j) => Replied(j)'
        <5> SUFFICES ASSUME NEW k \in DOMAIN up, IsReply(up[k]), up[k].id = j, host.chan[j].st = "asked"
                     PROVE  Replied(j)'
          BY DEF Replied
        <5>1. k - 1 \in DOMAIN up' /\ up'[k - 1] = up[k]
          BY <1>1, <1>2, <3>3
        <5> QED
          BY <4>1, <5>1 DEF Replied, IsReply
      <4>3. Closing(j) => Closing(j)'
        BY <1>1 DEF Closing
      <4> QED
        BY <1>1, <3>1, <4>1, <4>2, <4>3, SettingSame
    <3> QED
      BY <3>2, <3>3
  <2> QED
    BY <2>1 DEF WireHost
<1> QED
  BY <1>5, <1>6, <1>7 DEF Wire

\* The client takes a close.
LEMMA CloseWire ==
  ASSUME ChannelTypes, Wire, OnClose
  PROVE  Wire'
<1> DEFINE id == Head(down).id
<1>1. Takes("close") /\ byId' = [byId EXCEPT ![id] = NoName] /\ up' = up
  BY DEF OnClose
<1>2. /\ down # <<>> /\ Head(down) = down[1] /\ down' = Tail(down) /\ down[1].kind = "close"
      /\ UNCHANGED <<setting, host>> /\ id \in Ids /\ down \in Seq(DownType)
      /\ byId \in [Ids -> Names \cup {NoName}]
  BY <1>1, Taken, DownKinds DEF ChannelTypes
<1>3. /\ 1 \in DOMAIN down
      /\ \A i \in DOMAIN down' : i + 1 \in DOMAIN down /\ down'[i] = down[i + 1] /\ 1 < i + 1
      /\ \A i \in DOMAIN down : i = 1 \/ (i - 1 \in DOMAIN down' /\ down'[i - 1] = down[i])
      /\ \A i, j \in DOMAIN down' : i < j => i + 1 < j + 1
  <2>1. DOMAIN down' = 1..Len(down')
    BY <1>2, Popped
  <2> QED
    BY <1>2, <2>1, Popped
<1>4. down[1].id = id
  BY <1>2
<1> HIDE DEF id
<1>5. \A j \in Ids : byId'[j] = IF j = id THEN NoName ELSE byId[j]
  BY <1>1, <1>2
<1>6. /\ \A i \in DOMAIN down : Fits(down[i]) /\ down[i] \in DownType
      /\ \A i, j \in DOMAIN down : i < j => Before(down[i], down[j])
  BY <1>2, ElementOfSeq, LenProperties DEF Wire, WireDown
<1>7. WireDown'
  <2>1. ASSUME NEW e, NEW i \in DOMAIN down', down'[i] = e PROVE Fits(e)'
    <3>1. e = down[i + 1] /\ Fits(e) /\ e \in DownType /\ Before(down[1], e)
      BY <1>3, <1>6, <2>1
    <3>2. e.kind \in {"data", "close"} => e.id \in Ids /\ e.id # id
      BY <1>2, <1>4, <3>1, DownKinds DEF Before, On
    <3> QED
      BY <1>2, <1>5, <3>1, <3>2, SettingSame DEF Fits
  <2>2. \A i, j \in DOMAIN down' : i < j => Before(down'[i], down'[j])
    BY <1>3, <1>6
  <2> QED
    BY <2>1, <2>2, WireDownNext
<1>8. WireUp'
  <2> SUFFICES ASSUME NEW k \in DOMAIN up, IsReply(up[k]) PROVE Settles(k)'
    BY <1>1 DEF WireUp, IsReply
  <2>1. Settles(k)
    BY DEF Wire, WireUp
  <2>2. up[k].id # id
    BY <1>2, <1>3, <1>4, <2>1 DEF Settles, On
  <2>3. \A i \in DOMAIN down' : ~On(down'[i], up[k].id)
    BY <1>3, <2>1 DEF Settles
  <2> QED
    BY <1>1, <1>2, <1>5, <2>1, <2>2, <2>3 DEF Settles, IsReply, On
<1>9. WireHost'
  <2>1. ASSUME NEW j \in Ids
        PROVE  /\ byId'[j] \in setting'.names \cup {NoName}
               /\ host'.chan[j].st = "open" => byId'[j] # NoName
               /\ byId'[j] # NoName =>
                    host'.chan[j].st = "open" \/ Given("takesOver")' \/ Closing(j)' \/ Replied(j)'
    <3>1. /\ byId[j] \in setting.names \cup {NoName}
          /\ host.chan[j].st = "open" => byId[j] # NoName
          /\ byId[j] # NoName =>
               host.chan[j].st = "open" \/ Given("takesOver") \/ Closing(j) \/ Replied(j)
      BY DEF Wire, WireHost
    <3>2. CASE j = id
      <4>1. Fits(down[1])
        BY <1>3, <1>6
      <4>2. host.chan[j].st # "open" /\ byId'[j] = NoName
        BY <1>2, <1>4, <1>5, <3>2, <4>1 DEF Fits
      <4> QED
        BY <1>2, <4>2
    <3>3. CASE j # id
      <4>1. Closing(j) => Closing(j)'
        <5> SUFFICES ASSUME NEW i \in DOMAIN down, down[i].kind = "close" /\ down[i].id = j
                     PROVE  Closing(j)'
          BY DEF Closing
        <5>1. i - 1 \in DOMAIN down' /\ down'[i - 1] = down[i]
          BY <1>3, <1>4, <3>3
        <5> QED
          BY <5>1 DEF Closing
      <4>2. Replied(j) => Replied(j)'
        BY <1>1, <1>2 DEF Replied, IsReply
      <4> QED
        BY <1>2, <1>5, <3>1, <3>3, <4>1, <4>2, SettingSame
    <3> QED
      BY <3>2, <3>3
  <2> QED
    BY <2>1 DEF WireHost
<1> QED
  BY <1>7, <1>8, <1>9 DEF Wire

\* An id is taken over, if it is, from Display Control by a channel that the
\* client refuses.
Keeps == Given("takesOver") => setting.names \subseteq {"display", "other"}

\* An id that is created again while the client has it is that of Display Control,
\* and it loses it (_dvcOnCreate).
LEMMA CreateOver ==
  ASSUME ChannelTypes, Wire, OnCreate, Keeps, NEW x \in View, NEW y \in View,
         Corr(x), Follows(x, Head(down), y), byId[Head(down).id] # NoName
  PROVE  Given("takesOver") /\ LosesDisplay(Head(down).id, Head(down).name)
<1> DEFINE m == Head(down)
<1>1. /\ m = down[1] /\ m.kind = "create" /\ m.id \in Ids /\ m.name \in Names /\ 1 \in DOMAIN down
      /\ DOMAIN down = 1..Len(down)
  <2>1. Takes("create") /\ down \in Seq(DownType)
    BY DEF OnCreate, ChannelTypes
  <2> QED
    BY <2>1, Taken, DownKinds, Popped
<1>2. AfterCreate(x, m, y) /\ Tables(x) /\ byId[m.id] # NoName
  BY <1>1 DEF Follows, Corr
<1> HIDE DEF m
<1>3. Fits(m) /\ host.chan[m.id].st = "asked" /\ m.name \in setting.names
  BY <1>1 DEF Wire, WireDown, Fits
<1>4. ~Closing(m.id)
  <2> SUFFICES ASSUME NEW i \in DOMAIN down, down[i].kind = "close", down[i].id = m.id
               PROVE  FALSE
    BY DEF Closing
  <2>1. 1 < i
    BY <1>1
  <2>2. Before(m, down[i])
    BY <1>1, <2>1 DEF Wire, WireDown
  <2> QED
    BY <1>1, <2>2 DEF Before, On
<1>5. ~Replied(m.id)
  <2> SUFFICES ASSUME NEW k \in DOMAIN up, IsReply(up[k]), up[k].id = m.id
               PROVE  FALSE
    BY DEF Replied
  <2>1. Settles(k)
    BY DEF Wire, WireUp
  <2> QED
    BY <1>1, <2>1 DEF Settles, On
<1>6. Given("takesOver") /\ byId[m.id] \in setting.names
  BY <1>1, <1>2, <1>3, <1>4, <1>5 DEF Wire, WireHost
<1>7. byId[m.id] = "display" /\ x.chan[m.id].name = "display" /\ role["display"] = m.id
  BY <1>1, <1>2, <1>6 DEF Keeps, Tables, Roles
<1>8. m.name = "other"
  BY <1>1, <1>2, <1>3, <1>6, <1>7 DEF Keeps, AfterCreate
<1> QED
  BY <1>6, <1>7, <1>8 DEF LosesDisplay, Accepts, m

\* The client takes a creation.
LEMMA CreateWire ==
  ASSUME ChannelTypes, Wire, OnCreate,
         byId[Head(down).id] # NoName => LosesDisplay(Head(down).id, Head(down).name)
  PROVE  Wire'
<1> DEFINE id == Head(down).id
<1> DEFINE name == Head(down).name
<1> DEFINE ok == Accepts(name)
<1> DEFINE gone == LosesDisplay(id, name)
<1> DEFINE answer == IF ok THEN "accept" ELSE "refuse"
<1> DEFINE n == Len(up) + 1
<1>1. /\ Takes("create") /\ Send(<<answer>>, id)
      /\ byId' = IF ok THEN [byId EXCEPT ![id] = name]
                 ELSE IF gone THEN [byId EXCEPT ![id] = NoName] ELSE byId
  BY DEF OnCreate
<1>2. /\ down # <<>> /\ Head(down) = down[1] /\ down' = Tail(down) /\ down[1].kind = "create"
      /\ UNCHANGED <<setting, host>> /\ id \in Ids /\ name \in Names /\ down \in Seq(DownType)
      /\ byId \in [Ids -> Names \cup {NoName}]
  BY <1>1, Taken, DownKinds DEF ChannelTypes
<1>3. /\ 1 \in DOMAIN down
      /\ \A i \in DOMAIN down' : i + 1 \in DOMAIN down /\ down'[i] = down[i + 1] /\ 1 < i + 1
      /\ \A i \in DOMAIN down : i = 1 \/ (i - 1 \in DOMAIN down' /\ down'[i - 1] = down[i])
      /\ \A i, j \in DOMAIN down' : i < j => i + 1 < j + 1
  <2>1. DOMAIN down' = 1..Len(down')
    BY <1>2, Popped
  <2> QED
    BY <1>2, <2>1, Popped
<1>4. down[1].id = id /\ down[1].name = name /\ (byId[id] # NoName => gone) /\ (gone => ~ok)
  BY <1>2 DEF LosesDisplay
<1>5. /\ n \in DOMAIN up' /\ up'[n].kind = answer /\ up'[n].id = id
      /\ \A k \in DOMAIN up : k \in DOMAIN up' /\ up'[k] = up[k] /\ k # n
      /\ \A k \in DOMAIN up' : k \in DOMAIN up \/ k = n
  <2> DEFINE ks == <<answer>>
  <2>1. ks \in Seq(ReplyKinds) /\ Len(ks) = 1 /\ ks[1] = answer
    <3>1. answer \in ReplyKinds
      BY DEF ReplyKinds
    <3> HIDE DEF answer
    <3> QED
      BY <3>1
  <2>2. up \in Seq(UpType) /\ id \in Ids \cup {NoId} /\ Send(ks, id)
    BY <1>1, <1>2 DEF ChannelTypes
  <2> HIDE DEF ks, id, answer
  <2>3. /\ Len(up) \in Nat /\ DOMAIN up = 1..Len(up) /\ DOMAIN up' = 1..(Len(up) + Len(ks))
        /\ \A k \in DOMAIN up : up'[k] = up[k]
        /\ \A k \in 1..Len(ks) : up'[Len(up) + k] = [kind |-> ks[k], id |-> id]
    BY <2>1, <2>2, Answered
  <2>4. up'[n] = [kind |-> answer, id |-> id]
    BY <2>1, <2>3
  <2> QED
    BY <2>1, <2>3, <2>4
<1> HIDE DEF id, name, ok, gone, n
<1>6. /\ \A j \in Ids : j # id => byId'[j] = byId[j]
      /\ ok => byId'[id] = name
      /\ ~ok => byId'[id] = NoName
      /\ NoName \notin Names
  BY <1>1, <1>2, <1>4 DEF Names, Roles, NoName
<1>7. /\ \A i \in DOMAIN down : Fits(down[i]) /\ down[i] \in DownType
      /\ \A i, j \in DOMAIN down : i < j => Before(down[i], down[j])
  BY <1>2, ElementOfSeq, LenProperties DEF Wire, WireDown
<1>8. host.chan[id].st = "asked" /\ name \in setting.names
  BY <1>2, <1>3, <1>4, <1>7 DEF Fits
<1>9. \A i \in DOMAIN down' : ~On(down'[i], id)
  BY <1>2, <1>3, <1>4, <1>7 DEF Before
<1>10. WireDown'
  <2>1. ASSUME NEW e, NEW i \in DOMAIN down', down'[i] = e PROVE Fits(e)'
    <3>1. e = down[i + 1] /\ Fits(e) /\ e \in DownType /\ ~On(e, id)
      BY <1>3, <1>7, <1>9, <2>1
    <3>2. e.kind \in {"data", "close"} => e.id \in Ids /\ e.id # id
      BY <3>1, DownKinds DEF On
    <3> QED
      BY <1>2, <1>6, <3>1, <3>2, SettingSame DEF Fits
  <2>2. \A i, j \in DOMAIN down' : i < j => Before(down'[i], down'[j])
    BY <1>3, <1>7
  <2> QED
    BY <2>1, <2>2, WireDownNext
<1>11. \A k \in DOMAIN up : IsReply(up[k]) => Settles(k) /\ up[k].id # id /\ up[k].id \in Ids
  BY <1>2, <1>3, <1>4 DEF Wire, WireUp, Settles, On
<1>12. WireUp'
  <2> SUFFICES ASSUME NEW k \in DOMAIN up', IsReply(up'[k]) PROVE Settles(k)'
    BY DEF WireUp, IsReply
  <2>1. CASE k = n
    <3>1. host'.chan[id].st = "asked" /\ id \in Ids /\ up'[k].id = id
      BY <1>2, <1>5, <1>8, <2>1
    <3>2. (up'[k].kind = "accept") <=> (byId'[id] # NoName)
      BY <1>2, <1>5, <1>6, <2>1
    <3>3. ASSUME NEW l \in DOMAIN up', IsReply(up'[l]), up'[l].id = up'[k].id PROVE l = k
      <4>1. l \notin DOMAIN up
        BY <1>5, <1>11, <3>1, <3>3
      <4> QED
        BY <1>5, <2>1, <4>1
    <3> QED
      BY <1>9, <3>1, <3>2, <3>3 DEF Settles, IsReply, On
  <2>2. CASE k # n
    <3>1. k \in DOMAIN up /\ up'[k] = up[k]
      BY <1>5, <2>2
    <3>2. Settles(k) /\ up[k].id # id /\ up[k].id \in Ids
      BY <1>11, <3>1
    <3>3. \A i \in DOMAIN down' : ~On(down'[i], up[k].id)
      BY <1>3, <3>2 DEF Settles
    <3>4. ASSUME NEW l \in DOMAIN up', IsReply(up'[l]), up'[l].id = up'[k].id PROVE l = k
      <4>1. l \in DOMAIN up /\ up'[l] = up[l]
        BY <1>5, <3>1, <3>2, <3>4
      <4> QED
        BY <3>1, <3>2, <3>4, <4>1 DEF Settles
    <3>5. host'.chan[up[k].id].st = "asked" /\ ((up[k].kind = "accept") <=> (byId'[up[k].id] # NoName))
      BY <1>2, <1>6, <3>2 DEF Settles
    <3> QED
      BY <3>1, <3>2, <3>3, <3>4, <3>5 DEF Settles, IsReply, On
  <2> QED
    BY <2>1, <2>2
<1>13. WireHost'
  <2>1. ASSUME NEW j \in Ids
        PROVE  /\ byId'[j] \in setting'.names \cup {NoName}
               /\ host'.chan[j].st = "open" => byId'[j] # NoName
               /\ byId'[j] # NoName =>
                    host'.chan[j].st = "open" \/ Given("takesOver")' \/ Closing(j)' \/ Replied(j)'
    <3>1. /\ byId[j] \in setting.names \cup {NoName}
          /\ host.chan[j].st = "open" => byId[j] # NoName
          /\ byId[j] # NoName =>
               host.chan[j].st = "open" \/ Given("takesOver") \/ Closing(j) \/ Replied(j)
      BY DEF Wire, WireHost
    <3>2. CASE j = id
      <4>1. host'.chan[j].st = "asked" /\ byId'[j] \in setting'.names \cup {NoName}
        BY <1>2, <1>6, <1>8, <3>2
      <4>2. Replied(j)'
        <5>1. IsReply(up'[n]) /\ up'[n].id = j
          BY <1>5, <3>2 DEF IsReply
        <5> QED
          BY <1>5, <4>1, <5>1 DEF Replied, IsReply
      <4> QED
        BY <4>1, <4>2
    <3>3. CASE j # id
      <4>1. Closing(j) => Closing(j)'
        <5> SUFFICES ASSUME NEW i \in DOMAIN down, down[i].kind = "close" /\ down[i].id = j
                     PROVE  Closing(j)'
          BY DEF Closing
        <5>1. i - 1 \in DOMAIN down' /\ down'[i - 1] = down[i]
          BY <1>3, <1>4, <3>3
        <5> QED
          BY <5>1 DEF Closing
      <4>2. Replied(j) => Replied(j)'
        BY <1>2, <1>5 DEF Replied, IsReply
      <4> QED
        BY <1>2, <1>6, <3>1, <3>3, <4>1, <4>2, SettingSame
    <3> QED
      BY <3>2, <3>3
  <2> QED
    BY <2>1 DEF WireHost
<1> QED
  BY <1>10, <1>12, <1>13 DEF Wire

\* The client takes a chunk of a static channel; what it answers is no word on
\* a channel, and of a step whose last chunk has come.
LEMMA StaticReplies ==
  ASSUME ChannelTypes, OnStatic
  PROVE  LET m == Head(down)
         IN /\ m = down[1] /\ m.kind = "static" /\ m.channel \in Static /\ m.part \in PartType
            /\ \A k \in DOMAIN up : k \in DOMAIN up' /\ up'[k] = up[k]
            /\ \A k \in DOMAIN up' : k \notin DOMAIN up =>
                 /\ ~IsReply(up'[k])
                 /\ \/ Ended(up'[k].kind) = NoName
                    \/ /\ Ended(up'[k].kind) = m.part.msg /\ m.channel = "rdpdr"
                       /\ m.part.no = m.part.of
<1> DEFINE m == Head(down)
<1> DEFINE c == m.channel
<1> DEFINE part == m.part
<1> DEFINE lost == part.no > 1 /\ svc[c] = <<>>
<1> DEFINE whole == ~lost /\ part.no = part.of
<1> DEFINE ks == IF whole /\ c = "rdpdr" THEN DeviceRedirection(part.msg) ELSE <<>>
<1>1. Send(ks, NoId) /\ Takes("static") /\ up \in Seq(UpType)
  BY DEF OnStatic, ChannelTypes
<1>2. /\ m \in DownType /\ m = down[1] /\ m.kind = "static" /\ c \in Static /\ part \in PartType
  BY <1>1, Taken, DownKinds
<1>3. ks \in Seq(ReplyKinds)
  <2> HIDE DEF whole, c
  <2> QED
    BY RedirectionReplies
<1>4. \A k \in 1..Len(ks) :
        /\ ks[k] \notin {"accept", "refuse"}
        /\ \/ Ended(ks[k]) = NoName
           \/ Ended(ks[k]) = part.msg /\ c = "rdpdr" /\ part.no = part.of
  <2>1. CASE ~(whole /\ c = "rdpdr")
    <3>1. ks = <<>>
      BY <2>1
    <3> QED
      BY <3>1
  <2>2. CASE whole /\ c = "rdpdr" /\ part.msg = "announce"
    <3>1. ks = <<"announce-reply", "client-name">>
      BY <2>2 DEF DeviceRedirection
    <3> HIDE DEF ks
    <3>2. Len(ks) = 2 /\ ks[1] = "announce-reply" /\ ks[2] = "client-name"
      BY <3>1
    <3>3. Ended("announce-reply") = NoName /\ Ended("client-name") = "announce"
      BY DEF Ended
    <3> QED
      BY <2>2, <3>2, <3>3
  <2>3. CASE whole /\ c = "rdpdr" /\ part.msg = "capability"
    <3>1. ks = <<"capability-reply">>
      BY <2>3 DEF DeviceRedirection
    <3> HIDE DEF ks
    <3>2. Len(ks) = 1 /\ ks[1] = "capability-reply" /\ Ended("capability-reply") = "capability"
      BY <3>1 DEF Ended
    <3> QED
      BY <2>3, <3>2
  <2>4. CASE whole /\ c = "rdpdr" /\ part.msg = "logon"
    <3>1. ks = <<"device-list">>
      BY <2>4 DEF DeviceRedirection
    <3> HIDE DEF ks
    <3>2. Len(ks) = 1 /\ ks[1] = "device-list" /\ Ended("device-list") = "logon"
      BY <3>1 DEF Ended
    <3> QED
      BY <2>4, <3>2
  <2>5. CASE whole /\ c = "rdpdr" /\ part.msg \notin {"announce", "capability", "logon"}
    <3>1. ks = <<>>
      BY <2>5 DEF DeviceRedirection
    <3> QED
      BY <3>1
  <2> QED
    BY <2>1, <2>2, <2>3, <2>4, <2>5
<1> HIDE DEF ks, part, c, m, whole
<1>5. /\ Len(up) \in Nat
      /\ DOMAIN up = 1..Len(up) /\ DOMAIN up' = 1..(Len(up) + Len(ks)) /\ Len(ks) \in Nat
      /\ \A k \in DOMAIN up : up'[k] = up[k]
      /\ \A k \in 1..Len(ks) : up'[Len(up) + k] = [kind |-> ks[k], id |-> NoId]
      /\ \A k \in DOMAIN up' : k \in DOMAIN up \/ (k - Len(up) \in 1..Len(ks))
  BY <1>1, <1>3, Answered
<1>6. ASSUME NEW k \in DOMAIN up', k \notin DOMAIN up
      PROVE  /\ ~IsReply(up'[k])
             /\ \/ Ended(up'[k].kind) = NoName
                \/ Ended(up'[k].kind) = part.msg /\ c = "rdpdr" /\ part.no = part.of
  <2> DEFINE j == k - Len(up)
  <2>1. j \in 1..Len(ks) /\ Len(up) + j = k
    BY <1>5, <1>6
  <2> HIDE DEF j
  <2>2. up'[k].kind = ks[j]
    <3>1. up'[Len(up) + j] = [kind |-> ks[j], id |-> NoId]
      BY <1>5, <2>1
    <3>2. up'[k] = [kind |-> ks[j], id |-> NoId]
      BY <2>1, <3>1
    <3> QED
      BY <3>2
  <2> QED
    BY <1>4, <2>1, <2>2 DEF IsReply
<1>7. \A k \in DOMAIN up : k \in DOMAIN up' /\ up'[k] = up[k]
  BY <1>5
<1> QED
  BY <1>2, <1>6, <1>7 DEF m, c, part

\* The client takes a PDU of a static channel.
LEMMA StaticWire ==
  ASSUME ChannelTypes, Wire, OnStatic
  PROVE  Wire'
<1>1. Takes("static") /\ byId' = byId
  BY DEF OnStatic, tables
<1>2. down # <<>> /\ down' = Tail(down) /\ UNCHANGED <<setting, host>> /\ down[1].kind = "static"
  BY <1>1, Taken
<1>3. /\ \A k \in DOMAIN up : k \in DOMAIN up' /\ up'[k] = up[k]
      /\ \A k \in DOMAIN up' : k \in DOMAIN up \/ ~IsReply(up'[k])
  BY StaticReplies
<1> QED
  BY <1>1, <1>2, <1>3, PopWire

\* The client takes a chunk.
LEMMA DataWire ==
  ASSUME ChannelTypes, Wire, OnData
  PROVE  Wire'
<1>1. Takes("data") /\ byId' = byId /\ up' = up
  BY DEF OnData, tables
<1>2. down # <<>> /\ down' = Tail(down) /\ UNCHANGED <<setting, host>> /\ down[1].kind = "data"
  BY <1>1, Taken
<1> QED
  BY <1>1, <1>2, PopWire

\* The set-up: steps that are answered, or about to be, were sent to their end.
Final(m) == m.kind = "static" /\ m.channel = "rdpdr" /\ m.part.no = m.part.of
Setup ==
  /\ \A i \in DOMAIN down : Final(down[i]) => Reached(host, down[i].part.msg)
  /\ \A k \in DOMAIN up : Ended(up[k].kind) # NoName => Reached(host, Ended(up[k].kind))

\* To show it of the next state.
LEMMA SetupNext ==
  ASSUME \A i \in DOMAIN down' : Final(down'[i]) => Reached(host', down'[i].part.msg),
         \A k \in DOMAIN up' : Ended(up'[k].kind) # NoName => Reached(host', Ended(up'[k].kind))
  PROVE  Setup'
BY DEF Setup, Final, Reached, Ended, Rank

\* The client takes a PDU.
LEMMA PopSetup ==
  ASSUME ChannelTypes, Setup, down # <<>>, down' = Tail(down), UNCHANGED host,
         \A k \in DOMAIN up' :
           \/ k \in DOMAIN up /\ up'[k] = up[k]
           \/ Ended(up'[k].kind) = NoName \/ Reached(host, Ended(up'[k].kind))
  PROVE  Setup'
<1>1. down \in Seq(DownType)
  BY DEF ChannelTypes
<1>2. \A i \in DOMAIN down' : i + 1 \in DOMAIN down /\ down'[i] = down[i + 1]
  BY <1>1, Popped
<1>3. \A i \in DOMAIN down' : Final(down'[i]) => Reached(host', down'[i].part.msg)
  BY <1>2 DEF Setup
<1>4. \A k \in DOMAIN up' : Ended(up'[k].kind) # NoName => Reached(host', Ended(up'[k].kind))
  BY DEF Setup
<1> QED
  BY <1>3, <1>4, SetupNext

\* The host sends a PDU that is none of the set-up.
LEMMA EmitSetup ==
  ASSUME ChannelTypes, Setup, NEW m, Emits(m), ~Final(m),
         host'.step = host.step, host'.sent["rdpdr"] = host.sent["rdpdr"]
  PROVE  Setup'
<1>1. /\ m \in DownType /\ down' = Append(down, m) /\ down \in Seq(DownType) /\ up' = up
  BY DEF Emits, ChannelTypes
<1>2. \A i \in DOMAIN down' : down'[i] = m \/ (i \in DOMAIN down /\ down'[i] = down[i])
  <2>1. /\ DOMAIN down' = 1..(Len(down) + 1) /\ DOMAIN down = 1..Len(down) /\ Len(down) \in Nat
        /\ down'[Len(down) + 1] = m /\ \A i \in DOMAIN down : down'[i] = down[i]
    BY <1>1, Appended
  <2> QED
    BY <2>1
<1>3. \A s : Reached(host, s) => Reached(host', s)
  BY DEF Reached
<1>4. \A i \in DOMAIN down' : Final(down'[i]) => Reached(host', down'[i].part.msg)
  BY <1>2, <1>3 DEF Setup
<1>5. \A k \in DOMAIN up' : Ended(up'[k].kind) # NoName => Reached(host', Ended(up'[k].kind))
  BY <1>1, <1>3 DEF Setup
<1> QED
  BY <1>4, <1>5, SetupNext

\* A step of the set-up is sent, or the confirmation passed.
LEMMA RedirectsSetup ==
  ASSUME ChannelTypes, Setup, HostRedirects
  PROVE  Setup'
<1> DEFINE no == host.sent["rdpdr"] + 1
<1>1. no \in {1, 2} /\ host.step # "ready" /\ host \in HostType /\ host.step \in SetupSteps
      /\ host.sent \in [Static -> 0..2] /\ "rdpdr" \in Static
  BY RedirectsFacts, HostParts DEF ChannelTypes, Static
<1>2. PICK of \in {1, 2} :
        /\ Emits([kind |-> "static", channel |-> "rdpdr", part |-> Part(0, host.step, no, of, 0)])
        /\ \/ /\ no < of /\ host'.step = host.step
              /\ host'.sent = [host.sent EXCEPT !["rdpdr"] = 1]
           \/ /\ no = of /\ host.step = "confirm" /\ host'.step = "logon"
              /\ host'.sent = [host.sent EXCEPT !["rdpdr"] = 0]
           \/ /\ no = of /\ host.step # "confirm" /\ host'.step = host.step
              /\ host'.sent = [host.sent EXCEPT !["rdpdr"] = 2]
  BY RedirectsFacts
<1> DEFINE p == Part(0, host.step, no, of, 0)
<1> DEFINE m == [kind |-> "static", channel |-> "rdpdr", part |-> p]
<1>3. p.msg = host.step /\ p.no = no /\ p.of = of
  BY DEF Part
<1>4. m.part = p /\ m.kind = "static" /\ Emits(m)
  BY <1>2
<1> HIDE DEF p, m
<1>5. /\ m \in DownType /\ down' = Append(down, m) /\ down \in Seq(DownType) /\ up' = up
  BY <1>4 DEF Emits, ChannelTypes
<1>6. \A i \in DOMAIN down' : down'[i] = m \/ (i \in DOMAIN down /\ down'[i] = down[i])
  <2>1. /\ DOMAIN down' = 1..(Len(down) + 1) /\ DOMAIN down = 1..Len(down) /\ Len(down) \in Nat
        /\ down'[Len(down) + 1] = m /\ \A i \in DOMAIN down : down'[i] = down[i]
    BY <1>5, Appended
  <2> QED
    BY <2>1
<1>7. \A s : Reached(host, s) => Reached(host', s)
  <2> SUFFICES ASSUME NEW s, Reached(host, s) PROVE Reached(host', s)
    OBVIOUS
  <2>1. s # host.step /\ Rank(s) <= Rank(host.step)
    BY <1>1 DEF Reached
  <2>2. CASE host'.step = host.step
    BY <2>1, <2>2 DEF Reached
  <2>3. CASE host'.step # host.step
    <3>1. host.step = "confirm" /\ host'.step = "logon"
      BY <1>2, <2>3
    <3>2. Rank("confirm") = 3 /\ Rank("logon") = 4 /\ Rank(s) <= 3
      BY <2>1, <3>1 DEF Rank
    <3>3. s # "logon" /\ Rank(s) <= 4
      BY <3>2 DEF Rank
    <3> QED
      BY <3>1, <3>2, <3>3 DEF Reached
  <2> QED
    BY <2>2, <2>3
<1>8. Final(m) => Reached(host', m.part.msg)
  <2> SUFFICES ASSUME Final(m) PROVE Reached(host', host.step)
    BY <1>3, <1>4
  <2>1. no = of
    BY <1>3, <1>4 DEF Final
  <2>2. CASE host.step = "confirm"
    <3>1. host'.step = "logon"
      BY <1>2, <2>1, <2>2
    <3> QED
      BY <2>2, <3>1 DEF Reached, Rank
  <2>3. CASE host.step # "confirm"
    <3>1. host'.step = host.step /\ host'.sent["rdpdr"] = 2
      BY <1>1, <1>2, <2>1, <2>3
    <3>2. Rank(host.step) \in Nat
      BY DEF Rank
    <3> QED
      BY <3>1, <3>2 DEF Reached
  <2> QED
    BY <2>2, <2>3
<1>9. \A i \in DOMAIN down' : Final(down'[i]) => Reached(host', down'[i].part.msg)
  BY <1>6, <1>7, <1>8 DEF Setup
<1>10. \A k \in DOMAIN up' : Ended(up'[k].kind) # NoName => Reached(host', Ended(up'[k].kind))
  BY <1>5, <1>7 DEF Setup
<1> QED
  BY <1>9, <1>10, SetupNext

\* The host takes an answer: the set-up goes on.
LEMMA TakesSetup ==
  ASSUME ChannelTypes, Setup, HostTakes
  PROVE  Setup'
<1> DEFINE kind == Head(up).kind
<1>1. /\ up # <<>> /\ up' = Tail(up) /\ Head(up) = up[1] /\ up \in Seq(UpType) /\ down' = down
      /\ host \in HostType /\ host.step \in SetupSteps /\ host.sent \in [Static -> 0..2]
      /\ "rdpdr" \in Static
  BY HostTakesFacts, HostParts DEF ChannelTypes, Static
<1>2. 1 \in DOMAIN up /\ \A i \in DOMAIN up' : i + 1 \in DOMAIN up /\ up'[i] = up[i + 1]
  BY <1>1, Popped
<1>3. \A s : Reached(host, s) => Reached(host', s)
  <2>1. CASE kind \in {"accept", "refuse"} \/ Ended(kind) # host.step
    <3>1. host'.step = host.step /\ host'.sent = host.sent
      BY <2>1, TakesTypes
    <3> QED
      BY <3>1 DEF Reached
  <2>2. CASE kind \notin {"accept", "refuse"} /\ Ended(kind) = host.step
    <3>1. host'.step = After(host.step) /\ host.step \in {"announce", "capability", "logon"}
      <4>1. host.step # NoName
        BY <1>1 DEF SetupSteps, NoName
      <4> QED
        BY <2>2, <4>1, TakesTypes DEF Ended
    <3> QED
      BY <3>1 DEF Reached, After, Rank, SetupSteps
  <2> QED
    BY <2>1, <2>2
<1>4. \A k \in DOMAIN up' : Ended(up'[k].kind) # NoName => Reached(host', Ended(up'[k].kind))
  BY <1>2, <1>3 DEF Setup
<1>5. \A i \in DOMAIN down' : Final(down'[i]) => Reached(host', down'[i].part.msg)
  BY <1>1, <1>3 DEF Setup
<1> QED
  BY <1>4, <1>5, SetupNext

\* What the handler of a static channel is given is a message.
LEMMA StaticMessages ==
  ASSUME ChannelTypes, OnStatic, NEW x \in View, NEW y \in View,
         Corr(x), Follows(x, Head(down), y), OnlyMessages
  PROVE  OnlyMessages'
<1> DEFINE m == Head(down)
<1> DEFINE c == m.channel
<1> DEFINE part == m.part
<1> DEFINE begun == IF part.no = 1 THEN <<part>> ELSE Append(svc[c], part)
<1> DEFINE lost == part.no > 1 /\ svc[c] = <<>>
<1> DEFINE whole == ~lost /\ part.no = part.of
<1>1. /\ heard' = IF whole THEN [heard EXCEPT ![c] = Append(@, begun)] ELSE heard
      /\ Takes("static") /\ got' = got
  BY DEF OnStatic, tables
<1>2. m \in DownType /\ m.kind = "static" /\ c \in Static /\ part \in PartType
  BY <1>1, Taken, DownKinds
<1>3. AfterStatic(x, m, y)
  BY <1>2 DEF Follows
<1>4. /\ part.no \in {1, 2} /\ part.of \in {1, 2} /\ svc = x.open /\ svc \in [Static -> Seq(PartType)]
      /\ heard \in [Static -> Seq(Seq(PartType))]
  BY <1>2 DEF PartType, Corr, ChannelTypes
<1> HIDE DEF m, c, part
<1>5. part.inst = 0 /\ (part.no = 2 => part.of = 2 /\ svc[c] = <<[part EXCEPT !.no = 1]>>)
  BY <1>3, <1>4 DEF AfterStatic, c, part
<1>6. begun \in Seq(PartType) /\ (whole => IsMessage(begun, 0, begun[1].msg))
  <2>1. svc[c] \in Seq(PartType)
    BY <1>2, <1>4
  <2>2. begun \in Seq(PartType)
    BY <1>2, <2>1, PartsFacts
  <2>3. CASE part.no = 1
    <3>1. begun = <<part>>
      BY <2>3
    <3> HIDE DEF begun
    <3>2. Len(begun) = 1 /\ Head(begun) = part /\ DOMAIN begun = {1} /\ begun[1] = part
      BY <3>1
    <3> QED
      BY <1>5, <2>2, <2>3, <3>2 DEF IsMessage
  <2>4. CASE part.no = 2
    <3> DEFINE q == svc[c]
    <3> DEFINE p == [part EXCEPT !.no = 1]
    <3>1. p.no = 1 /\ p.of = part.of /\ p.msg = part.msg /\ p.inst = part.inst /\ p \in PartType
      BY <1>2 DEF PartType
    <3>2. q = <<p>> /\ begun = Append(q, part) /\ q \in Seq(PartType)
      BY <1>5, <2>1, <2>4
    <3> HIDE DEF begun, p, q
    <3>3. Len(q) = 1 /\ q[1] = p /\ DOMAIN q = 1..1 /\ 1 \in 1..1
      BY <3>2
    <3>4. /\ Len(begun) = 2 /\ DOMAIN begun = 1..2 /\ begun[1] = p /\ begun[2] = part
      BY <1>2, <3>2, <3>3, Appended
    <3>5. Head(begun) = p
      BY <2>2, <3>4, Popped
    <3> QED
      BY <1>5, <2>2, <2>4, <3>1, <3>4, <3>5 DEF IsMessage
  <2> QED
    BY <1>4, <2>3, <2>4
<1> HIDE DEF begun, whole
<1>7. ASSUME NEW s \in Static, NEW k \in DOMAIN heard'[s]
      PROVE  IsMessage(heard'[s][k], 0, heard'[s][k][1].msg)
  <2>1. CASE ~(s = c /\ whole)
    <3>1. heard'[s] = heard[s]
      BY <1>1, <1>4, <2>1
    <3> QED
      BY <1>7, <3>1 DEF OnlyMessages
  <2>2. CASE s = c /\ whole
    <3>1. heard'[s] = Append(heard[s], begun) /\ heard[s] \in Seq(Seq(PartType))
      BY <1>1, <1>4, <2>2
    <3>2. /\ DOMAIN heard'[s] = 1..(Len(heard[s]) + 1) /\ DOMAIN heard[s] = 1..Len(heard[s])
          /\ heard'[s][Len(heard[s]) + 1] = begun /\ Len(heard[s]) \in Nat
          /\ \A i \in DOMAIN heard[s] : heard'[s][i] = heard[s][i]
      BY <1>6, <3>1, Appended
    <3>3. CASE k = Len(heard[s]) + 1
      BY <1>6, <2>2, <3>2, <3>3
    <3>4. CASE k # Len(heard[s]) + 1
      <4>1. k \in DOMAIN heard[s] /\ heard'[s][k] = heard[s][k]
        BY <1>7, <3>2, <3>4
      <4> QED
        BY <4>1 DEF OnlyMessages
    <3> QED
      BY <3>3, <3>4
  <2> QED
    BY <2>1, <2>2
<1> QED
  BY <1>1, <1>7 DEF OnlyMessages

-----------------------------------------------------------------------------
(* Virtual channels: what the client has seen, and the rest of the way.    *)

\* What the client will see, PDU by PDU, ends with what the host has.
Views(v) ==
  /\ v \in [1..(Len(down) + 1) -> View] /\ v[Len(down) + 1] = ViewOf(host)
  /\ \A i \in DOMAIN down : Follows(v[i], down[i], v[i + 1])
Seen(x) == \E v : Views(v) /\ v[1] = x

\* The client takes a PDU: it has seen one thing more.
LEMMA SeenPop ==
  ASSUME ChannelTypes, NEW x, Seen(x), down # <<>>, down' = Tail(down), host' = host
  PROVE  x \in View /\ \E y \in View : Follows(x, Head(down), y) /\ Seen(y)'
<1> DEFINE n == Len(down)
<1>1. PICK v : Views(v) /\ v[1] = x
  BY DEF Seen
<1>2. /\ n \in Nat \ {0} /\ DOMAIN down = 1..n /\ Len(down') = n - 1 /\ DOMAIN down' = 1..(n - 1)
      /\ Head(down) = down[1] /\ \A i \in DOMAIN down' : i + 1 \in DOMAIN down /\ down'[i] = down[i + 1]
  <2>1. down \in Seq(DownType)
    BY DEF ChannelTypes
  <2>2. /\ Len(down) \in Nat \ {0} /\ Len(Tail(down)) = Len(down) - 1 /\ DOMAIN down = 1..Len(down)
        /\ DOMAIN Tail(down) = 1..Len(Tail(down)) /\ Head(down) = down[1]
        /\ \A i \in DOMAIN Tail(down) : i + 1 \in DOMAIN down /\ Tail(down)[i] = down[i + 1]
    BY <2>1, Popped
  <2> QED
    BY <2>2
<1>3. /\ v \in [1..(n + 1) -> View] /\ v[n + 1] = ViewOf(host)
      /\ \A i \in 1..n : Follows(v[i], down[i], v[i + 1])
  BY <1>1, <1>2 DEF Views
<1>4. PICK w : w = [i \in 1..(Len(down') + 1) |-> v[i + 1]]
  OBVIOUS
<1> HIDE DEF n
<1>5. /\ w \in [1..(Len(down') + 1) -> View] /\ \A i \in 1..n : w[i] = v[i + 1]
  BY <1>2, <1>3, <1>4
<1>6. w[Len(down') + 1] = ViewOf(host') /\ w[1] = v[2]
  BY <1>2, <1>3, <1>5
<1>7. \A i \in DOMAIN down' : Follows(w[i], down'[i], w[i + 1])
  <2> SUFFICES ASSUME NEW i \in DOMAIN down' PROVE Follows(w[i], down'[i], w[i + 1])
    OBVIOUS
  <2>1. /\ i \in 1..n /\ i + 1 \in 1..n /\ i + 1 \in DOMAIN down /\ down'[i] = down[i + 1]
    BY <1>2
  <2>2. w[i] = v[i + 1] /\ w[i + 1] = v[(i + 1) + 1]
    BY <1>5, <2>1
  <2> QED
    BY <1>3, <2>1, <2>2
<1>8. Views(w)'
  BY <1>5, <1>6, <1>7 DEF Views, Follows, AfterStatic, AfterCreate, AfterData, AfterClose
<1>9. PICK y \in View : y = v[2]
  BY <1>2, <1>3
<1>10. Seen(y)'
  BY <1>6, <1>8, <1>9 DEF Seen
<1>11. x \in View /\ Follows(x, Head(down), y)
  <2>1. 1 \in 1..n /\ 1 \in 1..(n + 1) /\ 1 + 1 = 2
    BY <1>2
  <2> QED
    BY <1>1, <1>2, <1>3, <1>9, <2>1
<1> QED
  BY <1>9, <1>10, <1>11

\* The host sends one: the client will see it.
LEMMA SeenPush ==
  ASSUME ChannelTypes, NEW x, Seen(x), NEW m, Emits(m), host' \in HostType,
         Follows(ViewOf(host), m, ViewOf(host'))
  PROVE  Seen(x)'
<1> DEFINE n == Len(down)
<1>1. PICK v : Views(v) /\ v[1] = x
  BY DEF Seen
<1>2. /\ n \in Nat /\ DOMAIN down = 1..n /\ Len(down') = n + 1 /\ DOMAIN down' = 1..(n + 1)
      /\ down'[n + 1] = m /\ \A i \in DOMAIN down : down'[i] = down[i]
  <2>1. down \in Seq(DownType) /\ m \in DownType /\ down' = Append(down, m)
    BY DEF ChannelTypes, Emits
  <2>2. /\ Len(Append(down, m)) = Len(down) + 1 /\ Len(down) \in Nat
        /\ DOMAIN down = 1..Len(down) /\ DOMAIN Append(down, m) = 1..(Len(down) + 1)
        /\ \A i \in DOMAIN down : Append(down, m)[i] = down[i]
        /\ Append(down, m)[Len(down) + 1] = m
    BY <2>1, Appended
  <2> QED
    BY <2>1, <2>2
<1>3. /\ v \in [1..(n + 1) -> View] /\ v[n + 1] = ViewOf(host)
      /\ \A i \in 1..n : Follows(v[i], down[i], v[i + 1])
  BY <1>1, <1>2 DEF Views
<1>4. PICK z \in View : z = ViewOf(host')
  BY ViewOfFacts
<1>5. PICK w : w = [i \in 1..(Len(down') + 1) |-> IF i <= n + 1 THEN v[i] ELSE z]
  OBVIOUS
<1> HIDE DEF n
<1>6. /\ w \in [1..(Len(down') + 1) -> View] /\ \A i \in 1..(n + 1) : w[i] = v[i]
      /\ w[Len(down') + 1] = z
  BY <1>2, <1>3, <1>5
<1>7. \A i \in DOMAIN down' : Follows(w[i], down'[i], w[i + 1])
  <2> SUFFICES ASSUME NEW i \in DOMAIN down' PROVE Follows(w[i], down'[i], w[i + 1])
    OBVIOUS
  <2>1. CASE i = n + 1
    <3>1. w[i] = ViewOf(host) /\ w[i + 1] = z /\ down'[i] = m
      BY <1>2, <1>3, <1>6, <2>1
    <3> QED
      BY <1>4, <3>1
  <2>2. CASE i # n + 1
    <3>1. i \in 1..n /\ i \in 1..(n + 1) /\ i + 1 \in 1..(n + 1) /\ down'[i] = down[i]
      BY <1>2, <2>2
    <3> QED
      BY <1>3, <1>6, <3>1
  <2> QED
    BY <2>1, <2>2
<1>8. Views(w)'
  BY <1>4, <1>6, <1>7 DEF Views, Follows, AfterStatic, AfterCreate, AfterData, AfterClose
<1>9. w[1] = x
  BY <1>1, <1>2, <1>6
<1> QED
  BY <1>8, <1>9 DEF Seen

\* Nothing is sent and nothing is taken.
LEMMA SeenSame ==
  ASSUME NEW x, Seen(x), down' = down, ViewOf(host') = ViewOf(host)
  PROVE  Seen(x)'
<1>1. PICK v : Views(v) /\ v[1] = x
  BY DEF Seen
<1>2. /\ v \in [1..(Len(down') + 1) -> View] /\ v[Len(down') + 1] = ViewOf(host')
      /\ \A i \in DOMAIN down' : Follows(v[i], down'[i], v[i + 1])
  BY <1>1 DEF Views
<1>3. Views(v)'
  BY <1>2 DEF Views, Follows, AfterStatic, AfterCreate, AfterData, AfterClose
<1> QED
  BY <1>1, <1>3 DEF Seen

\* With nothing on the way the client has seen what the host has.
LEMMA SeenEnd ==
  ASSUME NEW x, Seen(x), down = <<>>
  PROVE  x = ViewOf(host)
BY DEF Seen, Views

-----------------------------------------------------------------------------
(* Virtual channels: the invariant and the theorems.                       *)

Mirrored == Wire /\ (\E x : Seen(x) /\ Corr(x)) /\ (Whole => OnlyMessages)

\* A message is in two chunks only if the host splits any.
Halves == \A id \in Ids : host.chan[id].half => Given("splits")

ChannelsInv == ChannelTypes /\ Setup /\ Halves /\ (Keeps => Mirrored)

\* The first state.
LEMMA ChannelsInvInit == ChannelsInit => ChannelsInv
<1> SUFFICES ASSUME ChannelsInit PROVE ChannelsInv
  OBVIOUS
<1>1. ChannelTypes /\ host \in HostType
  BY ChannelTypesInit DEF ChannelTypes
<1>2. /\ byId = [i \in Ids |-> NoName] /\ role = [r \in Roles |-> NoId]
      /\ cams = [i \in Ids |-> 0]
      /\ svc = [s \in Static |-> <<>>] /\ reasm = [i \in Ids |-> <<>>]
      /\ heard = [s \in Static |-> <<>>] /\ got = [n \in Instances |-> <<>>]
      /\ down = <<>> /\ up = <<>>
      /\ host.chan = [i \in Ids |-> Idle] /\ host.made = 0 /\ host.sent = [s \in Static |-> 0]
  BY DEF ChannelsInit
<1>3. DOMAIN down = {} /\ DOMAIN up = {} /\ Len(down) = 0
  BY <1>2
<1>4. Setup
  BY <1>3 DEF Setup
<1>5. Wire
  <2>1. \A i \in Ids : host.chan[i].st = "none" /\ byId[i] = NoName
    BY <1>2, IdleFacts
  <2>2. WireHost
    BY <2>1 DEF WireHost
  <2> QED
    BY <1>3, <2>2 DEF Wire, WireDown, WireUp
<1>6. PICK x \in View : x = ViewOf(host)
  BY <1>1, ViewOfFacts
<1>7. Seen(x)
  <2>1. PICK v : v = [i \in 1..1 |-> x]
    OBVIOUS
  <2>2. v \in [1..(Len(down) + 1) -> View] /\ v[Len(down) + 1] = x /\ v[1] = x
    BY <1>3, <2>1
  <2> QED
    BY <1>3, <1>6, <2>2 DEF Seen, Views
<1>8. Corr(x)
  <2>1. svc = x.open
    <3>1. \A s \in Static : OpenOf(host, s) = <<>>
      BY <1>2 DEF OpenOf
    <3>2. x.open = [s \in Static |-> OpenOf(host, s)]
      BY <1>1, <1>6, ViewOfFacts
    <3> QED
      BY <1>2, <3>1, <3>2
  <2>2. Tables(x)
    BY <1>2 DEF Tables
  <2>3. \A i \in Ids : x.chan[i].inst = 0 /\ ~x.chan[i].half
    <3>1. \A i \in Ids : x.chan[i] = Bare(Idle)
      <4>1. \A i \in Ids : x.chan[i] = Bare(host.chan[i])
        BY <1>1, <1>6, ViewOfFacts
      <4> QED
        BY <1>2, <4>1
    <3> QED
      BY <3>1, IdleFacts, BareFacts
  <2>4. Numbered(x)
    <3>1. x.made = 0
      BY <1>1, <1>2, <1>6, ViewOfFacts
    <3> QED
      BY <1>2, <2>3, <3>1 DEF Numbered
  <2>5. Contents(x)
    BY <1>2 DEF Contents
  <2> QED
    BY <2>1, <2>2, <2>4, <2>5 DEF Corr
<1>9. OnlyMessages
  <2>1. \A n \in Instances : DOMAIN got[n] = {}
    BY <1>2
  <2>2. \A s \in Static : DOMAIN heard[s] = {}
    BY <1>2
  <2> QED
    BY <2>1, <2>2 DEF OnlyMessages
<1>10. Halves
  BY <1>2, IdleFacts DEF Halves
<1> QED
  BY <1>1, <1>4, <1>5, <1>7, <1>8, <1>9, <1>10 DEF ChannelsInv, Mirrored

\* The set-up.
LEMMA SetupStep ==
  ASSUME ChannelTypes, Setup, [ChannelsNext]_channelsVars
  PROVE  Setup'
<1>1. CASE OnStatic
  <2>1. /\ down # <<>> /\ down' = Tail(down) /\ host' = host /\ Head(down) = down[1]
        /\ 1 \in DOMAIN down
    <3>1. Takes("static") /\ down \in Seq(DownType)
      BY <1>1 DEF OnStatic, ChannelTypes
    <3> QED
      BY <3>1, Taken, Popped
  <2>2. \A k \in DOMAIN up' :
           \/ k \in DOMAIN up /\ up'[k] = up[k]
           \/ Ended(up'[k].kind) = NoName \/ Reached(host, Ended(up'[k].kind))
    <3>1. Final(down[1]) => Reached(host, down[1].part.msg)
      BY <2>1 DEF Setup
    <3> QED
      BY <1>1, <2>1, <3>1, StaticReplies DEF Final
  <2> QED
    BY <2>1, <2>2, PopSetup
<1>2. CASE OnCreate
  <2>1. PICK answer \in {"accept", "refuse"} : Send(<<answer>>, Head(down).id)
    BY <1>2 DEF OnCreate
  <2>2. /\ down # <<>> /\ down' = Tail(down) /\ host' = host /\ Head(down).id \in Ids \cup {NoId}
    <3>1. Takes("create")
      BY <1>2 DEF OnCreate
    <3> QED
      BY <3>1, Taken, DownKinds
  <2> DEFINE ks == <<answer>>
  <2>3. ks \in Seq(ReplyKinds) /\ Len(ks) = 1 /\ ks[1] = answer /\ up \in Seq(UpType)
        /\ Send(ks, Head(down).id)
    BY <2>1 DEF ReplyKinds, ChannelTypes
  <2> HIDE DEF ks
  <2>4. /\ Len(up) \in Nat /\ DOMAIN up = 1..Len(up) /\ DOMAIN up' = 1..(Len(up) + Len(ks))
        /\ \A k \in DOMAIN up : up'[k] = up[k]
        /\ \A k \in 1..Len(ks) : up'[Len(up) + k] = [kind |-> ks[k], id |-> Head(down).id]
    BY <2>2, <2>3, Answered
  <2>5. up'[Len(up) + 1].kind = answer
    BY <2>3, <2>4
  <2>6. Ended(answer) = NoName
    BY DEF Ended
  <2>7. \A k \in DOMAIN up' : (k \in DOMAIN up /\ up'[k] = up[k]) \/ Ended(up'[k].kind) = NoName
    BY <2>3, <2>4, <2>5, <2>6
  <2> QED
    BY <2>2, <2>7, PopSetup
<1>3. CASE OnClose
  <2>1. Takes("close") /\ up' = up
    BY <1>3 DEF OnClose
  <2>2. down # <<>> /\ down' = Tail(down) /\ host' = host
    BY <2>1, Taken
  <2> QED
    BY <2>1, <2>2, PopSetup
<1>4. CASE OnData
  <2>1. Takes("data") /\ up' = up
    BY <1>4 DEF OnData
  <2>2. down # <<>> /\ down' = Tail(down) /\ host' = host
    BY <2>1, Taken
  <2> QED
    BY <2>1, <2>2, PopSetup
<1>5. CASE HostRedirects
  BY <1>5, RedirectsSetup
<1>6. CASE HostCopies
  <2> DEFINE m == [kind |-> "static", channel |-> "cliprdr",
                   part |-> Part(0, "copy", host.sent["cliprdr"] + 1, 2, 0)]
  <2>1. Emits(m) /\ host'.step = host.step /\ ~Final(m)
    BY <1>6, CopiesFacts DEF Final
  <2>2. host'.sent["rdpdr"] = host.sent["rdpdr"]
    <3>1. host.sent \in [Static -> 0..2]
      BY HostParts DEF ChannelTypes
    <3>2. host'.sent = [host.sent EXCEPT !["cliprdr"] = IF host.sent["cliprdr"] + 1 = 1 THEN 1 ELSE 0]
      BY <1>6, CopiesFacts
    <3> QED
      BY <3>1, <3>2 DEF Static
  <2> HIDE DEF m
  <2> QED
    BY <2>1, <2>2, EmitSetup
<1>7. CASE HostTakes
  BY <1>7, TakesSetup
<1>8. ASSUME NEW id \in Ids, HostWrites(id) PROVE Setup'
  <2>1. PICK of \in {1, 2} : Emits([kind |-> "data", id |-> id, part |-> NextPart(host.chan[id], of)])
    BY <1>8, WritesFacts
  <2>2. host'.step = host.step /\ host'.sent = host.sent
    BY <1>8, WritesFacts
  <2> QED
    BY <2>1, <2>2, EmitSetup DEF Final
<1>9. ASSUME NEW id \in Ids, HostClosesChannel(id) PROVE Setup'
  BY <1>9, ClosesFacts, EmitSetup DEF Final
<1>10. ASSUME NEW id \in Ids, NEW n \in Names, HostCreates(id, n) PROVE Setup'
  BY <1>10, CreatesFacts, EmitSetup DEF Final
<1>11. CASE UNCHANGED channelsVars
  BY <1>11 DEF Setup, Final, Reached, Ended, Rank, channelsVars
<1> QED
  BY <1>1, <1>2, <1>3, <1>4, <1>5, <1>6, <1>7, <1>8, <1>9, <1>10, <1>11
     DEF ChannelsNext, Client, ChannelsRest

\* The client takes what it has not seen yet.
LEMMA ClientMirrors ==
  ASSUME ChannelTypes, Keeps, Mirrored, Client
  PROVE  Mirrored'
<1>1. PICK x : Seen(x) /\ Corr(x)
  BY DEF Mirrored
<1>2. Wire /\ (Whole => OnlyMessages)
  BY DEF Mirrored
<1>3. PICK kind : Takes(kind)
  BY DEF Client, OnStatic, OnCreate, OnClose, OnData
<1>4. /\ down # <<>> /\ down' = Tail(down) /\ UNCHANGED <<setting, host>> /\ Head(down) = down[1]
      /\ 1 \in DOMAIN down
  <2>1. down \in Seq(DownType)
    BY DEF ChannelTypes
  <2> QED
    BY <1>3, <2>1, Taken, Popped
<1>5. x \in View /\ \E y \in View : Follows(x, Head(down), y) /\ Seen(y)'
  BY <1>1, <1>4, SeenPop
<1>6. PICK y \in View : Follows(x, Head(down), y) /\ Seen(y)'
  BY <1>5
<1>7. CASE OnStatic
  <2>1. Wire' /\ Corr(y)' /\ (OnlyMessages => OnlyMessages')
    BY <1>1, <1>2, <1>5, <1>6, <1>7, StaticWire, StaticCorr, StaticMessages
  <2> QED
    BY <1>2, <1>4, <1>6, <2>1, SettingSame DEF Mirrored
<1>8. CASE OnCreate
  <2>1. byId[Head(down).id] # NoName =>
          Given("takesOver") /\ LosesDisplay(Head(down).id, Head(down).name)
    BY <1>1, <1>2, <1>5, <1>6, <1>8, CreateOver
  <2>2. Wire'
    BY <1>2, <1>8, <2>1, CreateWire
  <2>3. Corr(y)'
    BY <1>1, <1>5, <1>6, <1>8, <2>1, CreateCorr
  <2>4. OnlyMessages => OnlyMessages'
    BY <1>8 DEF OnCreate, OnlyMessages
  <2> QED
    BY <1>2, <1>4, <1>6, <2>2, <2>3, <2>4, SettingSame DEF Mirrored
<1>9. CASE OnClose
  <2>1. Wire' /\ Corr(y)'
    BY <1>1, <1>2, <1>5, <1>6, <1>9, CloseWire, CloseCorr
  <2>2. OnlyMessages => OnlyMessages'
    BY <1>9 DEF OnClose, OnlyMessages
  <2> QED
    BY <1>2, <1>4, <1>6, <2>1, <2>2, SettingSame DEF Mirrored
<1>10. CASE OnData
  <2>1. byId[Head(down).id] # NoName /\ (Head(down).part.of = 2 => Given("splits"))
    <3>1. Takes("data")
      BY <1>10 DEF OnData
    <3>2. Head(down).kind = "data" /\ Fits(Head(down))
      BY <1>2, <1>4, <3>1 DEF Wire, WireDown, Takes
    <3> QED
      BY <3>2 DEF Fits
  <2>2. Wire'
    BY <1>2, <1>10, DataWire
  <2>3. Corr(y)' /\ (Whole /\ OnlyMessages => OnlyMessages')
    BY <1>1, <1>5, <1>6, <1>10, <2>1, DataCorr
  <2> QED
    BY <1>2, <1>4, <1>6, <2>2, <2>3, SettingSame DEF Mirrored
<1> QED
  BY <1>7, <1>8, <1>9, <1>10 DEF Client

\* The host sends what the client will see.
LEMMA EmitMirrors ==
  ASSUME ChannelTypes, Mirrored, NEW m, Emits(m), host' \in HostType, Wire',
         Follows(ViewOf(host), m, ViewOf(host'))
  PROVE  Mirrored'
<1>1. PICK x : Seen(x) /\ Corr(x)
  BY DEF Mirrored
<1>2. Seen(x)'
  BY <1>1, SeenPush
<1>3. Corr(x)'
  BY <1>1, CorrSame DEF Emits
<1>4. Whole' => OnlyMessages'
  <2>1. Whole' => Whole
    BY DEF Emits, SameSetting, Whole, Given
  <2> QED
    BY <2>1 DEF Mirrored, Emits, ClientSame, OnlyMessages
<1> QED
  BY <1>2, <1>3, <1>4 DEF Mirrored

\* The chunks of the host.
LEMMA HalvesStep ==
  ASSUME ChannelTypes, Halves, [ChannelsNext]_channelsVars
  PROVE  Halves'
<1>0. host \in HostType /\ host.chan \in [Ids -> ChanType]
  BY HostParts DEF ChannelTypes
<1>1. SUFFICES /\ \A h : Given(h)' <=> Given(h)
               /\ \A id \in Ids : host'.chan[id].half => host.chan[id].half \/ Given("splits")
  BY DEF Halves
<1>2. CASE Client
  BY <1>2 DEF Client, OnStatic, OnCreate, OnClose, OnData, Takes, Given
<1>3. CASE HostRedirects
  BY <1>3, RedirectsFacts DEF Emits, SameSetting, Given
<1>4. CASE HostCopies
  BY <1>4, CopiesFacts DEF Emits, SameSetting, Given
<1>5. CASE HostTakes
  <2>1. \A id \in Ids : host'.chan[id].half = host.chan[id].half
    <3>1. CASE Head(up).kind \in {"accept", "refuse"}
      BY <1>0, <1>5, <3>1, TakesTypes DEF ChanType
    <3>2. CASE Head(up).kind \notin {"accept", "refuse"}
      BY <1>5, <3>2, TakesTypes
    <3> QED
      BY <3>1, <3>2
  <2> QED
    BY <1>5, <2>1, HostTakesFacts DEF Given
<1>6. ASSUME NEW id \in Ids, HostWrites(id)
      PROVE  /\ \A h : Given(h)' <=> Given(h)
             /\ \A j \in Ids : host'.chan[j].half => host.chan[j].half \/ Given("splits")
  <2>1. PICK of \in {1, 2} :
          /\ ~host.chan[id].half /\ of = 2 => Given("splits")
          /\ Emits([kind |-> "data", id |-> id, part |-> NextPart(host.chan[id], of)])
          /\ host'.chan = [host.chan EXCEPT ![id] = Written(host.chan[id], of)]
    BY <1>6, WritesFacts
  <2>2. host.chan[id] \in ChanType
    BY <1>0
  <2>3. Written(host.chan[id], of).half = (~host.chan[id].half /\ of = 2)
    BY <2>2, WrittenType
  <2>4. ASSUME NEW j \in Ids PROVE host'.chan[j].half => host.chan[j].half \/ Given("splits")
    BY <1>0, <2>1, <2>3
  <2> QED
    BY <2>1, <2>4 DEF Emits, SameSetting, Given
<1>7. ASSUME NEW id \in Ids, HostClosesChannel(id)
      PROVE  /\ \A h : Given(h)' <=> Given(h)
             /\ \A j \in Ids : host'.chan[j].half => host.chan[j].half \/ Given("splits")
  <2>1. \A j \in Ids : host'.chan[j].half => host.chan[j].half
    BY <1>0, <1>7, ClosesFacts, IdleFacts
  <2> QED
    BY <1>7, <2>1, ClosesFacts DEF Emits, SameSetting, Given
<1>8. ASSUME NEW id \in Ids, NEW name \in Names, HostCreates(id, name)
      PROVE  /\ \A h : Given(h)' <=> Given(h)
             /\ \A j \in Ids : host'.chan[j].half => host.chan[j].half \/ Given("splits")
  <2>1. host'.chan = [host.chan EXCEPT ![id] = Created(name, host.made + 1, "asked")]
    BY <1>8, CreatesFacts
  <2>2. \A j \in Ids : host'.chan[j].half => host.chan[j].half
    BY <1>0, <2>1 DEF Created
  <2>3. Emits([kind |-> "create", id |-> id, name |-> name, inst |-> host.made + 1])
    BY <1>8, CreatesFacts
  <2> QED
    BY <2>2, <2>3 DEF Emits, SameSetting, Given
<1>9. CASE UNCHANGED channelsVars
  BY <1>9 DEF channelsVars, Given
<1> QED
  BY <1>2, <1>3, <1>4, <1>5, <1>6, <1>7, <1>8, <1>9 DEF ChannelsNext, ChannelsRest

\* Every step keeps what the client has and what is on the way in line.
LEMMA MirroredStep ==
  ASSUME ChannelTypes, Setup, Halves, Keeps, Mirrored, [ChannelsNext]_channelsVars
  PROVE  Mirrored'
<1>0. Wire /\ host \in HostType /\ host.chan \in [Ids -> ChanType]
  BY HostParts DEF Mirrored, ChannelTypes
<1>1. CASE Client
  BY <1>1, ClientMirrors
<1>2. CASE HostRedirects
  <2> DEFINE no == host.sent["rdpdr"] + 1
  <2>1. no \in {1, 2} /\ host' \in HostType /\ host'.chan = host.chan /\ host'.made = host.made
    BY <1>2, RedirectsFacts
  <2>2. PICK of \in {1, 2} :
          /\ no = 2 => of = 2
          /\ Emits([kind |-> "static", channel |-> "rdpdr", part |-> Part(0, host.step, no, of, 0)])
          /\ \/ /\ no < of /\ host'.step = host.step
                /\ host'.sent = [host.sent EXCEPT !["rdpdr"] = 1]
             \/ /\ no = of /\ host.step = "confirm" /\ host'.step = "logon"
                /\ host'.sent = [host.sent EXCEPT !["rdpdr"] = 0]
             \/ /\ no = of /\ host.step # "confirm" /\ host'.step = host.step
                /\ host'.sent = [host.sent EXCEPT !["rdpdr"] = 2]
    BY <1>2, RedirectsFacts
  <2> DEFINE m == [kind |-> "static", channel |-> "rdpdr", part |-> Part(0, host.step, no, of, 0)]
  <2>3. Follows(ViewOf(host), m, ViewOf(host'))
    <3>1. host.sent["rdpdr"] < 2
      BY <1>2 DEF HostRedirects
    <3> QED
      BY <2>1, <2>2, <3>1, RedirectsFollows
  <2>4. m.kind = "static" /\ Emits(m)
    BY <2>2
  <2> HIDE DEF m
  <2>5. Wire'
    BY <1>0, <2>1, <2>4, EmitWire
  <2> QED
    BY <2>1, <2>3, <2>4, <2>5, EmitMirrors
<1>3. CASE HostCopies
  <2> DEFINE m == [kind |-> "static", channel |-> "cliprdr",
                   part |-> Part(0, "copy", host.sent["cliprdr"] + 1, 2, 0)]
  <2>1. Emits(m) /\ host' \in HostType /\ host'.chan = host.chan /\ m.kind = "static"
    BY <1>3, CopiesFacts
  <2>2. Follows(ViewOf(host), m, ViewOf(host'))
    BY <1>3, CopiesFollows
  <2> HIDE DEF m
  <2>3. Wire'
    BY <1>0, <2>1, EmitWire
  <2> QED
    BY <2>1, <2>2, <2>3, EmitMirrors
<1>4. CASE HostTakes
  <2>1. Wire'
    BY <1>0, <1>4, TakesWire
  <2>2. /\ ClientSame /\ UNCHANGED <<setting, down>> /\ up # <<>> /\ up \in Seq(UpType)
        /\ Head(up) = up[1]
    BY <1>4, HostTakesFacts DEF ChannelTypes
  <2>3. 1 \in DOMAIN up
    BY <2>2, Popped
  <2>4. ViewOf(host') = ViewOf(host)
    BY <1>4, <2>2, <2>3, TakesView DEF Setup
  <2>5. SameSetting
    BY <2>2 DEF SameSetting, ChannelTypes
  <2>6. PICK x : Seen(x) /\ Corr(x)
    BY DEF Mirrored
  <2>7. Seen(x)'
    BY <2>2, <2>4, <2>6, SeenSame
  <2>8. Corr(x)'
    BY <2>2, <2>5, <2>6, CorrSame
  <2>9. Whole' => OnlyMessages'
    BY <2>2, SettingSame DEF Mirrored, ClientSame, OnlyMessages
  <2> QED
    BY <2>1, <2>7, <2>8, <2>9 DEF Mirrored
<1>5. ASSUME NEW id \in Ids, HostWrites(id) PROVE Mirrored'
  <2>1. /\ host.chan[id].st = "open" /\ host.chan[id] \in ChanType /\ host' \in HostType
        /\ host'.made = host.made /\ host'.step = host.step /\ host'.sent = host.sent
    BY <1>5, WritesFacts
  <2>2. PICK of \in {1, 2} :
          /\ host.chan[id].half => of = 2
          /\ ~host.chan[id].half /\ of = 2 => Given("splits")
          /\ Emits([kind |-> "data", id |-> id, part |-> NextPart(host.chan[id], of)])
          /\ host'.chan = [host.chan EXCEPT ![id] = Written(host.chan[id], of)]
    BY <1>5, WritesFacts
  <2> DEFINE m == [kind |-> "data", id |-> id, part |-> NextPart(host.chan[id], of)]
  <2>3. Follows(ViewOf(host), m, ViewOf(host'))
    BY <2>1, <2>2, WritesFollows
  <2>4. Emits(m) /\ m.kind = "data" /\ m.id = id /\ m.part.of = of
    BY <2>2 DEF NextPart, Part
  <2>5. \A j \in Ids : host'.chan[j].st = host.chan[j].st
    BY <1>0, <2>1, <2>2, WrittenType
  <2>6. of = 2 => Given("splits")
    BY <2>2 DEF Halves
  <2> HIDE DEF m
  <2>7. Wire'
    BY <1>0, <2>1, <2>4, <2>5, <2>6, EmitWire
  <2> QED
    BY <2>1, <2>3, <2>4, <2>7, EmitMirrors
<1>6. ASSUME NEW id \in Ids, HostClosesChannel(id) PROVE Mirrored'
  <2> DEFINE m == [kind |-> "close", id |-> id]
  <2>1. /\ host.chan[id].st = "open" /\ host' \in HostType
        /\ host'.chan = [host.chan EXCEPT ![id] = Idle]
        /\ Emits(m) /\ m.kind = "close" /\ m.id = id
    BY <1>6, ClosesFacts
  <2>2. Follows(ViewOf(host), m, ViewOf(host'))
    BY <1>6, ClosesFollows
  <2>3. host'.chan[id].st = "none" /\ \A j \in Ids : j # id => host'.chan[j].st = host.chan[j].st
    BY <1>0, <2>1, IdleFacts
  <2> HIDE DEF m
  <2>4. Wire'
    BY <1>0, <2>1, <2>3, EmitWire
  <2> QED
    BY <2>1, <2>2, <2>4, EmitMirrors
<1>7. ASSUME NEW id \in Ids, NEW name \in Names, HostCreates(id, name) PROVE Mirrored'
  <2> DEFINE c == Created(name, host.made + 1, "asked")
  <2> DEFINE m == [kind |-> "create", id |-> id, name |-> name, inst |-> host.made + 1]
  <2>1. /\ host' \in HostType /\ host'.chan = [host.chan EXCEPT ![id] = c]
        /\ Emits(m) /\ m.kind = "create" /\ m.id = id /\ m.name = name
        /\ name \in setting.names
        /\ \/ host.chan[id].st \in {"none", "refused"}
           \/ host.chan[id].st = "open" /\ Given("takesOver")
    BY <1>7, CreatesFacts
  <2>2. Follows(ViewOf(host), m, ViewOf(host'))
    BY <1>7, CreatesFollows
  <2>3. c.st = "asked"
    BY DEF Created
  <2> HIDE DEF c, m
  <2>4. host'.chan[id].st = "asked" /\ \A j \in Ids : j # id => host'.chan[j].st = host.chan[j].st
    BY <1>0, <2>1, <2>3
  <2>5. Wire'
    BY <1>0, <2>1, <2>4, EmitWire
  <2> QED
    BY <2>1, <2>2, <2>5, EmitMirrors
<1>8. CASE UNCHANGED channelsVars
  <2>1. /\ ClientSame /\ UNCHANGED <<setting, down, up, host>> /\ SameSetting
        /\ ViewOf(host') = ViewOf(host)
    BY <1>8 DEF channelsVars, tables, ClientSame, SameSetting, ChannelTypes
  <2>2. PICK x : Seen(x) /\ Corr(x)
    BY DEF Mirrored
  <2>3. Seen(x)'
    BY <2>1, <2>2, SeenSame
  <2>4. Corr(x)'
    BY <2>1, <2>2, CorrSame
  <2>5. Whole' => OnlyMessages'
    BY <2>1, SettingSame DEF Mirrored, ClientSame, OnlyMessages
  <2>6. Wire'
    BY <1>0, <1>8 DEF Wire, WireDown, WireUp, WireHost, Fits, Before, On, Settles, IsReply,
                      Closing, Replied, Given, channelsVars, tables
  <2> QED
    BY <2>3, <2>4, <2>5, <2>6 DEF Mirrored
<1> QED
  BY <1>1, <1>2, <1>3, <1>4, <1>5, <1>6, <1>7, <1>8 DEF ChannelsNext, ChannelsRest

\* What the host may do does not change.
LEMMA KeepsStep ==
  ASSUME ChannelTypes, [ChannelsNext]_channelsVars
  PROVE  SameSetting
<1>1. CASE Client
  BY <1>1 DEF Client, OnStatic, OnCreate, OnClose, OnData, Takes, SameSetting, ChannelTypes
<1>2. CASE HostRedirects
  BY <1>2, RedirectsFacts DEF Emits
<1>3. CASE HostCopies
  BY <1>3, CopiesFacts DEF Emits
<1>4. CASE HostTakes
  BY <1>4, HostTakesFacts DEF SameSetting, ChannelTypes
<1>5. ASSUME NEW id \in Ids, HostWrites(id) PROVE SameSetting
  BY <1>5, WritesFacts DEF Emits
<1>6. ASSUME NEW id \in Ids, HostClosesChannel(id) PROVE SameSetting
  BY <1>6, ClosesFacts DEF Emits
<1>7. ASSUME NEW id \in Ids, NEW name \in Names, HostCreates(id, name) PROVE SameSetting
  BY <1>7, CreatesFacts DEF Emits
<1>8. CASE UNCHANGED channelsVars
  BY <1>8 DEF channelsVars, SameSetting, ChannelTypes
<1> QED
  BY <1>1, <1>2, <1>3, <1>4, <1>5, <1>6, <1>7, <1>8 DEF ChannelsNext, ChannelsRest

\* Every step keeps the invariant.
LEMMA ChannelsInvStep ==
  ASSUME ChannelsInv, [ChannelsNext]_channelsVars
  PROVE  ChannelsInv'
<1>1. ChannelTypes /\ Setup /\ Halves /\ (Keeps => Mirrored)
  BY DEF ChannelsInv
<1>2. ChannelTypes' /\ Setup' /\ Halves'
  BY <1>1, ChannelTypesStep, SetupStep, HalvesStep
<1>3. Keeps' => Keeps
  BY <1>1, KeepsStep DEF SameSetting, Keeps, Given
<1>4. Keeps => Mirrored'
  BY <1>1, MirroredStep
<1> QED
  BY <1>2, <1>3, <1>4 DEF ChannelsInv

\* The inductive invariant.
THEOREM ChannelsInvHolds == ChannelsSpec => []ChannelsInv
BY ChannelsInvInit, ChannelsInvStep, PTL DEF ChannelsSpec

\* With nothing on the way a role is held by the host's channel of that name.
LEMMA QuiescentRoles ==
  ASSUME ChannelTypes, Mirrored
  PROVE  RolesMatch
<1> SUFFICES ASSUME Quiescent, NEW r \in Roles, role[r] # NoId
             PROVE  host.chan[role[r]].name = r
  BY DEF RolesMatch
<1>1. PICK x : Seen(x) /\ Corr(x)
  BY DEF Mirrored
<1>2. x = ViewOf(host) /\ host \in HostType /\ host.chan \in [Ids -> ChanType]
  BY <1>1, SeenEnd, HostParts DEF Quiescent, ChannelTypes
<1>3. role[r] \in Ids /\ byId[role[r]] = r /\ r # NoName
  BY <1>1 DEF Corr, Tables, ChannelTypes, Roles, NoName
<1>4. x.chan[role[r]].name = r
  BY <1>1, <1>3 DEF Corr, Tables
<1>5. host.chan[role[r]] \in ChanType /\ x.chan[role[r]] = Bare(host.chan[role[r]])
  BY <1>2, <1>3, ViewOfFacts
<1> QED
  BY <1>4, <1>5, BareFacts

\* With nothing on the way every finished message of a channel has been given.
LEMMA QuiescentMessages ==
  ASSUME ChannelTypes, Mirrored, Whole
  PROVE  AllMessages
<1> SUFFICES ASSUME Quiescent, NEW id \in Ids, host.chan[id].st = "open", Served(host.chan[id].name)
             PROVE  Len(got[host.chan[id].inst]) =
                      host.chan[id].msg - (IF host.chan[id].half THEN 1 ELSE 0)
  BY DEF AllMessages
<1>1. PICK x : Seen(x) /\ Corr(x)
  BY DEF Mirrored
<1>2. x = ViewOf(host) /\ host \in HostType /\ host.chan \in [Ids -> ChanType]
  BY <1>1, SeenEnd, HostParts DEF Quiescent, ChannelTypes
<1>3. byId[id] # NoName
  BY DEF Mirrored, Wire, WireHost
<1>4. Content(x.chan[id], id)
  BY <1>1, <1>3 DEF Corr, Contents
<1>5. host.chan[id] \in ChanType /\ x.chan[id] = Bare(host.chan[id])
  BY <1>2, ViewOfFacts
<1>6. /\ x.chan[id].name = host.chan[id].name /\ x.chan[id].inst = host.chan[id].inst
      /\ x.chan[id].msg = host.chan[id].msg /\ x.chan[id].half = host.chan[id].half
  BY <1>5, BareFacts
<1> QED
  BY <1>4, <1>6 DEF Content

\* The types of every variable hold in all states.
THEOREM ChannelsTyped == ChannelsSpec => []ChannelsTypeOK
<1>1. ChannelsInv => ChannelsTypeOK
  BY ChannelTypeOKHolds DEF ChannelsInv
<1> QED
  BY <1>1, ChannelsInvHolds, PTL

\* What the client holds for a role is, with nothing on the way, a channel that the
\* host has under that name (_dvcOnCreate, _dvcOnClose), for any ids, however many
\* channels are created, and whatever is on the way before.  An id is taken over
\* from Display Control only, and only by a channel that is refused: that is the
\* case the code handles.
THEOREM RolesAreTheHosts == ChannelsSpec => [](Keeps => ChannelsCoherent)
<1>1. ChannelsInv => (Keeps => ChannelsCoherent)
  BY ChannelTypeOKHolds, QuiescentRoles DEF ChannelsInv, ChannelsCoherent
<1> QED
  BY <1>1, ChannelsInvHolds, PTL

\* Handlers are given the messages of their own channels, whole and in order, and
\* with nothing on the way all of them (_reassembleSvc, _dvcOnData, _dvcOnClose),
\* also when the id had a channel before that was closed in the middle of a
\* message.  A channel that is taken over, not closed, has none half sent.
THEOREM MessagesAreDelivered == ChannelsSpec => [](Keeps /\ Whole => Delivered)
<1>1. ChannelsInv => (Keeps /\ Whole => Delivered)
  BY QuiescentMessages DEF ChannelsInv, Mirrored, Delivered
<1> QED
  BY <1>1, ChannelsInvHolds, PTL

=============================================================================
