# ZeroVDI in TLA+

This directory holds TLA+ models of ZeroVDI, a gateway that brokers remote desktops: users connect
with a browser, the gateway starts (or clones) a virtual machine on Proxmox, reaches it directly or
through a connector agent, and relays RDP to an RDP client written in JavaScript that runs on the page. The
models are translated from the C# source under `src/KSol.ZeroVDI` and `src/KSol.ZeroVDI.Connector` and the
JavaScript under `src/KSol.ZeroVDI/wwwroot/lib/rdpweb`; `PROJECT.json` names the lines each definition stands
for, the runs, the mutants that show each property can fail, and the theorems.

Paths below are relative to `src/KSol.ZeroVDI/` unless they start with `src/`; files of the browser client
are in `wwwroot/lib/rdpweb/`.

## 1. The system

The gateway is one ASP.NET process with an SQL database (Entity Framework), several hosted background
services, and in-memory registries. It is deployed as a single instance
(`wwwroot/docs/admin/getting-started/architecture.md`): locks and registries live in its memory and are
lost when it restarts; rows, VMs and Proxmox tasks are not.

| Component | State it keeps | Operations | Talks to |
|---|---|---|---|
| VDI provisioning and reconciliation (`RDP/VdiProvisioningService.cs`, `RDP/VdiReconcileService.cs`, `Models/VdiInstance.cs`, `RDP/ProxmoxNotes.cs`) | `VdiInstances` and clone `RDPResource` rows; a lock per (pool, user); a global VMID lock | `EnsureResourceForUserAsync`, `SafeDestroyInstanceVmAsync`, `ReconcileAsync` every two minutes | Proxmox client, database |
| Proxmox API client (`RDP/ProxmoxClient.cs`) | none; the cluster has VMs, notes, tasks | list, clone, wait, task status, notes, destroy, power | Proxmox, or a connector tunnel |
| VDI pool administration (`Controllers/VdiPoolsController.cs`) | pools, entitlements | edit, delete a pool, deprovision a desktop | provisioning service |
| Connector hub and agent (`RDP/ConnectorHub.cs`, `RDP/ConnectorAgentEndpoints.cs`, `RDP/WebSocketStream.cs`, `src/KSol.ZeroVDI.Connector/Agent.cs`) | the control channel of each connector, pending requests, pending data channels | register, control, data endpoints; open-tcp; probe | path selection, RDP relay, Proxmox client |
| Connector path selection (`RDP/ConnectorPathSelector.cs`, `RDP/IHostTransport.cs`) | a cache of the fastest path per host | select, race of probes, scope test | hub |
| Readiness jobs (`RDP/ConnectionReadinessService.cs`, `RDP/VdiResourceResolver.cs`, `RDP/RdpPortProbe.cs`) | one job per (user, resource), its progress | begin, status, recent-ready, reap; the readiness sequence | provisioning, Proxmox, path selection |
| Sessions (`Controllers/RdpWebSocketController.cs`, `RDP/SessionTracker.cs`, `RDP/RedirectionTokenCache.cs`) | live sessions, redirect tokens | connect, register, remove, force a disconnect, continue after a redirect | relay, recorder, reaper |
| Idle reaper and power control (`RDP/IdleReaperService.cs`, `RDP/ResourceShutdownService.cs`, `RDP/ResourceStatusService.cs`) | power state and last activity of a resource, missed probes | scan, pause, shut down; status scan | sessions, Proxmox, path selection |
| RDP relay (`RDP/RdpRelaySession.cs`, `RDP/RdpHostConnection.cs`) | two pumps, a byte budget, a send lock | run, redirect, sample round trips | browser, host |
| Channel policy (`RDP/ChannelPolicyGuard.cs`, `RDP/DevicePolicyService.cs`, `RDP/RedirectionTargetPolicy.cs`) | announced channels, fragment state | inspect client and server messages | relay |
| Inventory synchronisation (`RDP/ProxmoxSyncService.cs`) | Proxmox resources in the database | sync a backend: adopt, update, delete | Proxmox, provisioning rows |
| Recording (`RDP/SessionRecorder.cs`, `RDP/RecordingMuxService.cs`, `RDP/RecordingCryptor.cs`, `RDP/RecordingIntegrity.cs`, `RDP/RecordingRetentionService.cs`) | recording rows, legs on disk | record a leg, mux, verify, delete after retention | sessions |
| Access rules, MFA, account safety (`RDP/ResourceAccessService.cs`, `RDP/MfaPolicy.cs`, `RDP/AdminAccountSafety.cs`, `RDP/ExternalIdentityService.cs`) | users, groups, roles | who may connect, who must enrol, who may be removed | web pages |
| Browser: graphics pipeline (`rdpgfx.js`, `decode-worker.js`) | surfaces, bitmap cache, ordered queue, decode counters, frames to acknowledge, video decoders | dispatch a PDU, decode in a worker, paint, acknowledge | channels, canvas |
| Browser: RDP connection (`protocol.js`) | state, share, desktop sizes, reactivation flag | connection sequence, reactivation, layouts, measurements, end | relay, page |
| Browser: virtual channels (`protocol.js`) | channels by id, roles, handlers, unfinished messages, decompression contexts | create, close, data, device redirection set-up | graphics, sound, camera |
| Browser: webcam (`rdpecam.js`, `client.js`, `camera-worker.js`) | streams, owed samples, the webcam, frames in conversion | start, stop, sample, pause, prompt | channels |
| Browser: session and console page (`client.js`, `Views/Home/Console.cshtml`) | socket, flags of how a session ends, reconnect loop, form, settings | connect, redirect, tear down, reconnect, quit | gateway |
| Browser: clipboard (`cliprdr.js`, `client.js`, `Views/Home/Console.cshtml`) | the text that is announced, the request under way, the text box, what was exchanged last | announce, request, answer, synchronise with the local clipboard | channels, page |
| Browser: microphone (`audin.js`, `client.js`, `mic-worklet.js`) | agreed formats, the format that is open, prompt, capture graph | open, close, change format, capture, release | channels |
| Browser: sound (`rdpsnd.js`, `client.js`) | channel in use, formats, a wave in two PDUs, the timeline of the audio context | negotiate, train, play, confirm, move to a dynamic channel | channels |
| Browser: keyboard (`client.js`, `input/keymap.js`) | held keys, locks the host was told, the pending left Ctrl of AltGr | key events, focus changes, synchronisation, Ctrl+Alt+Del | connection |
| Browser: size and scale of the desktop (`client.js`, `Views/Home/Console.cshtml`) | canvas, steps of the initial scale, two timers | force the scale, follow the window | connection |
| Browser: mouse and pointer (`client.js`, `input/mouse.js`, `update/pointer.js`) | the move that waits for a frame, the measured canvas, listeners; cached pointers, the one shown, the parts of an update | moves, clicks, wheel, resizes, fast-path pointer updates | connection |
| Browser: codecs; desktop shell | see `PROJECT.json` | | |
| Service heartbeats, secret encryption, codecs and authentication of the gateway, web pages | see `PROJECT.json` | | |

### What is hard, and what makes each part correct

* **Provisioning.** Every service call has a `DbContext` of its own whose change tracker returns the copy
  of a row it saw first; a reconcile pass works on copies for minutes; Proxmox calls swallow their
  failures; clones outlive the call that started them; the process restarts in the middle. Correct means:
  one worker per (pool, user), one desktop per VMID, Ready only after the clone succeeded, no VM that was
  cloned is forgotten, no VM but one's own is destroyed, no usable desktop is thrown away, no row is stuck,
  and every connect is answered.
* **Connector hub.** Concurrent dictionaries instead of locks: the thread of an old channel cleans up while
  a new channel registers; requests are added while a connection is being faulted; replies, data channels
  and timeouts cross. Correct means: the registry follows the newest channel, a success is real, a waiting
  request's data channel is not turned away, every request ends.
* **Sessions, readiness and reaper.** Checks (session limit, active sessions) before awaits and
  registrations after them; progress callbacks posted out of order; continuation legs that may never come.
  The power state of a desktop is written by readiness runs, connects, the status scan and the reaper, each
  from what it read some awaits earlier. Correct means: a desktop in use is not paused and an idle one is in
  the end, its state is shown, limits hold, one session is tracked per leg, a recording is closed exactly once,
  a preflight ends.
* **Relay.** Two pumps and a writer share two sockets, a budget and a cancellation. Correct means: bytes in
  order, a bounded queue that neither leaks budget nor blocks for ever, both directions end together, messages
  are whole, and the browser learns how the leg ended.
* **Synchronisation and recording jobs.** Batch jobs over lists that grow old while they work, restarted at
  any point. Correct means: never delete what provisioning owns, each recording muxed once and not lost.
* **Graphics.** Decodes run in a worker and come back later, fills and copies do not; operations that came
  after a decode wait in a queue behind a counter. Acknowledgements wait for two counters and a timer.
  Correct means: the effect of PDUs is that of their order of arrival, the counters are exact whatever
  fails, no frame is acknowledged before it has landed and none is never acknowledged.
* **RDP connection.** One state variable and a pile of early returns decide what a PDU means. Correct means:
  client, host and page agree on the share, the size and the end, after any chain of reactivations.
* **Size and scale.** A new scale takes three layouts, each moved on by a reactivation or a timer, while the
  window may be resized too. Correct means: the host ends with the scale of the session, and host, canvas and
  window with one size.
* **Channels.** The host uses ids again, splits messages, compresses with a history per channel. Correct
  means: a handler gets the whole messages of its own channel and nothing else.
* **Webcam.** A permission prompt and two asynchronous stages per frame outlive the stream they belong to.
  Correct means: the webcam runs only for a stream of a present session, each owed sample is sent, in the
  size the host asked for.
* **Browser session.** Socket handlers, four timers and clicks interleave, and how a session ended is read
  from flags. Correct means: one session at a time, what is dropped is retried and what is over is not,
  quitting is final, and the page shows the session there is.
* **Clipboard, microphone, sound.** Both ends of a clipboard announce and fetch, crossing each other, while
  the page reads and writes the local one asynchronously; a microphone waits for a prompt and a worklet;
  sound changes its channel in mid-stream. Correct means: what is exchanged is taken for what it is, both
  clipboards agree at rest, the microphone runs only while the host has it open, blocks are played in order
  and confirmed.
* **Keyboard.** The client never sees the keyboard, only events, and loses some; Windows reports AltGr as two
  keys, macOS hides key releases under Command. Correct means: the host has down what the user holds, and
  takes a character with the modifiers and the lock the user means.
* **Mouse and pointer.** Moves wait for a frame and trust a measured canvas, clicks go at once; pointers come as
  bitmaps, as references to earlier ones and in parts. Correct means: at rest the host's mouse is the user's,
  a click lands where it was aimed, and the pointer shown is the host's, or the page's own after a session.
* **Rules.** Pure decisions (scope match, target policy, MFA, access). Correct means: equal to a reference
  definition for all small inputs.

## 2. Modules

| Module | Extends | What it is |
|---|---|---|
| `VdiProvisioning` | Integers, FiniteSets | connect path, reconcile loop, Deprovision, Proxmox |
| `MCVdiProvisioning` | VdiProvisioning | instances: who connects for whom, environments |
| `VdiProvisioningProofs` | VdiProvisioning, TLAPS | seven theorems about it |
| `ConnectorHub` | Integers, FiniteSets | control channels, requests, the agent |
| `MCConnectorHub` | ConnectorHub | instances: environments |
| `ConnectorHubProofs` | ConnectorHub, TLAPS | seven theorems about it |
| `ConsoleSession` | Integers, FiniteSets | legs of a session, session limit, recording, mux job, deletion |
| `DesktopPower` | ConsoleSession | the power of the desktop under those sessions: readiness, status scan, reaper |
| `MCConsoleSession` | DesktopPower | instances: desktops, settings |
| `DesktopPowerProofs` | DesktopPower, TLAPS | fourteen theorems about it and `ConsoleSession` |
| `RelaySession` | Integers, Sequences, FiniteSets | the relay of one leg: pumps, queue, budget, send lock, end |
| `MCRelaySession` | RelaySession | instances: environments |
| `RelaySessionProofs` | RelaySession, TLAPS | three theorems about it |
| `OrderedGfx` | Integers, FiniteSets, SequencesExt | what the graphics pipeline promises: PDUs take effect in order |
| `GfxPipeline` | Sequences, SequencesExt | the pipeline: page, worker, video decoders, timers; implements `OrderedGfx` |
| `RdpConnection` | Sequences, SequencesExt | the RDP connection of the browser and its host |
| `DesktopScale` | RdpConnection | the connection with the page's part: initial scale, resizes |
| `DesktopScaleProofs` | DesktopScale, FiniteSetTheorems, SequenceTheorems, TLAPS | three theorems about both |
| `RdpChannels` | Sequences, SequencesExt | static and dynamic virtual channels |
| `CameraCapture` | Integers, FiniteSets | the redirected webcam |
| `RedirectionProofs` | CameraCapture, RdpChannels, SequenceTheorems, TLAPS | five theorems about the two |
| `ClientSession` | Integers | sockets, teardown, reconnect loop and the console page |
| `BrowserProofs` | ClientSession, GfxPipeline, SequenceTheorems, FiniteSetTheorems, WellFoundedInduction, TLAPS | seven theorems about the two |
| `RedirectedSession` | Integers, Sequences, FiniteSets | what the modules below share: environment, state of the session |
| `Clipboard`, `Microphone`, `Keyboard` | RedirectedSession | one redirection each |
| `Sound` | RedirectedSession, SequencesExt | sound |
| `Pointer` | Keyboard | mouse and pointer |
| `SideChannels` | Clipboard, Microphone, Sound, Pointer | their composition over the ends and starts of a session |
| `MCSideChannels` | SideChannels | instances: environments |
| `SideChannelsProofs` | SideChannels, SequenceTheorems, TLAPS | eight theorems about it |
| `MCGfxPipeline`, `MCRdpConnection`, `MCRdpChannels`, `MCCameraCapture`, `MCClientSession` | the module of that name (`DesktopScale` for `MCRdpConnection`) | instances: environments |

The models follow one scheme. A behaviour starts in an *environment*, a set of things that may go wrong
(`Hazards`), and an action that stands for such a thing is enabled only if it is in the set (`May`). This
lets one run explore many kinds of trouble without multiplying them, and lets a property say under which
conditions it holds: `RecordedCloneKept`, for instance, starts with `env \subseteq {...} =>`. In the modules
of the browser client an environment also says how much the host and the user do. The theorems hold in
every environment.

### VdiProvisioning

A step is what runs between two awaits. A process (`pc`) is a connect request, an administrator's
Deprovision, or the reconcile loop.

* `row` is the `VdiInstances` table with the clone's `RDPResource`. A request inserts at most one row, so a
  row is named by that request; the resource id that is stamped into the VM notes is the same name. `state`
  is `VdiInstanceState` (the floating states `Leased` and `Returning` are never entered by this code),
  `upid` says whether `CloneUpid` is set, `stamped` is `NotesStamped`.
* `ent` is the tracked copy of a row in the `DbContext` of a call. `Query` returns that copy if there is
  one, which is what Entity Framework does when a second query finds the same key; a save writes only
  changed columns (`Marked`), and a save of a row that is gone throws. In the reconciler's context the
  failed entry stays and fails every later save of the pass (`poisoned`).
* `vm` and `task` are Proxmox: VMs with their notes, clone tasks. `ListVms`, `GetTaskStatus`, `SetNotes`,
  `DestroyVm`, `NextVmId`, `Post`, `WaitForTask` return what `ProxmoxClient` returns, including the empty
  list, null or false it makes of every failure.
* `gate` is `_locks`, `vmidGate` is `_vmidGate`. `Leave` is the `finally` that releases them, `Throw` an
  exception.
* The connect path is `Request` → `FastCheck` → `Enter` → `Recheck` → `Clear` → (`Stamp`) → `Verify` →
  `Destroy` → `Drop` → `Pick` → `Insert` → `Post` → `SaveUpid` → `WaitForTask` → `Finish` → `Identity` →
  `MarkReady`. The steps from `Stamp` to `Drop` and from `Finish` on are shared with the reconciler, the
  destroy also with Deprovision.
* The reconcile pass is `BeginPass` (all rows are loaded once), one of `Skip`, `ReconcileProvisioning`,
  `ReconcileDead`, `ReconcileLive` per row, `LiveStamp`/`LiveSave` for a missing stamp, `EndPass`.

Time is not counted. The two-minute guard for dead rows is `Skip`, which may pass over a row. The
twenty-minute guard for Provisioning rows is `Skip` plus `Young`: the pass does not see a row whose
request is still at work, which holds as long as a pass takes less than those twenty minutes; the
environment `longPass` gives that up. `slow` and `hang` let the five-minute wait and the two-hour cap run
out while a task still runs.

Left out: names, credentials, audit entries, several pools or backends (a VMID band per backend; pools on
one backend differ only in their band), nodes and migration (a migrated VM is found by its stamp as in
`Bound`), the check of the template, deletion of a whole pool.

### ConnectorHub

One connector; connectors share nothing. A step is one dictionary operation or one message.

* `chan` is where the thread of `/agent/control` is for each control channel, in the order in which the
  agent opened them; `current` is `_connections[connectorId]`. `Replace` reads the old connection, `Fault`
  and `Clear` are the two halves of `Fault()`, `Register` stores the new one, `Unregister` is the
  `finally`, which removes only its own entry.
* `pending`, `dataChannels` are the tables of a connection; `ack` and `data` the two task completion
  sources of a request. `Begin`, `RegisterDataChannel`, `AddPending`, `Send`, `Reply`, `Data`, `Timeout`,
  `GiveUp`, `Cancel` are `OpenTcpAsync` and `ProbeAsync` with `SendRequestAsync`.
* `sock` is a control WebSocket; `half` means the agent's end is gone and the gateway has not noticed, so
  that messages are lost. `agent` and `reply` follow `HandleProbeAsync` and `HandleOpenTcpAsync`, which
  outlive the channel they came on.
* `Timeout` can happen at any time in the environment `late`; otherwise only when nothing can come any more
  (`Coming`), because 15 seconds outlast the agent's ten-second dial and its answer.

Left out: enrolment, what flows through a tunnel, the send lock as a variable (a send is one step), the
agent's back-off times.

### ConsoleSession

One WebSocket connect is a *leg*; a host that redirects or hands over ends one leg and the browser returns
with the next. Legs are numbered in the order of their arrival and never reused.

* `leg[l]` holds the locals of `Connect` for one leg: the key (user and desktop), the recording and the leg
  number threaded through the redirect cache, whether a routing token was used, whether the leg armed a
  continuation, whether it has the `Recording` row and a recorder. Its phases are the awaits that matter:
  `Open` or `Continue` (cache and limit) → `SetUpRecording` → `Register` → `Redirect`, `HandOver` or `EndLeg`
  → `Remove` → `Dispose` → `Finalize`. `Abandon` is the exception that leaves `Connect` before its `try`.
* `cache` is `RedirectionTokenCache._entries`, `sessions` is `SessionTracker._sessions`. An expired entry is
  removed (`Expire`), since `Consume` treats it as a miss.
* `status` is the `Recordings` table, `dirs` and `manifests` are the leg directories on disk and those whose
  recorder was closed, `merged` is the manifest `MergeLegs` writes. `MuxStart` and `MuxEnd` are the two ends
  of `ProcessPendingAsync`; `DeleteFiles` and `DeleteRow` the two of a deletion, by the administrator or by
  the retention sweep.
* A forced disconnect, a policy violation, an unreachable host and a closed browser all end a leg
  (`EndLeg`). When an abort happens to end the host pump of a leg with a token first, the code arms the
  token again (`HandOver`), and nobody is told to return; that is in the environment `leave`.

Left out: authorisation, host resolution and single sign-on, what is recorded, encryption and the integrity
chain, which codec a recording has (`Completed` stands for `UnsupportedCodec` too).

### DesktopPower

The sessions of `ConsoleSession` with the desktop they are on; every key is a user of this one desktop. A
*setting* (`Settings`) gives the environment of the sessions and that of the desktop (`PowerHazards`); without
`managed` the desktop is always up, and the behaviours are those of `ConsoleSession`.

* `vm` is the VM as Proxmox knows it, `power` the column `PowerState`. Readiness runs, the status scan and the
  reaper each load a row, work for some awaits and save what they changed: `run[w].copy` and `scan.copy` are
  the rows they loaded, and a save that changes nothing writes nothing (`Saves`, `ScanWrites`), as Entity
  Framework does.
* `run` are the readiness runs of a Proxmox desktop, `RunReadinessAsync`: `RunLoads` → `RunLooks` → (`RunStarts`)
  → `RunProbes` or `RunTimesOut` → `RunSaves`. One is the job's, one that of a connect whose job is not recent.
* `job` is the entry of `ConnectionReadinessService._jobs`. `posted` is a report of `Progress<T>` that has been
  posted to the thread pool and not run yet. `page` is the preflight of `Console.cshtml` and, between
  `Connects` and `OpensLeg`, the connect of `RdpWebSocketController` before it is a leg of `ConsoleSession`.
* `scan` is `ResourceStatusService`: `ScanReads` (rows and the list of `cluster/resources`), `ScanResolves`
  (`ResolveStateAsync` with the misses and the cache of `ConnectorPathSelector`), `ScanWrites`.
* `reaper` is where `IdleReaperService` is with this desktop: loaded, checked, paused, saved.
* Time is three flags of `clock`: whether the idle timeout has passed since the last stamp (`idle`) and since
  the gateway started (`~grace`), and whether there was a session within it (`recent`, which no code reads).
  `TimePasses` is the end of such a timeout. The timeout is at least an hour, so it ends while nothing but
  sessions and status scans go on (`Steady`).
* `SessionNext` are the steps of `ConsoleSession`, each with what it does to the desktop: a session stamps when
  it is registered and when it winds up.

Left out: hosts that are not on Proxmox (Wake-on-LAN, IPMI, shutdown by SSH), hibernation, the guest agent and
the address as phases of their own, VMs whose notes exclude them, migration; the provisioning a run begins
with is in `VdiProvisioning`.

### GfxPipeline and OrderedGfx

A step is one event of an event loop: a PDU parsed by the page, a message taken by the worker or the page, an
output or an error of a video decoder, a timer, an animation frame.

* `surf`, `cache`, `shown` are `surfaces` with `outputMap`, `cache` and the canvas. A surface holds one
  picture, the number of the PDU that drew it: two orders of PDUs are told apart by what is left on the
  surfaces. `orphan` is a surface that a wire PDU made before its CREATE_SURFACE.
* `count` holds `_decodeSeq`, `_decodeSettledSeq`, `_h264Submitted`, `_h264Painted`; `queue` is
  `_orderedQueue`, `pending` is `_workerPending`, `acks` is `_pendingAcks`, `acked` what was sent.
* `DispatchOrdered`, `Drain`, `Settle` are `_dispatch` and `_decodeSettled`; `TryAckFrames`, `AckTimer`,
  `WriteOff` are `_tryAckFrames` with and without its time limit; `Take` and the actions on top of it are
  `_onWorkerMessage`; `WorkerStep` is the worker's `onmessage`; `Outcomes` is what `H264Dec.decode` may do.
* `OrderedGfx` says what all this is for: PDUs arrive one by one; they may be performed late, and PDUs that
  do not touch the same place in any order, but never past a conflicting one. `PdusInOrder` is the
  refinement: the pictures are mapped to `px` and what waits to `todo` (the unanswered decodes, the queued
  operations, the video pictures that are not painted).

Left out: rectangles, pixel formats and codecs, the second view of AVC444, the size of the desktop, the QoE
report, `RdpGfx.reset`, which nothing calls.

### RdpConnection

A step takes one PDU. `st`, `fin`, `share`, `desk`, `again`, `display` are `state`, the finalization PDUs,
`shareID`, the sizes, `_reactivating` and the Display Control channel; `page` counts the callbacks, which is
what the user sees, with the output that is drawn and lost. A fast-path update goes through `_handleFastPath`
(`Renders`) and `Client.onUpdate` (`Connected`: `connected` is set by the first `onActive`). The host tags what it
draws with the last share it has finalized (`LastFinalized`), 0 before the first.

Each handler of `_processOne`, `_handleSlowPath` and `_onActiveSlowPath` is an action, with what it does in a
state it was not made for: `OnLostDeactivate`, for instance, is a Deactivate-All that is absorbed while
licensing and ignored while finalizing. The host (`Host...`) is external: it follows the
sequence the code expects, in every variant an environment allows.

Left out: capability sets and all other contents. The module has the PDUs and the host; which
layouts are sent and when is in `DesktopScale`.

### DesktopScale

`scale` is the state of the initial scale (`_initialScaleApplied`, `_scaleStep`, `_advancedFrom`,
`_scaleStepTimer`, and the callback a PDU has caused), `screen` the canvas, what the window asks for, the
page's `resizeTimer` and whether the session is older than 1.5 s. A size is a resolution, one number for
both, and a scale. `Fed` takes a PDU, with `_onRemoteResize`; `Callback` is the page's part of it, `_onActive`
or `onDisplayControlReady`, which runs before any other step of the client. `ApplyInitialScale`,
`RunScaleStep` and `AdvanceScaleStep` are the functions of those names, `ScaleTimer` their 600 ms,
`ViewportChanges` and `ResizeTimer` are `onViewportChange` and `maybeResize`.

Left out: how a window and a pixel ratio give a resolution and a scale.

### RdpChannels

Every creation of a dynamic channel is an instance; a chunk is a numbered part of a message of an instance.
`byId`, `role`, `handler`, `cams` are the tables of `RdpProtocol`, `svc` and `reasm` the unfinished messages,
`zgfx` how far the decompression context of an id has followed its channel. `OnCreate`, `OnClose`, `OnData`,
`OnStatic` are `_dvcOnCreate`, `_dvcOnClose`, `_dvcOnData` and `_reassembleSvc` with the device redirection
handler. `got` and `heard` record what the handlers are given.

The definitions that every module has are named `ChannelsInit`, `ChannelsNext` and so on here, an environment is
a setting (`Settings`, `Given`): `RedirectionProofs` extends this module beside `CameraCapture`.

Left out: the contents of messages, soft-sync, compression of what the client sends.

### CameraCapture

`devs` are the device channels (`RdpCamDevice`), `cam` the capture in `client.js` (`_camMt`, `_camGen`,
`_camSamplePending`, `_camMoreRequested`, `_camBusy`, `_camWaitTimer`, `_camWorker`, `_camReqId`), `webcam`
the prompts and streams of the browser, `jobs` the frames in `createImageBitmap` (`Scaled`) or in the worker
(`Converted`); equal frames that are being scaled are told apart by a number. The host's requests and the answers go through in order and within a step.

Left out: the enumerator, properties, the frame rate (the timer may fire at any time), several cameras.

### ClientSession

`sock` are the WebSockets, numbered as they are opened: their state, whether their handlers are on, how far
their session is. `client` is the `Client` object with the flags a teardown reads, `page` the console page:
the form, Disconnect, the reconnect loop with its one timer, the settings. `Detached` is `_dropSocket`,
`Deinitialize` is `deinitialize` with the status it emits, and `OnReady`, `OnError`, `OnClosed`, `Retrying` are
the page's answers to a status. Time is not counted: the backoff is a timer that may fire, the deadline may
pass at any time.

Left out: the login itself, texts, full screen, statistics, the autoconnect variant of the page.

### RelaySession

The relay of one leg, `RDP/RdpRelaySession.cs`, from the start of the pumps to the close. What happens before
and after a leg is in `ConsoleSession`; its `Redirect`, `HandOver` and `EndLeg` are the ends of this module.

* A chunk is a range of the host's stream, so that a lost, doubled or reordered byte shows as a gap. `pos` is
  what has been read, `ws.got` what the browser has.
* `reader`, `pipe`, `budget`, `writer` are `PumpSslToWsAsync`: the task that reads, the channel, `SendBudget`
  and the task that writes. `Reserve`, `Announce`, `Recheck`, `Wake` are the steps of `ReserveAsync`;
  `Release` and `Signal` those of `Release`, with the resize by round trip time in between.
* `lock` is `_sendLock`, `pump` is `PumpWsToSslAsync` with its pongs, `main` is `RunAsync` after `WhenAny`:
  `Tell`/`Told` the frame of a redirection, `Cancel`, `Finish` with the error status and the close.
* `SendCancelled` is what .NET makes of a WebSocket operation that is cancelled: the socket is aborted.

Left out: the credentials frame and the connection to the host, the sampler of round trip times (any limit
between floor and ceiling may come of it), the dump and the recorder, the search for the redirection PDU in
the bytes.

### SideChannels, Clipboard, Microphone, Sound, Keyboard, Pointer

One session of a browser with what it redirects. `link` is whether the session is up, dropped, or left;
`Drop`, `Redirect` and `Disconnect` tear down what `deinitialize` or the redirect frame tears down, which is
not the same, and `StartProtocol` sets up the next session.

* `Clipboard`: `clip` is `ClipRdr` with the client's `_lastRemoteClip`, `page` the text box, `lastLocalClip`
  and the reads and writes under way, `local` the local clipboard, `host` the host's. Messages are queues,
  since one ordered channel carries them. `garbled` is a text decoded as the other kind.
* `Microphone`: `audin` is `AudInput` and its channel, `mic` the capture with the prompt, the numbered audio
  contexts and the worklets that load; `blocks` compares the format of a sent block with the open one.
* `Sound`: `snd` is `RdpSnd`, `play` the context and `_audioTime`, `source` the host. Time is a clock that
  ticks in blocks; a block is heard with the time it is late.
* `Keyboard`: `kbd` is `_heldKeys`, `_syncedToggles`, `_ctrlLeftDownAt` and `_altGrSynthCtrl`; `user` is the
  real keyboard, `remote` the host's. `Happens` turns a stroke into the events a browser makes of it on the
  platform of the environment; `PageHandles` is the listeners.
* `Pointer`: `moves` is `_pendingMove`, `_moveRaf`, the callback of the browser and `_canvasRect`; `hand` is the
  real mouse, `desk` the host's, `layout` where the canvas is. The browser tells the page of a new layout
  before the next frame but maybe after a click, which is why moves may use a measured canvas and clicks
  must not. `cursor` is `pointerCache`, the class of the page and `_frag`, `pointer` the host's side.

Left out: the choice of long or short format names, resampling, muting, a microphone channel closed by the
host, the PAUSE key, keys sent as text, how pointer bitmaps are decoded, cropped and scaled, and pointer updates
that the host sends while its first share is finalized: the page drops them like all output of that time
(`NoOutputLost` below).

## 3. Runs

| Run | Instance | Shows |
|---|---|---|
| `provisioning_safety` | two users, one of them with two requests at once; one administrator; two VMIDs; one restart; seven environments; 710 000 states | `OneWorkerPerPair`, `RowsConsistent` (types, `DistinctVmIds`, `ReadyIsCloned`), `ClonesAreKept` (`RecordedCloneKept`, `DestroysOwnVm`), `DesktopsServe` (`KeepsLiveDesktopOnline`, `HandsOutReady`) |
| `provisioning_liveness` | one user with two requests; one VMID; one restart; four environments; 65 000 states | `RowsMoveOn` (`ProvisioningEnds`, `DeadRowsGo`), `ConnectsEnd` |
| `provisioning_leak` | one user, two requests, slow clones | `NoLeak` fails |
| `connector_hub` | one open-tcp, one probe, two control channels, two environments; 370 000 states | `RegistryConsistent` (types, `NewestServes`, `OnlineIsServed`), `AnswersAreReal` (`SuccessIsReal`, `TurnedAwayIsOver`), `RequestsEnd` |
| `session` | one desktop; fourteen environments with three legs from tabs or chains, a limit of two, one restart; seven settings of a managed desktop with one user and one session; 271 000 states | `RecordingsKept` (types, `LegDirsDistinct`, `EndsLast`), `RecordingsAdvance` (`StatusAdvances`, `MuxSeesAllLegs`), `RecordingsEnd`, `DesktopGuarded` (types, `JobOwnsRun`, `PausesOnlyIdle`), `PowerSettles` (`StateIsShown`, `IdleIsPaused`, `PreflightEnds`) |
| `relay_session` | chunks of one and four units, a floor of two, a ceiling of three, messages of three, six environments; 184 000 states | `Coherent` (types, `StreamKept`, `MessagesWhole`, `BudgetExact`, `NoLostWakeup`), `EndIsTold`, `RelayEnds` |
| `gfx_pipeline` | two surfaces, one cache slot, nine environments of three to five PDUs; 292 000 states | `PipelineCoherent` (types, `BarrierExact`, `CleanIsShown`), `PdusInOrder`, `NoEarlyAck`, `NothingWedges` |
| `rdp_connection` | two windows and a nudged size, two scales, two static channels, up to five shares, eight environments; 173 000 states | `Coherent` (types, `EndsAgree`, `LaterOutputDrawn`, `CloseOnce`, `ActiveOncePerShare`), `DesktopAgrees` (`SizesAgree`, `ScaleTakesEffect`, `WindowIsFilled`), `SessionSettles` (`ReachesActive`, `ScaleEnds`), `EndReported` |
| `rdp_channels` | two ids, four creations, three PDUs on the way, six settings; 98 000 states | `ChannelsCoherent` (types, `RolesMatch`), `Delivered`, `SoundIsOffered` |
| `camera_capture` | two device channels, two sizes, four environments; 369 000 states | `Coherent` (types, `FrameFits`), `WebcamReleased`, `SamplesAnswered` |
| `client_session` | six sockets, three clicks, three faults; 42 000 states | `Coherent` (types, `OneSession`), `QuitIsFinal`, `ShownIsReal`, `DropsAreRetried`, `ConnectEnds` |
| `side_channels` | three texts, three formats, up to five strokes, twenty-three environments; 294 000 states | `Coherent` (types, `TextIsRead`, `SoundFits`, `InOrder`, `NotLate`, `KeysAgree`, `MouseAgrees`), `ClipboardsAgree`, `MicReleased`, `Answered` (`PastesEnd`, `SoundAnswered`) |

**Bounds.** Two requests of one user are the double click or reconnect that the locks are for; the third
request, of another user, competes for VMIDs. Two VMIDs for three requests make the band run out and get
recycled; in the two environments without a backend and with an administrator any two of the three requests are
made (`TwoAtLarge`). `MaxCrashes` is one: a second restart starts from a state in which memory is empty again, and
rows, tasks and VMs are as after the first. The two requests of one user are symmetric in
`provisioning_safety`, whose properties speak of single steps; no other run uses symmetry. In the hub two channels are a reconnect, and requests meet only in the
tables of a channel. Three legs are a chain with two handovers (what GNOME's remote login does), or a
chain and a second tab or session beside it, or three tabs against a limit of two. They share one
desktop, where they can disturb each other; that desktops do not is part of the theorems, which hold for any
number of them. A leg is kept in reserve
for every browser that was told to return (`SpareLeg`), so that the bound never stops a chain in the middle.
A managed desktop has one user and one session, but any number of preflights, scans, passes of the reaper and
ends of the timeout, and starts off or up with an activity that is old or not: what the next session would
meet is what the first one may find. More users change nothing but how many jobs, runs and sessions there are, and the
theorems hold for any number of them. The settings keep apart what would only add to each other: late reports, direct
connects with a guest that shuts down, stale caches, scans that find nothing, pausing and stopping.
`CHECK_DEADLOCK FALSE` is set in the first two models because a behaviour rightly ends when all requests are
answered and no row, or no channel, is left; in the others that state is named (`Quiet`, `Rest`) and deadlock
is checked.

In the browser client, an order-sensitive operation can go wrong with a decode before it, a decode after it
and a second operation that tells the result: four or five PDUs over two surfaces, in mixes that a host uses
together. Three shares are two reactivations, so that one can follow while another is under way; five are those for the
three layouts of the scale and one more. Two ids with
four creations make each id be used again while the other one is in use. Two device channels are what one
camera opens at most at a time that matters to the capture, which only asks whether any is streaming; three
starts are a stream, a new one during its frames, and one after. Three faults and six sockets are a drop, a
failing attempt and a redirection after it.

In the relay, a chunk of one unit fits the queue, two fill its floor, and one of four exceeds the ceiling and
a message by itself: room, no room, and the frame that may pass alone all occur, as do messages of several
chunks and of a part of one. In the side channels two texts are a text and the next one, and a third one that
crosses them; two formats that can be played and one that cannot make every negotiation; four strokes are a
modifier or lock with a character inside it; five uses of a mouse are a move, a press, a drag, a release and one
more. The redirections share nothing but the session, so most
environments have one of them; `Both` has two.

**Fairness** (`FairSpec`). Connect requests run on once started: readiness calls them with
`CancellationToken.None`. The reconcile loop is a hosted service that makes passes for ever. Its work on a
row needs the row's lock to be free at the moment of the try (`WaitAsync(0)`) and the row to be old
enough; both recur pass after pass, so `ReconcileProvisioning` and `ReconcileDead` are strongly fair.
Proxmox ends every clone task. In the hub, the gateway's threads and timers run on and an agent that does
not hang works on its requests; nothing is assumed of sockets. In `ConsoleSession` a leg's code runs on, the
mux job polls, and a browser that was told to return does, except in `leave`; nothing makes a session end,
so the liveness properties speak of recordings without a live leg. In `DesktopPower` runs go on, posted reports
arrive and pages poll, both services scan, a booting VM comes up and caches expire; time is strongly fair,
because it passes whether or not a pass of the reaper is just under way. Users need not do anything, a guest need
not shut down. In the browser the event loops take their
messages and run their timers; the 600 ms of a scale step are longer than a reactivation, and the resize timer is not fair; a video decoder may keep its last picture for ever, the user may never answer
a prompt, the host need not send anything it does not owe. In `RdpChannels` the host's set-up of device
redirection is strongly fair, because its other PDUs may fill the bounded channel. In `SideChannels` messages arrive and are handled, and nothing else is fair: the
user and the host may do nothing. In `RelaySession` tasks that can go on do, and a send is taken or the
connection breaks; `forced`, `leaves` and the end of the host are never fair.

**What the failing run says.** `NoLeak` states what a comment and a page of the repository say and is refuted
by the code as modelled; `PROJECT.json` quotes the lines. A second request that tracked the row before its
UPID was saved clears it while the clone runs. What does hold is `RecordedCloneKept`: without time-outs,
outages and Deprovision, a VM whose task was recorded keeps its row, restarts included.

**Known departures.** The following statements do not hold either. Each is a definition of its module, or a
property of a run in an environment that the run excludes; the MC modules keep those environments, so that
each can be seen failing by giving it as `Environments`, or as `Settings` of `MCConsoleSession`, `MCRdpChannels` and `MCGfxPipeline`.

| Statement | Environment | Why it fails |
|---|---|---|
| `TargetIsOwn` | `Slow` | A pass that holds an old copy of a Failed row stamps and destroys the desktop that has taken its VMID since (`VdiProvisioningService.cs:627`; the comment at 276 says a VM is destroyed only after it was verified). What holds is `DestroysOwnVm`: in `Calm` environments nothing is destroyed, and without foreign VMs a row that is still tracked has its own VM destroyed. Foreign VMs can meet the destroy of a tracked row too, after a restart or when a clone is given up. |
| `InsertNeverCollides` | `Faultless` | The re-check inside the lock (line 90, "another request may have just provisioned") reads the tracked copy, so the second click of a double click fails on the unique index. No second VM is cloned (`DistinctVmIds`, `OneWorkerPerPair`). |
| `HandsOutReady` without `Calm` | `Slow`, `Outages` with three or four requests of one user | A copy the reconciler made of a row before it was given up and cloned again destroys the new desktop, and a late check of the fast path hands it out. |
| `KeepsLiveDesktop` | `Outages` | An empty list from a failed call counts as "the VM is gone" on the connect path, against the comment at line 415. `KeepsLiveDesktopOnline` holds while the backend answers. |
| `ProbeNeverThrows` | `Drops` | A send on a channel that broke after the look-up throws an exception `ProbeAsync` does not catch (`ConnectorHub.cs:170`, comment at 149). |
| `LimitIsKept` | `RaceOnly` | The count is read long before the session is registered. Redirects break it too: a continuation is not checked. |
| `RecordingIsLeft` | `LeaveOnly` of `MCConsoleSession` | Only the last leg finalises a recording, and after a redirect the last leg may never come. `RecordingsEnd` excludes exactly such cases (`ChainMayBreak`). |
| `PausedIsIdle` | `OverlapOnly` | The reaper has looked at sessions and stamp (`IdleReaperService.cs:103`) when it awaits the notes and the pause (lines 110 and 127): a session that registers in between is paused under its user. |
| `NotWhileConnecting` | `ReapOnly` | A desktop that a page is preparing, or a connect has resolved, is stamped only when the session begins (`RdpWebSocketController.cs:294`), so the reaper may pause it before. |
| `EveryPreflightEnds` | `LateOnly` | `Progress<T>` posts its reports (`ConnectionReadinessService.cs:47`); one that runs after the result was stored (line 52) turns a finished job back into a running one, and the page polls it for ever. |
| `EveryPreflightEnds` | `RestartOnly` | After a restart the job is gone, and `Status` answers "checking" for a job it does not know (`ConnectController.cs:81`), so the page polls for ever and never begins anew. |
| `PdusInOrder` | `OverrunOnly` | A SURFACE_TO_CACHE waits for all decodes, also later ones (`rdpgfx.js:674`), and a decode that comes while it waits is painted before it. |
| `PdusInOrder` | `ReuseOnly` | Surfaces are known by id only: work for a surface that was deleted or re-created lands on the one that has its id. |
| `NothingWedges`, `PdusInOrder` | `LostOnly` | When the worker's script does not load (`rdpgfx.js:190`), the decodes it was given are never answered, so the queue behind them waits for ever. |
| `NoEarlyAck` | `TwoOnly` | `_h264Painted` (`rdpgfx.js:882`) counts the pictures of all surfaces, and only each decoder's output is in submission order (comment at 152): a newer picture of one surface stands for an older chunk of another, and a frame is acknowledged while its own picture is still to come. |
| `LaterFramesJudged` | `LateOnly` of `MCGfxPipeline` | A forced acknowledgement raises `_h264Painted` to the frame's barrier (`rdpgfx.js:889`, after the comment "later frames are judged on their own content"), but its picture may still come and is counted again (line 255): a later frame is acknowledged before its own. `NoEarlyAck` says nothing once an acknowledgement was forced. |
| `NoOutputLost` | `FirstOutput`, or any in which the host draws | "Render once we've sent Confirm Active (FINALIZATION) or are fully ACTIVE", says `protocol.js:1973` of output that comes amid the finalization PDUs, and passes it on. But `Client.onUpdate` returns at once (`client.js:1409`) until `_onActive` has set `connected` (line 1311), after all four of them: what a host draws while the first share is finalized is lost, and nothing asks for it again. A reactivation goes straight to active (`protocol.js:1825`). What holds is `LaterOutputDrawn`: nothing is lost of what the host draws once it has finalized the first share. |
| `ReachesActive` | `NoLicenceOnly` | A Demand Active in the licensing phase is consumed, though the comment in `_onLicensing` (`protocol.js:1741`) means it to start the capabilities exchange. |
| `ReachesActive` | `MidDeactivateOnly` | A Deactivate-All while finalizing is ignored (`protocol.js:1834`), and the Demand Active after it too. |
| `ScaleEnds` | `SlowSteps` | When a host takes longer than 600 ms over the reactivation for a step, the timer advances the step, `_runScaleStep` returns at once because nothing can be sent (`client.js:1258`), and the reactivation no longer moves it on (line 1285). The dummy resize then stays half done. |
| `WindowIsFilled` | `EarlyResize`, `BusyResize` | A resize whose timer fires in the first 1.5 s, during a reactivation or among the steps of the scale is dropped or undone (`client.js:1201`), and nothing looks at the window again until it changes once more. |
| `RolesMatch` | `TakeOverOnly` | Geometry is accepted on the id of Display Control; the guard `&& !accept` (`protocol.js:2372`) keeps the reference, and layouts go to Geometry. |
| `Delivered` | `TakeOverSplit` | Display Control's id is taken over in the middle of a message. Only a close drops its chunks (`protocol.js:2615`), so the next message on the id begins with them. |
| `PausedIsBlank` | `PauseOnly` | A frame that was being converted when the user paused is sent (`client.js:669`). |
| `WebcamReleased` | `LeaveOnly` of `MCCameraCapture` | `disconnect` keeps the protocol object, whose device channels still count as streaming (`client.js:920`), so a grant that comes after the user has left starts a webcam that nothing stops. |
| `WebcamReleased` | `RepromptOnly` | Stop and start while the user is asked open a second prompt, and both answers start a webcam. |
| `ShownIsReal`, `DropsAreRetried` | `HastyOnly` | After an error the form can be used while the old socket is closing. Dropping that socket skips the teardown (comment at `client.js:415`), and the flags it would have reset decide about the next session. |
| `QuitIsFinal` | `BetweenOnly` | During the 100 ms between two legs there is no socket, so Disconnect does nothing and the next leg is connected. |
| `QuitIsFinal` | `RetryingOnly` | Disconnect in the bar while the page reconnects closes the attempt and the loop goes on with the next. |
| `ClipboardsAgree` | `RepeatOnly` | A text equal to the last one from the host is not sent, though another text was sent in between: the host keeps that one and the box shows the first. `lastLocalClip` and `_lastRemoteClip` also outlive `ClipRdr` over a reconnect. |
| `ClipboardsAgree` | `MixOnly` | `_requestId` is that of the newest request, and any answer resets it: when the first of two requests of different kinds fails, the answer to the second is dropped. |
| `ClipboardsAgree` | `CrossOnly` | A text that is sent into an announcement of the host loses to it on one side and wins on the other. |
| `MicReleased` | `RedirectMic` | The redirect frame drops the protocol object without a teardown, so the microphone runs until the next session ends. |
| `MicReleased` | `LeaveMic` | As with the webcam: a grant after the user has left starts a microphone (`client.js:764`). |
| `OffersAnswered` | `ReturnOnly` | Closing the dynamic channel drops `RdpSnd` (`protocol.js:2600`), so an offer on the static channel, to which the host returns, is never answered. |
| `InOrder` | `ReturnTwice` | The answer to an offer on the first dynamic channel, still on its way when the host has moved back and to a second one, is taken for the answer to the offer there: a block is played in another format than the host means. |
| `NeverLate` | `SuspendOnly` | Blocks that come while the browser holds the sound are put on a timeline that starts late, and the delay stays. |
| `NothingStuck` | `RedirectHeld` | A key held at a redirection stays in `_heldKeys`; its repeats press it on the new host, where it is not raised with the rest. |
| `NothingStuck` | `OverlayHeld` | The release of a key is not seen while an input of the page has the focus. |
| `TypedAsMeant` | `BlurHeld` | A modifier that is held over a loss of the focus is raised and not pressed again. |
| `TypedAsMeant` | `DeleteHeld` | The button for Ctrl+Alt+Del raises a Ctrl the user holds. |
| `NothingStuck` | `ReactivateKey` | Key events during a reactivation are dropped, releases too. |
| `NothingStuck` | `BlurReactivate` | Focus lost during a reactivation: the releases of `releaseAllKeys` are not sent, since `sendInputEvent` sends only while the session is active, but the keys leave `_heldKeys`. They stay down on the host. |
| `TypedAsMeant` | `TwoCtrls` | With `cmdAsCtrl` Command and Ctrl are one key for the host: releasing one of them releases both. |
| `TypedAsMeant` | `RollOver` | Typing on while Caps Lock is down makes the synchronisation press it again, which toggles it back. |
| `TypedAsMeant` | `LockThere` | Caps Lock toggled in an input of the page agrees with what the host was told before, so it is not told. |
| `TypedAsMeant` | `NewLock` | In a browser whose key event of Caps Lock reports the new state, the synchronisation and the key toggle it twice. |
| `TypedAsMeant` | `CtrlAlt` | Repeats of a held left Ctrl renew `_ctrlLeftDownAt`, so the right Alt after it is taken for AltGr. |
| `NothingStuck`, `TypedAsMeant` | `SlowPage` | More than 50 ms between the two events of AltGr and its Ctrl stays down. |
| `MouseFollows` | `DragOut` | The listeners are the canvas's (`client.js:1331`): a button that is let go outside it stays down on the host. |
| `MouseFollows` | `MenuOnPress` | `contextmenu` is handled as `mouseup` (`client.js:1334`); where it comes with the press, on macOS and Linux, the host has the right button up while the user holds it. |
| `MouseFollows` | `ButtonHeld`, `ReactivateBtn` | A button held over a redirection is up on the new host, and mouse events during a reactivation are dropped. |
| `MouseFollows` | `ResizeJoining` | The end of a session keeps `_canvasRect` but removes its listeners (`client.js:1348`), and they return only when the next one is active: a window resized after `prepareReconnect` leaves moves going by the old canvas until a click. |
| `PointerAgrees` | `HideOnly` | The pointer of the system, and none at all (PTR_NULL, PTR_DEFAULT), are ignored (`client.js:1643`); the classes the page has for them (`Console.cshtml:102`) serve bitmaps without opaque pixels only. |
| `PointerAgrees` | `RecallClear` | Such a bitmap takes no slot (`client.js:1703`), so PTR_CACHED of it keeps what is shown, or shows what the slot held before. |
| `PointerAgrees` | `BrokenOnly` | A bitmap that cannot be drawn changes neither slot nor pointer. |
| `MessagesWhole` | `PingsLast` | The frame of a redirection is sent without `_sendLock` (`RdpRelaySession.cs:197`), so it meets a pong that is being sent. |
| `MessagesWhole`, `EndIsTold` | `WriteFails` | A failing write to the host ends `WhenAny` while the last data before a redirection is being sent: the frame goes between its fragments, against the comment that the pumps have stopped (line 361). |
| `EndIsTold` | `SlowAtEnd` | A send that is cancelled aborts the WebSocket, and the status of a policy violation is lost. |
| `MessagesWhole`, `EndIsTold` | `PolicyLate` | A policy violation ends the other pump while the host redirects: the frame meets the data that is being sent, or the redirection is seen after it was decided whether to send the frame, and the next leg is prepared for a browser that is not told. |
| `MessagesWhole` | `ForcedLate` | A forced end cancels a write of input while the host redirects, which ends `WhenAny`: the frame meets the data that is being sent. |
| `HostEndIsTold` | `EndsOnly` | "Remote desktop disconnected" (lines 181 and 240) is never sent: cancelling the other pump's receive aborts the WebSocket first (comment at 188), so the browser sees a drop and reconnects. |

Read in the code and not modelled: the close and the frame of a redirection are sent with `CancellationToken.None`, so a browser that stops reading can hold
them up.

Another limit: in the environment `slow`, where a redirected leg winds up more slowly than the whole next leg
lasts, the merge can miss a leg; `MuxSeesAllLegs` says so in its condition.

## 4. Proofs

`VdiProvisioningProofs` proves, for all values of the constants that satisfy `ConstantsAssumption` (the
kinds of processes are disjoint, `OwnerOf` maps requests to pairs, environments are sets of hazards) and in
every environment:

* `TypeCorrect`: `Spec => []TypeOK`. `TypeOK` is inductive; it is split into the part a process changes for
  itself (`LocalOK`) and the shared part (`GlobalOK`), so that lemmas about leaving, throwing and going on
  are used for every action.
* `OneWorker`: `Spec => []OneWorkerPerPair`. The property is not inductive: that two workers are not in one
  section follows from who holds the lock. `GateInv` says that a process in its section holds the lock of
  its pair, where the pair of the reconciler is that of the row it tracks; each action either keeps the
  lock (`GateKept`) or takes a free one (`GateTaken`).
* `VmIdsDistinct`: `Spec => []DistinctVmIds`. `ClaimInv` adds that a request between choosing a VMID and
  inserting its row holds `_vmidGate`, and that its choice is claimed by no live row; a step that neither
  allocates nor inserts keeps it (`ClaimKept`).
* `RowsAreConsistent` puts the types, `VmIdsDistinct` and `ReadyCloned` together as the run checks them.
* `ReadyCloned`: `Spec => []ReadyIsCloned`. `CloneInv` adds that a process at the post-clone steps works on
  a row whose task ended well, and that a row at an early step of its request has no task that ended.
* `ClonesKept`: `Spec => []ClonesAreKept`. Neither `RecordedCloneKept` nor `DestroysOwnVm` is near being
  inductive: a destroy acts on a copy that a process read steps ago. `BookInv` says what copies (`ent`, `snap`)
  may claim of a row's UPID and VMID; `StampInv` where VMs, stamps and those who stamp or destroy stand to each
  other; `OnlineInv`, while the backend answers and nobody deprovisions, that a row is Provisioning as long as
  its request or the reconciler works on it and not both do, and which old copies are still true; `KeptInv`
  that a row with a recorded task that is given up has no VM left; `CalmInv` that in `Calm` environments nobody
  gets as far as a stamp of a dead row or a destroy. Every action is reduced to a few facts first: what it may
  do to the fate of a row (`Fate`) and to its clone (`CloneStep`).
* `DesktopsAreServed`: `Spec => DesktopsServe`, two action properties, from the same invariants: a step that
  takes a row out of Ready, or ends a request, is one of a few, and what its copy says is still true.

`ConnectorHubProofs` proves, for any number of requests and channels and in every environment, all safety
invariants of the run `connector_hub` (`RegistryIsConsistent` and `AnswersReal` are their conjunctions):

* `TypeCorrect` from `TypeInv`: a request past its look-up works on a channel, only an open-tcp has a data
  channel, whoever is faulted is a channel.
* `OnlineServed`: `OnlineIsServed` is inductive, since a channel enters the registry with the step that lets
  it serve and leaves it with the step that begins its clean-up.
* `NewestServed` from `NewestInv`: the agent opens its channels in order, and without overlap the channel
  that is being registered is the newest one, so that no older thread overwrites its entry.
* `SuccessReal` from `AckIsReal`: the agent knows nothing of a request that was not sent, and an ack on the
  wire or taken means that it has reached the target.
* `TurnedAwayOver` from `PlaceInv` and `HeldInv`: a channel is faulted only when it has broken; while a
  channel is open its requests stay in its tables; the agent acks on open channels only; and `Fault`
  completes what it finds in the tables before `Clear` drops it. A request that is acked and may still
  succeed is therefore in its channel's table, where `TryAttachDataChannel` finds it.

`DesktopPowerProofs` proves of `ConsoleSession`, for any number of legs, desktops and restarts and in every
environment:

* `TypeCorrect`, `LegDirsAreDistinct`, `EndsAreLast` and, as an action property, `RowsAdvance`, all from one
  inductive invariant `Inv`; `RecordingsAreKept` is their conjunction. Its core is `ChainInv`: the legs of one recording have one key and different
  numbers, a leg that armed no continuation is the last of its chain, and a cache entry continues the last
  one. It needs `CreatorInv` (a recording is created by one leg, and an entry names a recording that
  exists), `PhaseInv` (what a leg's phase says of its other variables), `ArrivalInv` (leg numbers in range)
  and `JobInv` (the row a job works on exists unless it was deleted). `EndsLast` is a part of `Inv` itself:
  that the finalising leg finds its row still `Recording`, on which `RowsAdvance` rests, follows from it.
* `MergesAreComplete`: `MuxSeesAllLegs`; with `RowsAdvance` it is `RecordingsAdvance` (`RecordingsGoOn`). The merge
  takes the legs that have a manifest, so `MergeInv` says which these are. `SavedInv`: a leg that has closed its
  recorder has left its manifest, unless its directory was deleted. A restart or an abandoned connect ends a leg
  without one, but then the chain has lost its only open end (`HasEnd`), which never comes back (`EndKept`), and
  the recording is not handed over. `OrderInv`: without `slow`, a leg winds up only when the legs before it are done.
  So when the last leg hands the recording over, its directories and manifests are the same (`Complete`), and remain so.

and of `DesktopPower`, for any number of users and legs and in every setting:

* `SessionsAreSessions`: `DesktopSpec => Spec` of `ConsoleSession`, since a step of the desktop changes none of
  its variables and a step of a session is one of its steps. What is proved there holds here
  (`DesktopKeepsRecordings`, `DesktopRecordingsGoOn`).
* `DesktopTypes`, and `JobsOwnTheirRuns`: a job has a run exactly until it has finished, whoever begins it
  again, and over restarts.
* `OnlyIdleIsPaused`: unless sessions begin or end during its scan (`overlap`), what the reaper pauses had no
  session for an idle timeout. `PausesOnlyIdle` is not inductive; `Gap` says that when the stamp is old and the
  grace is over, a session there was lately is still there or not stamped yet, and `Alone` that the reaper at
  work meets no such session.
* `DesktopIsGuarded` puts these together as the run checks them.

`RelaySessionProofs` proves, for every size of chunks, queue and messages:

* `StreamIsKept`: types, `StreamKept`, `BudgetExact` and `NoLostWakeup` in every environment. `QueueInv` is
  the inductive invariant: `Chain` says that the chunks in hand and in the queue follow each other without a
  gap from what is released to what has been read, so the budget is a difference of two places in the
  stream; `ReaderInv` and `WriterInv` say what each has in hand, and `WakeInv` that a reader that announced
  itself is seen by the writer's next release or finds room when it looks again.
* `RelayIsCoherent`: also `MessagesWhole`, in environments that are `Orderly` (no hazard of the departures
  above). `LockInv` says who may be sending under the lock; `EndInv` what has stopped when the frame of a
  redirection is sent without it.
* `BrowserIsTold`: `EndIsTold`, in environments that are `Unhurried`. `ToldInv` follows the verdict from the
  read that finds the redirection or the violation to the frame or the close that tells it.

`BrowserProofs` proves of `ClientSession` `OneSessionAtATime` in every environment, and for a `Patient` user (none of
`hasty`, `quitsBetween`, `quitsRetrying`) `QuittingIsFinal`, `PageShowsSession` and the action property
`DropsRetried`. `ClientInv`, `SocketInv` and `PageInv` tie the flags a teardown reads to the state of the
current socket and to what the page shows; `SilenceInv` says that after quitting no timer is armed and no
socket has handlers.

Of `GfxPipeline` it proves, for any surfaces, slots and numbers of PDUs:

* `PipelineStaysCoherent`: `PipelineCoherent`, in every environment. `Messages` is the invariant behind
  `BarrierExact`, which alone is not inductive: an answer advances the barrier only if its decode is still
  pending and no other answer for it is on its way. So it says that `toWorker` and the answers in `toPage`
  together hold each pending decode once, in the order of their arrival, that every message is about a PDU that
  was sent, and that after a loss of the worker nothing is on its way to it. `Canvas` adds to `CleanIsShown` that the
  surfaces are the ones the host has created, and orphans, which are not mapped. What a drain does to the
  surfaces follows from a lemma about folds (`PerformedFacts`), which needs an induction over the length of the
  queue: it is done with the least counterexample (`SmallestOf`), which needs no theorem with an operator as
  parameter.
* `PipelineKeepsOrder`: `PdusInOrder`, the refinement of `OrderedGfx`, for hosts that are `Orderly`: they neither
  overrun a waiting SURFACE_TO_CACHE nor reuse a busy surface, and where the worker may be lost they send only
  decodes. All environments of `gfx_pipeline` are; the others break it, as shown above. `OrderInv` adds two parts
  to the invariant. `Queues`: the queue is in the order of arrival, the barrier of an operation is what is
  settled plus the pending decodes *older* than it (so it is reached exactly when these are answered), a
  waiting save is younger than everything pending, the head has a decode to wait for, and the surfaces that
  are named exist. `Videos`: a decoder owes its chunks and sends its pictures in their order, and a
  picture of a pending chunk comes behind the answer for it. Each step is then one of three steps of
  `OrderedGfx` (`StrictNothing`, `StrictOne`, `StrictQueue`): it performs nothing, one PDU, or a decode and
  the operations its answer releases, `RunSteps`. That what `Perform` draws is the `Effect` that
  `OrderedGfx` promises is `EffectOfPerform`; that a set of PDUs is performed in one order, the one the
  queue has, is `ArrivalIs` and `PerformedIs`.
* `FramesHaveLanded`: `NoEarlyAck`, for hosts that are `Orderly` and `OneVideo` (one surface shows H.264 at a time,
  unless the environment has pictures written off, of which `NoEarlyAck` says nothing; nor does it of what follows a forced acknowledgement, where `LaterFramesJudged`
  fails). All environments of
  `gfx_pipeline` are. An acknowledgement compares two counters, so the invariants say what the
  counters mean. `Punctual`: what a waiting frame asks of the barrier is what is settled plus the pending decodes
  older than the frame, and what it asks of the pictures is what is painted plus the chunks still to come (`Films`)
  that are older. `Balance`: submitted chunks are the painted ones and `Films`. A counter only says how *many* have come;
  that they are the oldest is `Stream`: the chunks to come are of one surface, the worker forgets a surface before it
  takes the chunks of the next, and news that a chunk was dropped comes behind the pictures before it. `Calm` joins
  them, while the worker runs and nothing is written off or forced (`CalmNext`).

`RedirectionProofs` proves of `CameraCapture` `SamplesFit` (types, and frames of the size asked for when the host
does not mix sizes, `OneSize`; `SizeInv` follows a frame through the two stages) and `WebcamIsReleased` when
prompts are answered before anything else happens to them (`Answers`; `PromptInv` counts what is asked and what
runs), and of `RdpChannels`, for any ids, any number of channels and of PDUs on the way, and any settings:

* `ChannelsTyped`: the types, in every setting.
* `RolesAreTheHosts`: `ChannelsCoherent`. That roles match when nothing is on the way says nothing of the states
  in between, where the host has gone on and an id may have had several channels since. `Views` says it for all
  of them: there is a sequence of views, one for each PDU on the way to the client, from what the client has seen
  so far to what the host has now, and each PDU leads from one to the next (`Follows`). `Corr` ties what the
  client holds to the first of these: its tables (`Tables`), and what of a static message is open. The client's
  steps take the first view off, the host's steps add one at the end. `Wire` says which PDUs can be on the way
  for an id, in which order, and that an answer to a creation is the last there is of it; `Setup` that an answer
  of device redirection ends a step that was sent to its end.
* `MessagesAreDelivered`: `Delivered`. `Numbered` and `Contents` add to `Corr` that an instance belongs to one id,
  that a handler has been given what its channel had sent in that view, that what is left of it is the part that
  is kept for reassembly, and that the decompression context of an id has followed its channel.

Both are stated for settings that satisfy `Keeps`: the host takes an id over only from Display Control, and only
with a channel that is refused (with others in the set, the departure above shows `RolesMatch` failing).
The second also needs `Whole`: no host that takes ids over splits messages (the departure after it). All settings of the run satisfy both. TLC
checked `Wire`, `Setup` and `Halves` on the run's instance, and `Corr` where nothing is on the way to the client;
a sequence of views is not something it can enumerate.

`SideChannelsProofs` proves, for any texts and formats and in every environment, whatever sessions end and
begin. Its assumption `PlayableAssumption` of `Sound` says that the playable formats of an offer are a sequence
of formats: they are a `SelectSeq`, which the provers do not know; TLC evaluates it.

* `MicIsReleased`: `MicReleased`, unless the session is redirected or ends while the user is asked (`Asks`).
  `MicInv` says that a context belongs to a stream and a stream to a device the host has open; `AskInv` that who
  is asked is asked in a session.
* `TextsAreRead`: types of the clipboard and `TextIsRead`, with no condition. What a text is read as is decided
  by `_requestId`, several messages after the announcement it belongs to; `ReadAs` says for every place in the
  queue to the client which kind it will be waiting for when it gets there.
* `ClipboardsInStep`: `ClipboardsAgree`, in environments that are `InStep` (no hazard of the departures above).
  `OrderInv` says in which order announcements, requests and answers can be on their way, `MineInv` and
  `TheirsInv` that the text of whoever has the clipboard, or is about to, is in the box or coming, and
  `FreshInv` that a text is copied once.
* `SoundIsInTime`: types of sound, `NotLate`, and that blocks are played in the order of their numbers, one
  after the other. `QueueInv` orders and pairs the PDUs of blocks on their way, `HeardInv` puts what was heard
  before it, and `LateInv` bounds the playhead by what the slowest block was late.
* `SoundIsMeant`: all of `InOrder`, so also that a block is played in the format the host means by its number,
  if the host does not move its sound back from the dynamic channel. `ChannelInv` says what can be on which
  channel during the move, `OfferInv` that there is one offer at a time and that what the host agreed to is
  what the client has, `MeansInv` that no offer can overtake a block. If the host moves back, it fails
  (`ReturnTwice` above).
* `MouseIsFollowed`: `MouseAgrees`, for a `SteadyHand` and `PlainPointers` (no hazard of the departures above).
  `MoveInv` says that a move that waits for its frame is the last one and that the cached rectangle is the
  canvas's unless its event is to come; `HandInv` that the host's buttons are the user's and its mouse where the
  user points, but for that frame; `CursorInv` that each slot is what the host takes it for, or the last
  update on its way that fills it makes it so, and that the fragments of an update are together.
* `KeysAreFollowed`: `KeysAgree`, for `PlainTyping`: none of the departures above, among them Command as Ctrl
  on a keyboard with a Ctrl beside it, and focus losses only where there is no reactivation. `NothingStuck` speaks
  of a page that has handled all events; `TypingInv` says for every place in the queue of events what the page
  will have down when it gets there. `FocusInv`: the host has down what the page has. `ModInv`: the modifiers
  of each event are those of the one before it with its own key gone down or up (`After`), from what the
  page has down to what the user holds, so each character finds the modifiers it was typed with. `LiftInv`: a key that is
  down, or goes down in an event, is held or goes up in a later one. `CapsInv` and `LockInv`: no key goes down while
  Caps Lock is, and the lock passes from event to event, so the synchronisation never toggles it twice.
  `AltInv` and `CtrlInv` tell the Ctrl that Windows adds to AltGr from one the user holds.
* `ExchangeIsCoherent`: `Coherent`, from all of these. Its hypotheses are those of `SoundIsMeant`,
  `MouseIsFollowed` and `KeysAreFollowed`, and every environment of `side_channels` but `Returns` satisfies them.

`DesktopScaleProofs` proves, for any channels, windows, sizes, numbers of shares and environments, from the
assumptions of `RdpConnection` (environments are typed, the channels are finitely many) and of `DesktopScale`
(only a session with the graphics pipeline starts with its scale; the dummy resize is smaller than what
`maybeResize` takes for jitter):

* `ConnectionCoherent`: `Coherent`. That both ends agree when nothing is on its way says nothing of the states in
  between, where a share is demanded, deactivated or demanded anew with PDUs of the last one on the way.
  `ViewInv` says it for all of them: there is a run of the client's modes (`RunOf`: state, share, finalization
  PDUs, whether it reactivates) through all that is on its way to it, which ends where the host believes the
  client to be (`Match`), and what the host waits for is on its way or will be (`Owed`). A PDU the client takes
  shortens the run, one the host sends lengthens it. `UpInv` says what an activated client may have sent,
  `HandInv` that before Client Info one thing at a time is on its way, and `ShareInv` what the state says of the
  share number; what the host draws reaches an active client, or one that finalizes the share after the tag
  (`Fits`), which is the first, and from which `LaterOutputDrawn` follows (earlier output is the
  departure `NoOutputLost`); `ActiveOncePerShare` and `CloseOnce` are parts of the invariant themselves.
* `ScaleIsForced`: `SizesAgree` and `ScaleTakesEffect` in every environment. `SizeInv` says that the client's size
  is the last layout on its way to the host or, if there is none, the host's (a host that ignores a change of
  scale alone has its resolution). `ScaleInv` follows the three steps of `_runScaleStep`: from the dummy resize
  on, the host has the scale or a layout of another resolution is on its way, which it cannot ignore.
* `DesktopFollowsWindow`: all of `DesktopAgrees`, unless the user resizes early (the departure shown above).
  `FillInv` says when canvas and window are one.

With that exception TLC checked each invariant on the small instances before it was proved.

## 5. What is only model-checked, and what is not modelled

TLC only: all liveness properties, since liveness under fairness and ENABLED are beyond the prover; of the side
channels `InOrder` where the host moves its sound back once (for more moves it is false); the property of the
failing run.

Not modelled: what "Left out" lists above, and the components that `PROJECT.json` marks `not_modelled`, each
with the reason. A large part of the JavaScript has no protocol to model: the vendored icon font scripts
(`wwwroot/lib/fontawesome`) and jQuery, the tables of the key map, the parsers and writers of PDUs, and the
codecs. `codec/clear.js`, `codec/progressive.js` and `codec/zgfx.js` keep a state between calls (glyph and
history caches), but what they compute is bytes from bytes: a model would repeat the code. Their
outcomes, that a decode fails or that a context has lost step with its channel, are in `GfxPipeline` and
`RdpChannels`. The bulk decompressor `mppc.js` is never used, since the client does not announce
`INFO_COMPRESSION` (`protocol.js:838`).

## 6. Plan

Done: `VdiProvisioning`, `ConnectorHub`, `ConsoleSession`, `DesktopPower`, `RelaySession`, `ClientSession`,
`CameraCapture`, `RdpConnection` with `DesktopScale`, `RdpChannels`, `SideChannels`, and `GfxPipeline` with
`OrderedGfx`, each with its proofs. To follow, in this order:

1. `RecordingMux`: the mux job in detail. Which tracks of which legs reach the final files, what is kept
   after a failure, the order of save, encryption, stamp and clean-up over restarts, the integrity chain
   (`RecordingIntegrity.StampAsync` takes the recording that *started* last as the previous link), the
   merged timeline as a function checked against its definition.
2. `InventorySync` over the rows of `VdiProvisioning`: adoption and deletion against fresh rows.
3. `Decisions`: scope match, target policy, MFA, access rules and last-administrator safety as operators
   checked against reference definitions; no recursion, so that their lemmas can be proved.
4. Pool deletion and entitlements in `VdiProvisioning`, enrolment in `ConnectorHub`.

Further theorems: the lemmas of `Decisions`.
