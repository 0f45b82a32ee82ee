----------------------------- MODULE DesktopScale -----------------------------
(***************************************************************************)
(* The size and scale of the desktop over an RDP connection: the first     *)
(* layout of a session, or the three layouts that force its scale, and the *)
(* layouts that follow the window (wwwroot/lib/rdpweb/client.js and        *)
(* Views/Home/Console.cshtml).                                             *)
(*                                                                         *)
(* The protocol calls the page at the end of a handler; the page's part of *)
(* such a step is a step of its own, before any other of the client.       *)
(***************************************************************************)
EXTENDS RdpConnection

CONSTANTS
  Windows,       \* resolutions the window asks for
  SessionScale,  \* _sessionScale of a session that has a scale of its own
  Nudge,         \* how far the dummy resize goes
  Threshold      \* what maybeResize takes for jitter

ASSUME ScaleAssumption ==
  /\ Windows \subseteq Nat /\ SessionScale \in Nat /\ SessionScale > 100
  /\ Nudge \in Nat \ {0} /\ Threshold \in Nat /\ Nudge < Threshold
  /\ \A e \in Environments :   \* only a session with the graphics pipeline starts with its scale
       e.size.scale = IF {"gfx", "scales"} \subseteq e.may THEN SessionScale ELSE 100

VARIABLES
  scale,   \* the callback that is due; _initialScaleApplied, _scaleStep, _advancedFrom, timer
  screen   \* canvas; what the window asks for; resizeTimer; 1.5 s have passed since _activeSince

pageVars == <<scale, screen>>
vars == <<connVars, pageVars>>

Undefined == -1

Init ==
  /\ ConnInit
  /\ scale = [due |-> "none", applied |-> FALSE, step |-> Undefined, from |-> Undefined,
              timer |-> FALSE, target |-> env.size.res]
  /\ screen = [canvas |-> env.size.res, window |-> env.size.res, resizing |-> FALSE,
               settled |-> FALSE]

ScaleTypeOK ==
  /\ scale \in [due : {"none", "active", "ready"}, applied : BOOLEAN, step : Undefined..3,
                from : Undefined..2, timer : BOOLEAN, target : Nat]
  /\ screen \in [canvas : Nat, window : Nat, resizing : BOOLEAN, settled : BOOLEAN]

-----------------------------------------------------------------------------
(* The callbacks.                                                          *)

\* onActive and onDisplayControlReady, of the PDU that is taken.
Due ==
  IF page'.active > page.active THEN "active"
  ELSE IF \/ Head(down).kind = "display-create"
          \/ Head(down).kind = "display-caps" /\ display.open
       THEN "ready" ELSE "none"

\* A PDU is taken; _onRemoteResize follows a size that was pending.
Fed ==
  /\ scale.due = "none" /\ Feed
  /\ scale' = [scale EXCEPT !.due = IF st = "closed" THEN "none" ELSE Due]
  /\ screen' = IF desk.pending # NoSize /\ desk'.pending = NoSize
               THEN [screen EXCEPT !.canvas = desk.pending.res] ELSE screen

WantedScale == IF May("scales") THEN SessionScale ELSE 100

\* A layout, and _resizeCanvas if it was sent.
Layout(size, resizes) ==
  /\ SendMonitorLayout(size)
  /\ screen' = IF resizes /\ WorthSending(size) THEN [screen EXCEPT !.canvas = size.res] ELSE screen

\* The sizes of the three steps.
StepSize(target, n) ==
  [res |-> IF n = 1 THEN target + Nudge ELSE target, scale |-> WantedScale]

\* Mutant: only a reactivation moves the sequence on.
RunScaleStepVariant(s, n) ==
  IF n > 2 \/ ~canResize
  THEN scale' = [s EXCEPT !.step = n] /\ UNCHANGED <<desk, up, screen>>
  ELSE scale' = [s EXCEPT !.step = n, !.from = n] /\ Layout(StepSize(s.target, n), n > 0)

\* _runScaleStep of step n; the timer is armed whether or not the layout was sent.
RunScaleStep(s, n) ==
  IF n > 2 \/ ~canResize
  THEN scale' = [s EXCEPT !.step = n] /\ UNCHANGED <<desk, up, screen>>
  ELSE /\ scale' = [s EXCEPT !.step = n, !.from = n, !.timer = TRUE]
       /\ Layout(StepSize(s.target, n), n > 0)

\* Mutant: the dummy resize is left out, since the scale was sent already.
ScaleStepsVariant(s) ==
  /\ scale' = [s EXCEPT !.applied = TRUE, !.step = 3]
  /\ Layout([res |-> s.target, scale |-> WantedScale], FALSE)

\* The beginning of the sequence.
ScaleSteps(s) == RunScaleStep([s EXCEPT !.applied = TRUE], 0)

\* _applyInitialScale, when nothing is due any more.
ApplyInitialScale(s) ==
  IF s.applied \/ ~canResize THEN scale' = s /\ UNCHANGED <<desk, up, screen>>
  ELSE IF May("gfx")
  THEN /\ scale' = [s EXCEPT !.applied = TRUE]
       /\ Layout([res |-> screen.canvas, scale |-> WantedScale], FALSE)
  ELSE IF ~May("scales") THEN scale' = [s EXCEPT !.applied = TRUE] /\ UNCHANGED <<desk, up, screen>>
  ELSE ScaleSteps([s EXCEPT !.target = screen.canvas])

Running == scale.applied /\ scale.step \in 0..2

\* Mutant: the reactivation and the timer both advance from one step.
AdvanceScaleStepVariant(s) ==
  IF s.step \notin 0..2 \/ s.from # s.step THEN scale' = s /\ UNCHANGED <<desk, up, screen>>
  ELSE RunScaleStep([s EXCEPT !.from = Undefined, !.timer = FALSE], s.step + 2)

\* _advanceScaleStep.
AdvanceScaleStep(s) ==
  IF s.step \notin 0..2 \/ s.from # s.step THEN scale' = s /\ UNCHANGED <<desk, up, screen>>
  ELSE RunScaleStep([s EXCEPT !.from = Undefined, !.timer = FALSE], s.step + 1)

ConnectionRests == UNCHANGED <<env, st, join, fin, share, again, display, page, down, host>>

\* The page's part: _onActive, the first time and later, and onDisplayControlReady.
Callback ==
  LET s == [scale EXCEPT !.due = "none"]
  IN /\ scale.due # "none" /\ ConnectionRests
     /\ IF scale.due = "active" /\ Running THEN AdvanceScaleStep(s) ELSE ApplyInitialScale(s)

-----------------------------------------------------------------------------
(* The timers and the window.                                              *)

\* Nothing of a layout is under way.
Calm ==
  /\ st = "active" /\ host.ph = "active"
  /\ \A i \in DOMAIN up : up[i].kind # "layout"
  /\ \A i \in DOMAIN down : down[i].kind # "deactivate-all"

\* The 600 ms of a step.
ScaleTimer ==
  /\ scale.timer /\ scale.due = "none" /\ st # "closed"
  /\ Calm \/ May("slowSteps")
  /\ ConnectionRests
  /\ AdvanceScaleStep([scale EXCEPT !.timer = FALSE])

Settles ==
  /\ page.active > 0 /\ ~screen.settled
  /\ screen' = [screen EXCEPT !.settled = TRUE]
  /\ UNCHANGED <<connVars, scale>>

\* onViewportChange.
ViewportChanges(res) ==
  /\ page.active > 0 /\ st # "closed" /\ env.resizes > 0 /\ res # screen.window
  /\ env' = [env EXCEPT !.resizes = @ - 1]
  /\ screen' = [screen EXCEPT !.window = res, !.resizing = TRUE]
  /\ UNCHANGED <<clientVars, up, down, host, scale>>

Near(a, b) == a - b < Threshold /\ b - a < Threshold

\* The session has started and is not in the middle of a change.
Steady == canResize /\ screen.settled /\ scale.applied /\ ~Running

\* resizeTimer: maybeResize.
ResizeTimer ==
  /\ screen.resizing /\ scale.due = "none"
  /\ Steady \/ May("early")
  /\ LET done == [screen EXCEPT !.resizing = FALSE]
         size == [res |-> screen.window, scale |-> WantedScale]
     IN IF ~canResize \/ ~screen.settled \/ Near(screen.window, screen.canvas)
        THEN screen' = done /\ UNCHANGED <<desk, up>>
        ELSE /\ SendMonitorLayout(size)
             /\ screen' = IF WorthSending(size) THEN [done EXCEPT !.canvas = size.res] ELSE done
  /\ ConnectionRests /\ UNCHANGED scale

-----------------------------------------------------------------------------

PageNext ==
  Callback \/ ScaleTimer \/ Settles \/ ResizeTimer \/ \E res \in Windows : ViewportChanges(res)

Rest == Quiescent /\ UNCHANGED vars

Next ==
  \/ Fed \/ PageNext
  \/ HostNext /\ UNCHANGED pageVars
  \/ scale.due = "none" /\ SendInput /\ UNCHANGED pageVars
  \/ Rest

Spec == Init /\ [][Next]_vars

\* The page takes what the socket delivers and its timers run; the host answers, and
\* sends the licence and the share it owes.
FairSpec ==
  /\ Spec
  /\ WF_vars(Fed) /\ WF_vars(Callback) /\ WF_vars(ScaleTimer)
  /\ WF_vars(HostReceives /\ UNCHANGED pageVars)
  /\ WF_vars(HostLicenses /\ UNCHANGED pageVars) /\ WF_vars(HostDemands /\ UNCHANGED pageVars)

-----------------------------------------------------------------------------
(* Properties.                                                             *)

\* The ends of the connection and the page never come apart: types, share and
\* state, output, and what the page has been told.
Coherent ==
  ConnTypeOK /\ ScaleTypeOK /\ EndsAgree /\ LaterOutputDrawn /\ CloseOnce /\ ActiveOncePerShare

\* Everything has been applied, and the page waits for nothing.
AtRest ==
  /\ Quiescent /\ st = "active" /\ scale.due = "none" /\ ~Running /\ ~screen.resizing
  /\ scale.applied /\ ~May("displayCloses")

\* Once the initial layouts are over the session has its scale, also with a host that
\* ignores a change of the scale alone ("forcing the scale to take effect",
\* _applyInitialScale), and the canvas has the host's size: the dummy resize leaves
\* nothing behind.
ScaleTakesEffect ==
  AtRest => /\ host.size.scale = WantedScale
            /\ screen.canvas = host.size.res

\* The desktop fills the window the user made last.
WindowIsFilled == AtRest /\ screen.settled => Near(screen.canvas, screen.window)

\* Size and scale of client, host, canvas and window agree.
DesktopAgrees == SizesAgree /\ ScaleTakesEffect /\ WindowIsFilled

\* The initial layouts come to an end, whether or not the host reactivates for them.
ScaleEnds == Running ~> ~Running \/ st = "closed" \/ ~display.open

\* The session becomes active whenever it was deactivated, and its size settles.
SessionSettles == ReachesActive /\ ScaleEnds

=============================================================================
