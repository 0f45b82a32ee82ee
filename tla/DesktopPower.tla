----------------------------- MODULE DesktopPower -----------------------------
(***************************************************************************)
(* The power of the desktop that the sessions of ConsoleSession are on.    *)
(* It is started by the readiness sequence, which the console page runs as *)
(* a job (RDP/ConnectionReadinessService.cs) and a connect runs itself     *)
(* when there is no recent result (RDP/VdiResourceResolver.cs), watched by *)
(* RDP/ResourceStatusService.cs, and paused by RDP/IdleReaperService.cs.   *)
(*                                                                         *)
(* Every key is a user of this one desktop.  Time is reduced to whether    *)
(* the idle timeout has passed since the last stamp, since the gateway     *)
(* started, and since there was a session; no readiness run, scan or       *)
(* connect takes that long.                                                *)
(***************************************************************************)
EXTENDS ConsoleSession

CONSTANTS
  Settings,     \* each the environment of the sessions and that of the desktop
  ManagedLegs   \* bound: connects to a desktop whose power is managed

\* What may happen to the desktop.
PowerHazards ==
  { "managed",  \* the gateway starts and watches it; without, it is always up
    "reaped",   \* it is paused when it is idle (IdleReapEnabled)
    "stops",    \* that is done by stopping it (PauseAction)
    "overlap",  \* sessions begin and end in the middle of a scan of the reaper
    "late",     \* progress is delivered after the result it precedes
    "direct",   \* the result is old when the connect comes
    "stale",    \* a probe that succeeded is cached beyond the next scan
    "flaky",    \* a scan now and then finds neither Proxmox nor the desktop
    "fails",    \* Proxmox does not answer, or refuses to start or to pause it
    "guest" }   \* its guest shuts down

ASSUME PowerAssumption ==
  /\ \A s \in Settings : s.sessions \in Environments /\ s.power \subseteq PowerHazards
  /\ ManagedLegs \in 0..MaxLegs

VARIABLES
  plan,    \* the environment of the desktop
  vm,      \* the VM, as Proxmox knows it
  power,   \* RDPResource.PowerState
  clock,   \* LastActivityUtc and _startedUtc against the idle timeout; sessions within it
  run,     \* readiness runs: that of the job and that of the connect
  job,     \* ConnectionReadinessService: the job of each key
  page,    \* the console page of each key, and its connect until it is a leg
  scan,    \* ResourceStatusService
  reaper   \* IdleReaperService: where its scan of this desktop is

powerVars   == <<vm, power, clock, run, job, page, scan, reaper>>
desktopVars == <<vars, plan, powerVars>>

PMay(h) == h \in plan

Powers  == {"Stopped", "Starting", "Running", "Suspended"}
Workers == Keys \X {"job", "connect"}

NoRun  == [pc |-> "idle", copy |-> "Stopped"]
NoJob  == [set |-> FALSE, phase |-> "busy", finished |-> FALSE, fresh |-> FALSE, posted |-> FALSE]
NoScan == [pc |-> "idle", copy |-> "Stopped", seen |-> "none", state |-> "Stopped",
           misses |-> 0, cached |-> FALSE, lost |-> FALSE]

PowerTypeOK ==
  /\ plan \in SUBSET PowerHazards
  /\ vm \in {"off", "booting", "up", "paused"} /\ power \in Powers
  /\ clock \in [idle : BOOLEAN, grace : BOOLEAN, recent : BOOLEAN]
  /\ run \in [Workers -> [pc : {"idle", "load", "look", "start", "wait", "save"}, copy : Powers]]
  /\ job \in [Keys -> [set : BOOLEAN, phase : {"busy", "ready", "error"}, finished : BOOLEAN,
                       fresh : BOOLEAN, posted : BOOLEAN]]
  /\ page \in [Keys -> [at : {"closed", "polling", "ready", "failed"},
                        connect : {"none", "resolving", "resolved"}]]
  /\ scan \in [pc : {"idle", "read", "resolved"}, copy : Powers, state : Powers,
               seen : {"none", "stopped", "running"}, misses : 0..1, cached : BOOLEAN,
               lost : BOOLEAN]
  /\ reaper \in {"idle", "loaded", "pausing", "saving"}

\* The gateway has just started; what was before it does not know.
DesktopInit ==
  /\ Init
  /\ plan \in SUBSET PowerHazards /\ [sessions |-> env, power |-> plan] \in Settings
  /\ IF PMay("managed") THEN vm \in {"off", "up"} ELSE vm = "up"
  /\ power = IF vm = "up" THEN "Running" ELSE "Stopped"
  /\ clock \in [idle : BOOLEAN, grace : {TRUE}, recent : {TRUE}]
  /\ run = [w \in Workers |-> NoRun]
  /\ job = [k \in Keys |-> NoJob]
  /\ page = [k \in Keys |-> [at |-> "closed", connect |-> "none"]]
  /\ scan = NoScan
  /\ reaper = "idle"

Elsewhere == UNCHANGED <<vars, plan>>

-----------------------------------------------------------------------------
(* The readiness sequence of a Proxmox-backed desktop.  A run keeps the    *)
(* row it loaded; saving writes the power state if it differs from that.   *)

\* Progress is posted to the thread pool.  A report that arrives at once is not
\* seen: the job has not finished.
Reported(w) ==
  IF w[2] = "job" /\ PMay("late") THEN [job EXCEPT ![w[1]].posted = TRUE] ELSE job

Saves(w, state) == power' = IF run[w].copy = state THEN power ELSE state

Goes(w, to) == run' = [run EXCEPT ![w].pc = to]

\* Mutant: an error is not stored.
EndsVariant(w, result) ==
  LET k == w[1] IN
  /\ run' = [run EXCEPT ![w] = NoRun]
  /\ IF w[2] = "job"
     THEN /\ job' = [job EXCEPT ![k].phase = IF result = "error" THEN @ ELSE result,
                                ![k].finished = TRUE, ![k].fresh = TRUE]
          /\ UNCHANGED page
     ELSE /\ page' = [page EXCEPT ![k].connect = IF result = "ready" THEN "resolved" ELSE "none"]
          /\ UNCHANGED job

\* The result of a run, stored in its job or given to the connect.
Ends(w, result) ==
  LET k == w[1] IN
  /\ run' = [run EXCEPT ![w] = NoRun]
  /\ IF w[2] = "job"
     THEN /\ job' = [job EXCEPT ![k].phase = result, ![k].finished = TRUE, ![k].fresh = TRUE]
          /\ UNCHANGED page
     ELSE /\ page' = [page EXCEPT ![k].connect = IF result = "ready" THEN "resolved" ELSE "none"]
          /\ UNCHANGED job

RunLoads(w) ==
  /\ run[w].pc = "load"
  /\ run' = [run EXCEPT ![w] = [pc |-> "look", copy |-> power]]
  /\ job' = Reported(w)
  /\ UNCHANGED <<vm, power, clock, page, scan, reaper>>

IsOn == vm \in {"booting", "up"}

\* GetStatusAsync, which finds no state when Proxmox does not answer; the start is
\* noted before it is tried.
RunLooks(w) ==
  /\ run[w].pc = "look"
  /\ \/ IsOn /\ Goes(w, "wait") /\ UNCHANGED power
     \/ /\ ~IsOn \/ PMay("fails")
        /\ run' = [run EXCEPT ![w] = [pc |-> "start", copy |-> "Starting"]]
        /\ Saves(w, "Starting")
  /\ job' = Reported(w)
  /\ UNCHANGED <<vm, clock, page, scan, reaper>>

\* EnsureRunningAsync looks again, and starts or resumes.
RunStarts(w) ==
  /\ run[w].pc = "start"
  /\ \/ /\ vm' = IF IsOn THEN vm ELSE "booting"
        /\ Goes(w, "wait") /\ UNCHANGED <<power, job, page>>
     \/ /\ PMay("fails")
        /\ Saves(w, "Stopped") /\ Ends(w, "error") /\ UNCHANGED vm
  /\ UNCHANGED <<clock, scan, reaper>>

\* The guest agent, the address and the RDP port answer.
RunProbes(w) ==
  /\ run[w].pc = "wait" /\ vm = "up"
  /\ Goes(w, "save") /\ job' = Reported(w)
  /\ scan' = [scan EXCEPT !.cached = PMay("stale")]
  /\ UNCHANGED <<vm, power, clock, page, reaper>>

\* StartTimeoutSeconds have passed.
RunTimesOut(w) ==
  /\ run[w].pc = "wait" /\ (vm # "up" \/ PMay("fails"))
  /\ Saves(w, "Starting") /\ Ends(w, "error")
  /\ UNCHANGED <<vm, clock, scan, reaper>>

RunSaves(w) ==
  /\ run[w].pc = "save"
  /\ Saves(w, "Running") /\ Ends(w, "ready")
  /\ UNCHANGED <<vm, clock, scan, reaper>>

RunStep(w) ==
  RunLoads(w) \/ RunLooks(w) \/ RunStarts(w) \/ RunProbes(w) \/ RunTimesOut(w) \/ RunSaves(w)

-----------------------------------------------------------------------------
(* The job, the page and the connect.                                      *)

\* A posted report arrives.
Delivers(k) ==
  /\ job[k].posted
  /\ job' = [job EXCEPT ![k].phase = "busy", ![k].posted = FALSE]
  /\ UNCHANGED <<vm, power, clock, run, page, scan, reaper>>

\* Mutant: a finished job is started again as it is.
BeginsVariant(k) ==
  /\ page[k].at \in {"closed", "failed"}
  /\ page' = [page EXCEPT ![k].at = "polling"]
  /\ IF ~job[k].set
     THEN /\ job' = [job EXCEPT ![k] = [NoJob EXCEPT !.set = TRUE]]
          /\ run' = [run EXCEPT ![<<k, "job">>].pc = "load"]
     ELSE /\ run' = [run EXCEPT ![<<k, "job">>].pc = "load"]
          /\ UNCHANGED job
  /\ UNCHANGED <<vm, power, clock, scan, reaper>>

\* The page begins; a job that has finished is replaced, one that runs is shared.
Begins(k) ==
  /\ page[k].at \in {"closed", "failed"}
  /\ page' = [page EXCEPT ![k].at = "polling"]
  /\ IF ~job[k].set \/ job[k].finished
     THEN /\ job' = [job EXCEPT ![k] = [NoJob EXCEPT !.set = TRUE]]
          /\ run' = [run EXCEPT ![<<k, "job">>].pc = "load"]
     ELSE UNCHANGED <<job, run>>
  /\ UNCHANGED <<vm, power, clock, scan, reaper>>

\* The page polls.
Polls(k) ==
  /\ page[k].at = "polling" /\ job[k].set /\ job[k].phase # "busy"
  /\ page' = [page EXCEPT ![k].at = IF job[k].phase = "ready" THEN "ready" ELSE "failed"]
  /\ UNCHANGED <<vm, power, clock, run, job, scan, reaper>>

Present(k) == \E l \in LegsOn(k) : leg[l].pc \notin {"refused", "done"}

\* The user closes the page, also while the job runs.
Leaves(k) ==
  /\ page[k].at # "closed" /\ page[k].connect = "none" /\ ~Present(k)
  /\ page' = [page EXCEPT ![k].at = "closed"]
  /\ UNCHANGED <<vm, power, clock, run, job, scan, reaper>>

\* TryGetRecentReady.
RecentReady(k) == job[k].set /\ job[k].finished /\ job[k].fresh /\ job[k].phase = "ready"

\* The page connects, the first time or after a session has ended.
Connects(k) ==
  /\ page[k].at = "ready" /\ page[k].connect = "none" /\ ~Present(k)
  /\ \E l \in Idle : l <= ManagedLegs
  /\ \/ /\ RecentReady(k)
        /\ page' = [page EXCEPT ![k].connect = "resolved"] /\ UNCHANGED run
     \/ /\ PMay("direct") /\ ~RecentReady(k)
        /\ page' = [page EXCEPT ![k].connect = "resolving"]
        /\ run' = [run EXCEPT ![<<k, "connect">>].pc = "load"]
  /\ UNCHANGED <<vm, power, clock, job, scan, reaper>>

\* 90 s have passed since the result.
Ages(k) ==
  /\ PMay("direct") /\ job[k].fresh
  /\ job' = [job EXCEPT ![k].fresh = FALSE]
  /\ UNCHANGED <<vm, power, clock, run, page, scan, reaper>>

-----------------------------------------------------------------------------
(* The status scan.                                                        *)

\* The rows are loaded and the states of the VMs listed; one paused in memory is
\* listed as running.
ScanReads ==
  /\ scan.pc = "idle"
  /\ \E lost \in {FALSE} \cup (IF PMay("flaky") THEN {~scan.lost} ELSE {}) :
       scan' = [scan EXCEPT !.pc = "read", !.copy = power, !.lost = lost,
                  !.seen = IF lost THEN "none" ELSE IF vm = "off" THEN "stopped" ELSE "running"]
  /\ UNCHANGED <<vm, power, clock, run, job, page, reaper>>

HasActiveSessions == sessions # {}

\* Mutant: the per-VM call is left out.
ResolvedVariant(reachable, held) ==
  IF HasActiveSessions THEN "Running"
  ELSE IF scan.seen = "stopped" THEN "Stopped"
  ELSE IF reachable \/ held THEN "Running"
  ELSE IF scan.seen = "running" THEN "Starting" ELSE "Stopped"

\* ResolveStateAsync; the last test tells a VM that is paused from one that boots.
Resolved(reachable, held) ==
  IF HasActiveSessions THEN "Running"
  ELSE IF scan.seen = "stopped" THEN "Stopped"
  ELSE IF reachable \/ held THEN "Running"
  ELSE IF scan.seen = "running" /\ vm = "paused" THEN "Suspended"
  ELSE IF scan.seen = "running" THEN "Starting" ELSE "Stopped"

\* The probes, through the cache of the path selector; one that fails is forgiven.
ScanResolves ==
  LET proved    == HasActiveSessions \/ scan.seen = "stopped"
      reachable == scan.cached \/ (vm = "up" /\ ~scan.lost)
      held      == scan.copy = "Running" /\ scan.misses = 0
  IN /\ scan.pc = "read"
     /\ scan' = [scan EXCEPT !.pc = "resolved", !.state = Resolved(reachable, held),
                   !.cached = @ \/ (PMay("stale") /\ ~proved /\ reachable),
                   !.misses = IF ~proved /\ ~reachable /\ held THEN 1 ELSE 0]
     /\ UNCHANGED <<vm, power, clock, run, job, page, reaper>>

\* What has changed since the rows were loaded is saved.
ScanWrites ==
  /\ scan.pc = "resolved"
  /\ scan' = [scan EXCEPT !.pc = "idle", !.copy = "Stopped", !.seen = "none", !.state = "Stopped"]
  /\ power' = IF scan.state = scan.copy THEN power ELSE scan.state
  /\ UNCHANGED <<vm, clock, run, job, page, reaper>>

\* A minute after the last success.
CacheExpires ==
  /\ scan.cached
  /\ scan' = [scan EXCEPT !.cached = FALSE]
  /\ UNCHANGED <<vm, power, clock, run, job, page, reaper>>

ScanStep == ScanReads \/ ScanResolves \/ ScanWrites

-----------------------------------------------------------------------------
(* The reaper.                                                             *)

\* Sessions that have ended and are not stamped yet.
Unstamped == {l \in Legs : leg[l].pc = "removed"}

\* A desktop whose last stamp is not old is passed over.
ReaperLoads ==
  /\ PMay("reaped") /\ reaper = "idle" /\ power = "Running" /\ clock.idle
  /\ PMay("overlap") \/ Unstamped = {}
  /\ reaper' = "loaded"
  /\ UNCHANGED <<vm, power, clock, run, job, page, scan>>

\* Mutant: a VM is reaped although the gateway has just come up.
ReapableVariant == TRUE

\* IsReapable of the row that was loaded.
Reapable == ~clock.grace

ReaperChecks ==
  /\ reaper = "loaded"
  /\ reaper' = IF ~HasActiveSessions /\ Reapable THEN "pausing" ELSE "idle"
  /\ UNCHANGED <<vm, power, clock, run, job, page, scan>>

ReaperPauses ==
  /\ reaper = "pausing"
  /\ \/ /\ IsOn
        /\ vm' = IF PMay("stops") THEN "off" ELSE "paused"
        /\ reaper' = "saving"
     \/ /\ ~IsOn \/ PMay("fails")
        /\ reaper' = "idle" /\ UNCHANGED vm
  /\ UNCHANGED <<power, clock, run, job, page, scan>>

ReaperSaves ==
  /\ reaper = "saving"
  /\ power' = IF PMay("stops") THEN "Stopped" ELSE "Suspended"
  /\ reaper' = "idle"
  /\ UNCHANGED <<vm, clock, run, job, page, scan>>

ReaperStep == ReaperLoads \/ ReaperChecks \/ ReaperPauses \/ ReaperSaves

-----------------------------------------------------------------------------
(* The VM and time.                                                        *)

Boots ==
  /\ vm = "booting" /\ vm' = "up"
  /\ UNCHANGED <<power, clock, run, job, page, scan, reaper>>

GuestStops ==
  /\ PMay("guest") /\ vm = "up" /\ vm' = "off"
  /\ UNCHANGED <<power, clock, run, job, page, scan, reaper>>

\* Nothing but a status scan is under way at the end of the idle timeout.
Steady ==
  /\ reaper = "idle" /\ \A w \in Workers : run[w].pc = "idle"
  /\ \A k \in Keys : page[k].connect = "none" /\ ~job[k].posted
  /\ \A l \in Legs : leg[l].pc \in {"idle", "refused", "live", "done"}

TimePasses ==
  /\ Steady
  /\ clock' = [idle |-> TRUE, grace |-> FALSE, recent |-> HasActiveSessions]
  /\ job' = [k \in Keys |-> [job[k] EXCEPT !.fresh = FALSE]]
  /\ UNCHANGED <<vm, power, run, page, scan, reaper>>

-----------------------------------------------------------------------------
(* The sessions.                                                           *)

Managed == PMay("managed")

\* The reaper's scan meets no session that begins or ends.
Apart == PMay("overlap") \/ reaper = "idle"

Stamped == [clock EXCEPT !.idle = FALSE]

\* Mutant: only the beginning of a session is stamped.
WindsUpVariant(l) == Dispose(l) /\ UNCHANGED <<plan, powerVars>>

\* OnDisconnectedAsync comes between Remove and the recorder.
WindsUp(l) ==
  /\ Dispose(l)
  /\ clock' = Stamped
  /\ UNCHANGED <<plan, vm, power, run, job, page, scan, reaper>>

\* A leg is set up when its desktop is resolved.
OpensLeg(l, k) ==
  /\ Continue(l, k) \/ Open(l, k)
  /\ Managed => page[k].connect = "resolved" /\ l <= ManagedLegs
  /\ page' = [page EXCEPT ![k].connect = "none"]
  /\ UNCHANGED <<plan, vm, power, clock, run, job, scan, reaper>>

\* OnConnectedAsync and the registration.
Registers(l) ==
  /\ Register(l) /\ Apart
  /\ clock' = [Stamped EXCEPT !.recent = TRUE]
  /\ UNCHANGED <<plan, vm, power, run, job, page, scan, reaper>>

\* A restart; pages stay open.
Restarts ==
  /\ Crash
  /\ run' = [w \in Workers |-> NoRun]
  /\ job' = [k \in Keys |-> NoJob]
  /\ page' = [k \in Keys |-> [page[k] EXCEPT !.connect = "none"]]
  /\ scan' = NoScan /\ reaper' = "idle"
  /\ clock' = [clock EXCEPT !.grace = TRUE]
  /\ UNCHANGED <<plan, vm, power>>

\* The policy records no session on a managed desktop.
OtherSessionStep ==
  \/ \E l \in Legs : \/ SetUpRecording(l) /\ (Managed => leg'[l].rec = Nobody)
                     \/ Remove(l) /\ Apart
                     \/ Finalize(l) \/ Abandon(l) \/ Redirect(l) \/ HandOver(l) \/ EndLeg(l)
  \/ \E k \in Keys : Expire(k)
  \/ \E r \in Legs : MuxStart(r) \/ MuxEnd(r) \/ DeleteFiles(r) \/ DeleteRow(r)
  \/ Quiet

SessionNext ==
  \/ \E l \in Legs, k \in Keys : OpensLeg(l, k)
  \/ \E l \in Legs : Registers(l) \/ WindsUp(l)
  \/ Restarts
  \/ OtherSessionStep /\ UNCHANGED <<plan, powerVars>>

\* A step of the desktop is none of a session.
Power(A) == Managed /\ Elsewhere /\ A

PowerNext ==
  \/ \E w \in Workers : Power(RunStep(w))
  \/ \E k \in Keys : \/ Power(Delivers(k)) \/ Power(Begins(k)) \/ Power(Polls(k))
                     \/ Power(Leaves(k)) \/ Power(Connects(k)) \/ Power(Ages(k))
  \/ Power(ScanStep) \/ Power(CacheExpires) \/ Power(ReaperStep)
  \/ Power(Boots) \/ Power(GuestStops) \/ Power(TimePasses)

DesktopNext == SessionNext \/ PowerNext

DesktopSpec == DesktopInit /\ [][DesktopNext]_desktopVars

\* Besides what a session needs: runs go on, reports arrive and pages poll, both
\* services scan, a VM boots, caches expire, and time passes.  A connect whose
\* desktop is resolved becomes a leg.
PowerFairness ==
  /\ \A w \in Workers : WF_desktopVars(Power(RunStep(w)))
  /\ \A k \in Keys : /\ WF_desktopVars(Power(Delivers(k) \/ Polls(k)))
                     /\ WF_desktopVars(Managed /\ \E l \in Legs : OpensLeg(l, k))
  /\ WF_desktopVars(Power(ScanStep))
  /\ WF_desktopVars(Power(CacheExpires))
  /\ WF_desktopVars(Power(ReaperStep))
  /\ WF_desktopVars(Power(Boots))
  /\ SF_desktopVars(Power(TimePasses))

DesktopFairSpec == DesktopSpec /\ Fairness /\ PowerFairness

-----------------------------------------------------------------------------
(* Properties.                                                             *)

\* A desktop that is paused has had "no active gateway session for at least [the] idle
\* timeout".  It need not: sessions that begin or end during the scan are not seen.
PausedIsIdle == reaper = "saving" => ~clock.recent /\ ~HasActiveSessions

\* But for those it has, also after a session longer than the timeout and a restart.
PausesOnlyIdle == PMay("overlap") \/ PausedIsIdle

\* A job runs once and until it has finished ("a single job runs per key").
JobOwnsRun ==
  \A k \in Keys : run[<<k, "job">>].pc # "idle" <=> job[k].set /\ ~job[k].finished

DesktopGuarded == PowerTypeOK /\ JobOwnsRun /\ PausesOnlyIdle

\* What the dashboard shows of a VM that does not boot.
Shown == CASE vm = "off" -> "Stopped" [] vm = "up" -> "Running" [] vm = "paused" -> "Suspended"

\* Always again the row shows what the VM does, whoever wrote it last; while a VM
\* boots or has a session there is nothing to compare.
StateIsShown == []<>(vm # "booting" /\ ~HasActiveSessions => power = Shown)

\* Nobody uses the desktop or is about to.
Unused ==
  \A k \in Keys : page[k].at \in {"closed", "failed"} /\ page[k].connect = "none" /\ ~Present(k)

\* A desktop that nobody uses does not run for ever.
IdleIsPaused == []<>(PMay("reaped") /\ ~PMay("fails") => vm # "up" \/ ~Unused)

\* The preflight of a page ends.  It need not: the gateway forgets the job when it
\* stops, and a late report hides the result.
EveryPreflightEnds == \A k \in Keys : []<>(page[k].at # "polling")

\* But for these two it does.
PreflightEnds ==
  \A k \in Keys : []<>(page[k].at = "polling" => PMay("late") \/ May("crash"))

\* The dashboard, the reaper and the pages catch up with the desktop.
PowerSettles == StateIsShown /\ IdleIsPaused /\ PreflightEnds

\* A desktop is not paused while somebody connects to it.  It may be: a connect is
\* stamped only when its session begins.
NotWhileConnecting ==
  reaper = "saving" => \A k \in Keys : page[k].connect = "none" /\ page[k].at # "polling"

=============================================================================
