---------------------------- MODULE ConsoleSession ----------------------------
(***************************************************************************)
(* A console session and its recording.  A desktop that hands its user     *)
(* over (GNOME "Remote Login", a connection broker) ends one WebSocket     *)
(* and expects the browser back: a session is a chain of legs, threaded    *)
(* by RDP/RedirectionTokenCache.cs.  Modelled are the legs                 *)
(* (Controllers/RdpWebSocketController.cs, Connect, and the end of         *)
(* RDP/RdpRelaySession.cs, RunAsync), the registry of live tunnels         *)
(* (RDP/SessionTracker.cs), the recording all legs of a chain share        *)
(* (RDP/SessionRecorder.cs), the job that muxes it                         *)
(* (RDP/RecordingMuxService.cs) and the one that deletes it                *)
(* (RDP/RecordingRetentionService.cs, Controllers/RecordingsController.cs).*)
(*                                                                         *)
(* A step is what runs between two awaits that matter; steps that only     *)
(* await (audit, activity stamp) are part of the one they precede.  A      *)
(* recording has the number of the leg that creates its row.  What a leg   *)
(* records is reduced to whether its directory and manifest exist.         *)
(***************************************************************************)
EXTENDS Integers, FiniteSets

CONSTANTS
  MaxLegs,        \* bound: WebSocket connects in a behaviour
  Keys,           \* the (user, desktop) pairs
  UserOf,         \* the user of each pair
  MaxConcurrent,  \* Sessions:MaxConcurrentPerUser; 0 means no limit
  NoKey,          \* no pair
  MaxCrashes,     \* bound: restarts of the gateway in a behaviour
  Environments    \* each is a set of things that may happen, see Hazards

\* What users, hosts and the machine may do.
Hazards ==
  { "redirect",  \* hosts redirect sessions
    "tabs",      \* a user opens a desktop that he has open already
    "race",      \* a user opens a desktop while another is still connecting
    "leave",     \* the browser does not come back while a redirect waits
    "slow",      \* a leg's wind-up outlasts the whole leg that follows it
    "gone",      \* a browser leaves before its leg is registered
    "disk",      \* a leg's directory cannot be created
    "purge",     \* recordings are deleted, by an administrator or by age
    "crash" }    \* the gateway process stops and starts again

ASSUME ConstantsAssumption ==
  /\ Keys \subseteq DOMAIN UserOf /\ NoKey \notin Keys
  /\ MaxLegs \in Nat \ {0} /\ MaxConcurrent \in Nat /\ MaxCrashes \in Nat
  /\ \A e \in Environments : e \subseteq Hazards

VARIABLES
  env,        \* the environment of this behaviour, chosen at the start
  leg,        \* the local variables of each leg, see Leg
  cache,      \* RedirectionTokenCache: the continuation pending for a key
  sessions,   \* SessionTracker: the registered legs
  status,     \* the Recordings table
  dirs,       \* {baseDir}/leg{N}: the leg directories of a recording
  manifests,  \* those with a manifest.json
  merged,     \* {baseDir}/manifest.json: the legs it was merged from
  mux,        \* the recording the mux job works on
  purging,    \* the recording whose files are deleted and whose row is not yet
  crashes     \* restarts so far

diskVars == <<dirs, manifests, merged>>
jobVars  == <<mux, purging>>
vars == <<env, leg, cache, sessions, status, dirs, manifests, merged,
          mux, purging, crashes>>

-----------------------------------------------------------------------------

Legs       == 1..MaxLegs    \* in the order of their arrival
Nobody     == 0             \* no leg, no recording
LegNumbers == 0..MaxLegs
Phases == {"idle", "refused", "setup", "path", "live", "closing", "removed",
           "disposed", "done"}

\* token: a routing token came with the connect; row: the Recording entity is
\* at hand; writes: a recorder was created.
Leg == [pc : Phases, key : Keys \cup {NoKey}, rec : Legs \cup {Nobody},
        n : LegNumbers, token : BOOLEAN, armed : BOOLEAN,
        row : BOOLEAN, writes : BOOLEAN]
NewLeg == [pc |-> "idle", key |-> NoKey, rec |-> Nobody, n |-> 0,
           token |-> FALSE, armed |-> FALSE, row |-> FALSE, writes |-> FALSE]

\* Completed stands for UnsupportedCodec too.
Statuses == {"none", "Recording", "Processing", "Completed", "Failed", "deleted"}

\* The part of a Pending that outlives the connect that consumes it.  An
\* expired entry is no entry.
Pending   == [set : BOOLEAN, rec : Legs \cup {Nobody}, n : LegNumbers]
NoPending == [set |-> FALSE, rec |-> Nobody, n |-> 0]

\* The manifest of a recording's base directory; set says that it exists.
Merged    == [set : BOOLEAN, legs : SUBSET LegNumbers]
NotMerged == [set |-> FALSE, legs |-> {}]

May(h)       == h \in env
RowExists(r) == status[r] \notin {"none", "deleted"}
Idle         == {l \in Legs : leg[l].pc = "idle"}
Awaited      == {k \in Keys : cache[k].set}
\* Connecting legs, which no tracker knows of.
Connecting   == {l \in Legs : leg[l].pc \in {"setup", "path"}}
LegsOn(k)    == {l \in Legs : leg[l].key = k}
LegsOf(u)    == {l \in Legs : leg[l].key # NoKey /\ UserOf[leg[l].key] = u}

\* Legs are bounded: one is kept for every browser that was told to return.
SpareLeg == Cardinality(Idle) > Cardinality(Awaited)
Arrives(l) == l \in Idle /\ \A m \in Idle : l <= m

Step(l, from, to) == leg[l].pc = from /\ leg' = [leg EXCEPT ![l].pc = to]

Init ==
  /\ env \in Environments
  /\ leg = [l \in Legs |-> NewLeg]
  /\ cache = [k \in Keys |-> NoPending]
  /\ sessions = {}
  /\ status = [r \in Legs |-> "none"]
  /\ dirs = [r \in Legs |-> {}]
  /\ manifests = [r \in Legs |-> {}]
  /\ merged = [r \in Legs |-> NotMerged]
  /\ mux = Nobody /\ purging = Nobody
  /\ crashes = 0

-----------------------------------------------------------------------------
\* Connect: the redirect cache, the session limit and the recording.

CountForUser(u) == Cardinality(sessions \cap LegsOf(u))

\* Mutant: the entry is read, not removed.
ConsumeKeeps(k) == UNCHANGED cache

\* RedirectionTokenCache.Consume: an entry serves one connect.
Consume(k) == cache' = [cache EXCEPT ![k] = NoPending]

\* Mutant: both sides of the cache advance the leg number.
ContinueAdvances(l, k) ==
  /\ Arrives(l) /\ cache[k].set
  /\ Consume(k)
  /\ leg' = [leg EXCEPT ![l] = [NewLeg EXCEPT
                !.pc = "setup", !.key = k, !.rec = cache[k].rec,
                !.n = cache[k].n + 1, !.token = TRUE]]
  /\ UNCHANGED <<env, sessions, status, diskVars, jobVars, crashes>>

\* Mutant: the recording is not threaded through the cache.
ContinueForgets(l, k) ==
  /\ Arrives(l) /\ cache[k].set
  /\ Consume(k)
  /\ leg' = [leg EXCEPT ![l] = [NewLeg EXCEPT
                !.pc = "setup", !.key = k, !.n = cache[k].n, !.token = TRUE]]
  /\ UNCHANGED <<env, sessions, status, diskVars, jobVars, crashes>>

\* The browser returns for a pending continuation; such a leg is not counted.
Continue(l, k) ==
  /\ Arrives(l) /\ cache[k].set
  /\ Consume(k)
  /\ leg' = [leg EXCEPT ![l] = [NewLeg EXCEPT
                !.pc = "setup", !.key = k, !.rec = cache[k].rec,
                !.n = cache[k].n, !.token = TRUE]]
  /\ UNCHANGED <<env, sessions, status, diskVars, jobVars, crashes>>

\* What users do unless the environment says otherwise.
OneTab(k)     == \A m \in LegsOn(k) : leg[m].pc \notin {"setup", "path", "live"}
OneAtATime(k) == Connecting \cap LegsOf(UserOf[k]) = {}

\* Mutant: off by one.
AtLimitOver(u) == MaxConcurrent > 0 /\ CountForUser(u) > MaxConcurrent

\* A connect that continues nothing: checked against the limit.
AtLimit(u) == MaxConcurrent > 0 /\ CountForUser(u) >= MaxConcurrent

Open(l, k) ==
  /\ Arrives(l) /\ ~cache[k].set /\ SpareLeg
  /\ May("tabs") \/ OneTab(k)
  /\ May("race") \/ OneAtATime(k)
  /\ leg' = [leg EXCEPT ![l] = [NewLeg EXCEPT !.key = k,
                !.pc = IF AtLimit(UserOf[k]) THEN "refused" ELSE "setup"]]
  /\ UNCHANGED <<env, cache, sessions, status, diskVars, jobVars, crashes>>

\* CreateDirectory and the recorder; a failure is logged and the leg goes on.
StartRecorder(l, r, hasRow) ==
  \E ok \in {TRUE} \cup (IF May("disk") THEN {FALSE} ELSE {}) :
    /\ leg' = [leg EXCEPT ![l].pc = "path", ![l].rec = r,
                          ![l].row = hasRow, ![l].writes = ok]
    /\ dirs' = IF ok THEN [dirs EXCEPT ![r] = @ \cup {leg[l].n}] ELSE dirs

\* A leg that continues a recorded one looks up the row and goes on with its
\* number; any other leg asks the policy and creates row and directory.
SetUpRecording(l) ==
  /\ leg[l].pc = "setup"
  /\ \/ /\ leg[l].rec # Nobody
        /\ StartRecorder(l, leg[l].rec, RowExists(leg[l].rec))
        /\ UNCHANGED status
     \/ /\ leg[l].rec = Nobody
        /\ StartRecorder(l, l, TRUE)
        /\ status' = [status EXCEPT ![l] = "Recording"]
     \/ /\ leg[l].rec = Nobody
        /\ Step(l, "setup", "path")
        /\ UNCHANGED <<status, dirs>>
  /\ UNCHANGED <<env, cache, sessions, manifests, merged, jobVars, crashes>>

\* The request is aborted while a path to the host is looked for: the
\* exception leaves Connect before its try block.
Abandon(l) ==
  /\ May("gone")
  /\ Step(l, "path", "done")
  /\ UNCHANGED <<env, cache, sessions, status, diskVars, jobVars, crashes>>

Register(l) ==
  /\ Step(l, "path", "live")
  /\ sessions' = sessions \cup {l}
  /\ UNCHANGED <<env, cache, status, diskVars, jobVars, crashes>>

-----------------------------------------------------------------------------
\* The relay, and the finally block that winds a leg up.

\* Legs of the same recording before this one, still winding up.
WindingUp(l) == {m \in Legs : /\ leg[l].rec # Nobody /\ leg[m].rec = leg[l].rec
                              /\ leg[m].n < leg[l].n /\ leg[m].pc # "done"}
MayEnd(l) == leg[l].pc = "live" /\ (May("slow") \/ WindingUp(l) = {})

\* The onRedirect callback: RedirectionTokenCache.Store overwrites.
Arm(l) ==
  /\ MayEnd(l)
  /\ Cardinality(Idle) >= Cardinality(Awaited \cup {leg[l].key})
  /\ cache' = [cache EXCEPT ![leg[l].key] =
                 [set |-> TRUE, rec |-> leg[l].rec, n |-> leg[l].n + 1]]
  /\ leg' = [leg EXCEPT ![l].pc = "closing", ![l].armed = TRUE]
  /\ UNCHANGED <<env, sessions, status, diskVars, jobVars, crashes>>

\* The host sends a redirection.
Redirect(l) == May("redirect") /\ Arm(l)

\* The host's side ends first on a leg that used a routing token: the token is
\* armed again.  The code takes this branch too when a forced disconnect or an
\* abort ends that side first; then the browser is not told to return.
HandOver(l) == leg[l].token /\ Arm(l)

\* Every other end: the browser closes, the host does (no token used), it was
\* never reached, the policy guard objects, an administrator disconnects.
EndLeg(l) ==
  /\ MayEnd(l)
  /\ Step(l, "live", "closing")
  /\ UNCHANGED <<env, cache, sessions, status, diskVars, jobVars, crashes>>

Remove(l) ==
  /\ Step(l, "closing", "removed")
  /\ sessions' = sessions \ {l}
  /\ UNCHANGED <<env, cache, status, diskVars, jobVars, crashes>>

\* Mutant: only a leg that finalises the recording closes its recorder.
DisposeLast(l) ==
  /\ Step(l, "removed", IF leg[l].row THEN "disposed" ELSE "done")
  /\ manifests' = IF /\ leg[l].row /\ leg[l].writes /\ ~leg[l].armed
                     /\ leg[l].n \in dirs[leg[l].rec]
                    THEN [manifests EXCEPT ![leg[l].rec] = @ \cup {leg[l].n}]
                    ELSE manifests
  /\ UNCHANGED <<env, cache, sessions, status, dirs, merged, jobVars, crashes>>

\* SessionRecorder.Dispose writes the manifest if the directory is still there.
\* Without the row nothing is closed and nothing saved.
Dispose(l) ==
  /\ Step(l, "removed", IF leg[l].row THEN "disposed" ELSE "done")
  /\ manifests' = IF leg[l].row /\ leg[l].writes /\ leg[l].n \in dirs[leg[l].rec]
                    THEN [manifests EXCEPT ![leg[l].rec] = @ \cup {leg[l].n}]
                    ELSE manifests
  /\ UNCHANGED <<env, cache, sessions, status, dirs, merged, jobVars, crashes>>

\* Mutant: every leg finalises.
FinalizeAlways(l) ==
  LET r == leg[l].rec IN
  /\ Step(l, "disposed", "done")
  /\ status' = IF RowExists(r) THEN [status EXCEPT ![r] = "Processing"] ELSE status
  /\ UNCHANGED <<env, cache, sessions, diskVars, jobVars, crashes>>

\* Mutant: the save inserts a row that is gone.
FinalizeInserts(l) ==
  LET r == leg[l].rec IN
  /\ Step(l, "disposed", "done")
  /\ status' = IF ~leg[l].armed THEN [status EXCEPT ![r] = "Processing"] ELSE status
  /\ UNCHANGED <<env, cache, sessions, diskVars, jobVars, crashes>>

\* The last leg hands the recording to the mux job.  A save that finds no row
\* throws and is logged.
Finalize(l) ==
  LET r == leg[l].rec IN
  /\ Step(l, "disposed", "done")
  /\ status' = IF ~leg[l].armed /\ RowExists(r)
                 THEN [status EXCEPT ![r] = "Processing"] ELSE status
  /\ UNCHANGED <<env, cache, sessions, diskVars, jobVars, crashes>>

\* An entry outlives its 30 seconds.
Expire(k) ==
  /\ May("leave") /\ cache[k].set
  /\ Consume(k)
  /\ UNCHANGED <<env, leg, sessions, status, diskVars, jobVars, crashes>>

-----------------------------------------------------------------------------
\* The mux job, the deletions, and a restart.

\* ProcessPending takes one recording and merges its legs, unless an earlier
\* attempt did; one without a manifest fails at once.
MuxStart(r) ==
  /\ mux = Nobody /\ status[r] = "Processing"
  /\ merged' = IF ~merged[r].set /\ manifests[r] # {}
                 THEN [merged EXCEPT ![r] = [set |-> TRUE, legs |-> manifests[r]]]
                 ELSE merged
  /\ IF merged'[r].set
       THEN mux' = r /\ UNCHANGED status
       ELSE status' = [status EXCEPT ![r] = "Failed"] /\ UNCHANGED mux
  /\ UNCHANGED <<env, leg, cache, sessions, dirs, manifests, purging, crashes>>

\* Mutant: a failed mux is left for the next poll.
MuxEndRetries(r) ==
  /\ mux = r /\ mux' = Nobody
  /\ \/ UNCHANGED <<status, diskVars>>
     \/ /\ RowExists(r)
        /\ status' = [status EXCEPT ![r] = "Completed"]
        /\ dirs' = [dirs EXCEPT ![r] = {}]
        /\ manifests' = [manifests EXCEPT ![r] = {}]
        /\ merged' = [merged EXCEPT ![r] = NotMerged]
  /\ UNCHANGED <<env, leg, cache, sessions, purging, crashes>>

\* The tracks are built, the row saved (which throws if it is gone) and, unless
\* a tool failed, the raw streams removed; no track at all is a failure too.
MuxEnd(r) ==
  /\ mux = r /\ mux' = Nobody
  /\ \/ /\ ~RowExists(r) /\ UNCHANGED <<status, diskVars>>
     \/ /\ RowExists(r)
        /\ status' = [status EXCEPT ![r] = "Failed"]
        /\ UNCHANGED diskVars
     \/ /\ RowExists(r)
        /\ \E s \in {"Completed", "Failed"} : status' = [status EXCEPT ![r] = s]
        /\ dirs' = [dirs EXCEPT ![r] = {}]
        /\ manifests' = [manifests EXCEPT ![r] = {}]
        /\ merged' = [merged EXCEPT ![r] = NotMerged]
  /\ UNCHANGED <<env, leg, cache, sessions, purging, crashes>>

\* Delete and the retention sweep: first the directory, then the row.
DeleteFiles(r) ==
  /\ May("purge") /\ purging = Nobody /\ RowExists(r)
  /\ purging' = r
  /\ dirs' = [dirs EXCEPT ![r] = {}]
  /\ manifests' = [manifests EXCEPT ![r] = {}]
  /\ merged' = [merged EXCEPT ![r] = NotMerged]
  /\ UNCHANGED <<env, leg, cache, sessions, status, mux, crashes>>

DeleteRow(r) ==
  /\ purging = r /\ purging' = Nobody
  /\ status' = [status EXCEPT ![r] = "deleted"]
  /\ UNCHANGED <<env, leg, cache, sessions, diskVars, mux, crashes>>

\* The cache and the registry live in memory, rows and files do not.
Crash ==
  /\ May("crash") /\ crashes < MaxCrashes
  /\ crashes' = crashes + 1
  /\ leg' = [l \in Legs |-> IF leg[l].pc \in {"idle", "refused"} THEN leg[l]
                            ELSE [leg[l] EXCEPT !.pc = "done"]]
  /\ cache' = [k \in Keys |-> NoPending]
  /\ sessions' = {}
  /\ mux' = Nobody /\ purging' = Nobody
  /\ UNCHANGED <<env, status, diskVars>>

\* All browsers have gone and all recordings are dealt with.
Quiet ==
  /\ \A l \in Legs : leg[l].pc \in {"idle", "refused", "done"}
  /\ Awaited = {} /\ mux = Nobody /\ purging = Nobody
  /\ \A r \in Legs : status[r] # "Processing"
  /\ UNCHANGED vars

LegStep(l) ==
  \/ SetUpRecording(l) \/ Register(l) \/ Remove(l) \/ Dispose(l) \/ Finalize(l)

Next ==
  \/ \E l \in Legs, k \in Keys : Continue(l, k) \/ Open(l, k)
  \/ \E l \in Legs : \/ LegStep(l) \/ Abandon(l)
                     \/ Redirect(l) \/ HandOver(l) \/ EndLeg(l)
  \/ \E k \in Keys : Expire(k)
  \/ \E r \in Legs : MuxStart(r) \/ MuxEnd(r) \/ DeleteFiles(r) \/ DeleteRow(r)
  \/ Crash
  \/ Quiet

\* Code that is ready to run runs, the mux job polls, and a browser that is
\* told to return does (see "leave").  Nothing makes a session end.
Fairness ==
  /\ \A l \in Legs : WF_vars(LegStep(l))
  /\ \A k \in Keys : WF_vars(\E l \in Legs : Continue(l, k))
  /\ \A r \in Legs : WF_vars(MuxStart(r)) /\ WF_vars(MuxEnd(r))

Spec     == Init /\ [][Next]_vars
FairSpec == Spec /\ Fairness

-----------------------------------------------------------------------------
\* Properties.

\* The variables stay within their types.
TypeOK ==
  /\ env \in Environments
  /\ leg \in [Legs -> Leg]
  /\ cache \in [Keys -> Pending]
  /\ sessions \subseteq Legs
  /\ status \in [Legs -> Statuses]
  /\ dirs \in [Legs -> SUBSET LegNumbers]
  /\ manifests \in [Legs -> SUBSET LegNumbers]
  /\ merged \in [Legs -> Merged]
  /\ mux \in Legs \cup {Nobody} /\ purging \in Legs \cup {Nobody}
  /\ crashes \in 0..MaxCrashes

\* "Each leg records into its own subdir so concurrent/sequential legs never
\* overwrite": no two connects ever record the same leg of a recording,
\* however many tabs come back for a continuation.
LegDirsDistinct ==
  \A l, m \in Legs :
    (l # m /\ leg[l].writes /\ leg[m].writes /\ leg[l].rec = leg[m].rec)
      => leg[l].n # leg[m].n

\* A recording is handed to the mux job by its last leg: no continuation of it
\* waits in the cache and no leg of it runs that could still be the last.
EndsLast ==
  \A r \in Legs : status[r] \in {"Processing", "Completed", "Failed"} =>
    /\ \A k \in Keys : cache[k].rec # r
    /\ \A l \in Legs : leg[l].rec = r =>
         leg[l].armed \/ leg[l].pc \in {"idle", "done"}

\* The rows are well formed, the legs of a recording are kept apart, and it is
\* handed over when all are in.
RecordingsKept == TypeOK /\ LegDirsDistinct /\ EndsLast

\* A recording's row only goes forward; above all, a leg or the mux job that
\* saves a row it read long ago does not bring back one deleted in between.
StatusAdvances ==
  [][\A r \in Legs :
       \/ status'[r] = status[r]
       \/ status[r] = "none" /\ status'[r] = "Recording"
       \/ status[r] = "Recording" /\ status'[r] = "Processing"
       \/ status[r] = "Processing" /\ status'[r] \in {"Completed", "Failed"}
       \/ RowExists(r) /\ status'[r] = "deleted"]_vars

\* The merge takes every leg that was recorded, as long as no leg's wind-up
\* outlasts the leg that follows it.
MuxSeesAllLegs ==
  [][May("slow") \/ \A r \in Legs :
       (~merged[r].set /\ merged'[r].set) => merged'[r].legs = dirs[r]]_vars

\* No user holds more tunnels than Sessions:MaxConcurrentPerUser.  It does not
\* hold: the check comes long before the registration, and a continuation is not
\* checked.
LimitIsKept ==
  MaxConcurrent > 0 => \A k \in Keys : CountForUser(UserOf[k]) <= MaxConcurrent

\* What becomes of a recording: its row and the merge of its legs.
RecordingsAdvance == StatusAdvances /\ MuxSeesAllLegs

Unattended(r) ==
  status[r] = "Recording" /\ ~\E l \in Legs : leg[l].rec = r /\ leg[l].pc = "live"

\* A recording without a live leg is processed or deleted eventually.  It is not: the
\* leg that would hand it over may never come.
RecordingIsLeft == []<>(\A r \in Legs : ~Unattended(r))

\* The gateway stops, a connect is aborted before its leg is registered, or a
\* redirected browser does not return or meets another tab.
ChainMayBreak ==
  \/ env \cap {"crash", "gone"} # {}
  \/ May("redirect") /\ env \cap {"leave", "tabs"} # {}

\* Always again, no recording is left in Processing (across a restart of the mux job
\* and a deletion under its hands), nor in Recording unless its chain was broken.
RecordingsEnd ==
  []<>(\A r \in Legs : status[r] # "Processing" /\ (Unattended(r) => ChainMayBreak))

=============================================================================
