-------------------------- MODULE DesktopPowerProofs --------------------------
(***************************************************************************)
(* Proofs about ConsoleSession and DesktopPower, in every environment and  *)
(* setting and for any number of users, legs, keys and restarts.           *)
(*                                                                         *)
(* Of sessions: types, that two connects never record the same leg, that a *)
(* recording is handed over by its last leg only, that its row only goes   *)
(* forward and that its merge takes every leg, unless one winds up too     *)
(* slowly.  Of desktops: their sessions are those of ConsoleSession, so    *)
(* all that is proved of them holds here; a readiness job has one run;     *)
(* and the reaper, as long as no session begins or ends in the middle of   *)
(* its scan, pauses only what has been idle.                               *)
(***************************************************************************)
EXTENDS DesktopPower, TLAPS

-----------------------------------------------------------------------------
\* The inductive invariant.

\* The legs are used in the order of their numbers, and a chain has no more
\* legs than have arrived.
ArrivalInv ==
  /\ \A l, m \in Legs : (leg[l].pc # "idle" /\ leg[m].pc = "idle") => l < m
  /\ \A l \in Legs : leg[l].n < l
  /\ \A k \in Keys : cache[k].set =>
       \E m \in Legs : leg[m].pc # "idle" /\ cache[k].n <= m

\* What the phase of a leg says about its other variables.
PhaseInv ==
  \A l \in Legs :
    /\ leg[l].armed => leg[l].pc \in {"closing", "removed", "disposed", "done"}
    /\ leg[l].pc = "idle" => leg[l] = NewLeg
    /\ leg[l].pc \notin {"idle", "refused"} => leg[l].key \in Keys
    /\ leg[l].writes => leg[l].rec # Nobody
    /\ leg[l].row => leg[l].rec # Nobody
    /\ leg[l].pc = "disposed" => leg[l].row

\* A recording is created by the leg of its number.
CreatorInv ==
  /\ \A l \in Legs : status[l] # "none" => leg[l].rec = l
  /\ \A l \in Legs : leg[l].rec # Nobody => status[leg[l].rec] # "none"
  /\ \A k \in Keys : cache[k].rec # Nobody => status[cache[k].rec] # "none"
  /\ \A k \in Keys : ~cache[k].set => cache[k].rec = Nobody

\* A chain has one open end: a leg that has not armed a continuation is the
\* last of its recording, and so is an entry in the cache.
SameRecording(l, m) == l # m /\ leg[l].rec # Nobody /\ leg[l].rec = leg[m].rec

ChainInv ==
  /\ \A l, m \in Legs : SameRecording(l, m) =>
       /\ leg[l].n # leg[m].n
       /\ leg[l].key = leg[m].key
       /\ ~leg[l].armed => leg[m].n < leg[l].n
  /\ \A k \in Keys, l \in Legs :
       (leg[l].rec # Nobody /\ leg[l].rec = cache[k].rec) =>
         leg[l].armed /\ leg[l].n < cache[k].n /\ leg[l].key = k

\* The jobs work on rows that are there, unless a deletion overtakes the mux.
JobInv ==
  /\ mux # Nobody => status[mux] \in {"Processing", "deleted"}
  /\ purging # Nobody => RowExists(purging)

Inv == TypeOK /\ ArrivalInv /\ PhaseInv /\ CreatorInv /\ ChainInv /\ JobInv /\ EndsLast

-----------------------------------------------------------------------------
\* What the actions do to the legs.

\* Every leg keeps all its variables but its phase.
KeptButPc ==
  \A m \in Legs : /\ leg'[m].key = leg[m].key /\ leg'[m].rec = leg[m].rec
                  /\ leg'[m].n = leg[m].n /\ leg'[m].armed = leg[m].armed
                  /\ leg'[m].row = leg[m].row /\ leg'[m].writes = leg[m].writes
OthersKept(l) == \A m \in Legs : m # l => leg'[m] = leg[m]

\* A fresh leg.
LEMMA NewLegType == NewLeg \in Leg
BY ConstantsAssumption DEF NewLeg, Leg, Phases, LegNumbers, Nobody

\* A leg that goes on: its phase is all that changes.
LEMMA StepFacts ==
  ASSUME TypeOK, NEW l \in Legs, NEW from, NEW to \in Phases, Step(l, from, to)
  PROVE  /\ leg[l].pc = from /\ leg'[l].pc = to
         /\ leg' \in [Legs -> Leg]
         /\ KeptButPc /\ OthersKept(l)
<1>1. leg \in [Legs -> Leg] /\ leg[l] \in Leg
  BY DEF TypeOK
<1>2. leg' = [leg EXCEPT ![l] = [leg[l] EXCEPT !.pc = to]] /\ leg[l].pc = from
  BY DEF Step
<1>3. [leg[l] EXCEPT !.pc = to] \in Leg
  BY <1>1 DEF Leg
<1>4. leg' \in [Legs -> Leg]
  BY <1>1, <1>2, <1>3
<1>5. leg'[l] = [leg[l] EXCEPT !.pc = to] /\ OthersKept(l)
  BY <1>1, <1>2 DEF OthersKept
<1>6. KeptButPc
  BY <1>1, <1>5 DEF KeptButPc, OthersKept, Leg
<1> QED
  BY <1>1, <1>2, <1>4, <1>5, <1>6 DEF Leg

\* A leg that arrives: its key is set, and what it continues.
LEMMA ContinueFacts ==
  ASSUME Inv, NEW l \in Legs, NEW k \in Keys, Continue(l, k)
  PROVE  /\ leg[l].pc = "idle" /\ cache[k].set
         /\ leg' \in [Legs -> Leg] /\ OthersKept(l)
         /\ leg'[l].pc = "setup" /\ leg'[l].key = k
         /\ leg'[l].rec = cache[k].rec /\ leg'[l].n = cache[k].n
         /\ ~leg'[l].armed /\ ~leg'[l].row /\ ~leg'[l].writes
         /\ cache' = [cache EXCEPT ![k] = NoPending]
         /\ UNCHANGED <<env, sessions, status, dirs, manifests, merged, mux,
                        purging, crashes>>
<1>1. leg \in [Legs -> Leg] /\ cache[k] \in Pending
  BY DEF Inv, TypeOK
<1> DEFINE new == [NewLeg EXCEPT !.pc = "setup", !.key = k, !.rec = cache[k].rec,
                                 !.n = cache[k].n, !.token = TRUE]
<1>2. leg' = [leg EXCEPT ![l] = new]
  BY DEF Continue
<1>3. /\ new \in Leg /\ new.pc = "setup" /\ new.key = k /\ new.rec = cache[k].rec
      /\ new.n = cache[k].n /\ ~new.armed /\ ~new.row /\ ~new.writes
  BY <1>1 DEF NewLeg, Leg, Phases, Pending, LegNumbers
<1> HIDE DEF new
<1>4. leg' \in [Legs -> Leg] /\ leg'[l] = new /\ OthersKept(l)
  BY <1>1, <1>2, <1>3 DEF OthersKept
<1>5. /\ leg[l].pc = "idle" /\ cache[k].set
      /\ cache' = [cache EXCEPT ![k] = NoPending]
      /\ UNCHANGED <<env, sessions, status, dirs, manifests, merged, mux,
                     purging, crashes>>
  BY DEF Continue, Consume, Arrives, Idle, diskVars, jobVars
<1> QED
  BY <1>3, <1>4, <1>5

\* A leg that arrives and continues nothing.
LEMMA OpenFacts ==
  ASSUME Inv, NEW l \in Legs, NEW k \in Keys, Open(l, k)
  PROVE  /\ leg[l].pc = "idle"
         /\ leg' \in [Legs -> Leg] /\ OthersKept(l)
         /\ leg'[l].pc \in {"setup", "refused"} /\ leg'[l].key = k
         /\ leg'[l].rec = Nobody /\ leg'[l].n = 0
         /\ ~leg'[l].armed /\ ~leg'[l].row /\ ~leg'[l].writes
         /\ UNCHANGED <<env, cache, sessions, status, dirs, manifests, merged, mux,
                        purging, crashes>>
<1>1. leg \in [Legs -> Leg]
  BY DEF Inv, TypeOK
<1> DEFINE s == IF AtLimit(UserOf[k]) THEN "refused" ELSE "setup"
<1>s. s \in {"setup", "refused"}
  OBVIOUS
<1> DEFINE new == [NewLeg EXCEPT !.key = k, !.pc = s]
<1>2. leg' = [leg EXCEPT ![l] = new]
  BY Zenon DEF Open
<1> HIDE DEF s
<1>3. /\ new \in Leg /\ new.pc \in {"setup", "refused"} /\ new.key = k
      /\ new.rec = Nobody /\ new.n = 0 /\ ~new.armed /\ ~new.row /\ ~new.writes
  <2>1. NewLeg \in Leg
    BY NewLegType
  <2>2. /\ NewLeg.rec = Nobody /\ NewLeg.n = 0 /\ ~NewLeg.armed /\ ~NewLeg.row
        /\ ~NewLeg.writes
    BY DEF NewLeg
  <2> QED
    BY <1>s, <2>1, <2>2 DEF Leg, Phases
<1> HIDE DEF new
<1>4. leg' \in [Legs -> Leg] /\ leg'[l] = new /\ OthersKept(l)
  BY <1>1, <1>2, <1>3 DEF OthersKept
<1>5. /\ leg[l].pc = "idle"
      /\ UNCHANGED <<env, cache, sessions, status, dirs, manifests, merged, mux,
                     purging, crashes>>
  BY DEF Open, Arrives, Idle, diskVars, jobVars
<1> QED
  BY <1>3, <1>4, <1>5

\* A leg that ends in a continuation.
LEMMA ArmFacts ==
  ASSUME Inv, NEW l \in Legs, Arm(l)
  PROVE  /\ leg[l].pc = "live" /\ leg[l].key \in Keys
         /\ leg' \in [Legs -> Leg] /\ OthersKept(l)
         /\ leg'[l].pc = "closing" /\ leg'[l].armed
         /\ leg'[l].key = leg[l].key /\ leg'[l].rec = leg[l].rec
         /\ leg'[l].n = leg[l].n /\ leg'[l].row = leg[l].row
         /\ leg'[l].writes = leg[l].writes
         /\ cache' = [cache EXCEPT ![leg[l].key] =
                        [set |-> TRUE, rec |-> leg[l].rec, n |-> leg[l].n + 1]]
         /\ UNCHANGED <<env, sessions, status, dirs, manifests, merged, mux,
                        purging, crashes>>
<1>1. leg \in [Legs -> Leg] /\ leg[l] \in Leg
  BY DEF Inv, TypeOK
<1> DEFINE new == [leg[l] EXCEPT !.pc = "closing", !.armed = TRUE]
<1>2. leg' = [leg EXCEPT ![l] = new]
  <2>1. leg' = [[leg EXCEPT ![l].pc = "closing"] EXCEPT ![l].armed = TRUE]
    BY DEF Arm
  <2> QED
    BY <1>1, <2>1
<1>3. /\ new \in Leg /\ new.pc = "closing" /\ new.armed
      /\ new.key = leg[l].key /\ new.rec = leg[l].rec /\ new.n = leg[l].n
      /\ new.row = leg[l].row /\ new.writes = leg[l].writes
  BY <1>1 DEF Leg, Phases
<1> HIDE DEF new
<1>4. leg' \in [Legs -> Leg] /\ leg'[l] = new /\ OthersKept(l)
  BY <1>1, <1>2, <1>3 DEF OthersKept
<1>5. /\ leg[l].pc = "live"
      /\ cache' = [cache EXCEPT ![leg[l].key] =
                     [set |-> TRUE, rec |-> leg[l].rec, n |-> leg[l].n + 1]]
      /\ UNCHANGED <<env, sessions, status, dirs, manifests, merged, mux,
                     purging, crashes>>
  BY DEF Arm, MayEnd, diskVars, jobVars
<1>6. leg[l].key \in Keys
  BY <1>5 DEF Inv, PhaseInv
<1> QED
  BY <1>3, <1>4, <1>5, <1>6

\* A leg that starts to record.
LEMMA RecorderFacts ==
  ASSUME Inv, NEW l \in Legs, NEW r \in Legs, NEW b \in BOOLEAN,
         StartRecorder(l, r, b)
  PROVE  /\ leg' \in [Legs -> Leg] /\ OthersKept(l)
         /\ leg'[l].pc = "path" /\ leg'[l].rec = r
         /\ leg'[l].key = leg[l].key /\ leg'[l].n = leg[l].n
         /\ leg'[l].armed = leg[l].armed
         /\ dirs' \in [Legs -> SUBSET LegNumbers]
<1>1. leg \in [Legs -> Leg] /\ leg[l] \in Leg /\ dirs \in [Legs -> SUBSET LegNumbers]
  BY DEF Inv, TypeOK
<1>2. PICK ok \in BOOLEAN :
        /\ leg' = [leg EXCEPT ![l].pc = "path", ![l].rec = r,
                              ![l].row = b, ![l].writes = ok]
        /\ dirs' = IF ok THEN [dirs EXCEPT ![r] = @ \cup {leg[l].n}] ELSE dirs
  BY DEF StartRecorder
<1> DEFINE new == [leg[l] EXCEPT !.pc = "path", !.rec = r, !.row = b, !.writes = ok]
<1>3. leg' = [leg EXCEPT ![l] = new]
  BY <1>1, <1>2
<1>4. /\ new \in Leg /\ new.pc = "path" /\ new.rec = r /\ new.key = leg[l].key
      /\ new.n = leg[l].n /\ new.armed = leg[l].armed
  BY <1>1 DEF Leg, Phases
<1> HIDE DEF new
<1>5. leg' \in [Legs -> Leg] /\ leg'[l] = new /\ OthersKept(l)
  BY <1>1, <1>3, <1>4 DEF OthersKept
<1>6. dirs' \in [Legs -> SUBSET LegNumbers]
  BY <1>1, <1>2 DEF Leg
<1> QED
  BY <1>4, <1>5, <1>6

\* A leg between set-up and its end, apart from arming: only phases change.
Moves(l) ==
  Abandon(l) \/ Register(l) \/ EndLeg(l) \/ Remove(l) \/ Dispose(l) \/ Finalize(l)

Ended == {"closing", "removed", "disposed", "done"}

\* What all moves have in common.
LEMMA MoveFacts ==
  ASSUME Inv, NEW l \in Legs, Moves(l)
  PROVE  /\ leg' \in [Legs -> Leg] /\ KeptButPc /\ OthersKept(l)
         /\ leg[l].pc \notin {"idle", "refused", "setup", "done"}
         /\ leg'[l].pc \in Ended \cup {"live"}
         /\ leg[l].pc \in Ended => leg'[l].pc \in Ended
         /\ leg'[l].pc = "disposed" => leg[l].row
         /\ leg'[l].pc = "done" => \/ leg[l].pc = "path"
                                   \/ leg[l].pc = "removed" /\ ~leg[l].row
                                   \/ leg[l].pc = "disposed"
         /\ cache' = cache /\ env' = env /\ dirs' = dirs /\ merged' = merged
         /\ mux' = mux /\ purging' = purging /\ crashes' = crashes
<1> USE DEF diskVars, jobVars, Phases, Ended
<1>0. TypeOK
  BY DEF Inv
<1>1. CASE Abandon(l)
  <2>1. Step(l, "path", "done")
    BY <1>1 DEF Abandon
  <2> QED
    BY <1>0, <1>1, <2>1, StepFacts DEF Abandon
<1>2. CASE Register(l)
  <2>1. Step(l, "path", "live")
    BY <1>2 DEF Register
  <2> QED
    BY <1>0, <1>2, <2>1, StepFacts DEF Register
<1>3. CASE EndLeg(l)
  <2>1. Step(l, "live", "closing")
    BY <1>3 DEF EndLeg
  <2> QED
    BY <1>0, <1>3, <2>1, StepFacts DEF EndLeg
<1>4. CASE Remove(l)
  <2>1. Step(l, "closing", "removed")
    BY <1>4 DEF Remove
  <2> QED
    BY <1>0, <1>4, <2>1, StepFacts DEF Remove
<1>5. CASE Dispose(l)
  <2>1. CASE leg[l].row
    <3>1. Step(l, "removed", "disposed")
      BY <1>5, <2>1 DEF Dispose
    <3> QED
      BY <1>0, <1>5, <2>1, <3>1, StepFacts DEF Dispose
  <2>2. CASE ~leg[l].row
    <3>1. Step(l, "removed", "done")
      BY <1>5, <2>2 DEF Dispose
    <3> QED
      BY <1>0, <1>5, <2>2, <3>1, StepFacts DEF Dispose
  <2> QED
    BY <2>1, <2>2
<1>6. CASE Finalize(l)
  <2>1. Step(l, "disposed", "done")
    BY <1>6 DEF Finalize
  <2> QED
    BY <1>0, <1>6, <2>1, StepFacts DEF Finalize
<1> QED
  BY <1>1, <1>2, <1>3, <1>4, <1>5, <1>6 DEF Moves

\* The three ways to set up the recording of a leg.
LEMMA SetUpFacts ==
  ASSUME Inv, NEW l \in Legs, SetUpRecording(l)
  PROVE  /\ leg' \in [Legs -> Leg] /\ OthersKept(l)
         /\ leg[l].pc = "setup" /\ leg'[l].pc = "path"
         /\ leg'[l].key = leg[l].key /\ leg'[l].n = leg[l].n
         /\ leg'[l].armed = leg[l].armed
         /\ leg'[l].writes \/ leg'[l].row => leg'[l].rec # Nobody
         /\ dirs' \in [Legs -> SUBSET LegNumbers]
         /\ \/ status' = status /\ leg'[l].rec = leg[l].rec
            \/ /\ leg[l].rec = Nobody /\ leg'[l].rec = l
               /\ status' = [status EXCEPT ![l] = "Recording"]
         /\ UNCHANGED <<env, cache, sessions, manifests, merged, mux, purging, crashes>>
<1> USE DEF jobVars
<1>0. TypeOK /\ leg[l] \in Leg /\ leg[l].pc = "setup" /\ Nobody \notin Legs
  BY ConstantsAssumption DEF Inv, TypeOK, SetUpRecording, Legs, Nobody
<1>1. CASE leg[l].rec # Nobody /\ StartRecorder(l, leg[l].rec, RowExists(leg[l].rec))
  <2>1. leg[l].rec \in Legs /\ RowExists(leg[l].rec) \in BOOLEAN
    BY <1>0, <1>1 DEF Leg, RowExists
  <2>2. UNCHANGED status
    <3>1. ~(leg[l].rec = Nobody)
      BY <1>1
    <3> QED
      BY <3>1 DEF SetUpRecording
  <2>3. /\ leg' \in [Legs -> Leg] /\ OthersKept(l)
        /\ leg'[l].pc = "path" /\ leg'[l].rec = leg[l].rec
        /\ leg'[l].key = leg[l].key /\ leg'[l].n = leg[l].n
        /\ leg'[l].armed = leg[l].armed
        /\ dirs' \in [Legs -> SUBSET LegNumbers]
    BY <1>1, <2>1, RecorderFacts
  <2> QED
    BY <1>0, <1>1, <2>2, <2>3 DEF SetUpRecording
<1>2. CASE /\ leg[l].rec = Nobody /\ StartRecorder(l, l, TRUE)
           /\ status' = [status EXCEPT ![l] = "Recording"]
  <2>1. /\ leg' \in [Legs -> Leg] /\ OthersKept(l)
        /\ leg'[l].pc = "path" /\ leg'[l].rec = l
        /\ leg'[l].key = leg[l].key /\ leg'[l].n = leg[l].n
        /\ leg'[l].armed = leg[l].armed
        /\ dirs' \in [Legs -> SUBSET LegNumbers]
    BY <1>2, RecorderFacts
  <2> QED
    BY <1>0, <1>2, <2>1 DEF SetUpRecording
<1>3. CASE leg[l].rec = Nobody /\ Step(l, "setup", "path") /\ UNCHANGED <<status, dirs>>
  <2>1. /\ leg' \in [Legs -> Leg] /\ KeptButPc /\ OthersKept(l) /\ leg'[l].pc = "path"
    BY <1>0, <1>3, StepFacts DEF Phases
  <2>2. ~leg[l].writes /\ ~leg[l].row
    BY <1>3 DEF Inv, PhaseInv
  <2>3. dirs' \in [Legs -> SUBSET LegNumbers]
    BY <1>0, <1>3 DEF TypeOK
  <2> QED
    BY <1>0, <1>3, <2>1, <2>2, <2>3 DEF SetUpRecording, KeptButPc
<1> QED
  BY <1>1, <1>2, <1>3 DEF SetUpRecording

\* A restart ends every leg and empties the cache.
LEMMA CrashFacts ==
  ASSUME Inv, Crash
  PROVE  /\ leg' \in [Legs -> Leg] /\ KeptButPc
         /\ \A l \in Legs : \/ leg[l].pc \in {"idle", "refused"} /\ leg'[l] = leg[l]
                            \/ leg[l].pc \notin {"idle", "refused"} /\ leg'[l].pc = "done"
         /\ \A k \in Keys : cache'[k] = NoPending
         /\ cache' \in [Keys -> Pending]
         /\ sessions' = {} /\ mux' = Nobody /\ purging' = Nobody
         /\ crashes' \in 0..MaxCrashes
         /\ UNCHANGED <<env, status, dirs, manifests, merged>>
<1>1. /\ leg \in [Legs -> Leg] /\ crashes \in 0..MaxCrashes /\ MaxCrashes \in Nat
      /\ MaxLegs \in Nat
  BY ConstantsAssumption DEF Inv, TypeOK
<1>2. leg' = [l \in Legs |-> IF leg[l].pc \in {"idle", "refused"} THEN leg[l]
                             ELSE [leg[l] EXCEPT !.pc = "done"]]
  BY DEF Crash
<1>3. \A l \in Legs : [leg[l] EXCEPT !.pc = "done"] \in Leg
  BY <1>1 DEF Leg, Phases
<1>4. leg' \in [Legs -> Leg]
  BY <1>1, <1>2, <1>3
<1>5. \A l \in Legs : \/ leg[l].pc \in {"idle", "refused"} /\ leg'[l] = leg[l]
                      \/ leg[l].pc \notin {"idle", "refused"} /\ leg'[l].pc = "done"
  BY <1>1, <1>2 DEF Leg
<1>6. KeptButPc
  BY <1>1, <1>2 DEF Leg, KeptButPc
<1>7. NoPending \in Pending
  BY <1>1 DEF NoPending, Pending, LegNumbers
<1>8. crashes' \in 0..MaxCrashes
  BY <1>1 DEF Crash
<1> QED
  BY <1>4, <1>5, <1>6, <1>7, <1>8 DEF Crash, diskVars

\* The mux job and a deletion leave legs and cache alone.
Job(r) == MuxStart(r) \/ MuxEnd(r) \/ DeleteFiles(r) \/ DeleteRow(r)

\* Every step, sorted by what it does to the legs.
Kinds ==
  \/ \E l \in Legs, k \in Keys : Continue(l, k) \/ Open(l, k)
  \/ \E l \in Legs : SetUpRecording(l) \/ Moves(l) \/ Arm(l)
  \/ \E k \in Keys : Expire(k)
  \/ \E r \in Legs : Job(r)
  \/ Crash
  \/ UNCHANGED vars

\* Every step is of one of these kinds.
LEMMA NextKinds == [Next]_vars => Kinds
BY DEF Next, LegStep, Moves, Redirect, HandOver, Job, Quiet, Kinds

\* What the jobs do to the table of recordings and to its files.
LEMMA JobFacts ==
  ASSUME Inv, NEW r \in Legs, Job(r)
  PROVE  /\ UNCHANGED <<env, leg, cache, sessions, crashes>>
         /\ \/ status' = status
            \/ /\ status[r] = "Processing"
               /\ status' \in {[status EXCEPT ![r] = "Failed"],
                               [status EXCEPT ![r] = "Completed"]}
            \/ RowExists(r) /\ status' = [status EXCEPT ![r] = "deleted"]
<1> USE DEF diskVars, jobVars
<1>1. CASE MuxStart(r)
  BY <1>1 DEF MuxStart
<1>2. CASE MuxEnd(r)
  <2>1. r # Nobody
    BY ConstantsAssumption DEF Legs, Nobody
  <2>2. status[r] \in {"Processing", "deleted"}
    BY <1>2, <2>1 DEF MuxEnd, Inv, JobInv
  <2>3. CASE RowExists(r)
    <3>1. status[r] = "Processing"
      BY <2>2, <2>3 DEF RowExists
    <3> QED
      BY <1>2, <2>3, <3>1 DEF MuxEnd
  <2>4. CASE ~RowExists(r)
    BY <1>2, <2>4 DEF MuxEnd
  <2> QED
    BY <2>3, <2>4
<1>3. CASE DeleteFiles(r)
  BY <1>3 DEF DeleteFiles
<1>4. CASE DeleteRow(r)
  <2>1. r # Nobody
    BY ConstantsAssumption DEF Legs, Nobody
  <2>2. RowExists(r)
    BY <1>4, <2>1 DEF DeleteRow, Inv, JobInv
  <2> QED
    BY <1>4, <2>2 DEF DeleteRow
<1> QED
  BY <1>1, <1>2, <1>3, <1>4 DEF Job

-----------------------------------------------------------------------------
\* The table of recordings.

\* One way forward for the row of r.
Advances(r) ==
  \/ status'[r] = status[r]
  \/ status[r] = "none" /\ status'[r] = "Recording"
  \/ status[r] = "Recording" /\ status'[r] = "Processing"
  \/ status[r] = "Processing" /\ status'[r] \in {"Completed", "Failed"}
  \/ RowExists(r) /\ status'[r] = "deleted"

\* A move changes the table only if it finalises a recording: then its leg is
\* the last one and the recording was still open.
LEMMA FinalizeFacts ==
  ASSUME Inv, NEW l \in Legs, Moves(l)
  PROVE  \/ status' = status
         \/ /\ leg[l].rec \in Legs /\ ~leg[l].armed /\ leg'[l].pc = "done"
            /\ leg[l].pc = "disposed"
            /\ status[leg[l].rec] = "Recording"
            /\ status' = [status EXCEPT ![leg[l].rec] = "Processing"]
<1>1. CASE Finalize(l)
  <2>1. /\ leg[l].pc = "disposed" /\ leg[l].rec \in Legs
    <3>1. leg[l].pc = "disposed" /\ leg[l].rec # Nobody
      BY <1>1 DEF Finalize, Step, Inv, PhaseInv
    <3>2. leg[l] \in Leg
      BY DEF Inv, TypeOK
    <3> QED
      BY <3>1, <3>2 DEF Leg
  <2>2. CASE ~leg[l].armed /\ RowExists(leg[l].rec)
    <3>1. status[leg[l].rec] = "Recording"
      <4>1. status[leg[l].rec] \in Statuses
        BY <2>1 DEF Inv, TypeOK
      <4>2. status[leg[l].rec] \notin {"Processing", "Completed", "Failed"}
        BY <2>1, <2>2 DEF Inv, EndsLast
      <4> QED
        BY <2>2, <4>1, <4>2 DEF RowExists, Statuses
    <3>2. leg'[l].pc = "done"
      BY <1>1, StepFacts DEF Finalize, Phases, Inv
    <3> QED
      BY <1>1, <2>1, <2>2, <3>1, <3>2 DEF Finalize
  <2>3. CASE ~(~leg[l].armed /\ RowExists(leg[l].rec))
    BY <1>1, <2>3 DEF Finalize
  <2> QED
    BY <2>2, <2>3
<1>2. CASE ~Finalize(l)
  BY <1>2 DEF Moves, Abandon, Register, EndLeg, Remove, Dispose
<1> QED
  BY <1>1, <1>2

\* Every step takes every row one way forward or leaves it alone.
LEMMA AdvanceStep ==
  ASSUME Inv, [Next]_vars
  PROVE  /\ status' \in [Legs -> Statuses]
         /\ \A r \in Legs : Advances(r)
<1>0. status \in [Legs -> Statuses]
  BY DEF Inv, TypeOK
<1> USE DEF Statuses
<1>1. CASE status' = status
  BY <1>0, <1>1 DEF Advances
<1>2. ASSUME NEW l \in Legs, SetUpRecording(l) PROVE /\ status' \in [Legs -> Statuses]
                                                     /\ \A r \in Legs : Advances(r)
  <2>1. CASE status' = status
    BY <1>1, <2>1
  <2>2. CASE leg[l].rec = Nobody /\ status' = [status EXCEPT ![l] = "Recording"]
    <3>1. status[l] = "none"
      <4>1. l # Nobody
        BY ConstantsAssumption DEF Legs, Nobody
      <4> QED
        BY <2>2, <4>1 DEF Inv, CreatorInv
    <3> QED
      BY <1>0, <2>2, <3>1 DEF Advances
  <2> QED
    BY <1>2, <2>1, <2>2, SetUpFacts
<1>3. ASSUME NEW l \in Legs, Moves(l) PROVE /\ status' \in [Legs -> Statuses]
                                            /\ \A r \in Legs : Advances(r)
  BY <1>0, <1>1, <1>3, FinalizeFacts DEF Advances
<1>4. ASSUME NEW r \in Legs, Job(r) PROVE /\ status' \in [Legs -> Statuses]
                                          /\ \A s \in Legs : Advances(s)
  BY <1>0, <1>1, <1>4, JobFacts DEF Advances
<1>5. CASE \/ \E l \in Legs, k \in Keys : Continue(l, k) \/ Open(l, k)
           \/ \E l \in Legs : Arm(l)
           \/ \E k \in Keys : Expire(k)
           \/ Crash \/ UNCHANGED vars
  <2>1. status' = status
    BY <1>5 DEF Continue, Open, Arm, Expire, Crash, vars
  <2> QED
    BY <1>1, <2>1
<1> QED
  BY <1>2, <1>3, <1>4, <1>5, NextKinds DEF Kinds

-----------------------------------------------------------------------------
\* Types.

\* Every step keeps the types.
LEMMA TypeStep ==
  ASSUME Inv, [Next]_vars
  PROVE  TypeOK'
<1>0. TypeOK /\ MaxLegs \in Nat /\ status' \in [Legs -> Statuses]
  BY AdvanceStep, ConstantsAssumption DEF Inv
<1>1. NoPending \in Pending /\ NotMerged \in Merged
  BY <1>0 DEF NoPending, Pending, NotMerged, Merged, LegNumbers
<1> USE DEF TypeOK
<1>2. ASSUME NEW l \in Legs, NEW k \in Keys, Continue(l, k) PROVE TypeOK'
  BY <1>0, <1>1, <1>2, ContinueFacts
<1>3. ASSUME NEW l \in Legs, NEW k \in Keys, Open(l, k) PROVE TypeOK'
  BY <1>0, <1>3, OpenFacts
<1>4. ASSUME NEW l \in Legs, SetUpRecording(l) PROVE TypeOK'
  BY <1>0, <1>4, SetUpFacts
<1>5. ASSUME NEW l \in Legs, Moves(l) PROVE TypeOK'
  <2>1. sessions' \subseteq Legs
    BY <1>0, <1>5
       DEF Moves, Abandon, Register, EndLeg, Remove, Dispose, Finalize
  <2>2. manifests' \in [Legs -> SUBSET LegNumbers]
    <3>1. CASE manifests' = manifests
      BY <1>0, <3>1
    <3>2. CASE Dispose(l)
      <4>1. leg[l].row => leg[l].rec # Nobody
        BY DEF Inv, PhaseInv
      <4>2. leg[l] \in Leg
        BY <1>0
      <4> QED
        BY <1>0, <3>2, <4>1, <4>2 DEF Dispose, Leg
    <3> QED
      BY <1>5, <3>1, <3>2
         DEF Moves, Abandon, Register, EndLeg, Remove, Finalize, diskVars
  <2> QED
    BY <1>0, <1>5, <2>1, <2>2, MoveFacts
<1>6. ASSUME NEW l \in Legs, Arm(l) PROVE TypeOK'
  <2>1. leg[l].n + 1 \in LegNumbers
    <3>1. leg[l].n \in 0..MaxLegs /\ leg[l].n < l /\ l \in 1..MaxLegs
      BY <1>0 DEF Inv, ArrivalInv, Leg, LegNumbers, Legs
    <3> QED
      BY <1>0, <3>1 DEF LegNumbers
  <2>2. [set |-> TRUE, rec |-> leg[l].rec, n |-> leg[l].n + 1] \in Pending
    BY <1>0, <2>1 DEF Pending, Leg
  <2> QED
    BY <1>0, <1>6, <2>2, ArmFacts
<1>7. ASSUME NEW k \in Keys, Expire(k) PROVE TypeOK'
  BY <1>0, <1>1, <1>7 DEF Expire, Consume, diskVars, jobVars
<1>8. ASSUME NEW r \in Legs, Job(r) PROVE TypeOK'
  <2>1. /\ dirs' \in [Legs -> SUBSET LegNumbers]
        /\ manifests' \in [Legs -> SUBSET LegNumbers]
    BY <1>0, <1>8 DEF Job, MuxStart, MuxEnd, DeleteFiles, DeleteRow, diskVars
  <2>2. merged' \in [Legs -> Merged]
    <3>1. [set |-> TRUE, legs |-> manifests[r]] \in Merged
      BY <1>0 DEF Merged
    <3> QED
      BY <1>0, <1>1, <1>8, <3>1
         DEF Job, MuxStart, MuxEnd, DeleteFiles, DeleteRow, diskVars
  <2>3. mux' \in Legs \cup {Nobody} /\ purging' \in Legs \cup {Nobody}
    BY <1>0, <1>8 DEF Job, MuxStart, MuxEnd, DeleteFiles, DeleteRow
  <2> QED
    BY <1>0, <1>8, <2>1, <2>2, <2>3, JobFacts
<1>9. CASE Crash
  BY <1>0, <1>9, CrashFacts
<1>10. CASE UNCHANGED vars
  BY <1>0, <1>10 DEF vars
<1> QED
  BY <1>2, <1>3, <1>4, <1>5, <1>6, <1>7, <1>8, <1>9, <1>10, NextKinds DEF Kinds

-----------------------------------------------------------------------------
\* Arrival and phases.

\* Every step keeps the order of arrival.
LEMMA ArrivalStep ==
  ASSUME Inv, [Next]_vars
  PROVE  ArrivalInv'
<1>0. /\ leg \in [Legs -> Leg] /\ cache \in [Keys -> Pending]
      /\ MaxLegs \in Nat /\ Legs = 1..MaxLegs
  BY ConstantsAssumption DEF Inv, TypeOK, Legs
<1>1. /\ \A l, m \in Legs : (leg[l].pc # "idle" /\ leg[m].pc = "idle") => l < m
      /\ \A l \in Legs : leg[l].n < l
      /\ \A k \in Keys : cache[k].set =>
           \E m \in Legs : leg[m].pc # "idle" /\ cache[k].n <= m
  BY DEF Inv, ArrivalInv
\* A leg that arrives comes next.
<1>2. ASSUME NEW l \in Legs, Arrives(l), OthersKept(l), leg'[l].pc # "idle",
             leg'[l].n < l,
             \A k \in Keys : cache'[k].set => cache[k].set /\ cache'[k] = cache[k]
      PROVE  ArrivalInv'
  <2>1. leg[l].pc = "idle" /\ \A m \in Legs : leg[m].pc = "idle" => l <= m
    BY <1>2 DEF Arrives, Idle
  <2>2. ASSUME NEW a \in Legs, NEW b \in Legs, leg'[a].pc # "idle", leg'[b].pc = "idle"
        PROVE  a < b
    <3>1. b # l /\ leg[b].pc = "idle"
      BY <1>2, <2>2 DEF OthersKept
    <3>2. CASE a = l
      BY <1>0, <2>1, <3>1, <3>2
    <3>3. CASE a # l
      BY <1>1, <1>2, <2>2, <3>1, <3>3 DEF OthersKept
    <3> QED
      BY <3>2, <3>3
  <2>3. \A a \in Legs : leg'[a].n < a
    BY <1>1, <1>2 DEF OthersKept
  <2>4. ASSUME NEW k \in Keys, cache'[k].set
        PROVE  \E m \in Legs : leg'[m].pc # "idle" /\ cache'[k].n <= m
    <3>1. PICK m \in Legs : leg[m].pc # "idle" /\ cache[k].n <= m
      BY <1>1, <1>2, <2>4
    <3>2. leg'[m].pc # "idle" /\ cache'[k].n <= m
      BY <1>2, <2>1, <2>4, <3>1 DEF OthersKept
    <3> QED
      BY <3>2
  <2> QED
    BY <2>2, <2>3, <2>4 DEF ArrivalInv
\* A leg that has arrived stays arrived and keeps its number.
<1>3. ASSUME \A m \in Legs : /\ leg'[m].n = leg[m].n
                             /\ leg'[m].pc = "idle" <=> leg[m].pc = "idle",
             \A k \in Keys : cache'[k].set =>
               \E m \in Legs : leg[m].pc # "idle" /\ cache'[k].n <= m
      PROVE  ArrivalInv'
  BY <1>1, <1>3 DEF ArrivalInv
<1>4. ASSUME NEW l \in Legs, NEW k \in Keys, Continue(l, k) PROVE ArrivalInv'
  <2>1. Arrives(l) /\ leg[l].pc = "idle"
    BY <1>4, ContinueFacts DEF Continue
  <2>2. leg'[l].n < l
    <3>1. PICK m \in Legs : leg[m].pc # "idle" /\ cache[k].n <= m
      BY <1>1, <1>4, ContinueFacts
    <3>2. m < l /\ cache[k].n \in Nat
      BY <1>0, <1>1, <2>1, <3>1 DEF Pending, LegNumbers
    <3>3. leg'[l].n = cache[k].n
      BY <1>4, ContinueFacts
    <3> QED
      BY <1>0, <3>1, <3>2, <3>3
  <2>3. \A j \in Keys : cache'[j].set => cache[j].set /\ cache'[j] = cache[j]
    BY <1>0, <1>4, ContinueFacts DEF NoPending
  <2> QED
    BY <1>2, <1>4, <2>1, <2>2, <2>3, ContinueFacts
<1>5. ASSUME NEW l \in Legs, NEW k \in Keys, Open(l, k) PROVE ArrivalInv'
  <2>1. Arrives(l) /\ leg'[l].n < l
    <3>1. leg'[l].n = 0
      BY <1>5, OpenFacts
    <3> QED
      BY <1>0, <1>5, <3>1 DEF Open
  <2> QED
    BY <1>2, <1>5, <2>1, OpenFacts
<1>6. ASSUME NEW l \in Legs, SetUpRecording(l) PROVE ArrivalInv'
  BY <1>1, <1>3, <1>6, SetUpFacts DEF OthersKept
<1>7. ASSUME NEW l \in Legs, Moves(l) PROVE ArrivalInv'
  BY <1>1, <1>3, <1>7, MoveFacts DEF OthersKept, KeptButPc, Ended
<1>8. ASSUME NEW l \in Legs, Arm(l) PROVE ArrivalInv'
  <2>1. \A m \in Legs : /\ leg'[m].n = leg[m].n
                        /\ leg'[m].pc = "idle" <=> leg[m].pc = "idle"
    BY <1>8, ArmFacts DEF OthersKept
  <2>2. ASSUME NEW k \in Keys, cache'[k].set
        PROVE  \E m \in Legs : leg[m].pc # "idle" /\ cache'[k].n <= m
    <3>0. /\ leg[l].pc # "idle"
          /\ cache' = [cache EXCEPT ![leg[l].key] =
                         [set |-> TRUE, rec |-> leg[l].rec, n |-> leg[l].n + 1]]
      BY <1>8, ArmFacts
    <3>1. CASE k = leg[l].key
      <4>1. cache'[k].n = leg[l].n + 1 /\ leg[l].pc # "idle"
        BY <1>0, <3>0, <3>1
      <4>2. leg[l].n \in Nat /\ leg[l].n < l
        BY <1>0, <1>1 DEF Leg, LegNumbers
      <4> QED
        BY <1>0, <4>1, <4>2
    <3>2. CASE k # leg[l].key
      <4>1. cache'[k] = cache[k]
        BY <1>0, <3>0, <3>2
      <4> QED
        BY <1>1, <2>2, <4>1
    <3> QED
      BY <3>1, <3>2
  <2> QED
    BY <1>3, <2>1, <2>2
<1>9. ASSUME NEW k \in Keys, Expire(k) PROVE ArrivalInv'
  <2>1. leg' = leg /\ cache' = [cache EXCEPT ![k] = NoPending]
    BY <1>9 DEF Expire, Consume
  <2>2. \A j \in Keys : cache'[j].set => cache[j].set /\ cache'[j] = cache[j]
    BY <1>0, <2>1 DEF NoPending
  <2> QED
    BY <1>1, <1>3, <2>1, <2>2
<1>10. ASSUME NEW r \in Legs, Job(r) PROVE ArrivalInv'
  BY <1>1, <1>3, <1>10, JobFacts
<1>11. CASE Crash
  <2>1. \A m \in Legs : /\ leg'[m].n = leg[m].n
                        /\ leg'[m].pc = "idle" <=> leg[m].pc = "idle"
    BY <1>11, CrashFacts DEF KeptButPc
  <2>2. \A k \in Keys : ~cache'[k].set
    BY <1>11, CrashFacts DEF NoPending
  <2> QED
    BY <1>3, <2>1, <2>2
<1>12. CASE UNCHANGED vars
  BY <1>1, <1>3, <1>12 DEF vars
<1> QED
  BY <1>4, <1>5, <1>6, <1>7, <1>8, <1>9, <1>10, <1>11, <1>12, NextKinds DEF Kinds

\* Every step keeps what the phases say.
LEMMA PhaseStep ==
  ASSUME Inv, [Next]_vars
  PROVE  PhaseInv'
<1> DEFINE Ok(l) ==
      /\ leg[l].armed => leg[l].pc \in Ended
      /\ leg[l].pc = "idle" => leg[l] = NewLeg
      /\ leg[l].pc \notin {"idle", "refused"} => leg[l].key \in Keys
      /\ leg[l].writes => leg[l].rec # Nobody
      /\ leg[l].row => leg[l].rec # Nobody
      /\ leg[l].pc = "disposed" => leg[l].row
<1>0. leg \in [Legs -> Leg] /\ \A l \in Legs : Ok(l)
  BY DEF Inv, PhaseInv, TypeOK, Ended
<1>1. SUFFICES \A m \in Legs : Ok(m)'
  BY DEF PhaseInv, Ended
<1> USE DEF Ended
\* It is enough to look at the leg that moves.
<1>2. ASSUME NEW l \in Legs, OthersKept(l), Ok(l)' PROVE \A m \in Legs : Ok(m)'
  BY <1>0, <1>2 DEF OthersKept
<1>3. ASSUME NEW l \in Legs, NEW k \in Keys, Continue(l, k)
      PROVE \A m \in Legs : Ok(m)'
  BY <1>2, <1>3, ContinueFacts
<1>4. ASSUME NEW l \in Legs, NEW k \in Keys, Open(l, k) PROVE \A m \in Legs : Ok(m)'
  BY <1>2, <1>4, OpenFacts
<1>5. ASSUME NEW l \in Legs, SetUpRecording(l) PROVE \A m \in Legs : Ok(m)'
  BY <1>0, <1>2, <1>5, SetUpFacts
<1>6. ASSUME NEW l \in Legs, Moves(l) PROVE \A m \in Legs : Ok(m)'
  BY <1>0, <1>2, <1>6, MoveFacts DEF KeptButPc
<1>7. ASSUME NEW l \in Legs, Arm(l) PROVE \A m \in Legs : Ok(m)'
  <2>1. /\ OthersKept(l) /\ leg[l].key \in Keys
        /\ leg'[l].pc = "closing" /\ leg'[l].armed
        /\ leg'[l].key = leg[l].key /\ leg'[l].rec = leg[l].rec
        /\ leg'[l].row = leg[l].row /\ leg'[l].writes = leg[l].writes
    BY <1>7, ArmFacts
  <2>2. Ok(l)'
    BY <1>0, <2>1
  <2> QED
    BY <1>2, <2>1, <2>2
<1>8. CASE Crash
  <2> SUFFICES ASSUME NEW m \in Legs PROVE Ok(m)'
    OBVIOUS
  <2>1. CASE leg'[m] = leg[m]
    BY <1>0, <2>1
  <2>2. CASE leg[m].pc \notin {"idle", "refused"} /\ leg'[m].pc = "done"
    BY <1>0, <1>8, <2>2, CrashFacts DEF KeptButPc
  <2> QED
    BY <1>8, <2>1, <2>2, CrashFacts
<1>9. CASE \/ \E k \in Keys : Expire(k)
           \/ \E r \in Legs : Job(r)
           \/ UNCHANGED vars
  <2>1. leg' = leg
    BY <1>9, JobFacts DEF Expire, vars
  <2> QED
    BY <1>0, <2>1
<1> QED
  BY <1>3, <1>4, <1>5, <1>6, <1>7, <1>8, <1>9, NextKinds DEF Kinds

\* Every step keeps the rows the jobs work on.
LEMMA JobStep ==
  ASSUME Inv, [Next]_vars
  PROVE  JobInv'
<1>0. /\ mux \in Legs \cup {Nobody} /\ purging \in Legs \cup {Nobody}
      /\ status \in [Legs -> Statuses]
      /\ mux # Nobody => status[mux] \in {"Processing", "deleted"}
      /\ purging # Nobody => RowExists(purging)
  BY DEF Inv, TypeOK, JobInv
\* A row that is there when the job starts is processed by nobody else.
<1>1. ASSUME NEW l \in Legs, SetUpRecording(l) \/ Moves(l) PROVE JobInv'
  <2>1. mux' = mux /\ purging' = purging
    BY <1>1, SetUpFacts, MoveFacts
  <2>2. \A r \in Legs : /\ Advances(r)
                        /\ status'[r] \in {status[r], "Recording", "Processing"}
    <3>1. \A r \in Legs : Advances(r)
      BY AdvanceStep
    <3>2. \/ status' = status
          \/ \E r \in Legs, v \in {"Recording", "Processing"} :
               status' = [status EXCEPT ![r] = v]
      BY <1>1, SetUpFacts, FinalizeFacts
    <3>3. \A r \in Legs : status'[r] \in {status[r], "Recording", "Processing"}
      BY <1>0, <3>2
    <3> QED
      BY <3>1, <3>3
  <2>3. \A r \in Legs : status[r] = "Processing" => status'[r] = "Processing"
    BY <2>2 DEF Advances
  <2> QED
    BY <1>0, <2>1, <2>2, <2>3 DEF JobInv, Advances, RowExists
<1>2. ASSUME NEW r \in Legs, Job(r) PROVE JobInv'
  <2>1. CASE MuxStart(r)
    BY <1>0, <2>1 DEF MuxStart, JobInv, RowExists
  <2>2. CASE MuxEnd(r)
    BY <1>0, <2>2 DEF MuxEnd, JobInv, RowExists
  <2>3. CASE DeleteFiles(r)
    BY <1>0, <2>3 DEF DeleteFiles, JobInv, RowExists
  <2>4. CASE DeleteRow(r)
    BY <1>0, <2>4 DEF DeleteRow, JobInv, RowExists
  <2> QED
    BY <1>2, <2>1, <2>2, <2>3, <2>4 DEF Job
<1>3. CASE \/ \E l \in Legs, k \in Keys : Continue(l, k) \/ Open(l, k)
           \/ \E l \in Legs : Arm(l)
           \/ \E k \in Keys : Expire(k)
           \/ UNCHANGED vars
  <2>1. mux' = mux /\ purging' = purging /\ status' = status
    BY <1>3 DEF Continue, Open, Arm, Expire, vars, jobVars
  <2> QED
    BY <1>0, <2>1 DEF JobInv, RowExists
<1>4. CASE Crash
  BY <1>4, CrashFacts DEF JobInv
<1> QED
  BY <1>1, <1>2, <1>3, <1>4, NextKinds DEF Kinds

-----------------------------------------------------------------------------
\* Creators and chains.

\* The cache loses entries, or nothing.
CacheShrinks == \A k \in Keys : cache'[k] \in {cache[k], NoPending}

\* Every step keeps recordings with the legs that created them.
LEMMA CreatorStep ==
  ASSUME Inv, [Next]_vars
  PROVE  CreatorInv'
<1>0. /\ leg \in [Legs -> Leg] /\ cache \in [Keys -> Pending]
      /\ status \in [Legs -> Statuses] /\ Nobody \notin Legs
  BY ConstantsAssumption DEF Inv, TypeOK, Legs, Nobody
<1>1. /\ \A l \in Legs : status[l] # "none" => leg[l].rec = l
      /\ \A l \in Legs : leg[l].rec # Nobody => status[leg[l].rec] # "none"
      /\ \A k \in Keys : cache[k].rec # Nobody => status[cache[k].rec] # "none"
      /\ \A k \in Keys : ~cache[k].set => cache[k].rec = Nobody
  BY DEF Inv, CreatorInv
\* No row is forgotten.
<1>2. \A r \in Legs : status[r] # "none" => status'[r] # "none"
  BY AdvanceStep DEF Advances
<1>3. /\ \A l \in Legs : leg[l].rec \in Legs \cup {Nobody}
      /\ \A k \in Keys : cache[k].rec \in Legs \cup {Nobody}
  BY <1>0 DEF Leg, Pending
\* Steps that create nothing and thread no recording.
<1>4. ASSUME \A r \in Legs : status'[r] # "none" => status[r] # "none",
             \A m \in Legs : leg'[m].rec = leg[m].rec, CacheShrinks
      PROVE  CreatorInv'
  <2>1. \A l \in Legs : status'[l] # "none" => leg'[l].rec = l
    BY <1>1, <1>4
  <2>2. \A l \in Legs : leg'[l].rec # Nobody => status'[leg'[l].rec] # "none"
    BY <1>1, <1>2, <1>3, <1>4
  <2>3. \A k \in Keys : cache'[k].rec # Nobody => status'[cache'[k].rec] # "none"
    BY <1>1, <1>2, <1>3, <1>4 DEF CacheShrinks, NoPending
  <2>4. \A k \in Keys : ~cache'[k].set => cache'[k].rec = Nobody
    BY <1>1, <1>4 DEF CacheShrinks, NoPending
  <2> QED
    BY <2>1, <2>2, <2>3, <2>4 DEF CreatorInv
<1>5. ASSUME NEW l \in Legs, NEW k \in Keys, Continue(l, k) PROVE CreatorInv'
  <2>1. /\ leg[l].pc = "idle" /\ OthersKept(l) /\ leg'[l].rec = cache[k].rec
        /\ status' = status /\ cache' = [cache EXCEPT ![k] = NoPending]
    BY <1>5, ContinueFacts
  <2>2. leg[l].rec = Nobody
    BY <2>1 DEF Inv, PhaseInv, NewLeg
  <2>3. status[l] = "none"
    BY <1>0, <1>1, <2>2
  <2>4. \A j \in Keys : cache'[j] = IF j = k THEN NoPending ELSE cache[j]
    BY <1>0, <2>1
  <2>5. \A m \in Legs : status'[m] # "none" => leg'[m].rec = m
    BY <1>1, <2>1, <2>3 DEF OthersKept
  <2>6. \A m \in Legs : leg'[m].rec # Nobody => status'[leg'[m].rec] # "none"
    BY <1>1, <2>1 DEF OthersKept
  <2>7. \A j \in Keys : /\ cache'[j].rec # Nobody => status'[cache'[j].rec] # "none"
                        /\ ~cache'[j].set => cache'[j].rec = Nobody
    BY <1>1, <2>1, <2>4 DEF NoPending
  <2> QED
    BY <2>5, <2>6, <2>7 DEF CreatorInv
<1>6. ASSUME NEW l \in Legs, NEW k \in Keys, Open(l, k) PROVE CreatorInv'
  <2>1. /\ leg[l].pc = "idle" /\ OthersKept(l) /\ leg'[l].rec = Nobody
        /\ status' = status /\ cache' = cache
    BY <1>6, OpenFacts
  <2>2. leg[l].rec = Nobody
    BY <2>1 DEF Inv, PhaseInv, NewLeg
  <2> QED
    BY <1>4, <2>1, <2>2 DEF OthersKept, CacheShrinks
<1>7. ASSUME NEW l \in Legs, SetUpRecording(l) PROVE CreatorInv'
  <2>1. OthersKept(l) /\ cache' = cache
    BY <1>7, SetUpFacts
  <2>2. CASE status' = status /\ leg'[l].rec = leg[l].rec
    BY <1>4, <2>1, <2>2 DEF OthersKept, CacheShrinks
  <2>3. CASE /\ leg[l].rec = Nobody /\ leg'[l].rec = l
             /\ status' = [status EXCEPT ![l] = "Recording"]
    <3>1. /\ status'[l] = "Recording"
          /\ \A r \in Legs : r # l => status'[r] = status[r]
      BY <1>0, <2>3
    <3>2. \A m \in Legs : status'[m] # "none" => leg'[m].rec = m
      BY <1>1, <2>1, <2>3, <3>1 DEF OthersKept
    <3>3. \A m \in Legs : leg'[m].rec # Nobody => status'[leg'[m].rec] # "none"
      BY <1>1, <1>2, <1>3, <2>1, <2>3, <3>1 DEF OthersKept
    <3>4. \A j \in Keys : /\ cache'[j].rec # Nobody => status'[cache'[j].rec] # "none"
                          /\ ~cache'[j].set => cache'[j].rec = Nobody
      BY <1>1, <1>2, <1>3, <2>1
    <3> QED
      BY <3>2, <3>3, <3>4 DEF CreatorInv
  <2> QED
    BY <1>7, <2>2, <2>3, SetUpFacts
<1>8. ASSUME NEW l \in Legs, Moves(l) PROVE CreatorInv'
  <2>1. \A r \in Legs : status'[r] # "none" => status[r] # "none"
    BY <1>0, <1>8, FinalizeFacts
  <2> QED
    BY <1>4, <1>8, <2>1, MoveFacts DEF KeptButPc, CacheShrinks
<1>9. ASSUME NEW l \in Legs, Arm(l) PROVE CreatorInv'
  <2>1. /\ OthersKept(l) /\ leg'[l].rec = leg[l].rec /\ status' = status
        /\ leg[l].key \in Keys
        /\ cache' = [cache EXCEPT ![leg[l].key] =
                       [set |-> TRUE, rec |-> leg[l].rec, n |-> leg[l].n + 1]]
    BY <1>9, ArmFacts
  <2>2. \A m \in Legs : leg'[m].rec = leg[m].rec
    BY <2>1 DEF OthersKept
  <2>3. \A j \in Keys : \/ cache'[j] = cache[j]
                        \/ cache'[j].set /\ cache'[j].rec = leg[l].rec
    BY <1>0, <2>1
  <2>4. \A j \in Keys : /\ cache'[j].rec # Nobody => status'[cache'[j].rec] # "none"
                        /\ ~cache'[j].set => cache'[j].rec = Nobody
    BY <1>1, <2>1, <2>3
  <2> QED
    BY <1>1, <2>1, <2>2, <2>4 DEF CreatorInv
<1>10. ASSUME NEW k \in Keys, Expire(k) PROVE CreatorInv'
  <2>1. leg' = leg /\ status' = status /\ cache' = [cache EXCEPT ![k] = NoPending]
    BY <1>10 DEF Expire, Consume
  <2> QED
    BY <1>0, <1>4, <2>1 DEF CacheShrinks
<1>11. ASSUME NEW r \in Legs, Job(r) PROVE CreatorInv'
  <2>1. leg' = leg /\ cache' = cache
    BY <1>11, JobFacts
  <2>2. \A s \in Legs : status'[s] # "none" => status[s] # "none"
    BY <1>0, <1>11, JobFacts DEF RowExists
  <2> QED
    BY <1>4, <2>1, <2>2 DEF CacheShrinks
<1>12. CASE Crash
  <2>1. KeptButPc /\ status' = status /\ \A k \in Keys : cache'[k] = NoPending
    BY <1>12, CrashFacts
  <2> QED
    BY <1>4, <2>1 DEF CacheShrinks, KeptButPc
<1>13. CASE UNCHANGED vars
  BY <1>4, <1>13 DEF vars, CacheShrinks
<1> QED
  BY <1>5, <1>6, <1>7, <1>8, <1>9, <1>10, <1>11, <1>12, <1>13, NextKinds DEF Kinds

\* Every step leaves each chain with one open end.
LEMMA ChainStep ==
  ASSUME Inv, [Next]_vars
  PROVE  ChainInv'
<1>0. /\ leg \in [Legs -> Leg] /\ cache \in [Keys -> Pending] /\ Nobody \notin Legs
      /\ \A l \in Legs : leg[l].n \in Nat /\ leg[l].rec \in Legs \cup {Nobody}
      /\ \A k \in Keys : cache[k].n \in Nat /\ cache[k].rec \in Legs \cup {Nobody}
      /\ NoPending.rec = Nobody
  BY ConstantsAssumption
     DEF Inv, TypeOK, Leg, Pending, Legs, Nobody, LegNumbers, NoPending
<1>1. \A l, m \in Legs : SameRecording(l, m) =>
        /\ leg[l].n # leg[m].n
        /\ leg[l].key = leg[m].key
        /\ ~leg[l].armed => leg[m].n < leg[l].n
  BY DEF Inv, ChainInv
<1>2. \A k \in Keys, l \in Legs :
        (leg[l].rec # Nobody /\ leg[l].rec = cache[k].rec) =>
          leg[l].armed /\ leg[l].n < cache[k].n /\ leg[l].key = k
  BY DEF Inv, ChainInv
<1>3. /\ \A l \in Legs : status[l] # "none" => leg[l].rec = l
      /\ \A l \in Legs : leg[l].rec # Nobody => status[leg[l].rec] # "none"
      /\ \A k \in Keys : cache[k].rec # Nobody => status[cache[k].rec] # "none"
  BY DEF Inv, CreatorInv
\* Steps after which chains are the same, or shorter.
<1>4. ASSUME KeptButPc, CacheShrinks PROVE ChainInv'
  <2>1. \A l, m \in Legs : SameRecording(l, m)' => SameRecording(l, m)
    BY <1>4 DEF SameRecording, KeptButPc
  <2>2. \A l, m \in Legs : SameRecording(l, m)' =>
          /\ leg'[l].n # leg'[m].n
          /\ leg'[l].key = leg'[m].key
          /\ ~leg'[l].armed => leg'[m].n < leg'[l].n
    BY <1>1, <1>4, <2>1 DEF KeptButPc
  <2>3. \A k \in Keys, l \in Legs :
          (leg'[l].rec # Nobody /\ leg'[l].rec = cache'[k].rec) =>
            leg'[l].armed /\ leg'[l].n < cache'[k].n /\ leg'[l].key = k
    BY <1>0, <1>2, <1>4 DEF KeptButPc, CacheShrinks
  <2> QED
    BY <2>2, <2>3 DEF ChainInv
\* Steps after which one leg joins a chain as its last: nothing else awaits it.
<1>5. ASSUME NEW l \in Legs, OthersKept(l), CacheShrinks, ~leg'[l].armed,
             leg'[l].n \in Nat,
             leg'[l].rec # Nobody =>
               /\ \A m \in Legs : (m # l /\ leg[m].rec = leg'[l].rec) =>
                    leg[m].armed /\ leg[m].n < leg'[l].n /\ leg[m].key = leg'[l].key
               /\ \A j \in Keys : cache'[j].rec # leg'[l].rec
      PROVE  ChainInv'
  <2>1. ASSUME NEW a \in Legs, NEW b \in Legs, SameRecording(a, b)'
        PROVE  /\ leg'[a].n # leg'[b].n
               /\ leg'[a].key = leg'[b].key
               /\ ~leg'[a].armed => leg'[b].n < leg'[a].n
    <3>1. a # b /\ leg'[a].rec # Nobody /\ leg'[a].rec = leg'[b].rec
      BY <2>1 DEF SameRecording
    <3>2. CASE a # l /\ b # l
      <4>1. leg'[a] = leg[a] /\ leg'[b] = leg[b]
        BY <1>5, <3>2 DEF OthersKept
      <4> QED
        BY <1>1, <3>1, <4>1 DEF SameRecording
    <3>3. CASE a = l
      <4>1. leg'[b] = leg[b]
        BY <1>5, <3>1, <3>3 DEF OthersKept
      <4>2. leg[b].n < leg'[a].n /\ leg[b].key = leg'[a].key
        BY <1>5, <3>1, <3>3, <4>1
      <4> QED
        BY <1>0, <1>5, <3>3, <4>1, <4>2
    <3>4. CASE b = l
      <4>1. leg'[a] = leg[a]
        BY <1>5, <3>1, <3>4 DEF OthersKept
      <4>2. leg[a].armed /\ leg[a].n < leg'[b].n /\ leg[a].key = leg'[b].key
        BY <1>5, <3>1, <3>4, <4>1
      <4> QED
        BY <1>0, <1>5, <3>4, <4>1, <4>2
    <3> QED
      BY <3>2, <3>3, <3>4
  <2>2. ASSUME NEW k \in Keys, NEW m \in Legs,
               leg'[m].rec # Nobody, leg'[m].rec = cache'[k].rec
        PROVE  leg'[m].armed /\ leg'[m].n < cache'[k].n /\ leg'[m].key = k
    <3>1. m # l
      BY <1>5, <2>2
    <3>2. leg'[m] = leg[m]
      BY <1>5, <3>1 DEF OthersKept
    <3>3. cache'[k] = cache[k]
      BY <1>0, <1>5, <2>2 DEF CacheShrinks
    <3> QED
      BY <1>2, <2>2, <3>2, <3>3
  <2> QED
    BY <2>1, <2>2 DEF ChainInv
<1>6. ASSUME NEW l \in Legs, NEW k \in Keys, Continue(l, k) PROVE ChainInv'
  <2>1. /\ OthersKept(l) /\ leg'[l].key = k /\ leg'[l].rec = cache[k].rec
        /\ leg'[l].n = cache[k].n /\ ~leg'[l].armed
        /\ cache' = [cache EXCEPT ![k] = NoPending]
    BY <1>6, ContinueFacts
  <2>2. \A j \in Keys : cache'[j] = IF j = k THEN NoPending ELSE cache[j]
    BY <1>0, <2>1
  <2>3. ASSUME leg'[l].rec # Nobody, NEW j \in Keys PROVE cache'[j].rec # leg'[l].rec
    <3>1. CASE j = k
      BY <1>0, <2>2, <2>3, <3>1
    <3>2. CASE j # k
      <4>1. SUFFICES ASSUME cache[j].rec = cache[k].rec PROVE FALSE
        BY <2>1, <2>2, <3>2
      <4>2. PICK c \in Legs : c = cache[k].rec
        BY <1>0, <2>1, <2>3
      <4>3. leg[c].rec = c /\ c # Nobody
        BY <1>0, <1>3, <4>2
      <4>4. leg[c].key = k /\ leg[c].key = j
        BY <1>2, <4>1, <4>2, <4>3
      <4> QED
        BY <3>2, <4>4
    <3> QED
      BY <3>1, <3>2
  <2>4. CacheShrinks
    BY <2>2 DEF CacheShrinks
  <2>5. \A m \in Legs : (leg'[l].rec # Nobody /\ leg[m].rec = leg'[l].rec) =>
          leg[m].armed /\ leg[m].n < leg'[l].n /\ leg[m].key = leg'[l].key
    BY <1>2, <2>1
  <2>6. leg'[l].n \in Nat
    BY <1>0, <2>1
  <2> QED
    BY <1>5, <2>1, <2>3, <2>4, <2>5, <2>6
<1>7. ASSUME NEW l \in Legs, NEW k \in Keys, Open(l, k) PROVE ChainInv'
  BY <1>5, <1>7, OpenFacts DEF CacheShrinks
<1>8. ASSUME NEW l \in Legs, SetUpRecording(l) PROVE ChainInv'
  <2>1. /\ OthersKept(l) /\ cache' = cache /\ leg[l].pc = "setup"
        /\ leg'[l].key = leg[l].key /\ leg'[l].n = leg[l].n
        /\ leg'[l].armed = leg[l].armed
    BY <1>8, SetUpFacts
  <2>2. ~leg[l].armed
    BY <2>1 DEF Inv, PhaseInv
  <2>3. CacheShrinks
    BY <2>1 DEF CacheShrinks
  <2>4. CASE leg'[l].rec = leg[l].rec
    <3>1. \A m \in Legs : /\ leg'[m].key = leg[m].key /\ leg'[m].rec = leg[m].rec
                          /\ leg'[m].n = leg[m].n /\ leg'[m].armed = leg[m].armed
      BY <2>1, <2>4 DEF OthersKept
    <3>2. \A a, b \in Legs : SameRecording(a, b)' => SameRecording(a, b)
      BY <3>1 DEF SameRecording
    <3> QED
      BY <1>1, <1>2, <2>1, <3>1, <3>2 DEF ChainInv
  <2>5. CASE leg[l].rec = Nobody /\ leg'[l].rec = l
    <3>1. status[l] = "none"
      BY <1>0, <1>3, <2>5
    <3>2. /\ \A m \in Legs : leg[m].rec # l
          /\ \A j \in Keys : cache[j].rec # l
      BY <1>0, <1>3, <3>1
    <3> QED
      BY <1>0, <1>5, <2>1, <2>2, <2>3, <2>5, <3>2
  <2> QED
    BY <1>8, <2>4, <2>5, SetUpFacts
<1>9. ASSUME NEW l \in Legs, Moves(l) PROVE ChainInv'
  BY <1>4, <1>9, MoveFacts DEF CacheShrinks
<1>10. ASSUME NEW l \in Legs, Arm(l) PROVE ChainInv'
  <2>1. /\ leg[l].pc = "live" /\ leg[l].key \in Keys /\ OthersKept(l)
        /\ leg'[l].armed /\ leg'[l].key = leg[l].key /\ leg'[l].rec = leg[l].rec
        /\ leg'[l].n = leg[l].n
        /\ cache' = [cache EXCEPT ![leg[l].key] =
                       [set |-> TRUE, rec |-> leg[l].rec, n |-> leg[l].n + 1]]
    BY <1>10, ArmFacts
  <2>2. ~leg[l].armed
    BY <2>1 DEF Inv, PhaseInv
  <2>3. \A m \in Legs : /\ leg'[m].key = leg[m].key /\ leg'[m].rec = leg[m].rec
                        /\ leg'[m].n = leg[m].n
                        /\ leg[m].armed => leg'[m].armed
    BY <2>1 DEF OthersKept
  <2>4. \A a, b \in Legs : SameRecording(a, b)' => SameRecording(a, b)
    BY <2>3 DEF SameRecording
  <2>5. \A a, b \in Legs : SameRecording(a, b)' =>
          /\ leg'[a].n # leg'[b].n
          /\ leg'[a].key = leg'[b].key
          /\ ~leg'[a].armed => leg'[b].n < leg'[a].n
    BY <1>1, <2>3, <2>4
  <2>6. ASSUME NEW k \in Keys, NEW m \in Legs,
               leg'[m].rec # Nobody, leg'[m].rec = cache'[k].rec
        PROVE  leg'[m].armed /\ leg'[m].n < cache'[k].n /\ leg'[m].key = k
    <3>1. CASE k # leg[l].key
      <4>1. cache'[k] = cache[k]
        BY <1>0, <2>1, <3>1
      <4> QED
        BY <1>2, <2>3, <2>6, <4>1
    <3>2. CASE k = leg[l].key
      <4>1. cache'[k].rec = leg[l].rec /\ cache'[k].n = leg[l].n + 1
        BY <1>0, <2>1, <3>2
      <4>2. CASE m = l
        BY <1>0, <2>1, <3>2, <4>1, <4>2
      <4>3. CASE m # l
        <5>1. SameRecording(l, m) /\ SameRecording(m, l)
          BY <2>3, <2>6, <4>1, <4>3 DEF SameRecording
        <5>2. leg[m].n < leg[l].n /\ leg[m].key = leg[l].key
          BY <1>1, <2>2, <5>1
        <5>3. leg[m].armed
          BY <1>0, <1>1, <5>1, <5>2
        <5> QED
          BY <1>0, <2>3, <3>2, <4>1, <5>2, <5>3
      <4> QED
        BY <4>2, <4>3
    <3> QED
      BY <3>1, <3>2
  <2> QED
    BY <2>5, <2>6 DEF ChainInv
<1>11. ASSUME NEW k \in Keys, Expire(k) PROVE ChainInv'
  <2>1. leg' = leg /\ cache' = [cache EXCEPT ![k] = NoPending]
    BY <1>11 DEF Expire, Consume
  <2> QED
    BY <1>0, <1>4, <2>1 DEF CacheShrinks, KeptButPc
<1>12. CASE Crash
  BY <1>4, <1>12, CrashFacts DEF CacheShrinks
<1>13. CASE (\E r \in Legs : Job(r)) \/ UNCHANGED vars
  <2>1. leg' = leg /\ cache' = cache
    BY <1>13, JobFacts DEF vars
  <2> QED
    BY <1>4, <2>1 DEF CacheShrinks, KeptButPc
<1> QED
  BY <1>6, <1>7, <1>8, <1>9, <1>10, <1>11, <1>12, <1>13, NextKinds DEF Kinds

-----------------------------------------------------------------------------
\* The hand-over to the mux job.

\* Nothing of recording r is still to come: no continuation waits and no leg
\* runs that could be its last.
Settled(r) ==
  /\ \A k \in Keys : cache[k].rec # r
  /\ \A l \in Legs : leg[l].rec = r =>
       leg[l].armed \/ leg[l].pc \in {"idle", "done"}
Closed == {"Processing", "Completed", "Failed"}

\* Every step keeps closed recordings settled, and the one that closes a
\* recording is taken by the open end of its chain.
LEMMA EndsStep ==
  ASSUME Inv, [Next]_vars
  PROVE  EndsLast'
<1>0. /\ leg \in [Legs -> Leg] /\ cache \in [Keys -> Pending] /\ Nobody \notin Legs
      /\ status \in [Legs -> Statuses]
      /\ NoPending.rec = Nobody
  BY ConstantsAssumption DEF Inv, TypeOK, Legs, Nobody, NoPending
<1>1. SUFFICES ASSUME NEW r \in Legs, status'[r] \in Closed
               PROVE  /\ \A k \in Keys : cache'[k].rec # r
                      /\ \A l \in Legs : leg'[l].rec = r =>
                           leg'[l].armed \/ leg'[l].pc \in {"idle", "done"}
  BY DEF EndsLast, Closed
<1> DEFINE After == /\ \A k \in Keys : cache'[k].rec # r
                    /\ \A l \in Legs : leg'[l].rec = r =>
                         leg'[l].armed \/ leg'[l].pc \in {"idle", "done"}
<1>2. r # Nobody
  BY <1>0
<1>3. status[r] \in Closed => Settled(r)
  BY DEF Inv, EndsLast, Settled, Closed
\* A leg that is set up or runs is the open end of its chain.
<1>4. ASSUME NEW l \in Legs, leg[l].pc \in {"setup", "path", "live"},
             status[r] \in Closed
      PROVE  leg[l].rec # r
  <2>1. ~leg[l].armed
    BY <1>4 DEF Inv, PhaseInv
  <2> QED
    BY <1>3, <1>4, <2>1 DEF Settled
\* Steps that change one leg, while r was closed before.
<1>5. ASSUME NEW l \in Legs, OthersKept(l), status[r] \in Closed,
             leg'[l].rec # r, \A k \in Keys : cache'[k].rec # r
      PROVE  After
  BY <1>3, <1>5 DEF Settled, OthersKept
<1>6. ASSUME NEW l \in Legs, NEW k \in Keys, Continue(l, k) PROVE After
  <2>1. /\ OthersKept(l) /\ status' = status /\ leg'[l].rec = cache[k].rec
        /\ cache' = [cache EXCEPT ![k] = NoPending]
    BY <1>6, ContinueFacts
  <2>2. status[r] \in Closed /\ Settled(r)
    BY <1>1, <1>3, <2>1
  <2>3. \A j \in Keys : cache'[j] = IF j = k THEN NoPending ELSE cache[j]
    BY <1>0, <2>1
  <2>4. leg'[l].rec # r /\ \A j \in Keys : cache'[j].rec # r
    BY <1>0, <1>2, <2>1, <2>2, <2>3 DEF Settled
  <2> QED
    BY <1>5, <2>1, <2>2, <2>4
<1>7. ASSUME NEW l \in Legs, NEW k \in Keys, Open(l, k) PROVE After
  <2>1. /\ OthersKept(l) /\ status' = status /\ cache' = cache
        /\ leg'[l].rec = Nobody
    BY <1>7, OpenFacts
  <2>2. status[r] \in Closed /\ Settled(r)
    BY <1>1, <1>3, <2>1
  <2> QED
    BY <1>2, <1>5, <2>1, <2>2 DEF Settled
<1>8. ASSUME NEW l \in Legs, SetUpRecording(l) PROVE After
  <2>1. OthersKept(l) /\ leg[l].pc = "setup" /\ cache' = cache
    BY <1>8, SetUpFacts
  <2>2. status[r] \in Closed /\ leg'[l].rec # r
    <3>1. CASE status' = status /\ leg'[l].rec = leg[l].rec
      BY <1>1, <1>4, <2>1, <3>1
    <3>2. CASE leg'[l].rec = l /\ status' = [status EXCEPT ![l] = "Recording"]
      <4>1. r # l
        BY <1>0, <1>1, <3>2 DEF Closed
      <4> QED
        BY <1>0, <1>1, <3>2, <4>1
    <3> QED
      BY <1>8, <3>1, <3>2, SetUpFacts
  <2> QED
    BY <1>3, <1>5, <2>1, <2>2 DEF Settled
<1>9. ASSUME NEW l \in Legs, Moves(l) PROVE After
  <2>1. /\ KeptButPc /\ OthersKept(l) /\ cache' = cache
        /\ leg[l].pc \notin {"idle", "done"}
    BY <1>9, MoveFacts
  <2>2. CASE status[r] \in Closed
    <3>1. \A m \in Legs : leg[m].rec = r =>
            leg[m].armed \/ (m # l /\ leg[m].pc \in {"idle", "done"})
      BY <1>3, <2>1, <2>2 DEF Settled
    <3>2. \A m \in Legs : leg'[m].rec = r =>
            leg'[m].armed \/ leg'[m].pc \in {"idle", "done"}
      BY <2>1, <3>1 DEF KeptButPc, OthersKept
    <3> QED
      BY <1>3, <2>1, <2>2, <3>2 DEF Settled
  <2>3. CASE status[r] \notin Closed
    <3>1. /\ leg[l].rec \in Legs /\ ~leg[l].armed /\ leg'[l].pc = "done"
          /\ leg[l].rec = r
      BY <1>0, <1>1, <1>9, <2>3, FinalizeFacts DEF Closed
    <3>2. \A k \in Keys : cache[k].rec # r
      BY <1>2, <3>1 DEF Inv, ChainInv
    <3>3. ASSUME NEW m \in Legs, m # l, leg[m].rec = r PROVE leg[m].armed
      <4>1. SameRecording(l, m) /\ SameRecording(m, l)
        BY <1>2, <3>1, <3>3 DEF SameRecording
      <4>2. leg[m].n < leg[l].n
        BY <3>1, <4>1 DEF Inv, ChainInv
      <4>3. ~leg[m].armed => leg[l].n < leg[m].n
        BY <4>1 DEF Inv, ChainInv
      <4>4. leg[l].n \in Nat /\ leg[m].n \in Nat
        BY <1>0, ConstantsAssumption DEF Leg, LegNumbers
      <4> QED
        BY <4>2, <4>3, <4>4
    <3> QED
      BY <2>1, <3>1, <3>2, <3>3 DEF KeptButPc
  <2> QED
    BY <2>2, <2>3
<1>10. ASSUME NEW l \in Legs, Arm(l) PROVE After
  <2>1. /\ OthersKept(l) /\ status' = status /\ leg[l].pc = "live"
        /\ leg[l].key \in Keys /\ leg'[l].rec = leg[l].rec
        /\ cache' = [cache EXCEPT ![leg[l].key] =
                       [set |-> TRUE, rec |-> leg[l].rec, n |-> leg[l].n + 1]]
    BY <1>10, ArmFacts
  <2>2. status[r] \in Closed /\ Settled(r) /\ leg[l].rec # r
    BY <1>1, <1>3, <1>4, <2>1
  <2>3. \A k \in Keys : cache'[k].rec # r
    <3>1. \A k \in Keys : cache'[k].rec \in {cache[k].rec, leg[l].rec}
      BY <1>0, <2>1
    <3> QED
      BY <2>2, <3>1 DEF Settled
  <2> QED
    BY <1>5, <2>1, <2>2, <2>3
<1>11. ASSUME NEW k \in Keys, Expire(k) PROVE After
  <2>1. leg' = leg /\ status' = status /\ cache' = [cache EXCEPT ![k] = NoPending]
    BY <1>11 DEF Expire, Consume, diskVars
  <2>2. \A j \in Keys : cache'[j] = IF j = k THEN NoPending ELSE cache[j]
    BY <1>0, <2>1
  <2>3. Settled(r)
    BY <1>1, <1>3, <2>1
  <2> QED
    BY <1>0, <1>2, <2>1, <2>2, <2>3 DEF Settled
<1>12. ASSUME NEW s \in Legs, Job(s) PROVE After
  <2>1. leg' = leg /\ cache' = cache
    BY <1>12, JobFacts
  <2>2. status[r] \in Closed
    BY <1>0, <1>1, <1>12, JobFacts DEF Closed
  <2> QED
    BY <1>3, <2>1, <2>2 DEF Settled
<1>13. CASE Crash
  <2>1. /\ KeptButPc /\ status' = status /\ \A k \in Keys : cache'[k] = NoPending
        /\ \A l \in Legs : \/ leg[l].pc \in {"idle", "refused"} /\ leg'[l] = leg[l]
                           \/ leg'[l].pc = "done"
    BY <1>13, CrashFacts
  <2>2. Settled(r)
    BY <1>1, <1>3, <2>1
  <2>3. \A l \in Legs : leg'[l].rec = r =>
          leg'[l].armed \/ leg'[l].pc \in {"idle", "done"}
    BY <2>1, <2>2 DEF Settled
  <2> QED
    BY <1>0, <1>2, <2>1, <2>3
<1>14. CASE UNCHANGED vars
  <2>1. leg' = leg /\ cache' = cache /\ status' = status
    BY <1>14 DEF vars
  <2> QED
    BY <1>1, <1>3, <2>1 DEF Settled
<1> QED
  BY <1>6, <1>7, <1>8, <1>9, <1>10, <1>11, <1>12, <1>13, <1>14, NextKinds DEF Kinds

-----------------------------------------------------------------------------
\* The invariant and what follows from it.

\* Initially no leg has arrived, no continuation waits, nothing is recorded.
LEMMA InitInv == Init => Inv
<1> SUFFICES ASSUME Init PROVE Inv
  OBVIOUS
<1> USE ConstantsAssumption
<1>1. /\ \A l \in Legs : leg[l] = NewLeg
      /\ \A k \in Keys : cache[k] = NoPending
      /\ \A r \in Legs : status[r] = "none"
      /\ mux = Nobody /\ purging = Nobody
  BY DEF Init
<1>2. /\ NewLeg.pc = "idle" /\ NewLeg.rec = Nobody /\ NewLeg.n = 0
      /\ ~NewLeg.armed /\ ~NewLeg.writes /\ ~NewLeg.row
      /\ ~NoPending.set /\ NoPending.rec = Nobody
      /\ Nobody \notin Legs /\ \A l \in Legs : l \in Nat /\ 0 < l
  BY DEF NewLeg, NoPending, Legs, Nobody
<1>3. TypeOK
  <2>1. NoPending \in Pending /\ NotMerged \in Merged
    BY DEF NoPending, Pending, NotMerged, Merged, LegNumbers
  <2> QED
    BY <2>1, NewLegType DEF Init, TypeOK, Statuses
<1>4. ArrivalInv
  BY <1>1, <1>2 DEF ArrivalInv
<1>5. PhaseInv
  BY <1>1, <1>2 DEF PhaseInv
<1>6. CreatorInv
  BY <1>1, <1>2 DEF CreatorInv
<1>7. ChainInv
  BY <1>1, <1>2 DEF ChainInv, SameRecording
<1>8. JobInv
  BY <1>1 DEF JobInv
<1>9. EndsLast
  BY <1>1 DEF EndsLast
<1> QED
  BY <1>3, <1>4, <1>5, <1>6, <1>7, <1>8, <1>9 DEF Inv

\* The invariant holds in every reachable state.
LEMMA InvHolds == Spec => []Inv
<1>1. Inv /\ [Next]_vars => Inv'
  BY TypeStep, ArrivalStep, PhaseStep, CreatorStep, ChainStep, JobStep, EndsStep
     DEF Inv
<1> QED
  BY <1>1, InitInv, PTL DEF Spec

\* The variables keep their types: the leg numbers that are handed from leg to
\* leg through the cache stay in range, and so do the rows' statuses.
THEOREM TypeCorrect == Spec => []TypeOK
<1>1. Inv => TypeOK
  BY DEF Inv
<1> QED
  BY <1>1, InvHolds, PTL

\* Two connects never record the same leg of a recording, with any number of
\* tabs, redirections, slow wind-ups and restarts.
THEOREM LegDirsAreDistinct == Spec => []LegDirsDistinct
<1>1. Inv => LegDirsDistinct
  BY DEF Inv, PhaseInv, ChainInv, SameRecording, LegDirsDistinct
<1> QED
  BY <1>1, InvHolds, PTL

\* A recording is handed to the mux job only when no continuation of it waits
\* and every other leg of it ended in a continuation.
THEOREM EndsAreLast == Spec => []EndsLast
<1>1. Inv => EndsLast
  BY DEF Inv
<1> QED
  BY <1>1, InvHolds, PTL

\* No step takes a recording's row backwards or brings a deleted one back.
THEOREM RowsAdvance == Spec => StatusAdvances
<1>1. Inv /\ [Next]_vars =>
        [\A r \in Legs :
           \/ status'[r] = status[r]
           \/ status[r] = "none" /\ status'[r] = "Recording"
           \/ status[r] = "Recording" /\ status'[r] = "Processing"
           \/ status[r] = "Processing" /\ status'[r] \in {"Completed", "Failed"}
           \/ RowExists(r) /\ status'[r] = "deleted"]_vars
  BY AdvanceStep DEF Advances
<1> QED
  BY <1>1, InvHolds, PTL DEF Spec, StatusAdvances

\* All of it: the rows are well formed, no two connects record one leg, and no recording is handed
\* over early.
THEOREM RecordingsAreKept == Spec => []RecordingsKept
<1>1. TypeOK /\ LegDirsDistinct /\ EndsLast => RecordingsKept
  BY DEF RecordingsKept
<1> QED BY <1>1, TypeCorrect, LegDirsAreDistinct, EndsAreLast, PTL

-----------------------------------------------------------------------------
(* The merge takes every leg that was recorded.  What it takes are the     *)
(* legs with a manifest, so the invariant says which these are.            *)

\* A leg that has not been set up records nothing.
FreshInv ==
  \A l \in Legs : /\ leg[l].pc = "setup" => ~leg[l].writes /\ ~leg[l].row
                  /\ leg[l].pc = "refused" => leg[l].rec = Nobody

\* A directory has a leg that records into it, and a manifest a directory.
FilesInv ==
  \A r \in Legs :
    /\ manifests[r] \subseteq dirs[r]
    /\ \A n \in dirs[r] : \E l \in Legs : leg[l].rec = r /\ leg[l].n = n /\ leg[l].writes

\* Only a leg that found its row deleted records without one.
RowInv == \A l \in Legs : leg[l].writes /\ ~leg[l].row => status[leg[l].rec] = "deleted"

\* The chain of recording r has an end that may still hand it over.
HasEnd(r) ==
  \/ \E k \in Keys : cache[k].rec = r
  \/ \E l \in Legs : leg[l].rec = r /\ leg[l].pc # "done" /\ ~leg[l].armed

\* A leg that has closed its recorder has left its manifest: it may be missing only where a
\* restart or an abandoned connect has ended a leg, and then the chain has no end.
Wound(l) ==
  \/ leg[l].pc = "disposed"
  \/ leg[l].pc = "done" /\ status[leg[l].rec] = "Recording" /\ HasEnd(leg[l].rec)
Saved(l) == leg[l].n \in dirs[leg[l].rec] => leg[l].n \in manifests[leg[l].rec]
SavedInv == \A l \in Legs : leg[l].writes /\ Wound(l) => Saved(l)

\* A leg winds up when the legs before it have.
Late == {"closing", "removed", "disposed"}
OrderInv ==
  \A l, m \in Legs :
    SameRecording(l, m) /\ leg[m].n < leg[l].n /\ leg[l].pc \in Late => leg[m].pc = "done"

\* A recording that was handed over is complete.
Complete == \A r \in Legs : status[r] \in Closed => manifests[r] = dirs[r]

MergeInv ==
  FreshInv /\ FilesInv /\ RowInv /\ SavedInv /\ (May("slow") \/ (OrderInv /\ Complete))

\* What a step does to leg l.
Arrived(l) ==
  /\ leg[l] = NewLeg
  /\ \/ \E k \in Keys : /\ leg'[l].rec = cache[k].rec /\ leg'[l].n = cache[k].n
                        /\ leg'[l].pc = "setup"
     \/ leg'[l].rec = Nobody /\ leg'[l].pc \in {"setup", "refused"}
  /\ ~leg'[l].armed /\ ~leg'[l].row /\ ~leg'[l].writes
Same(l) == /\ leg'[l].rec = leg[l].rec /\ leg'[l].n = leg[l].n
           /\ leg'[l].row = leg[l].row /\ leg'[l].writes = leg[l].writes
LegChange(l) ==
  \/ leg'[l] = leg[l]
  \/ Arrived(l)
  \/ SetUpRecording(l) /\ leg[l].pc = "setup" /\ leg'[l].pc = "path"
  \/ Moves(l) /\ Same(l) /\ leg'[l].armed = leg[l].armed
  \/ Arm(l) /\ Same(l) /\ leg'[l].armed /\ leg[l].pc = "live" /\ leg'[l].pc = "closing"
  \/ Crash /\ Same(l) /\ leg'[l].armed = leg[l].armed /\ leg'[l].pc = "done"

\* Every step changes each leg in one of these ways.
LEMMA LegChanges ==
  ASSUME Inv, [Next]_vars
  PROVE  \A l \in Legs : LegChange(l)
<1>1. ASSUME NEW l \in Legs, NEW k \in Keys, Continue(l, k)  PROVE Arrived(l) /\ OthersKept(l)
  BY <1>1, ContinueFacts DEF Arrived, Inv, PhaseInv
<1>2. ASSUME NEW l \in Legs, NEW k \in Keys, Open(l, k)  PROVE Arrived(l) /\ OthersKept(l)
  BY <1>2, OpenFacts DEF Arrived, Inv, PhaseInv
<1>3. ASSUME NEW l \in Legs, SetUpRecording(l)  PROVE LegChange(l) /\ OthersKept(l)
  BY <1>3, SetUpFacts DEF LegChange
<1>4. ASSUME NEW l \in Legs, Moves(l)  PROVE LegChange(l) /\ OthersKept(l)
  BY <1>4, MoveFacts DEF LegChange, KeptButPc, Same
<1>5. ASSUME NEW l \in Legs, Arm(l)  PROVE LegChange(l) /\ OthersKept(l)
  <2>1. leg[l].armed \in BOOLEAN /\ Same(l) /\ OthersKept(l) /\ leg'[l].armed
    BY <1>5, ArmFacts DEF Same, Inv, TypeOK, Leg
  <2> QED
    BY <1>5, <2>1, ArmFacts DEF LegChange
<1>6. CASE Crash
  BY <1>6, CrashFacts DEF LegChange, KeptButPc, Same
<1>7. CASE \/ \E k \in Keys : Expire(k)
           \/ \E r \in Legs : Job(r)
           \/ UNCHANGED vars
  BY <1>7, JobFacts DEF LegChange, Expire, vars
<1> QED
  BY <1>1, <1>2, <1>3, <1>4, <1>5, <1>6, <1>7, NextKinds DEF Kinds, LegChange, OthersKept

\* What starting to record does.
LEMMA RecorderFiles ==
  ASSUME Inv, NEW l \in Legs, SetUpRecording(l)
  PROVE  /\ manifests' = manifests
         /\ \/ dirs' = dirs
            \/ /\ leg'[l].writes /\ leg'[l].rec \in Legs
               /\ dirs' = [dirs EXCEPT ![leg'[l].rec] = @ \cup {leg'[l].n}]
         /\ leg'[l].writes /\ ~leg'[l].row =>
              leg'[l].rec \in Legs /\ leg'[l].rec = leg[l].rec /\ ~RowExists(leg[l].rec)
<1>1. /\ leg \in [Legs -> Leg] /\ leg[l] \in Leg
  BY DEF Inv, TypeOK
<1>2. ASSUME NEW r \in Legs, NEW b \in BOOLEAN, StartRecorder(l, r, b)
      PROVE  /\ \/ dirs' = dirs
                \/ /\ leg'[l].writes
                   /\ dirs' = [dirs EXCEPT ![r] = @ \cup {leg'[l].n}]
             /\ leg'[l].rec = r /\ leg'[l].row = b
  <2>1. PICK ok \in BOOLEAN :
          /\ leg' = [leg EXCEPT ![l].pc = "path", ![l].rec = r,
                                ![l].row = b, ![l].writes = ok]
          /\ dirs' = IF ok THEN [dirs EXCEPT ![r] = @ \cup {leg[l].n}] ELSE dirs
    BY <1>2 DEF StartRecorder
  <2>2. leg'[l] = [leg[l] EXCEPT !.pc = "path", !.rec = r, !.row = b, !.writes = ok]
    BY <1>1, <2>1
  <2> QED
    BY <1>1, <2>1, <2>2 DEF Leg
<1>3. manifests' = manifests
  BY DEF SetUpRecording
<1>4. CASE leg[l].rec # Nobody /\ StartRecorder(l, leg[l].rec, RowExists(leg[l].rec))
  <2>1. leg[l].rec \in Legs /\ RowExists(leg[l].rec) \in BOOLEAN
    BY <1>1, <1>4 DEF Leg, RowExists
  <2> QED
    BY <1>2, <1>3, <1>4, <2>1
<1>5. CASE StartRecorder(l, l, TRUE)
  BY <1>2, <1>3, <1>5
<1>6. CASE leg[l].rec = Nobody /\ Step(l, "setup", "path") /\ UNCHANGED <<status, dirs>>
  <2>1. ~leg[l].writes /\ leg'[l].writes = leg[l].writes
    BY <1>6, StepFacts DEF KeptButPc, Inv, PhaseInv, Phases
  <2> QED
    BY <1>3, <1>6, <2>1
<1> QED
  BY <1>4, <1>5, <1>6 DEF SetUpRecording

\* What a move does to the files, and what finalising leaves alone.
LEMMA DisposeFiles ==
  ASSUME Inv, NEW l \in Legs, Moves(l)
  PROVE  /\ dirs' = dirs
         /\ \/ manifests' = manifests
            \/ /\ leg[l].rec \in Legs /\ leg[l].n \in dirs[leg[l].rec] /\ status' = status
               /\ manifests' = [manifests EXCEPT ![leg[l].rec] = @ \cup {leg[l].n}]
         /\ leg'[l].pc = "disposed" /\ leg[l].writes /\ leg[l].n \in dirs[leg[l].rec]
              => leg[l].n \in manifests'[leg[l].rec]
         /\ leg[l].pc = "live" => leg'[l].pc = "closing" /\ MayEnd(l)
         /\ leg[l].pc = "path" => leg'[l].pc \in {"live", "done"}
<1>1. leg[l] \in Leg /\ manifests \in [Legs -> SUBSET LegNumbers] /\ leg[l].writes \in BOOLEAN
  BY DEF Inv, TypeOK, Leg
<1>2. leg[l].writes => leg[l].rec \in Legs
  BY <1>1 DEF Inv, PhaseInv, Leg
<1>3. CASE Dispose(l)
  <2>1. leg[l].pc = "removed" /\ dirs' = dirs /\ status' = status
    BY <1>3 DEF Dispose, Step
  <2>2. leg'[l].pc = "disposed" => leg[l].row
    BY MoveFacts
  <2> QED
    BY <1>1, <1>2, <1>3, <2>1, <2>2 DEF Dispose
<1>4. CASE ~Dispose(l)
  <2>1. /\ dirs' = dirs /\ manifests' = manifests
        /\ leg'[l].pc # "disposed"
        /\ leg[l].pc = "live" => leg'[l].pc = "closing" /\ MayEnd(l)
        /\ leg[l].pc = "path" => leg'[l].pc \in {"live", "done"}
    BY <1>4, StepFacts DEF Moves, Abandon, Register, EndLeg, Remove, Finalize, diskVars, Step, Inv, Phases
  <2> QED
    BY <2>1
<1> QED
  BY <1>3, <1>4

\* What the jobs do.
LEMMA JobFiles ==
  ASSUME Inv, NEW r \in Legs, Job(r), NEW s \in Legs
  PROVE  \/ dirs'[s] = dirs[s] /\ manifests'[s] = manifests[s]
         \/ dirs'[s] = {} /\ manifests'[s] = {}
BY DEF Job, MuxStart, MuxEnd, DeleteFiles, DeleteRow, diskVars, Inv, TypeOK

\* What a step does to the files of recording r.
FileStep(r) ==
  \/ dirs'[r] = dirs[r] /\ manifests'[r] = manifests[r]
  \/ dirs'[r] = {} /\ manifests'[r] = {}
  \/ \E l \in Legs : /\ SetUpRecording(l) /\ leg'[l].pc = "path" /\ leg'[l].rec = r
                     /\ leg'[l].writes
                     /\ dirs'[r] = dirs[r] \cup {leg'[l].n} /\ manifests'[r] = manifests[r]
  \/ \E n \in dirs[r] : dirs'[r] = dirs[r] /\ manifests'[r] = manifests[r] \cup {n}

\* Every step is one of these for every recording.
LEMMA FileSteps ==
  ASSUME Inv, [Next]_vars, NEW r \in Legs
  PROVE  FileStep(r)
<1>1. /\ dirs \in [Legs -> SUBSET LegNumbers] /\ manifests \in [Legs -> SUBSET LegNumbers]
  BY DEF Inv, TypeOK
<1>2. ASSUME NEW l \in Legs, SetUpRecording(l)  PROVE FileStep(r)
  BY <1>1, <1>2, RecorderFiles, SetUpFacts DEF FileStep
<1>3. ASSUME NEW l \in Legs, Moves(l)  PROVE FileStep(r)
  BY <1>1, <1>3, DisposeFiles DEF FileStep
<1>4. ASSUME NEW s \in Legs, Job(s)  PROVE FileStep(r)
  BY <1>4, JobFiles DEF FileStep
<1>5. CASE dirs' = dirs /\ manifests' = manifests
  BY <1>5 DEF FileStep
<1>6. CASE \/ \E l \in Legs, k \in Keys : Continue(l, k) \/ Open(l, k)
           \/ \E l \in Legs : Arm(l)
           \/ \E k \in Keys : Expire(k)
           \/ Crash \/ UNCHANGED vars
  BY <1>5, <1>6 DEF Continue, Open, Arm, Expire, Crash, vars, diskVars
<1> QED
  BY <1>2, <1>3, <1>4, <1>6, NextKinds DEF Kinds

\* A leg that records goes on with its recording, and begins to in SetUpRecording.
LEMMA WritersKept ==
  ASSUME Inv, FreshInv, NEW l \in Legs, LegChange(l)
  PROVE  /\ leg[l].writes => Same(l)
         /\ leg'[l].writes /\ ~leg[l].writes => SetUpRecording(l) /\ leg'[l].pc = "path"
<1>1. leg[l] \in Leg /\ ~NewLeg.writes
  BY DEF Inv, TypeOK, NewLeg
<1>2. CASE SetUpRecording(l) /\ leg[l].pc = "setup" /\ leg'[l].pc = "path"
  BY <1>2 DEF FreshInv
<1> QED
  BY <1>1, <1>2 DEF LegChange, Arrived, Same

\* A leg begins to record in SetUpRecording only, and a refused one never does.
LEMMA FreshStep ==
  ASSUME Inv, FreshInv, [Next]_vars
  PROVE  FreshInv'
<1>1. ASSUME NEW l \in Legs, leg'[l].pc \in {"setup", "refused"}
      PROVE  \/ leg'[l] = leg[l]
             \/ ~leg'[l].writes /\ ~leg'[l].row /\ (leg'[l].pc = "refused" => leg'[l].rec = Nobody)
  BY <1>1, LegChanges, MoveFacts DEF LegChange, Arrived, Ended
<1> QED
  BY <1>1 DEF FreshInv

\* Files come from legs that record, and a manifest goes into a directory that is there.
LEMMA FilesStep ==
  ASSUME Inv, FreshInv, FilesInv, [Next]_vars
  PROVE  FilesInv'
<1> SUFFICES ASSUME NEW r \in Legs
             PROVE  /\ manifests'[r] \subseteq dirs'[r]
                    /\ \A n \in dirs'[r] : \E l \in Legs :
                         leg'[l].rec = r /\ leg'[l].n = n /\ leg'[l].writes
  BY DEF FilesInv
<1>1. FileStep(r) /\ manifests[r] \subseteq dirs[r]
  BY FileSteps DEF FilesInv
<1>2. manifests'[r] \subseteq dirs'[r]
  BY <1>1 DEF FileStep
<1>3. ASSUME NEW n \in dirs[r]
      PROVE  \E l \in Legs : leg'[l].rec = r /\ leg'[l].n = n /\ leg'[l].writes
  <2>1. PICK l \in Legs : leg[l].rec = r /\ leg[l].n = n /\ leg[l].writes
    BY <1>3 DEF FilesInv
  <2> QED
    BY <2>1, LegChanges, WritersKept DEF Same
<1> QED
  BY <1>1, <1>2, <1>3 DEF FileStep

\* A deleted row stays deleted.
LEMMA RowStep ==
  ASSUME Inv, FreshInv, RowInv, [Next]_vars
  PROVE  RowInv'
<1> SUFFICES ASSUME NEW l \in Legs, leg'[l].writes, ~leg'[l].row
             PROVE  status'[leg'[l].rec] = "deleted"
  BY DEF RowInv
<1>1. leg[l] \in Leg /\ LegChange(l)
  BY LegChanges DEF Inv, TypeOK
<1>2. leg'[l].rec = leg[l].rec /\ leg[l].rec \in Legs /\ status[leg[l].rec] = "deleted"
  <2>1. CASE leg[l].writes
    BY <1>1, <2>1, WritersKept DEF Same, RowInv, Inv, PhaseInv, Leg
  <2>2. CASE ~leg[l].writes
    <3>1. leg'[l].rec = leg[l].rec /\ leg[l].rec \in Legs /\ ~RowExists(leg[l].rec)
      BY <1>1, <2>2, WritersKept, RecorderFiles
    <3>2. leg[l].rec # Nobody /\ status[leg[l].rec] # "none"
      BY <3>1, ConstantsAssumption DEF Inv, CreatorInv, Legs, Nobody
    <3> QED
      BY <3>1, <3>2 DEF RowExists
  <2> QED
    BY <2>1, <2>2
<1> QED
  BY <1>2, AdvanceStep DEF Advances, RowExists

\* A chain that has lost its end gets no new one.
LEMMA EndKept ==
  ASSUME Inv, [Next]_vars, NEW r \in Legs, status[r] # "none", HasEnd(r)'
  PROVE  HasEnd(r)
<1>0. /\ Nobody \notin Legs /\ leg \in [Legs -> Leg] /\ cache \in [Keys -> Pending]
      /\ NoPending.rec = Nobody /\ r # Nobody
  BY ConstantsAssumption DEF Legs, Nobody, Inv, TypeOK, NoPending
<1>1. ASSUME NEW k \in Keys, cache'[k].rec = r  PROVE HasEnd(r)
  <2>1. CASE cache'[k] \in {cache[k], NoPending}
    BY <1>0, <1>1, <2>1 DEF HasEnd
  <2>2. ASSUME NEW l \in Legs, Arm(l)  PROVE HasEnd(r)
    <3>1. leg[l].pc = "live" /\ ~leg[l].armed
      BY <2>2, ArmFacts DEF Inv, PhaseInv
    <3>2. cache'[k] = cache[k] \/ cache'[k].rec = leg[l].rec
      <4>1. cache' = [cache EXCEPT ![leg[l].key] =
                        [set |-> TRUE, rec |-> leg[l].rec, n |-> leg[l].n + 1]]
        BY <2>2, ArmFacts
      <4> QED
        BY <1>0, <4>1
    <3> QED
      BY <1>1, <3>1, <3>2 DEF HasEnd
  <2>3. \/ cache'[k] \in {cache[k], NoPending} \/ \E l \in Legs : Arm(l)
    <3>1. ASSUME NEW l \in Legs, NEW j \in Keys, Continue(l, j) \/ Open(l, j)
          PROVE  cache'[k] \in {cache[k], NoPending}
      BY <1>0, <3>1, ContinueFacts, OpenFacts
    <3>2. ASSUME NEW l \in Legs, SetUpRecording(l) \/ Moves(l)  PROVE cache' = cache
      BY <3>2, SetUpFacts, MoveFacts
    <3>3. ASSUME NEW j \in Keys, Expire(j)  PROVE cache'[k] \in {cache[k], NoPending}
      BY <1>0, <3>3 DEF Expire, Consume
    <3> QED
      BY <3>1, <3>2, <3>3, JobFacts, CrashFacts, NextKinds DEF Kinds, vars
  <2> QED
    BY <2>1, <2>2, <2>3
<1>2. ASSUME NEW l \in Legs, leg'[l].rec = r, leg'[l].pc # "done", ~leg'[l].armed
      PROVE  HasEnd(r)
  <2>1. CASE Arrived(l)
    BY <1>0, <1>2, <2>1 DEF Arrived, HasEnd
  <2>2. CASE SetUpRecording(l)
    BY <1>0, <1>2, <2>2, SetUpFacts DEF HasEnd, Inv, CreatorInv, PhaseInv
  <2>3. CASE Moves(l) /\ Same(l) /\ leg'[l].armed = leg[l].armed
    BY <1>2, <2>3, MoveFacts DEF HasEnd, Same
  <2> QED
    BY <1>2, <2>1, <2>2, <2>3, LegChanges DEF LegChange, HasEnd
<1> QED
  BY <1>1, <1>2 DEF HasEnd

\* Without its last leg, a chain has no end.
LEMMA EndLost ==
  ASSUME Inv, NEW l \in Legs, leg[l].rec \in Legs, ~leg[l].armed
  PROVE  /\ \A k \in Keys : cache[k].rec # leg[l].rec
         /\ \A m \in Legs : m # l /\ leg[m].rec = leg[l].rec => leg[m].armed /\ leg[m].n < leg[l].n
<1>1. leg \in [Legs -> Leg] /\ leg[l].rec # Nobody
  BY ConstantsAssumption DEF Inv, TypeOK, Legs, Nobody
<1>2. \A k \in Keys : cache[k].rec # leg[l].rec
  BY <1>1 DEF Inv, ChainInv
<1>3. ASSUME NEW m \in Legs, m # l, leg[m].rec = leg[l].rec
      PROVE  leg[m].armed /\ leg[m].n < leg[l].n
  <2>1. leg[l].n \in Nat /\ leg[m].n \in Nat
    BY <1>1, ConstantsAssumption DEF Leg, LegNumbers
  <2> QED
    BY <1>1, <1>3, <2>1 DEF SameRecording, Inv, ChainInv
<1> QED
  BY <1>2, <1>3

\* A leg that is wound up now was before, or has just been disposed of.
LEMMA WoundBefore ==
  ASSUME Inv, FreshInv, RowInv, [Next]_vars, NEW l \in Legs, leg'[l].writes, Wound(l)'
  PROVE  /\ Same(l) /\ leg[l].writes
         /\ Wound(l) \/ (Moves(l) /\ leg'[l].pc = "disposed")
<1>1. LegChange(l) /\ leg[l] \in Leg
  BY LegChanges DEF Inv, TypeOK
<1>2. leg[l].writes /\ Same(l)
  <2>1. leg'[l].pc # "path"
    BY DEF Wound
  <2> QED
    BY <1>1, <2>1, WritersKept
<1> DEFINE r == leg[l].rec
<1>3. r \in Legs /\ leg'[l].rec = r /\ status[r] # "none" /\ Advances(r)
  BY <1>1, <1>2, AdvanceStep DEF Inv, PhaseInv, CreatorInv, Leg, Same
<1>4. CASE leg'[l].pc = "disposed"
  BY <1>1, <1>2, <1>4 DEF LegChange, Arrived, Wound, NewLeg
<1>5. CASE leg'[l].pc = "done"
  <2>1. status'[r] = "Recording" /\ HasEnd(r)'
    BY <1>3, <1>5 DEF Wound
  <2>2. status[r] = "Recording" /\ HasEnd(r)
    BY <1>3, <2>1, EndKept DEF Advances
  <2>3. leg[l].pc = "done" \/ leg[l].pc = "disposed"
    <3>1. SUFFICES ASSUME leg[l].pc # "done", leg[l].pc # "disposed"
                   PROVE  FALSE
      OBVIOUS
    <3>2. CASE Moves(l)
      <4>1. leg[l].pc = "path" \/ (leg[l].pc = "removed" /\ ~leg[l].row)
        BY <1>5, <3>1, <3>2, MoveFacts
      <4>2. leg[l].pc = "path" /\ ~leg[l].armed
        BY <1>2, <2>2, <4>1 DEF RowInv, Inv, PhaseInv
      <4>3. \A m \in Legs : m # l => leg'[m] = leg[m]
        BY <3>2, MoveFacts DEF OthersKept
      <4>4. cache' = cache
        BY <3>2, MoveFacts
      <4> QED
        BY <1>3, <1>5, <2>1, <4>2, <4>3, <4>4, EndLost DEF HasEnd
    <3>3. CASE Crash
      <4>1. /\ \A k \in Keys : cache'[k].rec = Nobody
            /\ \A m \in Legs : leg'[m].pc = "done" \/ (leg'[m] = leg[m] /\ leg[m].pc \in {"idle", "refused"})
        BY <3>3, CrashFacts DEF NoPending
      <4> QED
        BY <1>3, <2>1, <4>1, ConstantsAssumption DEF HasEnd, FreshInv, Inv, PhaseInv, NewLeg, Legs, Nobody
    <3> QED
      BY <1>1, <1>2, <1>5, <3>1, <3>2, <3>3 DEF LegChange, Arrived, NewLeg
  <2> QED
    BY <1>2, <2>2, <2>3 DEF Wound
<1> QED
  BY <1>4, <1>5 DEF Wound

\* Every leg leaves its manifest, unless the directory was deleted.
LEMMA SavedStep ==
  ASSUME Inv, Inv', FreshInv, RowInv, SavedInv, [Next]_vars
  PROVE  SavedInv'
<1> SUFFICES ASSUME NEW l \in Legs, leg'[l].writes, Wound(l)', leg'[l].n \in dirs'[leg'[l].rec]
             PROVE  leg'[l].n \in manifests'[leg'[l].rec]
  BY DEF SavedInv, Saved
<1> DEFINE r == leg[l].rec
<1>1. /\ Same(l) /\ leg[l].writes
      /\ Wound(l) \/ (Moves(l) /\ leg'[l].pc = "disposed")
  BY WoundBefore
<1>2. r \in Legs /\ leg'[l].rec = r /\ leg'[l].n = leg[l].n
  BY <1>1 DEF Same, Inv, PhaseInv, TypeOK, Leg
<1>3. CASE Moves(l) /\ leg'[l].pc = "disposed"
  BY <1>1, <1>2, <1>3, DisposeFiles
<1>4. CASE Wound(l)
  <2>1. leg[l].n \in dirs[r] => leg[l].n \in manifests[r]
    BY <1>1, <1>4 DEF SavedInv, Saved
  <2>2. ASSUME NEW m \in Legs, leg'[m].pc = "path", leg'[m].rec = r
        PROVE  leg'[m].n # leg'[l].n
    <3>1. SameRecording(l, m)'
      BY <1>2, <2>2, ConstantsAssumption DEF Wound, SameRecording, Legs, Nobody
    <3> QED
      BY <3>1 DEF Inv, ChainInv
  <2> QED
    BY <1>2, <2>1, <2>2, FileSteps DEF FileStep
<1> QED
  BY <1>1, <1>3, <1>4

\* A leg that is done stays done.
LEMMA DoneStays ==
  ASSUME NEW m \in Legs, Inv, LegChange(m), leg[m].pc = "done"
  PROVE  leg'[m].pc = "done"
BY MoveFacts DEF LegChange, Arrived, NewLeg

\* Unless a wind-up is slow, a leg begins to wind up only when those before it are done.
LEMMA OrderStep ==
  ASSUME Inv, Inv', OrderInv, ~May("slow"), [Next]_vars
  PROVE  OrderInv'
<1> SUFFICES ASSUME NEW l \in Legs, NEW m \in Legs, SameRecording(l, m)',
                    leg'[m].n < leg'[l].n, leg'[l].pc \in Late
             PROVE  leg'[m].pc = "done"
  BY DEF OrderInv
<1>0. /\ leg \in [Legs -> Leg] /\ Nobody \notin Legs
      /\ \A j \in Legs : leg[j].n \in Nat
  BY ConstantsAssumption DEF Inv, TypeOK, Legs, Nobody, Leg, LegNumbers
<1>1. LegChange(l) /\ LegChange(m)
  BY LegChanges
<1>2. /\ leg[l].pc \in Late \cup {"live"} /\ leg'[l].rec = leg[l].rec /\ leg'[l].n = leg[l].n
      /\ leg[l].pc = "live" => MayEnd(l) /\ (Arm(l) \/ Moves(l))
  <2>1. CASE Moves(l) /\ Same(l)
    <3>1. /\ leg[l].pc \notin {"idle", "refused", "setup", "done"}
          /\ leg[l].pc = "live" => leg'[l].pc = "closing" /\ MayEnd(l)
          /\ leg[l].pc = "path" => leg'[l].pc \in {"live", "done"}
      BY <2>1, MoveFacts, DisposeFiles
    <3>2. leg[l].pc \in Phases
      BY <1>0 DEF Leg
    <3> QED
      BY <2>1, <3>1, <3>2 DEF Late, Same, Phases
  <2>2. CASE Arm(l) /\ Same(l) /\ leg[l].pc = "live"
    BY <2>2 DEF Arm, Same
  <2> QED
    BY <1>1, <2>1, <2>2 DEF LegChange, Arrived, Late
<1>3. leg'[m].rec = leg[l].rec /\ m # l /\ leg[l].rec \in Legs /\ status[leg[l].rec] # "none"
  BY <1>0, <1>2 DEF SameRecording, Inv, CreatorInv, Leg
<1>4. leg[m].rec = leg[l].rec /\ leg[m].n = leg'[m].n
  <2>1. CASE Arrived(m)
    <3>1. PICK k \in Keys : leg'[m].rec = cache[k].rec /\ leg'[m].n = cache[k].n
      BY <1>0, <1>3, <2>1 DEF Arrived
    <3>2. leg[l].n < cache[k].n
      <4>1. leg[l].rec # Nobody /\ leg[l].rec = cache[k].rec
        BY <1>0, <1>3, <3>1
      <4> QED
        BY <4>1 DEF Inv, ChainInv
    <3>3. cache[k].n \in Nat
      BY ConstantsAssumption DEF Inv, TypeOK, Pending, LegNumbers
    <3> QED
      BY <1>0, <1>2, <3>1, <3>2, <3>3
  <2>2. CASE SetUpRecording(m)
    BY <1>0, <1>3, <2>2, SetUpFacts DEF Inv, CreatorInv
  <2> QED
    BY <1>1, <2>1, <2>2, <1>3 DEF LegChange, Same
<1>5. leg[m].pc = "done"
  <2>1. CASE leg[l].pc \in Late
    BY <1>0, <1>2, <1>3, <1>4, <2>1 DEF OrderInv, SameRecording
  <2>2. CASE leg[l].pc = "live"
    BY <1>0, <1>2, <1>3, <1>4, <2>2 DEF MayEnd, WindingUp
  <2> QED
    BY <1>2, <2>1, <2>2
<1> QED
  BY <1>1, <1>5, DoneStays

\* A recording is handed over by its last leg, when all others are done.
LEMMA CompleteStep ==
  ASSUME Inv, Inv', FilesInv, SavedInv, OrderInv, Complete, [Next]_vars
  PROVE  Complete'
<1> SUFFICES ASSUME NEW r \in Legs, status'[r] \in Closed
             PROVE  manifests'[r] = dirs'[r]
  BY DEF Complete
<1>1. FileStep(r) /\ Advances(r)
  BY FileSteps, AdvanceStep
<1>2. CASE status[r] \in Closed
  <2>1. manifests[r] = dirs[r]
    BY <1>2 DEF Complete
  <2>2. ASSUME NEW l \in Legs, leg'[l].pc = "path", leg'[l].rec = r  PROVE FALSE
    <3>1. ~leg'[l].armed
      BY <2>2 DEF Inv, PhaseInv
    <3> QED
      BY <2>2, <3>1 DEF Inv, EndsLast, Closed
  <2> QED
    BY <1>1, <2>1, <2>2 DEF FileStep
<1>3. CASE status[r] \notin Closed
  <2>0. status \in [Legs -> Statuses]
    BY DEF Inv, TypeOK
  <2>1. PICK l \in Legs : /\ Moves(l) /\ leg[l].rec = r /\ ~leg[l].armed
                          /\ leg[l].pc = "disposed" /\ status[r] = "Recording"
                          /\ status' # status
    <3>1. ASSUME NEW l \in Legs, SetUpRecording(l)  PROVE FALSE
      BY <1>3, <2>0, <3>1, SetUpFacts DEF Closed
    <3>2. ASSUME NEW s \in Legs, Job(s)  PROVE FALSE
      BY <1>3, <2>0, <3>2, JobFacts DEF Closed
    <3>3. ASSUME NEW l \in Legs, Moves(l)
          PROVE  /\ leg[l].rec = r /\ ~leg[l].armed /\ leg[l].pc = "disposed"
                 /\ status[r] = "Recording" /\ status' # status
      BY <1>3, <2>0, <3>3, FinalizeFacts DEF Closed
    <3>4. CASE status' = status
      BY <1>3, <3>4
    <3>5. CASE \/ \E l \in Legs, k \in Keys : Continue(l, k) \/ Open(l, k)
               \/ \E l \in Legs : Arm(l)
               \/ \E k \in Keys : Expire(k)
               \/ Crash \/ UNCHANGED vars
      BY <3>4, <3>5 DEF Continue, Open, Arm, Expire, Crash, vars
    <3> QED
      BY <3>1, <3>2, <3>3, <3>5, NextKinds DEF Kinds
  <2>2. dirs' = dirs /\ manifests' = manifests
    BY <2>1, DisposeFiles
  <2>3. manifests[r] \subseteq dirs[r]
    BY DEF FilesInv
  <2>4. ASSUME NEW n \in dirs[r]  PROVE n \in manifests[r]
    <3>1. PICK m \in Legs : leg[m].rec = r /\ leg[m].n = n /\ leg[m].writes
      BY <2>4 DEF FilesInv
    <3>2. HasEnd(r)
      BY <2>1 DEF HasEnd
    <3>3. m # l => leg[m].pc = "done"
      <4>1. m # l => SameRecording(l, m) /\ leg[m].n < leg[l].n
        BY <2>1, <3>1, EndLost, ConstantsAssumption DEF SameRecording, Legs, Nobody
      <4> QED
        BY <2>1, <4>1 DEF OrderInv, Late
    <3>4. Wound(m)
      BY <2>1, <3>1, <3>2, <3>3 DEF Wound
    <3> QED
      BY <2>4, <3>1, <3>4 DEF SavedInv, Saved
  <2>5. manifests[r] = dirs[r]
    BY <2>3, <2>4
  <2> QED
    BY <2>2, <2>5
<1> QED
  BY <1>2, <1>3

\* The invariant holds in every reachable state.
LEMMA MergeInvHolds == Spec => []MergeInv
<1>1. Init => MergeInv
  <2> SUFFICES ASSUME Init PROVE MergeInv
    OBVIOUS
  <2>1. \A l \in Legs : leg[l].pc = "idle" /\ ~leg[l].writes /\ leg[l].rec = Nobody
    BY DEF Init, NewLeg
  <2>2. \A r \in Legs : dirs[r] = {} /\ manifests[r] = {}
    BY DEF Init
  <2> QED
    BY <2>1, <2>2, ConstantsAssumption DEF MergeInv, FreshInv, FilesInv, RowInv, SavedInv, OrderInv,
       Complete, SameRecording, Late, Legs, Nobody
<1>2. MergeInv /\ Inv /\ Inv' /\ [Next]_vars => MergeInv'
  <2> SUFFICES ASSUME MergeInv, Inv, Inv', [Next]_vars PROVE MergeInv'
    OBVIOUS
  <2>1. FreshInv' /\ FilesInv' /\ RowInv' /\ SavedInv'
    BY FreshStep, FilesStep, RowStep, SavedStep DEF MergeInv
  <2>2. May("slow") => May("slow")'
    BY DEF May, Next, LegStep, Continue, Open, SetUpRecording, Register, Remove, Dispose,
       Finalize, Abandon, Redirect, HandOver, Arm, EndLeg, Expire, MuxStart, MuxEnd, DeleteFiles,
       DeleteRow, Crash, Quiet, vars
  <2>3. ~May("slow") => OrderInv' /\ Complete'
    BY OrderStep, CompleteStep DEF MergeInv
  <2> QED
    BY <2>1, <2>2, <2>3 DEF MergeInv
<1> QED
  BY <1>1, <1>2, InvHolds, PTL DEF Spec

\* A merge takes every leg that was recorded: each has closed its recorder when the last one
\* hands the recording over, unless a leg winds up more slowly than the next one lasts.
THEOREM MergesAreComplete == Spec => MuxSeesAllLegs
<1>1. Inv /\ MergeInv /\ [Next]_vars =>
        [May("slow") \/ \A r \in Legs :
           (~merged[r].set /\ merged'[r].set) => merged'[r].legs = dirs[r]]_vars
  <2> SUFFICES ASSUME Inv, MergeInv, [Next]_vars, ~May("slow"), NEW r \in Legs,
                      ~merged[r].set, merged'[r].set
               PROVE  merged'[r].legs = dirs[r]
    OBVIOUS
  <2>1. merged \in [Legs -> Merged] /\ ~NotMerged.set /\ merged'[r] # merged[r]
    BY DEF Inv, TypeOK, NotMerged
  <2>2. CASE \E s \in Legs : Job(s)
    <3>1. PICK s \in Legs : Job(s)
      BY <2>2
    <3>2. ASSUME merged' = merged \/ merged' = [merged EXCEPT ![s] = NotMerged]  PROVE FALSE
      BY <2>1, <3>2
    <3>3. MuxStart(s)
      BY <3>1, <3>2, Zenon DEF Job, MuxEnd, DeleteFiles, DeleteRow, diskVars
    <3>4. s = r
      BY <2>1, <3>3 DEF MuxStart
    <3>5. merged'[r].legs = manifests[r] /\ status[r] = "Processing"
      BY <2>1, <3>3, <3>4 DEF MuxStart
    <3> QED
      BY <3>5 DEF MergeInv, Complete, Closed
  <2>3. CASE \/ \E l \in Legs, k \in Keys : Continue(l, k) \/ Open(l, k)
             \/ \E l \in Legs : SetUpRecording(l) \/ Moves(l) \/ Arm(l)
             \/ \E k \in Keys : Expire(k)
             \/ Crash \/ UNCHANGED vars
    <3>1. merged' = merged
      BY <2>3, MoveFacts, SetUpFacts DEF Continue, Open, Arm, Expire, Crash, vars, diskVars
    <3> QED
      BY <2>1, <3>1
  <2> QED
    BY <2>2, <2>3, NextKinds DEF Kinds
<1> QED
  BY <1>1, InvHolds, MergeInvHolds, PTL DEF Spec, MuxSeesAllLegs

\* What becomes of a recording: its row goes forward only, and its merge is complete.
THEOREM RecordingsGoOn == Spec => RecordingsAdvance
BY RowsAdvance, MergesAreComplete DEF RecordingsAdvance

-----------------------------------------------------------------------------
(* The sessions of DesktopPower.                                           *)

LEMMA PowerKeepsSessions == PowerNext => UNCHANGED <<vars, plan>>
BY DEF PowerNext, Power, Elsewhere

LEMMA SessionSteps == [DesktopNext]_desktopVars => [Next]_vars
<1>1. CASE SessionNext
  <2>1. ASSUME NEW l \in Legs, NEW k \in Keys, OpensLeg(l, k)  PROVE Next
    BY <2>1 DEF OpensLeg, Next
  <2>2. ASSUME NEW l \in Legs, Registers(l)  PROVE Next
    BY <2>2 DEF Registers, Next, LegStep
  <2>3. ASSUME NEW l \in Legs, WindsUp(l)  PROVE Next
    BY <2>3 DEF WindsUp, Next, LegStep
  <2>4. ASSUME Restarts  PROVE Next
    BY <2>4 DEF Restarts, Next
  <2>5. ASSUME OtherSessionStep  PROVE Next
    BY <2>5 DEF OtherSessionStep, Next, LegStep
  <2> QED
    BY <1>1, <2>1, <2>2, <2>3, <2>4, <2>5 DEF SessionNext
<1>2. CASE PowerNext
  BY <1>2, PowerKeepsSessions
<1>3. CASE UNCHANGED desktopVars
  BY <1>3 DEF desktopVars
<1> QED
  BY <1>1, <1>2, <1>3 DEF DesktopNext

\* Whatever the readiness runs, the scans and the reaper do, the sessions are those
\* of ConsoleSession.
THEOREM SessionsAreSessions == DesktopSpec => Spec
<1>1. DesktopInit => Init
  BY DEF DesktopInit
<1> QED
  BY <1>1, SessionSteps, PTL DEF DesktopSpec, Spec

\* What is proved of recordings holds of those of a desktop whose power is managed.
THEOREM DesktopKeepsRecordings == DesktopSpec => []RecordingsKept
BY SessionsAreSessions, RecordingsAreKept, PTL

\* So is what becomes of them.
THEOREM DesktopRecordingsGoOn == DesktopSpec => RecordingsAdvance
BY SessionsAreSessions, RecordingsGoOn

-----------------------------------------------------------------------------
(* Types.                                                                  *)

RunPhases == {"idle", "load", "look", "start", "wait", "save"}
RunRec  == [pc : RunPhases, copy : Powers]
JobRec  == [set : BOOLEAN, phase : {"busy", "ready", "error"}, finished : BOOLEAN,
            fresh : BOOLEAN, posted : BOOLEAN]
PageRec == [at : {"closed", "polling", "ready", "failed"},
            connect : {"none", "resolving", "resolved"}]
ScanRec == [pc : {"idle", "read", "resolved"}, copy : Powers, state : Powers,
            seen : {"none", "stopped", "running"}, misses : 0..1, cached : BOOLEAN,
            lost : BOOLEAN]
ClockRec == [idle : BOOLEAN, grace : BOOLEAN, recent : BOOLEAN]

Types ==
  /\ plan \in SUBSET PowerHazards
  /\ vm \in {"off", "booting", "up", "paused"} /\ power \in Powers
  /\ clock \in ClockRec
  /\ run \in [Workers -> RunRec]
  /\ job \in [Keys -> JobRec]
  /\ page \in [Keys -> PageRec]
  /\ scan \in ScanRec
  /\ reaper \in {"idle", "loaded", "pausing", "saving"}

LEMMA TypesAre == PowerTypeOK <=> Types
BY DEF PowerTypeOK, Types, RunPhases, RunRec, JobRec, PageRec, ScanRec, ClockRec

LEMMA WorkerFacts ==
  ASSUME NEW w \in Workers
  PROVE  /\ w[1] \in Keys /\ w[2] \in {"job", "connect"} /\ w = <<w[1], w[2]>>
BY DEF Workers

LEMMA JobWorkers ==
  ASSUME NEW k \in Keys
  PROVE  <<k, "job">> \in Workers /\ <<k, "connect">> \in Workers
BY DEF Workers

LEMMA ReportedType ==
  ASSUME Types, NEW w \in Workers
  PROVE  Reported(w) \in [Keys -> JobRec]
BY WorkerFacts DEF Types, Reported, JobRec

LEMMA EndsType ==
  ASSUME Types, NEW w \in Workers, NEW result \in {"ready", "error"}, Ends(w, result)
  PROVE  /\ run' \in [Workers -> RunRec]
         /\ job' \in [Keys -> JobRec]
         /\ page' \in [Keys -> PageRec]
<1>1. NoRun \in RunRec
  BY DEF NoRun, RunRec, RunPhases, Powers
<1>2. run' \in [Workers -> RunRec]
  BY <1>1 DEF Ends, Types
<1>3. job' \in [Keys -> JobRec]
  BY WorkerFacts DEF Ends, Types, JobRec
<1>4. page' \in [Keys -> PageRec]
  BY WorkerFacts DEF Ends, Types, PageRec
<1> QED
  BY <1>2, <1>3, <1>4

LEMMA RunTypes ==
  ASSUME Types, NEW w \in Workers, RunStep(w), UNCHANGED plan
  PROVE  Types'
<1>1. CASE RunLoads(w)
  <2>1. run' \in [Workers -> RunRec]
    BY <1>1 DEF RunLoads, Types, RunRec, RunPhases
  <2> QED
    BY <1>1, <2>1, ReportedType DEF RunLoads, Types
<1>2. CASE RunLooks(w)
  <2>1. run' \in [Workers -> RunRec]
    BY <1>2 DEF RunLooks, Goes, Types, RunRec, RunPhases, Powers
  <2>2. power' \in Powers
    BY <1>2 DEF RunLooks, Saves, Types, Powers
  <2> QED
    BY <1>2, <2>1, <2>2, ReportedType DEF RunLooks, Types
<1>3. CASE RunStarts(w)
  <2>1. CASE Goes(w, "wait") /\ UNCHANGED <<power, job, page>> /\ vm' \in {vm, "booting"}
    <3>1. run' \in [Workers -> RunRec]
      BY <2>1 DEF Goes, Types, RunRec, RunPhases
    <3> QED
      BY <1>3, <2>1, <3>1 DEF RunStarts, Types
  <2>2. CASE Saves(w, "Stopped") /\ Ends(w, "error") /\ UNCHANGED vm
    BY <1>3, <2>2, EndsType DEF RunStarts, Types, Saves, Powers
  <2> QED
    BY <1>3, <2>1, <2>2 DEF RunStarts
<1>4. CASE RunProbes(w)
  <2>1. run' \in [Workers -> RunRec]
    BY <1>4 DEF RunProbes, Goes, Types, RunRec, RunPhases
  <2>2. scan' \in ScanRec
    <3>1. PMay("stale") \in BOOLEAN
      BY DEF PMay
    <3> QED
      BY <1>4, <3>1 DEF RunProbes, Types, ScanRec
  <2> QED
    BY <1>4, <2>1, <2>2, ReportedType DEF RunProbes, Types
<1>5. CASE RunTimesOut(w)
  BY <1>5, EndsType DEF RunTimesOut, Types, Saves, Powers
<1>6. CASE RunSaves(w)
  BY <1>6, EndsType DEF RunSaves, Types, Saves, Powers
<1> QED
  BY <1>1, <1>2, <1>3, <1>4, <1>5, <1>6 DEF RunStep

LEMMA JobTypes ==
  ASSUME Types, NEW k \in Keys,
         Delivers(k) \/ Begins(k) \/ Polls(k) \/ Leaves(k) \/ Connects(k) \/ Ages(k),
         UNCHANGED plan
  PROVE  Types'
<1>1. CASE Delivers(k)
  BY <1>1 DEF Delivers, Types, JobRec
<1>2. CASE Begins(k)
  <2>1. page' \in [Keys -> PageRec]
    BY <1>2 DEF Begins, Types, PageRec
  <2>2. job' \in [Keys -> JobRec]
    <3>1. [NoJob EXCEPT !.set = TRUE] \in JobRec
      BY DEF NoJob, JobRec
    <3>2. job' = job \/ job' = [job EXCEPT ![k] = [NoJob EXCEPT !.set = TRUE]]
      BY <1>2 DEF Begins
    <3> QED
      BY <3>1, <3>2 DEF Types
  <2>3. run' \in [Workers -> RunRec]
    BY <1>2, JobWorkers DEF Begins, Types, RunRec, RunPhases
  <2> QED
    BY <1>2, <2>1, <2>2, <2>3 DEF Begins, Types
<1>3. CASE Polls(k)
  BY <1>3 DEF Polls, Types, PageRec
<1>4. CASE Leaves(k)
  BY <1>4 DEF Leaves, Types, PageRec
<1>5. CASE Connects(k)
  <2>1. page' \in [Keys -> PageRec]
    BY <1>5 DEF Connects, Types, PageRec
  <2>2. run' \in [Workers -> RunRec]
    BY <1>5, JobWorkers DEF Connects, Types, RunRec, RunPhases
  <2> QED
    BY <1>5, <2>1, <2>2 DEF Connects, Types
<1>6. CASE Ages(k)
  BY <1>6 DEF Ages, Types, JobRec
<1> QED
  BY <1>1, <1>2, <1>3, <1>4, <1>5, <1>6

LEMMA ScanTypes ==
  ASSUME Types, ScanStep \/ CacheExpires, UNCHANGED plan
  PROVE  Types'
<1>1. CASE ScanReads
  <2>1. PICK lost \in {FALSE} \cup (IF PMay("flaky") THEN {~scan.lost} ELSE {}) :
          scan' = [scan EXCEPT !.pc = "read", !.copy = power, !.lost = lost,
                     !.seen = IF lost THEN "none" ELSE IF vm = "off" THEN "stopped" ELSE "running"]
    BY <1>1 DEF ScanReads
  <2>2. lost \in BOOLEAN
    BY DEF Types, ScanRec
  <2>3. scan' \in ScanRec
    BY <2>1, <2>2 DEF Types, ScanRec
  <2> QED
    BY <1>1, <2>3 DEF ScanReads, Types
<1>2. CASE ScanResolves
  <2>1. ASSUME NEW reachable, NEW held  PROVE Resolved(reachable, held) \in Powers
    BY DEF Resolved, Powers
  <2>2. PICK state \in Powers, cached \in BOOLEAN, misses \in 0..1 :
          scan' = [scan EXCEPT !.pc = "resolved", !.state = state, !.cached = cached,
                     !.misses = misses]
    <3> DEFINE proved    == HasActiveSessions \/ scan.seen = "stopped"
               reachable == scan.cached \/ (vm = "up" /\ ~scan.lost)
               held      == scan.copy = "Running" /\ scan.misses = 0
               cached    == scan.cached \/ (PMay("stale") /\ ~proved /\ reachable)
               misses    == IF ~proved /\ ~reachable /\ held THEN 1 ELSE 0
    <3>1. scan' = [scan EXCEPT !.pc = "resolved", !.state = Resolved(reachable, held),
                     !.cached = cached, !.misses = misses]
      BY <1>2 DEF ScanResolves
    <3>2. cached \in BOOLEAN
      BY DEF Types, ScanRec
    <3>3. misses \in 0..1
      OBVIOUS
    <3>4. Resolved(reachable, held) \in Powers
      BY <2>1
    <3> HIDE DEF reachable, held, cached, misses
    <3> QED
      BY <3>1, <3>2, <3>3, <3>4
  <2>3. scan' \in ScanRec
    BY <2>2 DEF Types, ScanRec
  <2> QED
    BY <1>2, <2>3 DEF ScanResolves, Types
<1>3. CASE ScanWrites
  <2>1. scan' \in ScanRec /\ power' \in Powers
    BY <1>3 DEF ScanWrites, Types, ScanRec, Powers
  <2> QED
    BY <1>3, <2>1 DEF ScanWrites, Types
<1>4. CASE CacheExpires
  BY <1>4 DEF CacheExpires, Types, ScanRec
<1> QED
  BY <1>1, <1>2, <1>3, <1>4 DEF ScanStep

LEMMA OtherTypes ==
  ASSUME Types, ReaperStep \/ Boots \/ GuestStops \/ TimePasses, UNCHANGED plan
  PROVE  Types'
<1>1. CASE ReaperStep
  BY <1>1 DEF ReaperStep, ReaperLoads, ReaperChecks, ReaperPauses, ReaperSaves, Types, Powers
<1>2. CASE Boots
  BY <1>2 DEF Boots, Types
<1>3. CASE GuestStops
  BY <1>3 DEF GuestStops, Types
<1>4. CASE TimePasses
  <2>1. clock' \in ClockRec
    BY <1>4 DEF TimePasses, HasActiveSessions, ClockRec
  <2>2. job' \in [Keys -> JobRec]
    BY <1>4 DEF TimePasses, Types, JobRec
  <2> QED
    BY <1>4, <2>1, <2>2 DEF TimePasses, Types
<1> QED
  BY <1>1, <1>2, <1>3, <1>4

LEMMA SessionTypes ==
  ASSUME Types, SessionNext
  PROVE  Types'
<1>1. ASSUME NEW l \in Legs, NEW k \in Keys, OpensLeg(l, k)  PROVE Types'
  <2>1. page' \in [Keys -> PageRec]
    BY <1>1 DEF OpensLeg, Types, PageRec
  <2> QED
    BY <1>1, <2>1 DEF OpensLeg, Types
<1>2. ASSUME NEW l \in Legs, Registers(l)  PROVE Types'
  BY <1>2 DEF Registers, Stamped, Types, ClockRec
<1>3. ASSUME NEW l \in Legs, WindsUp(l)  PROVE Types'
  BY <1>3 DEF WindsUp, Stamped, Types, ClockRec
<1>4. ASSUME Restarts  PROVE Types'
  <2>1. run' \in [Workers -> RunRec]
    BY <1>4 DEF Restarts, NoRun, RunRec, RunPhases, Powers
  <2>2. job' \in [Keys -> JobRec]
    BY <1>4 DEF Restarts, NoJob, JobRec
  <2>3. page' \in [Keys -> PageRec]
    BY <1>4 DEF Restarts, Types, PageRec
  <2>4. scan' \in ScanRec
    BY <1>4 DEF Restarts, NoScan, ScanRec, Powers
  <2>5. clock' \in ClockRec
    BY <1>4 DEF Restarts, Types, ClockRec
  <2> QED
    BY <1>4, <2>1, <2>2, <2>3, <2>4, <2>5 DEF Restarts, Types
<1>5. ASSUME OtherSessionStep, UNCHANGED <<plan, powerVars>>  PROVE Types'
  BY <1>5 DEF Types, powerVars
<1> QED
  BY <1>1, <1>2, <1>3, <1>4, <1>5 DEF SessionNext

LEMMA PowerSteps ==
  ASSUME PowerNext
  PROVE  /\ UNCHANGED <<vars, plan>> /\ Managed
         /\ \/ \E w \in Workers : RunStep(w)
            \/ \E k \in Keys : \/ Delivers(k) \/ Begins(k) \/ Polls(k) \/ Leaves(k)
                               \/ Connects(k) \/ Ages(k)
            \/ ScanStep \/ CacheExpires \/ ReaperStep \/ Boots \/ GuestStops \/ TimePasses
BY DEF PowerNext, Power, Elsewhere

LEMMA TypesKept == Types /\ [DesktopNext]_desktopVars => Types'
<1> SUFFICES ASSUME Types, [DesktopNext]_desktopVars  PROVE Types'
  OBVIOUS
<1>1. CASE SessionNext
  BY <1>1, SessionTypes
<1>2. CASE PowerNext
  BY <1>2, PowerSteps, RunTypes, JobTypes, ScanTypes, OtherTypes
<1>3. CASE UNCHANGED desktopVars
  BY <1>3 DEF desktopVars, powerVars, Types
<1> QED
  BY <1>1, <1>2, <1>3 DEF DesktopNext

LEMMA InitTypes == DesktopInit => Types
<1> SUFFICES ASSUME DesktopInit  PROVE Types
  OBVIOUS
<1>1. run \in [Workers -> RunRec]
  BY DEF DesktopInit, NoRun, RunRec, RunPhases, Powers
<1>2. job \in [Keys -> JobRec]
  BY DEF DesktopInit, NoJob, JobRec
<1>3. page \in [Keys -> PageRec]
  BY DEF DesktopInit, PageRec
<1>4. scan \in ScanRec
  BY DEF DesktopInit, NoScan, ScanRec, Powers
<1>5. clock \in ClockRec
  BY DEF DesktopInit, ClockRec
<1>6. vm \in {"off", "booting", "up", "paused"} /\ power \in Powers
  BY DEF DesktopInit, Powers
<1> QED
  BY <1>1, <1>2, <1>3, <1>4, <1>5, <1>6 DEF DesktopInit, Types

\* The variables of the desktop keep to their types.
THEOREM DesktopTypes == DesktopSpec => []PowerTypeOK
<1>1. Types => PowerTypeOK
  BY TypesAre
<1> QED
  BY <1>1, InitTypes, TypesKept, PTL DEF DesktopSpec

-----------------------------------------------------------------------------
(* A job and its run.                                                      *)

\* The part of JobOwnsRun about one key.
Owns(k) == run[<<k, "job">>].pc # "idle" <=> job[k].set /\ ~job[k].finished

LEMMA OwnsAll == JobOwnsRun <=> \A k \in Keys : Owns(k)
BY DEF JobOwnsRun, Owns

\* What a report changes is not what owning is about.
LEMMA ReportedOwns ==
  ASSUME Types, NEW w \in Workers, NEW k \in Keys, job' = Reported(w)
  PROVE  job'[k].set = job[k].set /\ job'[k].finished = job[k].finished
BY WorkerFacts DEF Reported, Types, JobRec

\* A run that ends leaves a job that has finished.
LEMMA EndsOwns ==
  ASSUME Types, NEW w \in Workers, NEW k \in Keys, NEW result,
         run[w].pc # "idle", Owns(k), Ends(w, result)
  PROVE  Owns(k)'
<1>1. CASE w = <<k, "job">>
  <2>1. w[1] = k /\ w[2] = "job"
    BY <1>1
  <2>2. job'[k].finished
    BY <2>1 DEF Ends, Types, JobRec
  <2>3. run'[<<k, "job">>].pc = "idle"
    BY <1>1 DEF Ends, Types, NoRun
  <2> QED
    BY <2>2, <2>3 DEF Owns
<1>2. CASE w # <<k, "job">>
  <2>1. run'[<<k, "job">>] = run[<<k, "job">>]
    BY <1>2, JobWorkers DEF Ends, Types
  <2>2. job'[k] = job[k]
    BY <1>2, WorkerFacts DEF Ends, Types
  <2> QED
    BY <2>1, <2>2 DEF Owns
<1> QED
  BY <1>1, <1>2

\* A run that goes on is neither begun nor ended.
LEMMA GoesOwns ==
  ASSUME Types, NEW w \in Workers, NEW k \in Keys, Owns(k),
         run[w].pc # "idle",
         NEW r \in RunRec, r.pc # "idle", run' = [run EXCEPT ![w] = r],
         job'[k].set = job[k].set, job'[k].finished = job[k].finished
  PROVE  Owns(k)'
<1>1. run'[<<k, "job">>].pc # "idle" <=> run[<<k, "job">>].pc # "idle"
  BY JobWorkers DEF Types
<1> QED
  BY <1>1 DEF Owns

LEMMA RunOwns ==
  ASSUME Types, NEW w \in Workers, NEW k \in Keys, Owns(k), RunStep(w)
  PROVE  Owns(k)'
<1>1. ASSUME NEW to \in RunPhases \ {"idle"}, Goes(w, to), run[w].pc # "idle",
             job' = Reported(w) \/ job' = job
      PROVE  Owns(k)'
  <2>1. [run[w] EXCEPT !.pc = to] \in RunRec /\ [run[w] EXCEPT !.pc = to].pc # "idle"
    BY DEF Types, RunRec
  <2>2. run' = [run EXCEPT ![w] = [run[w] EXCEPT !.pc = to]]
    BY <1>1 DEF Goes
  <2>3. job'[k].set = job[k].set /\ job'[k].finished = job[k].finished
    BY <1>1, ReportedOwns
  <2> QED
    BY <1>1, <2>1, <2>2, <2>3, GoesOwns
<1>2. CASE RunLoads(w)
  <2>1. [pc |-> "look", copy |-> power] \in RunRec
    BY DEF Types, RunRec, RunPhases
  <2> QED
    BY <1>2, <2>1, ReportedOwns, GoesOwns DEF RunLoads
<1>3. CASE RunLooks(w)
  <2>1. CASE Goes(w, "wait")
    BY <1>1, <1>3, <2>1 DEF RunLooks, RunPhases
  <2>2. CASE run' = [run EXCEPT ![w] = [pc |-> "start", copy |-> "Starting"]]
    <3>1. [pc |-> "start", copy |-> "Starting"] \in RunRec
      BY DEF RunRec, RunPhases, Powers
    <3> QED
      BY <1>3, <2>2, <3>1, ReportedOwns, GoesOwns DEF RunLooks
  <2> QED
    BY <1>3, <2>1, <2>2 DEF RunLooks
<1>4. CASE RunStarts(w)
  <2>1. CASE Goes(w, "wait") /\ UNCHANGED job
    BY <1>1, <1>4, <2>1 DEF RunStarts, RunPhases
  <2>2. CASE Ends(w, "error")
    BY <1>4, <2>2, EndsOwns DEF RunStarts
  <2> QED
    BY <1>4, <2>1, <2>2 DEF RunStarts
<1>5. CASE RunProbes(w)
  BY <1>1, <1>5 DEF RunProbes, RunPhases
<1>6. CASE RunTimesOut(w)
  BY <1>6, EndsOwns DEF RunTimesOut
<1>7. CASE RunSaves(w)
  BY <1>7, EndsOwns DEF RunSaves
<1> QED
  BY <1>2, <1>3, <1>4, <1>5, <1>6, <1>7 DEF RunStep

\* Of the steps of a page only the beginning matters.
LEMMA JobStepOwns ==
  ASSUME Types, NEW m \in Keys, NEW k \in Keys, Owns(k),
         Delivers(m) \/ Begins(m) \/ Polls(m) \/ Leaves(m) \/ Connects(m) \/ Ages(m)
  PROVE  Owns(k)'
<1>1. CASE Delivers(m) \/ Ages(m)
  <2>1. job'[k].set = job[k].set /\ job'[k].finished = job[k].finished
    BY <1>1 DEF Delivers, Ages, Types, JobRec
  <2> QED
    BY <1>1, <2>1 DEF Delivers, Ages, Owns
<1>2. CASE Begins(m)
  <2>1. CASE UNCHANGED <<job, run>>
    BY <2>1 DEF Owns
  <2>2. CASE /\ job' = [job EXCEPT ![m] = [NoJob EXCEPT !.set = TRUE]]
             /\ run' = [run EXCEPT ![<<m, "job">>].pc = "load"]
    <3>1. CASE k = m
      <4>1. job'[k].set /\ ~job'[k].finished
        BY <2>2, <3>1 DEF Types, NoJob
      <4>2. run'[<<k, "job">>].pc = "load"
        BY <2>2, <3>1, JobWorkers DEF Types, RunRec
      <4> QED
        BY <4>1, <4>2 DEF Owns
    <3>2. CASE k # m
      <4>1. job'[k] = job[k]
        BY <2>2, <3>2 DEF Types
      <4>2. run'[<<k, "job">>] = run[<<k, "job">>]
        BY <2>2, <3>2, JobWorkers DEF Types
      <4> QED
        BY <4>1, <4>2 DEF Owns
    <3> QED
      BY <3>1, <3>2
  <2> QED
    BY <1>2, <2>1, <2>2 DEF Begins
<1>3. CASE Polls(m) \/ Leaves(m)
  BY <1>3 DEF Polls, Leaves, Owns
<1>4. CASE Connects(m)
  <2>1. job' = job
    BY <1>4 DEF Connects
  <2>2. run'[<<k, "job">>] = run[<<k, "job">>]
    <3>1. <<k, "job">> # <<m, "connect">>
      OBVIOUS
    <3> QED
      BY <1>4, <3>1, JobWorkers DEF Connects, Types
  <2> QED
    BY <2>1, <2>2 DEF Owns
<1> QED
  BY <1>1, <1>2, <1>3, <1>4

LEMMA OwnsKept == Types /\ JobOwnsRun /\ [DesktopNext]_desktopVars => JobOwnsRun'
<1> SUFFICES ASSUME Types, JobOwnsRun, [DesktopNext]_desktopVars, NEW k \in Keys
             PROVE  Owns(k)'
  BY OwnsAll DEF JobOwnsRun, Owns
<1>1. Owns(k)
  BY OwnsAll
<1>2. CASE UNCHANGED <<job, run>>
  BY <1>1, <1>2 DEF Owns
<1>3. CASE SessionNext
  <2>1. CASE Restarts
    <3>1. ~job'[k].set
      BY <2>1 DEF Restarts, NoJob
    <3>2. run'[<<k, "job">>].pc = "idle"
      BY <2>1, JobWorkers DEF Restarts, NoRun
    <3> QED
      BY <3>1, <3>2 DEF Owns
  <2>2. CASE ~Restarts
    <3>1. UNCHANGED <<job, run>>
      BY <1>3, <2>2 DEF SessionNext, OpensLeg, Registers, WindsUp, powerVars
    <3> QED
      BY <3>1, <1>2
  <2> QED
    BY <2>1, <2>2
<1>4. CASE PowerNext
  <2>1. CASE \E w \in Workers : RunStep(w)
    BY <1>1, <2>1, RunOwns
  <2>2. CASE \E m \in Keys : \/ Delivers(m) \/ Begins(m) \/ Polls(m) \/ Leaves(m)
                             \/ Connects(m) \/ Ages(m)
    BY <1>1, <2>2, JobStepOwns
  <2>3. CASE ScanStep \/ CacheExpires \/ ReaperStep \/ Boots \/ GuestStops
    <3>1. UNCHANGED <<job, run>>
      BY <2>3 DEF ScanStep, ScanReads, ScanResolves, ScanWrites, CacheExpires, ReaperStep,
           ReaperLoads, ReaperChecks, ReaperPauses, ReaperSaves, Boots, GuestStops
    <3> QED
      BY <3>1, <1>2
  <2>4. CASE TimePasses
    <3>1. job'[k].set = job[k].set /\ job'[k].finished = job[k].finished
      BY <2>4 DEF TimePasses, Types, JobRec
    <3> QED
      BY <1>1, <2>4, <3>1 DEF TimePasses, Owns
  <2> QED
    BY <1>4, <2>1, <2>2, <2>3, <2>4, PowerSteps
<1>5. CASE UNCHANGED desktopVars
  BY <1>2, <1>5 DEF desktopVars, powerVars
<1> QED
  BY <1>3, <1>4, <1>5 DEF DesktopNext

\* A readiness job runs once and until it has finished, whoever begins it again.
THEOREM JobsOwnTheirRuns == DesktopSpec => []JobOwnsRun
<1>1. DesktopInit => JobOwnsRun
  <2> SUFFICES ASSUME DesktopInit, NEW k \in Keys  PROVE Owns(k)
    BY OwnsAll
  <2> QED
    BY JobWorkers DEF DesktopInit, Owns, NoRun, NoJob
<1>2. Types /\ JobOwnsRun /\ [DesktopNext]_desktopVars => (Types /\ JobOwnsRun)'
  BY TypesKept, OwnsKept
<1> QED
  BY <1>1, <1>2, InitTypes, PTL DEF DesktopSpec

-----------------------------------------------------------------------------
(* The reaper.                                                             *)

\* Between the end of a session that was long enough to look idle and its stamp, the
\* session is seen: it is registered, or it has been removed and not stamped.
Gap == clock.idle /\ ~clock.grace /\ clock.recent => sessions # {} \/ Unstamped # {}

\* The reaper's scan has the desktop for itself.
Alone ==
  /\ reaper # "idle" => clock.idle /\ Unstamped = {}
  /\ reaper \in {"pausing", "saving"} => ~clock.recent /\ sessions = {}

ReapInv == Gap /\ (PMay("overlap") \/ Alone)

\* Steps of a leg other than its removal and its wind-up.
LEMMA KeptUnstamped ==
  ASSUME NEW l \in Legs, OthersKept(l), leg[l].pc # "removed", leg'[l].pc # "removed"
  PROVE  Unstamped' = Unstamped
BY DEF OthersKept, Unstamped

LEMMA MoveUnstamped ==
  ASSUME Inv, NEW l \in Legs, NEW from, NEW to, Step(l, from, to),
         from # "removed", to # "removed"
  PROVE  Unstamped' = Unstamped
BY DEF Inv, TypeOK, Unstamped, Step, Leg

\* Of the session steps that stamp nothing only a removal matters to the reaper.
LEMMA OtherSteps ==
  ASSUME Inv, OtherSessionStep
  PROVE  \/ sessions' = sessions /\ Unstamped' = Unstamped
         \/ Apart /\ Unstamped' # {} /\ sessions' \subseteq sessions
<1>1. ASSUME NEW l \in Legs, SetUpRecording(l)
      PROVE  sessions' = sessions /\ Unstamped' = Unstamped
  BY <1>1, SetUpFacts, KeptUnstamped
<1>2. ASSUME NEW l \in Legs, Remove(l), Apart
      PROVE  Apart /\ Unstamped' # {} /\ sessions' \subseteq sessions
  <2>1. leg'[l].pc = "removed"
    BY <1>2 DEF Remove, Step, Inv, TypeOK, Leg
  <2> QED
    BY <1>2, <2>1 DEF Remove, Unstamped
<1>3. ASSUME NEW l \in Legs, Finalize(l) \/ Abandon(l) \/ EndLeg(l)
      PROVE  sessions' = sessions /\ Unstamped' = Unstamped
  BY <1>3, MoveUnstamped DEF Finalize, Abandon, EndLeg
<1>4. ASSUME NEW l \in Legs, Redirect(l) \/ HandOver(l)
      PROVE  sessions' = sessions /\ Unstamped' = Unstamped
  BY <1>4 DEF Redirect, HandOver, Arm, MayEnd, Inv, TypeOK, Unstamped, Leg
<1>5. ASSUME NEW k \in Keys, Expire(k)
      PROVE  sessions' = sessions /\ Unstamped' = Unstamped
  BY <1>5 DEF Expire, Unstamped
<1>6. ASSUME NEW r \in Legs, MuxStart(r) \/ MuxEnd(r) \/ DeleteFiles(r) \/ DeleteRow(r)
      PROVE  sessions' = sessions /\ Unstamped' = Unstamped
  BY <1>6 DEF MuxStart, MuxEnd, DeleteFiles, DeleteRow, Unstamped
<1>7. ASSUME Quiet
      PROVE  sessions' = sessions /\ Unstamped' = Unstamped
  BY <1>7 DEF Quiet, vars, Unstamped
<1> QED
  BY <1>1, <1>2, <1>3, <1>4, <1>5, <1>6, <1>7 DEF OtherSessionStep

LEMMA SessionReap ==
  ASSUME Inv, Types, ReapInv, SessionNext
  PROVE  ReapInv'
<1>1. ASSUME NEW l \in Legs, NEW k \in Keys, OpensLeg(l, k)  PROVE ReapInv'
  <2>1. sessions' = sessions /\ Unstamped' = Unstamped
    BY <1>1, ContinueFacts, OpenFacts, KeptUnstamped DEF OpensLeg
  <2> QED
    BY <1>1, <2>1 DEF OpensLeg, ReapInv, Gap, Alone, PMay
<1>2. ASSUME NEW l \in Legs, Registers(l)  PROVE ReapInv'
  <2>1. Unstamped' = Unstamped
    BY <1>2, MoveUnstamped DEF Registers, Register
  <2>2. clock'.idle = FALSE
    BY <1>2 DEF Registers, Stamped, Types, ClockRec
  <2> QED
    BY <1>2, <2>1, <2>2 DEF Registers, Apart, ReapInv, Gap, Alone, PMay
<1>3. ASSUME NEW l \in Legs, WindsUp(l)  PROVE ReapInv'
  <2>1. clock'.idle = FALSE
    BY <1>3 DEF WindsUp, Stamped, Types, ClockRec
  <2>2. l \in Unstamped
    BY <1>3 DEF WindsUp, Dispose, Step, Unstamped
  <2> QED
    BY <1>3, <2>1, <2>2 DEF WindsUp, ReapInv, Gap, Alone, PMay
<1>4. ASSUME Restarts  PROVE ReapInv'
  <2>1. clock'.grace /\ reaper' = "idle"
    BY <1>4 DEF Restarts, Types, ClockRec
  <2> QED
    BY <2>1 DEF ReapInv, Gap, Alone
<1>5. ASSUME OtherSessionStep, UNCHANGED <<plan, powerVars>>  PROVE ReapInv'
  <2>1. CASE sessions' = sessions /\ Unstamped' = Unstamped
    BY <1>5, <2>1 DEF powerVars, ReapInv, Gap, Alone, PMay
  <2>2. CASE Apart /\ Unstamped' # {} /\ sessions' \subseteq sessions
    BY <1>5, <2>2 DEF powerVars, Apart, ReapInv, Gap, Alone, PMay
  <2> QED
    BY <1>5, <2>1, <2>2, OtherSteps
<1> QED
  BY <1>1, <1>2, <1>3, <1>4, <1>5 DEF SessionNext

LEMMA PowerReap ==
  ASSUME Inv, Types, ReapInv, PowerNext
  PROVE  ReapInv'
<1> USE PowerSteps
<1>1. sessions' = sessions /\ Unstamped' = Unstamped /\ plan' = plan
  BY DEF vars, Unstamped
<1>2. CASE UNCHANGED <<clock, reaper>>
  BY <1>1, <1>2 DEF ReapInv, Gap, Alone, PMay
<1>3. CASE \E w \in Workers : RunStep(w)
  BY <1>2, <1>3 DEF RunStep, RunLoads, RunLooks, RunStarts, RunProbes, RunTimesOut, RunSaves
<1>4. CASE \E k \in Keys : \/ Delivers(k) \/ Begins(k) \/ Polls(k) \/ Leaves(k)
                           \/ Connects(k) \/ Ages(k)
  BY <1>2, <1>4 DEF Delivers, Begins, Polls, Leaves, Connects, Ages
<1>5. CASE ScanStep \/ CacheExpires \/ Boots \/ GuestStops
  BY <1>2, <1>5 DEF ScanStep, ScanReads, ScanResolves, ScanWrites, CacheExpires, Boots, GuestStops
<1>6. CASE ReaperLoads
  BY <1>1, <1>6 DEF ReaperLoads, ReapInv, Gap, Alone, PMay
<1>7. CASE ReaperChecks
  BY <1>1, <1>7 DEF ReaperChecks, HasActiveSessions, Reapable, ReapInv, Gap, Alone, PMay
<1>8. CASE ReaperPauses
  BY <1>1, <1>8 DEF ReaperPauses, ReapInv, Gap, Alone, PMay
<1>9. CASE ReaperSaves
  BY <1>1, <1>9 DEF ReaperSaves, ReapInv, Gap, Alone, PMay
<1>10. CASE TimePasses
  <2>1. reaper = "idle" /\ reaper' = "idle"
    BY <1>10 DEF TimePasses, Steady
  <2>2. clock'.recent = (sessions # {})
    BY <1>10 DEF TimePasses, HasActiveSessions
  <2> QED
    BY <1>1, <2>1, <2>2 DEF ReapInv, Gap, Alone
<1> QED
  BY <1>3, <1>4, <1>5, <1>6, <1>7, <1>8, <1>9, <1>10 DEF ReaperStep

LEMMA ReapKept == Inv /\ Types /\ ReapInv /\ [DesktopNext]_desktopVars => ReapInv'
<1> SUFFICES ASSUME Inv, Types, ReapInv, [DesktopNext]_desktopVars  PROVE ReapInv'
  OBVIOUS
<1>1. CASE UNCHANGED desktopVars
  BY <1>1 DEF desktopVars, powerVars, vars, ReapInv, Gap, Alone, PMay, Unstamped
<1> QED
  BY <1>1, SessionReap, PowerReap DEF DesktopNext

\* The reaper pauses only what nobody has used for the whole idle timeout: neither the
\* end of a session that outlasted it nor a restart of the gateway deceives it.
THEOREM OnlyIdleIsPaused == DesktopSpec => []PausesOnlyIdle
<1>1. DesktopInit => ReapInv
  BY DEF DesktopInit, ReapInv, Gap, Alone
<1>2. Types /\ ReapInv => PausesOnlyIdle
  BY DEF ReapInv, Alone, PausesOnlyIdle, PausedIsIdle, HasActiveSessions
<1>3. Inv /\ Types /\ ReapInv /\ [DesktopNext]_desktopVars => (Types /\ ReapInv)'
  BY TypesKept, ReapKept
<1>4. DesktopSpec => []Inv
  BY SessionsAreSessions, InvHolds, PTL
<1> QED
  BY <1>1, <1>2, <1>3, <1>4, InitTypes, PTL DEF DesktopSpec

\* All of it, as the run checks it.
THEOREM DesktopIsGuarded == DesktopSpec => []DesktopGuarded
<1>1. PowerTypeOK /\ JobOwnsRun /\ PausesOnlyIdle => DesktopGuarded
  BY DEF DesktopGuarded
<1> QED
  BY <1>1, DesktopTypes, JobsOwnTheirRuns, OnlyIdleIsPaused, PTL

=============================================================================
