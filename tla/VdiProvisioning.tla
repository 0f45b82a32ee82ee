--------------------------- MODULE VdiProvisioning ---------------------------
(***************************************************************************)
(* The life of a dedicated VDI desktop: the connect-time path that clones  *)
(* a VM from the pool's template, the two-minute reconcile loop, and the   *)
(* administrator's Deprovision, all working on the same database rows and  *)
(* the same Proxmox cluster (RDP/VdiProvisioningService.cs,                *)
(* Controllers/VdiPoolsController.cs, RDP/ProxmoxClient.cs).               *)
(*                                                                         *)
(* A step is what runs between two awaits.  Each service call owns a       *)
(* DbContext whose change tracker keeps the first copy of a row it reads:  *)
(* a later query in the same context finds the row but returns that copy,  *)
(* and a save writes only the columns the caller changed.                  *)
(*                                                                         *)
(* A request inserts at most one row, so rows (VdiInstance with its clone  *)
(* RDPResource, whose id is the binding stamp) are named by the request    *)
(* that inserts them.  One pool on one backend; a node is not modelled (a  *)
(* VM that migrated is still found by its stamp).                          *)
(***************************************************************************)
EXTENDS Integers, FiniteSets

CONSTANTS
  Owners,        \* the (pool, user) pairs
  Connects,      \* connect requests; also the ids of the rows they insert
  OwnerOf,       \* the (pool, user) each request is for
  Admins,        \* Deprovision requests of administrators
  Reconciler,    \* the VdiReconcileService loop
  Nobody,        \* no process, no row
  MaxVmId,       \* the pool's VMID band is 1..MaxVmId
  MaxCrashes,    \* bound: restarts of the gateway in a behaviour
  Environments   \* each is a set of things that may go wrong, see Hazards

\* What the surroundings of the gateway may do.
Hazards ==
  { "refuse",       \* Proxmox refuses a clone request
    "cloneFails",   \* a clone task ends with an error
    "slow",         \* a clone task outlives the wait of the connect path
    "hang",         \* a clone task outlives the reconciler's two-hour cap
    "longPass",     \* a reconcile pass lasts longer than its age guards assume
    "noStamp",      \* Proxmox refuses to write VM notes (token permission)
    "outage",       \* any call to the backend may fail
    "foreign",      \* a Proxmox administrator creates VMs in the band
    "delete",       \* a Proxmox administrator deletes VMs
    "deprovision",  \* a gateway administrator deprovisions desktops
    "crash" }       \* the gateway process stops and starts again

Procs  == Connects \cup Admins \cup {Reconciler}
VmIds  == 1..MaxVmId

ASSUME ConstantsAssumption ==
  /\ OwnerOf \in [Connects -> Owners]
  /\ Reconciler \notin Connects \cup Admins
  /\ Connects \cap Admins = {}
  /\ Nobody \notin Procs
  /\ MaxVmId \in Nat /\ MaxCrashes \in Nat
  /\ \A e \in Environments : e \subseteq Hazards

VARIABLES
  env,       \* the environment of this behaviour, chosen at the start
  row,       \* the VdiInstances table: [vmid, state, upid, stamped]
  task,      \* Proxmox: the clone task started for a row
  vm,        \* Proxmox: the VM registered under a VMID
  gate,      \* _locks: the process inside the (pool, user) section
  vmidGate,  \* _vmidGate: the process allocating a VMID
  pc,        \* where each process is
  ent,       \* the copy of a row a process tracks, see Entity
  plan,      \* the VMID a connect request has chosen
  target,    \* the VM a guarded destroy has verified
  snap,      \* rows the current reconcile pass loaded and has still to look at
  inv,       \* the pass's inventory of VMIDs; an empty answer is "unknown"
  poisoned,  \* a save of this pass failed; its DbContext fails every later one
  crashes    \* restarts so far

dbVars  == <<row>>
pveVars == <<task, vm>>
recVars == <<snap, inv, poisoned>>
vars == <<env, row, task, vm, gate, vmidGate, pc, ent, plan, target,
          snap, inv, poisoned, crashes>>

-----------------------------------------------------------------------------
\* Rows, tracked copies and VMs.

States == {"unused", "Provisioning", "Ready", "Failed", "Deprovisioning", "removed"}
Row    == [vmid : VmIds \cup {0}, state : States, upid : BOOLEAN, stamped : BOOLEAN]
NoRow  == [vmid |-> 0, state |-> "unused", upid |-> FALSE, stamped |-> FALSE]

\* mark is the NotesStamped value in memory, stamped the one that was read.
Entity   == [id : Connects \cup {Nobody}, state : States, upid : BOOLEAN,
             stamped : BOOLEAN, mark : BOOLEAN]
NoEntity == [id |-> Nobody, state |-> "unused", upid |-> FALSE,
             stamped |-> FALSE, mark |-> FALSE]

\* kind "clone" has by, the row whose clone request created it; note is the
\* ksol-rdpgw-id in its notes.
Vm       == [kind : {"absent", "clone", "foreign"}, by : Connects \cup {Nobody},
             note : Connects \cup {Nobody}]
AbsentVm == [kind |-> "absent", by |-> Nobody, note |-> Nobody]
Foreign  == [kind |-> "foreign", by |-> Nobody, note |-> Nobody]

May(h)    == h \in env
Live(i)   == row[i].state \notin {"unused", "removed"}
Dead(s)   == s \in {"Failed", "Deprovisioning"}
Usable(i) == row[i].state \in {"Provisioning", "Ready"}
RowsOf(o) == {i \in Connects : Live(i) /\ OwnerOf[i] = o}

Track(i, r) == [id |-> i, state |-> r.state, upid |-> r.upid,
                stamped |-> r.stamped, mark |-> r.stamped]
\* A query returns the tracked copy of a row, if there is one.
Query(p, i) == IF ent[p].id = i THEN ent[p] ELSE Track(i, row[i])

\* A save that meets a missing row throws; the reconciler's context keeps the
\* failed entry and throws again at every later save of the pass.
CanSave(p, i) == Live(i) /\ ~(p = Reconciler /\ poisoned)

Inventory == [status : {"none", "unknown", "known"}, ids : SUBSET VmIds]
NotLoaded == [status |-> "none", ids |-> {}]

-----------------------------------------------------------------------------
\* The Proxmox API as ProxmoxClient uses it: every failure is swallowed and
\* comes back as an empty list, null or false.

Exists(v)  == vm[v].kind # "absent"
Cloning(v) == vm[v].kind = "clone" /\ task[vm[v].by] = "running"

ListVms == {{v \in VmIds : Exists(v)}} \cup (IF May("outage") THEN {{}} ELSE {})

GetTaskStatus(i, upid) ==
  (IF upid THEN {task[i]} ELSE {"unknown"})
    \cup (IF May("outage") THEN {"unknown"} ELSE {})

\* A VM is locked while its clone task runs.
SetNotes(v, i, ok) ==
  \/ /\ ok /\ Exists(v) /\ ~Cloning(v)
     /\ vm' = [vm EXCEPT ![v].note = i]
  \/ /\ ~ok
     /\ ~Exists(v) \/ Cloning(v) \/ May("noStamp") \/ May("outage")
     /\ UNCHANGED vm

DestroyVm(v) ==
  \/ ~Cloning(v) /\ vm' = [vm EXCEPT ![v] = AbsentVm]
  \/ (Cloning(v) \/ May("outage")) /\ UNCHANGED vm

\* Mutant: the destroy trusts the recorded VMID.
BoundByVmId(i) == {IF Exists(row[i].vmid) THEN row[i].vmid ELSE 0}

\* Where the guarded destroy finds row i's stamp: at the recorded VMID if it is
\* there, else anywhere in the cluster.  A failed call looks like no stamp.
Bound(i) ==
  LET found == {v \in VmIds : Exists(v) /\ vm[v].note = i}
  IN  (IF row[i].vmid \in found THEN {row[i].vmid} ELSE found)
        \cup (IF found = {} \/ May("outage") THEN {0} ELSE {})

-----------------------------------------------------------------------------
\* Leaving a service call: the gate is released in a finally block; a request
\* ends, the reconciler goes on to the next row of its pass.

Released(p) == [o \in Owners |-> IF gate[o] = p THEN Nobody ELSE gate[o]]

Leave(p, how) ==
  /\ gate' = Released(p)
  /\ vmidGate' = IF vmidGate = p THEN Nobody ELSE vmidGate
  /\ pc' = [pc EXCEPT ![p] = IF p = Reconciler THEN "scan" ELSE how]
  /\ ent' = [ent EXCEPT ![p] = IF how = "done" /\ p # Reconciler THEN @ ELSE NoEntity]
  /\ plan' = IF p \in Connects THEN [plan EXCEPT ![p] = 0] ELSE plan
  /\ target' = [target EXCEPT ![p] = 0]

\* Mutant: an exception leaves the gate locked.
ThrowLocked(p) ==
  /\ pc' = [pc EXCEPT ![p] = IF p = Reconciler THEN "scan" ELSE "failed"]
  /\ ent' = [ent EXCEPT ![p] = NoEntity]
  /\ poisoned' = (poisoned \/ p = Reconciler)
  /\ UNCHANGED <<gate, vmidGate, plan, target>>

Throw(p) ==
  /\ Leave(p, "failed")
  /\ poisoned' = (poisoned \/ p = Reconciler)

Goto(p, l) ==
  /\ pc' = [pc EXCEPT ![p] = l]
  /\ UNCHANGED <<gate, vmidGate>>

-----------------------------------------------------------------------------
\* EnsureResourceForUserAsync: the fast path outside the gate, the re-check
\* inside it.

\* The row a connect-time lookup of the pair finds: neither Failed nor Deprovisioning.
Existing(o) == {i \in RowsOf(o) : Usable(i)}

\* Mutant: the fast path takes a desktop that is still being provisioned.
RequestUsable(c) ==
  /\ pc[c] = "idle"
  /\ \/ /\ Existing(OwnerOf[c]) = {}
        /\ Goto(c, "wait") /\ UNCHANGED ent
     \/ \E i \in Existing(OwnerOf[c]) :
          /\ ent' = [ent EXCEPT ![c] = Track(i, row[i])]
          /\ Goto(c, "fastCheck")
  /\ UNCHANGED <<env, dbVars, pveVars, plan, target, recVars, crashes>>

Request(c) ==
  /\ pc[c] = "idle"
  /\ \/ /\ Existing(OwnerOf[c]) = {}
        /\ Goto(c, "wait") /\ UNCHANGED ent
     \/ \E i \in Existing(OwnerOf[c]) :
          /\ ent' = [ent EXCEPT ![c] = Track(i, row[i])]
          /\ Goto(c, IF row[i].state = "Ready" THEN "fastCheck" ELSE "wait")
  /\ UNCHANGED <<env, dbVars, pveVars, plan, target, recVars, crashes>>

\* VmStillExistsAsync on the fast path.
FastCheck(c) ==
  /\ pc[c] = "fastCheck"
  /\ \E vms \in ListVms :
       IF row[ent[c].id].vmid \in vms
       THEN Leave(c, "done")
       ELSE Goto(c, "wait") /\ UNCHANGED <<ent, plan, target>>
  /\ UNCHANGED <<env, dbVars, pveVars, recVars, crashes>>

\* gate.WaitAsync, and the query that follows it.
Enter(c) ==
  /\ pc[c] = "wait" /\ gate[OwnerOf[c]] = Nobody
  /\ gate' = [gate EXCEPT ![OwnerOf[c]] = c]
  /\ \/ /\ Existing(OwnerOf[c]) = {}
        /\ pc' = [pc EXCEPT ![c] = "clear"]
        /\ UNCHANGED ent
     \/ \E i \in Existing(OwnerOf[c]) :
          /\ ent' = [ent EXCEPT ![c] = Query(c, i)]
          /\ pc' = [pc EXCEPT ![c] =
                      IF Query(c, i).state = "Ready" THEN "recheck" ELSE "clear"]
  /\ UNCHANGED <<env, dbVars, pveVars, vmidGate, plan, target, recVars, crashes>>

\* VmStillExistsAsync inside the gate: a Ready row whose VM is gone becomes
\* Deprovisioning, and its desktop is cloned again.
Recheck(c) ==
  /\ pc[c] = "recheck"
  /\ LET i == ent[c].id IN
     \E vms \in ListVms :
       \/ /\ row[i].vmid \in vms
          /\ Leave(c, "done") /\ UNCHANGED <<row, poisoned>>
       \/ /\ row[i].vmid \notin vms /\ CanSave(c, i)
          /\ row' = [row EXCEPT ![i].state = "Deprovisioning"]
          /\ ent' = [ent EXCEPT ![c].state = "Deprovisioning"]
          /\ Goto(c, "clear") /\ UNCHANGED <<plan, target, poisoned>>
       \/ /\ row[i].vmid \notin vms /\ ~CanSave(c, i)
          /\ Throw(c) /\ UNCHANGED row
  /\ UNCHANGED <<env, pveVars, snap, inv, crashes>>

-----------------------------------------------------------------------------
\* ClearStaleInstanceAsync: a Failed or Deprovisioning row would trip the unique
\* index, so its VM is destroyed and its rows dropped first.

Clear(c) ==
  /\ pc[c] = "clear"
  /\ LET stale == {i \in RowsOf(OwnerOf[c]) : Dead(row[i].state)} IN
     \/ /\ stale = {}
        /\ ent' = [ent EXCEPT ![c] = NoEntity]
        /\ Goto(c, "pick") /\ UNCHANGED <<plan, target, poisoned>>
     \/ \E i \in stale : LET e == Query(c, i) IN
          \/ /\ ~e.upid \/ e.stamped
             /\ ent' = [ent EXCEPT ![c] = e]
             /\ Goto(c, "verify") /\ UNCHANGED <<plan, target, poisoned>>
          \/ /\ e.upid /\ ~e.stamped
             /\ \E t \in GetTaskStatus(i, e.upid) :
                  IF t = "running"
                  THEN Throw(c)
                  ELSE /\ ent' = [ent EXCEPT ![c] = e]
                       /\ Goto(c, IF t = "ok" THEN "stamp" ELSE "verify")
                       /\ UNCHANGED <<plan, target, poisoned>>
  /\ UNCHANGED <<env, dbVars, pveVars, snap, inv, crashes>>

\* Stamp a clone that finished late, so that the destroy below can verify it
\* (ClearStaleInstanceAsync, ReconcileDeadAsync).
Stamp(p) ==
  /\ pc[p] = "stamp"
  /\ \E ok \in BOOLEAN : SetNotes(row[ent[p].id].vmid, ent[p].id, ok)
  /\ Goto(p, "verify")
  /\ UNCHANGED <<env, dbVars, task, ent, plan, target, recVars, crashes>>

\* SafeDestroyInstanceVmAsync, the reads.
Verify(p) ==
  /\ pc[p] = "verify"
  /\ \E v \in Bound(ent[p].id) :
       /\ target' = [target EXCEPT ![p] = v]
       /\ Goto(p, IF v = 0 THEN "drop" ELSE "destroy")
  /\ UNCHANGED <<env, dbVars, pveVars, ent, plan, recVars, crashes>>

\* SafeDestroyInstanceVmAsync, DestroyVmAsync: its result is not looked at.
Destroy(p) ==
  /\ pc[p] = "destroy"
  /\ DestroyVm(target[p])
  /\ target' = [target EXCEPT ![p] = 0]
  /\ Goto(p, "drop")
  /\ UNCHANGED <<env, dbVars, task, ent, plan, recVars, crashes>>

\* RemoveInstanceRowsAsync, and the end of Deprovision.
Drop(p) ==
  /\ pc[p] = "drop"
  /\ LET i == ent[p].id IN
     \/ /\ CanSave(p, i)
        /\ row' = [row EXCEPT ![i].state = "removed"]
        /\ \/ /\ p \in Connects
              /\ ent' = [ent EXCEPT ![p] = NoEntity]
              /\ Goto(p, "pick") /\ UNCHANGED <<plan, target>>
           \/ p \notin Connects /\ Leave(p, "done")
        /\ UNCHANGED poisoned
     \/ ~CanSave(p, i) /\ Throw(p) /\ UNCHANGED row
  /\ UNCHANGED <<env, pveVars, snap, inv, crashes>>

-----------------------------------------------------------------------------
\* ProvisionDedicatedAsync: VMID, rows and clone request under _vmidGate.

\* Mutant: a Failed row gives its VMID back.
ClaimedUsable == {row[i].vmid : i \in {j \in Connects : Usable(j)}}
Claimed  == {row[i].vmid : i \in {j \in Connects : Live(j)}}
Least(S) == {v \in S : \A w \in S : v <= w}

\* Mutant: the step past the claims ignores the end of the band.
NextVmIdBeyond(taken) ==
  LET free == Least(VmIds \ taken)
  IN  Least({v \in 1..(MaxVmId + 1) \ Claimed : \E b \in free : v >= b})

\* The VMIDs the request may choose when Proxmox reports these as taken: the
\* first free one, stepped past the claims of live rows.
NextVmId(taken) ==
  LET free == Least(VmIds \ taken)
  IN  Least({v \in VmIds \ Claimed : \E b \in free : v >= b})

Pick(c) ==
  /\ pc[c] = "pick" /\ vmidGate = Nobody
  /\ \E taken \in ListVms :
       \/ /\ NextVmId(taken) = {} \/ May("outage")  \* no id, or no template seen
          /\ Leave(c, "failed")
       \/ \E v \in NextVmId(taken) :
            /\ plan' = [plan EXCEPT ![c] = v]
            /\ vmidGate' = c
            /\ pc' = [pc EXCEPT ![c] = "insert"]
            /\ UNCHANGED <<gate, ent, target>>
  /\ UNCHANGED <<env, dbVars, pveVars, recVars, crashes>>

\* The unique (PoolId, OwnerUserId) index rejects a second row.
Insert(c) ==
  /\ pc[c] = "insert"
  /\ \/ /\ RowsOf(OwnerOf[c]) = {}
        /\ row' = [row EXCEPT ![c] = [NoRow EXCEPT !.vmid = plan[c], !.state = "Provisioning"]]
        /\ ent' = [ent EXCEPT ![c] = [NoEntity EXCEPT !.id = c, !.state = "Provisioning"]]
        /\ Goto(c, "post") /\ UNCHANGED <<plan, target, poisoned>>
     \/ /\ RowsOf(OwnerOf[c]) # {}
        /\ Throw(c) /\ UNCHANGED row
  /\ UNCHANGED <<env, pveVars, snap, inv, crashes>>

\* FailAsync on the request's own row; either way the request ends.
FailRow(c) ==
  /\ row' = IF Live(c) THEN [row EXCEPT ![c].state = "Failed"] ELSE row
  /\ Leave(c, "failed")

\* CloneAsync.  A reply can be lost after Proxmox accepted the request.
Post(c) ==
  /\ pc[c] = "post"
  /\ \/ /\ ~Exists(plan[c])
        /\ vm' = [vm EXCEPT ![plan[c]] = [kind |-> "clone", by |-> c, note |-> Nobody]]
        /\ task' = [task EXCEPT ![c] = "running"]
        /\ \/ /\ vmidGate' = Nobody
              /\ pc' = [pc EXCEPT ![c] = "saveUpid"]
              /\ UNCHANGED <<row, gate, ent, plan, target>>
           \/ May("outage") /\ FailRow(c)
     \/ /\ Exists(plan[c]) \/ May("refuse") \/ May("outage")
        /\ FailRow(c)
        /\ UNCHANGED pveVars
  /\ UNCHANGED <<env, recVars, crashes>>

SaveUpid(c) ==
  /\ pc[c] = "saveUpid"
  /\ \/ /\ CanSave(c, c)
        /\ row' = [row EXCEPT ![c].upid = TRUE]
        /\ ent' = [ent EXCEPT ![c].upid = TRUE]
        /\ Goto(c, "waitTask") /\ UNCHANGED <<plan, target, poisoned>>
     \/ ~CanSave(c, c) /\ Throw(c) /\ UNCHANGED row
  /\ UNCHANGED <<env, pveVars, snap, inv, crashes>>

\* Mutant: a task that stopped counts as a task that succeeded.
WaitForStopped(c) ==
  /\ pc[c] = "waitTask"
  /\ task[c] \in {"ok", "failed"}
  /\ Goto(c, "finish")
  /\ UNCHANGED <<env, dbVars, pveVars, ent, plan, target, recVars, crashes>>

\* WaitForTaskAsync: false on a failed task and when the wait runs out.
WaitForTask(c) ==
  /\ pc[c] = "waitTask"
  /\ \/ /\ task[c] = "ok"
        /\ Goto(c, "finish") /\ UNCHANGED <<row, ent, plan, target>>
     \/ /\ \/ task[c] = "failed"
           \/ task[c] = "running" /\ May("slow")
           \/ May("outage")
        /\ FailRow(c)
  /\ UNCHANGED <<env, pveVars, recVars, crashes>>

-----------------------------------------------------------------------------
\* FinishProvisioningAsync, shared by the connect path and the reconciler.

Finish(p) ==
  /\ pc[p] = "finish"
  /\ \E ok \in BOOLEAN :
       /\ SetNotes(row[ent[p].id].vmid, ent[p].id, ok)
       /\ ent' = [ent EXCEPT ![p].mark = ok]
  /\ Goto(p, "identity")
  /\ UNCHANGED <<env, dbVars, task, plan, target, recVars, crashes>>

\* A save writes NotesStamped only if it changed since it was read.
Marked(i, e) == IF e.mark # e.stamped THEN e.mark ELSE row[i].stamped

\* ApplyIdentityAsync: a pool that generates credentials saves them here, and
\* the pending NotesStamped with them; other pools save nothing.
Identity(p) ==
  /\ pc[p] = "identity"
  /\ LET i == ent[p].id IN
     \/ Goto(p, "ready") /\ UNCHANGED <<row, ent, plan, target, poisoned>>
     \/ /\ CanSave(p, i)
        /\ row' = [row EXCEPT ![i].stamped = Marked(i, ent[p])]
        /\ ent' = [ent EXCEPT ![p].stamped = ent[p].mark]
        /\ Goto(p, "ready") /\ UNCHANGED <<plan, target, poisoned>>
     \/ ~CanSave(p, i) /\ Throw(p) /\ UNCHANGED row
  /\ UNCHANGED <<env, pveVars, snap, inv, crashes>>

MarkReady(p) ==
  /\ pc[p] = "ready"
  /\ LET i == ent[p].id IN
     \/ /\ CanSave(p, i)
        /\ row' = [row EXCEPT ![i].state = "Ready", ![i].stamped = Marked(i, ent[p])]
        /\ Leave(p, "done") /\ UNCHANGED poisoned
     \/ ~CanSave(p, i) /\ Throw(p) /\ UNCHANGED row
  /\ UNCHANGED <<env, pveVars, snap, inv, crashes>>

ConnectStep(c) ==
  \/ Request(c) \/ FastCheck(c) \/ Enter(c) \/ Recheck(c) \/ Clear(c)
  \/ Pick(c) \/ Insert(c) \/ Post(c) \/ SaveUpid(c) \/ WaitForTask(c)

\* The steps several callers share.
SharedStep(p) ==
  \/ Stamp(p) \/ Verify(p) \/ Destroy(p) \/ Drop(p)
  \/ Finish(p) \/ Identity(p) \/ MarkReady(p)

-----------------------------------------------------------------------------
\* ReconcileAsync: one pass loads every row, then works on the copies one by
\* one.  The age guards (two and twenty minutes since UpdatedUtc) and a busy
\* gate make it leave a row for the next pass: Skip.  A row that a connect request
\* is still cloning is too young for the twenty minutes, unless the pass is long.

Todo     == {i \in Connects : snap[i].state # "unused"}
Taken(i) == snap' = [snap EXCEPT ![i] = NoRow]

Young(i) ==
  /\ row[i].state = "Provisioning" /\ ~May("longPass")
  /\ pc[i] \in {"post", "saveUpid", "waitTask", "finish", "identity", "ready"}

BeginPass ==
  /\ pc[Reconciler] = "idle"
  /\ \E i \in Connects : Live(i)
  /\ snap' = [i \in Connects |-> IF Live(i) /\ ~Young(i) THEN row[i] ELSE NoRow]
  /\ Goto(Reconciler, "scan")
  /\ UNCHANGED <<env, dbVars, pveVars, ent, plan, target, inv, poisoned, crashes>>

\* Mutant: the inventory survives the pass.
EndPassStale ==
  /\ pc[Reconciler] = "scan" /\ Todo = {}
  /\ poisoned' = FALSE
  /\ Goto(Reconciler, "idle")
  /\ UNCHANGED <<env, dbVars, pveVars, ent, plan, target, snap, inv, crashes>>

EndPass ==
  /\ pc[Reconciler] = "scan" /\ Todo = {}
  /\ inv' = NotLoaded
  /\ poisoned' = FALSE
  /\ Goto(Reconciler, "idle")
  /\ UNCHANGED <<env, dbVars, pveVars, ent, plan, target, snap, crashes>>

Skip(i) ==
  /\ pc[Reconciler] = "scan" /\ i \in Todo /\ snap[i].state # "Ready"
  /\ Taken(i)
  /\ UNCHANGED <<env, dbVars, pveVars, gate, vmidGate, pc, ent, plan, target, inv,
                 poisoned, crashes>>

\* A save of one row in the middle of a pass.
PassSave(i, r) ==
  \/ CanSave(Reconciler, i) /\ row' = [row EXCEPT ![i] = r] /\ UNCHANGED poisoned
  \/ ~CanSave(Reconciler, i) /\ poisoned' = TRUE /\ UNCHANGED row

\* Mutant: an interrupted clone is never resumed.
GiveUpInterrupted(i) ==
  /\ pc[Reconciler] = "scan" /\ i \in Todo /\ snap[i].state = "Provisioning"
  /\ gate[OwnerOf[i]] = Nobody
  /\ Taken(i)
  /\ PassSave(i, [row[i] EXCEPT !.state = "Failed"])
  /\ UNCHANGED <<env, pveVars, gate, vmidGate, pc, ent, plan, target, inv, crashes>>

\* Mutant: a row whose task was never recorded is left alone.
IgnoreUnrecorded(i) ==
  /\ pc[Reconciler] = "scan" /\ i \in Todo /\ snap[i].state = "Provisioning"
  /\ gate[OwnerOf[i]] = Nobody
  /\ Taken(i)
  /\ IF snap[i].upid
     THEN PassSave(i, [row[i] EXCEPT !.state = "Failed"])
     ELSE UNCHANGED <<row, poisoned>>
  /\ UNCHANGED <<env, pveVars, gate, vmidGate, pc, ent, plan, target, inv, crashes>>

\* ReconcileProvisioningAsync: resume a clone that finished, give up on one that
\* failed, is unknown or ran past the cap.
ReconcileProvisioning(i) ==
  /\ pc[Reconciler] = "scan" /\ i \in Todo /\ snap[i].state = "Provisioning"
  /\ gate[OwnerOf[i]] = Nobody
  /\ Taken(i)
  /\ \E t \in GetTaskStatus(i, snap[i].upid) :
       \/ t = "running" /\ UNCHANGED <<row, gate, pc, ent, poisoned>>
       \/ /\ t = "ok"
          /\ gate' = [gate EXCEPT ![OwnerOf[i]] = Reconciler]
          /\ pc' = [pc EXCEPT ![Reconciler] = "finish"]
          /\ ent' = [ent EXCEPT ![Reconciler] = Track(i, snap[i])]
          /\ UNCHANGED <<row, poisoned>>
       \/ /\ t \in {"failed", "unknown"} \/ (t = "running" /\ May("hang"))
          /\ PassSave(i, [row[i] EXCEPT !.state = "Failed"])
          /\ UNCHANGED <<gate, pc, ent>>
  /\ UNCHANGED <<env, pveVars, vmidGate, plan, target, inv, crashes>>

\* Mutant: a dead row is cleaned up without its gate.
ReconcileDeadUngated(i) ==
  /\ pc[Reconciler] = "scan" /\ i \in Todo /\ Dead(snap[i].state)
  /\ Taken(i)
  /\ pc' = [pc EXCEPT ![Reconciler] = "verify"]
  /\ ent' = [ent EXCEPT ![Reconciler] = Track(i, snap[i])]
  /\ UNCHANGED <<env, dbVars, pveVars, gate, vmidGate, plan, target, inv, poisoned, crashes>>

\* Mutant: only rows with a recorded clone task are cleaned up.
ReconcileDeadRecorded(i) ==
  /\ pc[Reconciler] = "scan" /\ i \in Todo /\ Dead(snap[i].state)
  /\ Taken(i)
  /\ IF snap[i].upid /\ gate[OwnerOf[i]] = Nobody
     THEN /\ gate' = [gate EXCEPT ![OwnerOf[i]] = Reconciler]
          /\ pc' = [pc EXCEPT ![Reconciler] = "verify"]
          /\ ent' = [ent EXCEPT ![Reconciler] = Track(i, snap[i])]
     ELSE UNCHANGED <<gate, pc, ent>>
  /\ UNCHANGED <<env, dbVars, pveVars, vmidGate, plan, target, inv, poisoned, crashes>>

\* ReconcileDeadAsync: destroy the VM through the verified path, drop the rows.
ReconcileDead(i) ==
  /\ pc[Reconciler] = "scan" /\ i \in Todo /\ Dead(snap[i].state)
  /\ gate[OwnerOf[i]] = Nobody
  /\ Taken(i)
  /\ \E t \in IF snap[i].stamped THEN {"unknown"} ELSE GetTaskStatus(i, snap[i].upid) :
       \/ t = "running" /\ UNCHANGED <<gate, pc, ent>>
       \/ /\ t # "running" \/ May("hang")
          /\ gate' = [gate EXCEPT ![OwnerOf[i]] = Reconciler]
          /\ pc' = [pc EXCEPT ![Reconciler] = IF t = "ok" THEN "stamp" ELSE "verify"]
          /\ ent' = [ent EXCEPT ![Reconciler] = Track(i, snap[i])]
  /\ UNCHANGED <<env, dbVars, pveVars, vmidGate, plan, target, inv, poisoned, crashes>>

\* ReconcileLiveAsync: no gate.  The inventory is loaded once per pass.
ReconcileLive(i) ==
  /\ pc[Reconciler] = "scan" /\ i \in Todo /\ snap[i].state = "Ready"
  /\ Taken(i)
  /\ IF inv.status = "none"
     THEN \E vms \in ListVms :
            inv' = [status |-> IF vms = {} THEN "unknown" ELSE "known", ids |-> vms]
     ELSE UNCHANGED inv
  /\ IF inv'.status = "known" /\ row[i].vmid \notin inv'.ids
     THEN PassSave(i, [row[i] EXCEPT !.state = "Failed"]) /\ UNCHANGED <<pc, ent>>
     ELSE /\ UNCHANGED <<row, poisoned>>
          /\ IF snap[i].stamped
             THEN UNCHANGED <<pc, ent>>
             ELSE /\ pc' = [pc EXCEPT ![Reconciler] = "liveStamp"]
                  /\ ent' = [ent EXCEPT ![Reconciler] = Track(i, snap[i])]
  /\ UNCHANGED <<env, pveVars, gate, vmidGate, plan, target, crashes>>

\* The retry of a missing stamp, by VMID, and its save.
LiveStamp ==
  /\ pc[Reconciler] = "liveStamp"
  /\ LET i == ent[Reconciler].id IN
     \/ SetNotes(row[i].vmid, i, TRUE) /\ Goto(Reconciler, "liveSave")
        /\ UNCHANGED <<ent, plan, target>>
     \/ SetNotes(row[i].vmid, i, FALSE) /\ Leave(Reconciler, "done")
  /\ UNCHANGED <<env, dbVars, task, recVars, crashes>>

LiveSave ==
  /\ pc[Reconciler] = "liveSave"
  /\ LET i == ent[Reconciler].id IN PassSave(i, [row[i] EXCEPT !.stamped = TRUE])
  /\ Leave(Reconciler, "done")
  /\ UNCHANGED <<env, pveVars, snap, inv, crashes>>

ReconcileRow(i) ==
  Skip(i) \/ ReconcileProvisioning(i) \/ ReconcileDead(i) \/ ReconcileLive(i)

ReconcilerStep ==
  \/ BeginPass \/ EndPass \/ LiveStamp \/ LiveSave
  \/ \E i \in Connects : ReconcileRow(i)

-----------------------------------------------------------------------------
\* VdiPoolsController.Deprovision, for a desktop without a session: no gate.

Deprovision(a) ==
  /\ pc[a] = "idle" /\ May("deprovision")
  /\ \E i \in Connects :
       /\ Live(i)
       /\ row' = [row EXCEPT ![i].state = "Deprovisioning"]
       /\ ent' = [ent EXCEPT ![a] = Track(i, row[i])]
  /\ Goto(a, "verify")
  /\ UNCHANGED <<env, pveVars, plan, target, recVars, crashes>>

-----------------------------------------------------------------------------
\* The surroundings.

CloneEnds(i) ==
  /\ task[i] = "running"
  /\ task' = [task EXCEPT ![i] = "ok"]
  /\ UNCHANGED <<env, dbVars, vm, gate, vmidGate, pc, ent, plan, target, recVars, crashes>>

\* A failed clone task takes its VM away.
CloneFails(i) ==
  /\ task[i] = "running" /\ May("cloneFails")
  /\ task' = [task EXCEPT ![i] = "failed"]
  /\ vm' = [v \in VmIds |-> IF vm[v].by = i THEN AbsentVm ELSE vm[v]]
  /\ UNCHANGED <<env, dbVars, gate, vmidGate, pc, ent, plan, target, recVars, crashes>>

CreateForeign(v) ==
  /\ May("foreign") /\ ~Exists(v)
  /\ vm' = [vm EXCEPT ![v] = Foreign]
  /\ UNCHANGED <<env, dbVars, task, gate, vmidGate, pc, ent, plan, target, recVars, crashes>>

DeleteOutOfBand(v) ==
  /\ May("delete") /\ Exists(v) /\ ~Cloning(v)
  /\ vm' = [vm EXCEPT ![v] = AbsentVm]
  /\ UNCHANGED <<env, dbVars, task, gate, vmidGate, pc, ent, plan, target, recVars, crashes>>

\* Everything in memory is lost; rows, VMs and tasks stay.
Crash ==
  /\ May("crash") /\ crashes < MaxCrashes
  /\ crashes' = crashes + 1
  /\ gate' = [o \in Owners |-> Nobody]
  /\ vmidGate' = Nobody
  /\ pc' = [p \in Procs |-> IF p = Reconciler THEN "idle"
                            ELSE IF pc[p] \in {"idle", "done"} THEN pc[p] ELSE "failed"]
  /\ ent' = [p \in Procs |-> IF pc[p] = "done" THEN ent[p] ELSE NoEntity]
  /\ plan' = [c \in Connects |-> 0]
  /\ target' = [p \in Procs |-> 0]
  /\ snap' = [i \in Connects |-> NoRow]
  /\ inv' = NotLoaded
  /\ poisoned' = FALSE
  /\ UNCHANGED <<env, dbVars, pveVars>>

Environment ==
  \/ \E i \in Connects : CloneEnds(i) \/ CloneFails(i)
  \/ \E v \in VmIds : CreateForeign(v) \/ DeleteOutOfBand(v)
  \/ Crash

-----------------------------------------------------------------------------
Init ==
  /\ env \in Environments
  /\ row = [i \in Connects |-> NoRow]
  /\ task = [i \in Connects |-> "none"]
  /\ vm = [v \in VmIds |-> AbsentVm]
  /\ gate = [o \in Owners |-> Nobody]
  /\ vmidGate = Nobody
  /\ pc = [p \in Procs |-> "idle"]
  /\ ent = [p \in Procs |-> NoEntity]
  /\ plan = [c \in Connects |-> 0]
  /\ target = [p \in Procs |-> 0]
  /\ snap = [i \in Connects |-> NoRow]
  /\ inv = NotLoaded
  /\ poisoned = FALSE
  /\ crashes = 0

Next ==
  \/ \E c \in Connects : ConnectStep(c)
  \/ \E p \in Procs : SharedStep(p)
  \/ ReconcilerStep
  \/ \E a \in Admins : Deprovision(a)
  \/ Environment

Spec == Init /\ [][Next]_vars

\* A request that started runs on (readiness is not cancelled with the caller)
\* and the reconcile loop keeps making passes.  A row that stays where it is gets
\* past the age guards, so that in the end a pass that finds its gate free works
\* on it.  Proxmox ends every clone task.
Fairness ==
  /\ \A c \in Connects : WF_vars(pc[c] # "idle" /\ ConnectStep(c))
  /\ \A p \in Procs : WF_vars(SharedStep(p))
  /\ WF_vars(ReconcilerStep)
  /\ \A i \in Connects :
       /\ SF_vars(ReconcileProvisioning(i)) /\ SF_vars(ReconcileDead(i))
       /\ WF_vars(CloneEnds(i) \/ CloneFails(i))

FairSpec == Spec /\ Fairness

-----------------------------------------------------------------------------
TypeOK ==
  /\ env \in Environments
  /\ row \in [Connects -> Row]
  /\ task \in [Connects -> {"none", "running", "ok", "failed"}]
  /\ vm \in [VmIds -> Vm]
  /\ gate \in [Owners -> Procs \cup {Nobody}]
  /\ vmidGate \in Procs \cup {Nobody}
  /\ pc \in [Procs -> {"idle", "fastCheck", "wait", "recheck", "clear", "stamp", "verify",
                       "destroy", "drop", "pick", "insert", "post", "saveUpid", "waitTask",
                       "finish", "identity", "ready", "scan", "liveStamp", "liveSave",
                       "done", "failed"}]
  /\ ent \in [Procs -> Entity]
  /\ plan \in [Connects -> VmIds \cup {0}]
  /\ target \in [Procs -> VmIds \cup {0}]
  /\ snap \in [Connects -> Row]
  /\ inv \in Inventory
  /\ poisoned \in BOOLEAN
  /\ crashes \in Nat

InSection(p) ==
  /\ p \notin Admins
  /\ pc[p] \in {"recheck", "clear", "stamp", "verify", "destroy", "drop", "pick", "insert",
                "post", "saveUpid", "waitTask", "finish", "identity", "ready"}
PairOf(p) == IF p \in Connects THEN OwnerOf[p] ELSE OwnerOf[ent[p].id]

\* At most one of the connect requests and the reconciler works on the desktop of
\* a (pool, user) pair, whatever fails (_locks, "a double-click cannot clone two
\* VMs for one user").
OneWorkerPerPair ==
  \A p, q \in Procs :
    InSection(p) /\ InSection(q) /\ PairOf(p) = PairOf(q) => p = q

\* Two tracked desktops never claim the same VMID, whatever fails: the claims are
\* read, stepped past and inserted under _vmidGate.
DistinctVmIds ==
  \A i, j \in Connects : Live(i) /\ Live(j) /\ row[i].vmid = row[j].vmid => i = j

\* A row is Ready only after Proxmox reported its own clone task OK, on the
\* connect path and when the reconciler resumes an interrupted one.
ReadyIsCloned == \A i \in Connects : row[i].state = "Ready" => task[i] = "ok"

\* The rows are well formed, never share a VMID, and are Ready only for a clone that
\* ended well.
RowsConsistent == TypeOK /\ DistinctVmIds /\ ReadyIsCloned

\* Every VM the gateway cloned has its tracking row: no VM is forgotten ("no leak").
NoLeak == \A v \in VmIds : vm[v].kind = "clone" => Live(vm[v].by)

\* Clones fail and stamps are refused, the gateway restarts and others use the VMIDs, but
\* the backend answers in time and its VMs and the rows are left to the gateway.
Calm == env \subseteq {"refuse", "cloneFails", "noStamp", "foreign", "crash"}

\* Once its clone task is recorded a VM is not forgotten, neither by a restart nor
\* when clones or stamps fail, as long as the clone is not given up while it runs,
\* the backend answers and nobody deprovisions.
RecordedCloneKept ==
  env \subseteq {"refuse", "cloneFails", "noStamp", "foreign", "delete", "crash"} =>
    \A v \in VmIds : vm[v].kind = "clone" /\ row[vm[v].by].upid => Live(vm[v].by)

\* The VM a guarded destroy is about to delete was cloned for the row it acts for
\* ("destroyed only after its notes stamp verifies", "never by VMID alone").
Destroys(p)   == pc[p] = "destroy" /\ Exists(target[p])
OwnsTarget(p) == vm[target[p]].by = ent[p].id

TargetIsOwn == \A p \in Procs : Destroys(p) => OwnsTarget(p)

\* While others use the VMIDs but all is calm nothing is destroyed: a clone that failed took
\* its VM along, and one that ended well is never given up.  While no others use the VMIDs
\* the VM is that of the row, if the row is still there, whatever fails: recycled VMIDs,
\* refused stamps, clones that were given up, retries and restarts do not mislead the destroy.
DestroysOwnVm ==
  /\ Calm => \A p \in Procs : ~Destroys(p)
  /\ ~May("foreign") => \A p \in Procs : Destroys(p) /\ Live(ent[p].id) => OwnsTarget(p)

\* The gateway loses none of its clones and destroys none but its own.
ClonesAreKept == RecordedCloneKept /\ DestroysOwnVm

\* A request that gets as far as inserting a row finds no row of its pair.
InsertNeverCollides ==
  \A c \in Connects : pc[c] = "insert" => RowsOf(OwnerOf[c]) = {}

\* A Ready desktop whose VM is there stays Ready: neither the connect path nor the
\* reconciler reclones a desktop that could be used.
KeepsLiveDesktop ==
  [][\A i \in Connects :
       row[i].state = "Ready" /\ vm[row[i].vmid].by = i => row'[i].state = "Ready"]_vars

\* The same while the backend answers, nobody deprovisions and passes are short.
KeepsLiveDesktopOnline ==
  [][env \cap {"outage", "deprovision", "longPass"} = {} =>
       \A i \in Connects :
         row[i].state = "Ready" /\ vm[row[i].vmid].by = i => row'[i].state = "Ready"]_vars

\* A row is not stuck in Provisioning, where its unique index would lock the user
\* out, even when the gateway restarts in the middle of the clone.
ProvisioningEnds ==
  \A i \in Connects : row[i].state = "Provisioning" ~> row[i].state # "Provisioning"

\* A Failed or Deprovisioning row is cleaned up in the end.
DeadRowsGo == \A i \in Connects : Dead(row[i].state) ~> ~Dead(row[i].state)

\* No row locks its user out for good.
RowsMoveOn == ProvisioningEnds /\ DeadRowsGo

\* Every connect request gets an answer.
ConnectsEnd == \A c \in Connects : pc[c] # "idle" ~> pc[c] \in {"done", "failed"}

\* A connect request is answered with a desktop that is Ready at that moment, as long as
\* all is calm.
HandsOutReady ==
  [][Calm => \A c \in Connects :
       pc[c] # "done" /\ pc'[c] = "done" => row'[ent[c].id].state = "Ready"]_vars

\* What a user gets: a desktop that works is kept, and a working one is handed out.
DesktopsServe == KeepsLiveDesktopOnline /\ HandsOutReady

=============================================================================
