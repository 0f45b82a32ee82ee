------------------------ MODULE VdiProvisioningProofs ------------------------
(***************************************************************************)
(* Proofs about VdiProvisioning, for any number of users, requests,        *)
(* administrators and VMIDs, and for any environment.                      *)
(***************************************************************************)
EXTENDS VdiProvisioning, TLAPS

-----------------------------------------------------------------------------
\* Type correctness.

PCs == {"idle", "fastCheck", "wait", "recheck", "clear", "stamp", "verify",
        "destroy", "drop", "pick", "insert", "post", "saveUpid", "waitTask",
        "finish", "identity", "ready", "scan", "liveStamp", "liveSave",
        "done", "failed"}

\* The part of TypeOK that leaving a call and moving on write.
LocalOK ==
  /\ gate \in [Owners -> Procs \cup {Nobody}]
  /\ vmidGate \in Procs \cup {Nobody}
  /\ pc \in [Procs -> PCs]
  /\ ent \in [Procs -> Entity]
  /\ plan \in [Connects -> VmIds \cup {0}]
  /\ target \in [Procs -> VmIds \cup {0}]

\* The rest.
GlobalOK ==
  /\ env \in Environments
  /\ row \in [Connects -> Row]
  /\ task \in [Connects -> {"none", "running", "ok", "failed"}]
  /\ vm \in [VmIds -> Vm]
  /\ snap \in [Connects -> Row]
  /\ inv \in Inventory
  /\ poisoned \in BOOLEAN
  /\ crashes \in Nat

\* TypeOK is the two parts together.
LEMMA TypeParts == TypeOK <=> LocalOK /\ GlobalOK
  BY DEF TypeOK, LocalOK, GlobalOK, PCs

\* NoEntity and NoRow are an entity and a row.
LEMMA NullTypes == NoEntity \in Entity /\ NoRow \in Row
  BY DEF NoEntity, Entity, NoRow, Row, States

\* A tracked copy of a typed row is an entity.
LEMMA TrackType ==
  ASSUME NEW i \in Connects, NEW r \in Row
  PROVE  Track(i, r) \in Entity
  BY DEF Track, Row, Entity

\* What a query returns is an entity.
LEMMA QueryType ==
  ASSUME LocalOK, GlobalOK, NEW p \in Procs, NEW i \in Connects
  PROVE  Query(p, i) \in Entity
  BY TrackType DEF Query, LocalOK, GlobalOK

\* Leaving a service call keeps the local variables typed.
LEMMA LeaveType ==
  ASSUME LocalOK, NEW p \in Procs, NEW how \in {"done", "failed"}, Leave(p, how)
  PROVE  LocalOK'
  BY NullTypes DEF LocalOK, Leave, Released, PCs

\* So does throwing out of one.
LEMMA ThrowType ==
  ASSUME LocalOK, poisoned \in BOOLEAN, NEW p \in Procs, Throw(p)
  PROVE  LocalOK' /\ poisoned' \in BOOLEAN
  BY LeaveType, "failed" \in {"done", "failed"} DEF Throw

\* So does going on, when the tracked copy and the choices are typed.
LEMMA GotoType ==
  ASSUME LocalOK, NEW p \in Procs, NEW l \in PCs, Goto(p, l),
         ent' \in [Procs -> Entity], plan' \in [Connects -> VmIds \cup {0}],
         target' \in [Procs -> VmIds \cup {0}]
  PROVE  LocalOK'
  BY DEF LocalOK, Goto

\* Notes change only the note of a VM.
LEMMA SetNotesType ==
  ASSUME vm \in [VmIds -> Vm], NEW v, NEW i \in Connects \cup {Nobody},
         NEW ok \in BOOLEAN, SetNotes(v, i, ok)
  PROVE  vm' \in [VmIds -> Vm]
  BY DEF SetNotes, Vm

\* The inventory Proxmox reports is a set of VMIDs.
LEMMA ListVmsType == ASSUME NEW vms \in ListVms PROVE vms \in SUBSET VmIds
  BY DEF ListVms

\* Changing one column of one row keeps the table typed.
LEMMA RowStateType ==
  ASSUME row \in [Connects -> Row], NEW i, NEW s \in States
  PROVE  [row EXCEPT ![i].state = s] \in [Connects -> Row]
<1>1. \A r \in Row : [r EXCEPT !.state = s] \in Row
  BY DEF Row
<1> QED BY <1>1

\* So does setting one of its flags.
LEMMA RowFlagType ==
  ASSUME row \in [Connects -> Row], NEW i, NEW b \in BOOLEAN
  PROVE  /\ [row EXCEPT ![i].stamped = b] \in [Connects -> Row]
         /\ [row EXCEPT ![i].upid = b] \in [Connects -> Row]
<1>1. \A r \in Row : [r EXCEPT !.stamped = b] \in Row /\ [r EXCEPT !.upid = b] \in Row
  BY DEF Row
<1> QED BY <1>1

\* Changing one field of one tracked copy keeps the copies typed.
LEMMA EntityStateType ==
  ASSUME ent \in [Procs -> Entity], NEW p, NEW s \in States
  PROVE  [ent EXCEPT ![p].state = s] \in [Procs -> Entity]
<1>1. \A e \in Entity : [e EXCEPT !.state = s] \in Entity
  BY DEF Entity
<1> QED BY <1>1

\* So does setting one of its flags.
LEMMA EntityFlagType ==
  ASSUME ent \in [Procs -> Entity], NEW p, NEW b \in BOOLEAN
  PROVE  /\ [ent EXCEPT ![p].upid = b] \in [Procs -> Entity]
         /\ [ent EXCEPT ![p].stamped = b] \in [Procs -> Entity]
         /\ [ent EXCEPT ![p].mark = b] \in [Procs -> Entity]
<1>1. \A e \in Entity : /\ [e EXCEPT !.upid = b] \in Entity
                        /\ [e EXCEPT !.stamped = b] \in Entity
                        /\ [e EXCEPT !.mark = b] \in Entity
  BY DEF Entity
<1> QED BY <1>1

\* Every step of a connect request keeps the variables typed.
LEMMA ConnectType ==
  ASSUME LocalOK, GlobalOK, NEW c \in Connects, ConnectStep(c)
  PROVE  LocalOK' /\ GlobalOK'
<1> USE ConstantsAssumption DEF dbVars, pveVars, recVars
<1>s. {"Failed", "Ready", "Deprovisioning", "Provisioning", "removed"} \subseteq States
  BY DEF States
<1>0. LocalOK /\ GlobalOK /\ c \in Procs /\ OwnerOf[c] \in Owners
  BY DEF Procs
<1>1. CASE Request(c)
  BY <1>0, <1>1, TrackType DEF Request, Existing, RowsOf, Goto, LocalOK, GlobalOK, PCs
<1>2. CASE FastCheck(c)
  <2>1. CASE Leave(c, "done") /\ UNCHANGED <<env, dbVars, pveVars, recVars, crashes>>
    BY <1>0, <2>1, LeaveType DEF GlobalOK
  <2>2. CASE Goto(c, "wait") /\ UNCHANGED <<ent, plan, target, env, dbVars, pveVars, recVars, crashes>>
    BY <1>0, <2>2 DEF Goto, LocalOK, GlobalOK, PCs
  <2> QED BY <1>2, <2>1, <2>2 DEF FastCheck
<1>3. CASE Enter(c)
  BY <1>0, <1>3, QueryType DEF Enter, Existing, RowsOf, LocalOK, GlobalOK, PCs
<1>4. CASE Recheck(c)
  <2>1. row' \in [Connects -> Row]
    <3>1. [row EXCEPT ![ent[c].id].state = "Deprovisioning"] \in [Connects -> Row]
      BY <1>0, <1>s, RowStateType DEF GlobalOK
    <3> QED BY <1>0, <1>4, <3>1 DEF Recheck, GlobalOK
  <2>2. CASE Leave(c, "done") /\ UNCHANGED <<row, poisoned>>
    BY <1>0, <1>4, <2>2, LeaveType DEF Recheck, GlobalOK
  <2>3. CASE /\ ent' = [ent EXCEPT ![c].state = "Deprovisioning"]
             /\ Goto(c, "clear") /\ UNCHANGED <<plan, target, poisoned>>
    <3>1. ent' \in [Procs -> Entity]
      BY <1>0, <2>3, EntityStateType, <1>s DEF LocalOK
    <3> QED BY <1>0, <1>4, <2>1, <2>3, <3>1 DEF Recheck, Goto, LocalOK, GlobalOK, PCs
  <2>4. CASE Throw(c) /\ UNCHANGED row
    BY <1>0, <1>4, <2>4, ThrowType DEF Recheck, GlobalOK
  <2> QED BY <1>4, <2>2, <2>3, <2>4 DEF Recheck
<1>5. CASE Clear(c)
  <2>1. GlobalOK' \/ Throw(c)
    BY <1>0, <1>5 DEF Clear, GlobalOK
  <2>2. CASE Throw(c)
    BY <1>0, <1>5, <2>2, ThrowType DEF Clear, GlobalOK
  <2>3. CASE ~Throw(c)
    <3>1. ent' \in [Procs -> Entity]
      BY <1>0, <1>5, <2>3, QueryType, NullTypes DEF Clear, RowsOf, LocalOK
    <3> QED BY <1>0, <1>5, <2>1, <2>3, <3>1 DEF Clear, Goto, LocalOK, PCs
  <2> QED BY <2>2, <2>3
<1>6. CASE Pick(c)
  <2>1. CASE Leave(c, "failed")
    BY <1>0, <1>6, <2>1, LeaveType DEF Pick, GlobalOK
  <2>2. CASE ~Leave(c, "failed")
    <3>1. \A taken : NextVmId(taken) \subseteq VmIds
      BY DEF NextVmId, Least
    <3> QED BY <1>0, <1>6, <2>2, <3>1 DEF Pick, LocalOK, GlobalOK, PCs
  <2> QED BY <2>1, <2>2
<1>7. CASE Insert(c)
  <2>1. CASE RowsOf(OwnerOf[c]) # {}
    BY <1>0, <1>7, <2>1, ThrowType DEF Insert, GlobalOK
  <2>2. CASE RowsOf(OwnerOf[c]) = {}
    <3>1. row' \in [Connects -> Row]
      <4>1. [NoRow EXCEPT !.vmid = plan[c], !.state = "Provisioning"] \in Row
        BY <1>0 DEF LocalOK, NoRow, Row, States
      <4> QED BY <1>0, <1>7, <2>2, <4>1 DEF Insert, GlobalOK
    <3>2. ent' \in [Procs -> Entity]
      <4>1. [NoEntity EXCEPT !.id = c, !.state = "Provisioning"] \in Entity
        BY DEF NoEntity, Entity, States
      <4> QED BY <1>0, <1>7, <2>2, <4>1 DEF Insert, LocalOK
    <3> QED BY <1>0, <1>7, <2>2, <3>1, <3>2 DEF Insert, Goto, LocalOK, GlobalOK, PCs
  <2> QED BY <2>1, <2>2
<1>8. CASE Post(c)
  <2>1. vm' \in [VmIds -> Vm] /\ task' \in [Connects -> {"none", "running", "ok", "failed"}]
    BY <1>0, <1>8 DEF Post, GlobalOK, Vm
  <2>2. CASE FailRow(c)
    <3>1. row' \in [Connects -> Row]
      BY <1>0, <1>s, <2>2, RowStateType DEF FailRow, GlobalOK
    <3> QED BY <1>0, <1>8, <2>1, <2>2, <3>1, LeaveType DEF Post, FailRow, GlobalOK
  <2>3. CASE ~FailRow(c)
    BY <1>0, <1>8, <2>1, <2>3 DEF Post, LocalOK, GlobalOK, PCs
  <2> QED BY <2>2, <2>3
<1>9. CASE SaveUpid(c)
  <2>1. CASE ~CanSave(c, c)
    BY <1>0, <1>9, <2>1, ThrowType DEF SaveUpid, GlobalOK
  <2>2. CASE CanSave(c, c)
    <3>1. row' \in [Connects -> Row]
      <4>1. [row EXCEPT ![c].upid = TRUE] \in [Connects -> Row]
        BY <1>0, RowFlagType DEF GlobalOK
      <4> QED BY <1>9, <2>2, <4>1 DEF SaveUpid
    <3>2. ent' \in [Procs -> Entity]
      <4>1. [ent EXCEPT ![c].upid = TRUE] \in [Procs -> Entity]
        BY <1>0, EntityFlagType DEF LocalOK
      <4> QED BY <1>9, <2>2, <4>1 DEF SaveUpid
    <3> QED BY <1>0, <1>9, <2>2, <3>1, <3>2 DEF SaveUpid, Goto, LocalOK, GlobalOK, PCs
  <2> QED BY <2>1, <2>2
<1>10. CASE WaitForTask(c)
  <2>1. CASE FailRow(c)
    <3>1. row' \in [Connects -> Row]
      BY <1>0, <1>s, <2>1, RowStateType DEF FailRow, GlobalOK
    <3> QED BY <1>0, <1>10, <2>1, <3>1, LeaveType DEF WaitForTask, FailRow, GlobalOK
  <2>2. CASE ~FailRow(c)
    BY <1>0, <1>10, <2>2 DEF WaitForTask, Goto, LocalOK, GlobalOK, PCs
  <2> QED BY <2>1, <2>2
<1> QED BY <1>1, <1>2, <1>3, <1>4, <1>5, <1>6, <1>7, <1>8, <1>9, <1>10 DEF ConnectStep

\* So does every step the callers share.
LEMMA SharedType ==
  ASSUME LocalOK, GlobalOK, NEW p \in Procs, SharedStep(p)
  PROVE  LocalOK' /\ GlobalOK'
<1> USE ConstantsAssumption DEF dbVars, pveVars, recVars
<1> DEFINE i == ent[p].id
<1>0. i \in Connects \cup {Nobody}
  BY DEF LocalOK, Entity
<1>1. CASE Stamp(p)
  <2>1. vm' \in [VmIds -> Vm]
    BY <1>0, <1>1, SetNotesType DEF Stamp, GlobalOK
  <2> QED BY <1>1, <2>1 DEF Stamp, Goto, LocalOK, GlobalOK, PCs
<1>2. CASE Verify(p)
  <2>1. Bound(i) \subseteq VmIds \cup {0}
    BY DEF Bound
  <2> QED BY <1>2, <2>1 DEF Verify, Goto, LocalOK, GlobalOK, PCs
<1>3. CASE Destroy(p)
  <2>1. vm' \in [VmIds -> Vm]
    BY <1>3 DEF Destroy, DestroyVm, GlobalOK, AbsentVm, Vm
  <2> QED BY <1>3, <2>1 DEF Destroy, Goto, LocalOK, GlobalOK, PCs
<1>4. CASE Drop(p)
  <2>1. [row EXCEPT ![i].state = "removed"] \in [Connects -> Row]
    BY RowStateType DEF GlobalOK, States
  <2>2. CASE ~CanSave(p, i)
    BY <1>4, <2>2, ThrowType DEF Drop, GlobalOK
  <2>3. CASE CanSave(p, i) /\ p \in Connects
    BY <1>4, <2>1, <2>3, NullTypes DEF Drop, Goto, LocalOK, GlobalOK, PCs
  <2>4. CASE CanSave(p, i) /\ p \notin Connects
    BY <1>4, <2>1, <2>4, LeaveType DEF Drop, GlobalOK
  <2> QED BY <2>2, <2>3, <2>4
<1>5. CASE Finish(p)
  <2>1. PICK ok \in BOOLEAN : SetNotes(row[i].vmid, i, ok) /\ ent' = [ent EXCEPT ![p].mark = ok]
    BY <1>5 DEF Finish
  <2>2. vm' \in [VmIds -> Vm]
    BY <1>0, <2>1, SetNotesType DEF GlobalOK
  <2>3. ent' \in [Procs -> Entity]
    BY <2>1, EntityFlagType DEF LocalOK
  <2> QED BY <1>5, <2>2, <2>3 DEF Finish, Goto, LocalOK, GlobalOK, PCs
<1>6. CASE Identity(p)
  <2>1. ent[p].mark \in BOOLEAN
    BY DEF LocalOK, Entity
  <2>2. [ent EXCEPT ![p].stamped = ent[p].mark] \in [Procs -> Entity]
    BY <2>1, EntityFlagType DEF LocalOK
  <2>3. [row EXCEPT ![i].stamped = Marked(i, ent[p])] \in [Connects -> Row]
    <3>1. i \in Connects => Marked(i, ent[p]) \in BOOLEAN
      BY <2>1 DEF Marked, GlobalOK, Row
    <3>2. \A r \in Row, b \in BOOLEAN : [r EXCEPT !.stamped = b] \in Row
      BY DEF Row
    <3> QED BY <3>1, <3>2 DEF GlobalOK
  <2>4. CASE ~CanSave(p, i) /\ Throw(p) /\ UNCHANGED row
    BY <1>6, <2>4, ThrowType DEF Identity, GlobalOK
  <2>5. CASE Goto(p, "ready") /\ UNCHANGED <<row, ent, plan, target, poisoned>>
    BY <1>6, <2>5 DEF Identity, Goto, LocalOK, GlobalOK, PCs
  <2>6. CASE /\ row' = [row EXCEPT ![i].stamped = Marked(i, ent[p])]
             /\ ent' = [ent EXCEPT ![p].stamped = ent[p].mark]
             /\ Goto(p, "ready") /\ UNCHANGED <<plan, target, poisoned>>
    BY <1>6, <2>2, <2>3, <2>6 DEF Identity, Goto, LocalOK, GlobalOK, PCs
  <2> QED BY <1>6, <2>4, <2>5, <2>6 DEF Identity
<1>7. CASE MarkReady(p)
  <2>1. [row EXCEPT ![i].state = "Ready", ![i].stamped = Marked(i, ent[p])] \in [Connects -> Row]
    <3>1. ent[p].mark \in BOOLEAN
      BY DEF LocalOK, Entity
    <3>2. i \in Connects => Marked(i, ent[p]) \in BOOLEAN
      BY <3>1 DEF Marked, GlobalOK, Row
    <3>3. \A r \in Row, b \in BOOLEAN : [[r EXCEPT !.state = "Ready"] EXCEPT !.stamped = b] \in Row
      BY DEF Row, States
    <3> QED BY <3>2, <3>3 DEF GlobalOK
  <2>2. CASE ~CanSave(p, i)
    BY <1>7, <2>2, ThrowType DEF MarkReady, GlobalOK
  <2>3. CASE CanSave(p, i)
    BY <1>7, <2>1, <2>3, LeaveType DEF MarkReady, GlobalOK
  <2> QED BY <2>2, <2>3
<1> QED BY <1>1, <1>2, <1>3, <1>4, <1>5, <1>6, <1>7 DEF SharedStep

\* A save in the middle of a pass keeps the table typed.
LEMMA PassSaveType ==
  ASSUME GlobalOK, NEW i, NEW r, i \in Connects => r \in Row, PassSave(i, r)
  PROVE  row' \in [Connects -> Row] /\ poisoned' \in BOOLEAN
  BY DEF PassSave, GlobalOK

\* Every step of a reconcile pass keeps the variables typed.
LEMMA ReconcilerType ==
  ASSUME LocalOK, GlobalOK, ReconcilerStep
  PROVE  LocalOK' /\ GlobalOK'
<1> USE ConstantsAssumption DEF dbVars, pveVars, recVars
<1>0. Reconciler \in Procs
  BY DEF Procs
<1>s. \A r \in Row : [r EXCEPT !.state = "Failed"] \in Row /\ [r EXCEPT !.stamped = TRUE] \in Row
  BY DEF Row, States
<1>1. CASE BeginPass
  BY <1>0, <1>1, NullTypes DEF BeginPass, Goto, LocalOK, GlobalOK, PCs
<1>2. CASE EndPass
  BY <1>0, <1>2 DEF EndPass, Goto, NotLoaded, Inventory, LocalOK, GlobalOK, PCs
<1>3. CASE LiveStamp
  <2> DEFINE i == ent[Reconciler].id
  <2>1. i \in Connects \cup {Nobody}
    BY <1>0 DEF LocalOK, Entity
  <2>2. vm' \in [VmIds -> Vm]
    BY <1>3, <2>1, SetNotesType DEF LiveStamp, GlobalOK
  <2>3. CASE Leave(Reconciler, "done")
    BY <1>0, <1>3, <2>2, <2>3, LeaveType DEF LiveStamp, GlobalOK
  <2>4. CASE Goto(Reconciler, "liveSave") /\ UNCHANGED <<ent, plan, target>>
    BY <1>0, <1>3, <2>2, <2>4 DEF LiveStamp, Goto, LocalOK, GlobalOK, PCs
  <2> QED BY <1>3, <2>3, <2>4 DEF LiveStamp
<1>4. CASE LiveSave
  <2> DEFINE i == ent[Reconciler].id
  <2>1. i \in Connects => [row[i] EXCEPT !.stamped = TRUE] \in Row
    BY <1>s DEF GlobalOK
  <2>2. row' \in [Connects -> Row] /\ poisoned' \in BOOLEAN
    BY <1>4, <2>1, PassSaveType DEF LiveSave
  <2> QED BY <1>0, <1>4, <2>2, LeaveType DEF LiveSave, GlobalOK
<1>5. ASSUME NEW i \in Connects, ReconcileRow(i)
      PROVE  LocalOK' /\ GlobalOK'
  <2>0. Track(i, snap[i]) \in Entity /\ OwnerOf[i] \in Owners
    BY TrackType DEF GlobalOK
  <2>f. [row[i] EXCEPT !.state = "Failed"] \in Row
    BY <1>s DEF GlobalOK
  <2>t. Taken(i) => snap' \in [Connects -> Row]
    BY NullTypes DEF Taken, GlobalOK
  <2>1. CASE Skip(i)
    BY <2>1, <2>t DEF Skip, LocalOK, GlobalOK
  <2>2. CASE ReconcileProvisioning(i)
    <3>1. row' \in [Connects -> Row] /\ poisoned' \in BOOLEAN
      BY <2>2, <2>f, PassSaveType DEF ReconcileProvisioning, GlobalOK
    <3> QED BY <1>0, <2>0, <2>2, <2>t, <3>1 DEF ReconcileProvisioning, LocalOK, GlobalOK, PCs
  <2>3. CASE ReconcileDead(i)
    BY <1>0, <2>0, <2>3, <2>t DEF ReconcileDead, LocalOK, GlobalOK, PCs
  <2>4. CASE ReconcileLive(i)
    <3>1. row' \in [Connects -> Row] /\ poisoned' \in BOOLEAN
      BY <2>4, <2>f, PassSaveType DEF ReconcileLive, GlobalOK
    <3>2. inv' \in Inventory
      BY <2>4, ListVmsType DEF ReconcileLive, GlobalOK, Inventory
    <3>3. pc' \in [Procs -> PCs] /\ ent' \in [Procs -> Entity]
      BY <1>0, <2>0, <2>4 DEF ReconcileLive, LocalOK, PCs
    <3> QED BY <2>4, <2>t, <3>1, <3>2, <3>3 DEF ReconcileLive, LocalOK, GlobalOK
  <2> QED BY <1>5, <2>1, <2>2, <2>3, <2>4 DEF ReconcileRow
<1> QED BY <1>1, <1>2, <1>3, <1>4, <1>5 DEF ReconcilerStep

\* Deprovision and the surroundings keep the variables typed.
LEMMA OutsideType ==
  ASSUME LocalOK, GlobalOK, Environment \/ \E a \in Admins : Deprovision(a)
  PROVE  LocalOK' /\ GlobalOK'
<1> USE ConstantsAssumption DEF dbVars, pveVars, recVars
<1>1. ASSUME NEW a \in Admins, Deprovision(a)
      PROVE  LocalOK' /\ GlobalOK'
  <2>1. PICK i \in Connects : /\ row' = [row EXCEPT ![i].state = "Deprovisioning"]
                              /\ ent' = [ent EXCEPT ![a] = Track(i, row[i])]
    BY <1>1 DEF Deprovision
  <2>2. row' \in [Connects -> Row]
    BY <2>1, RowStateType DEF GlobalOK, States
  <2>3. ent' \in [Procs -> Entity]
    BY <2>1, TrackType DEF LocalOK, GlobalOK
  <2> QED BY <1>1, <2>2, <2>3 DEF Deprovision, Goto, LocalOK, GlobalOK, Procs, PCs
<1>2. ASSUME NEW i \in Connects, CloneEnds(i) \/ CloneFails(i)
      PROVE  LocalOK' /\ GlobalOK'
  BY <1>2 DEF CloneEnds, CloneFails, AbsentVm, Vm, LocalOK, GlobalOK
<1>3. ASSUME NEW v \in VmIds, CreateForeign(v) \/ DeleteOutOfBand(v)
      PROVE  LocalOK' /\ GlobalOK'
  BY <1>3 DEF CreateForeign, DeleteOutOfBand, AbsentVm, Foreign, Vm, LocalOK, GlobalOK
<1>4. CASE Crash
  <2>1. pc' \in [Procs -> PCs]
    BY <1>4 DEF Crash, LocalOK, PCs
  <2>2. ent' \in [Procs -> Entity]
    BY <1>4, NullTypes DEF Crash, LocalOK
  <2>3. gate' \in [Owners -> Procs \cup {Nobody}] /\ vmidGate' \in Procs \cup {Nobody}
    BY <1>4 DEF Crash
  <2>4. plan' \in [Connects -> VmIds \cup {0}] /\ target' \in [Procs -> VmIds \cup {0}]
    BY <1>4 DEF Crash
  <2>5. GlobalOK'
    <3>1. crashes' \in Nat
      BY <1>4 DEF Crash, GlobalOK
    <3>2. snap' \in [Connects -> Row]
      BY <1>4, NullTypes DEF Crash
    <3>3. inv' \in Inventory
      BY <1>4 DEF Crash, NotLoaded, Inventory
    <3>4. poisoned' \in BOOLEAN /\ UNCHANGED <<env, row, task, vm>>
      BY <1>4 DEF Crash
    <3> QED BY <3>1, <3>2, <3>3, <3>4 DEF GlobalOK
  <2> QED BY <2>1, <2>2, <2>3, <2>4, <2>5 DEF LocalOK
<1> QED BY <1>1, <1>2, <1>3, <1>4 DEF Environment

\* Every variable keeps its type, in any environment.
THEOREM TypeCorrect == Spec => []TypeOK
<1>1. Init => TypeOK
  <2> SUFFICES ASSUME Init PROVE TypeOK
    OBVIOUS
  <2>1. LocalOK
    BY NullTypes DEF Init, LocalOK, PCs
  <2>2. GlobalOK
    BY NullTypes DEF Init, NotLoaded, Inventory, AbsentVm, Vm, GlobalOK
  <2> QED BY <2>1, <2>2, TypeParts
<1>2. TypeOK /\ [Next]_vars => TypeOK'
  <2> SUFFICES ASSUME TypeOK, [Next]_vars PROVE TypeOK'
    OBVIOUS
  <2>0. LocalOK /\ GlobalOK
    BY TypeParts
  <2>1. LocalOK' /\ GlobalOK'
    <3>1. CASE Next
      <4>1. CASE \E c \in Connects : ConnectStep(c)
        BY <2>0, <4>1, ConnectType
      <4>2. CASE \E p \in Procs : SharedStep(p)
        BY <2>0, <4>2, SharedType
      <4>3. CASE ReconcilerStep
        BY <2>0, <4>3, ReconcilerType
      <4>4. CASE Environment \/ \E a \in Admins : Deprovision(a)
        BY <2>0, <4>4, OutsideType
      <4> QED BY <3>1, <4>1, <4>2, <4>3, <4>4 DEF Next
    <3>2. CASE UNCHANGED vars
      BY <2>0, <3>2 DEF vars, dbVars, pveVars, recVars, LocalOK, GlobalOK
    <3> QED BY <3>1, <3>2
  <2> QED BY <2>1 DEF TypeOK, LocalOK, GlobalOK, PCs
<1> QED BY <1>1, <1>2, PTL DEF Spec

-----------------------------------------------------------------------------
\* Mutual exclusion of the (pool, user) section.

\* Whoever is in the section of a pair holds its gate.
GateInv ==
  \A p \in Procs : InSection(p) => PairOf(p) \in Owners /\ gate[PairOf(p)] = p

\* A step of process p leaves the place and the tracked copy of the others alone.
StepOf(p) == \A q \in Procs \ {p} : pc'[q] = pc[q] /\ ent'[q] = ent[q]

\* A step that takes no gate keeps GateInv, if p stays in its section only with
\* the gate in its hands.
LEMMA GateKept ==
  ASSUME LocalOK, GateInv, NEW p \in Procs, StepOf(p),
         gate' = gate \/ gate' = Released(p),
         InSection(p)' => InSection(p) /\ PairOf(p)' = PairOf(p) /\ gate' = gate
  PROVE  GateInv'
<1> USE ConstantsAssumption
<1> SUFFICES ASSUME NEW q \in Procs, InSection(q)'
             PROVE  PairOf(q)' \in Owners /\ gate'[PairOf(q)'] = q
  BY DEF GateInv
<1>1. CASE q = p
  BY <1>1 DEF GateInv
<1>2. CASE q # p
  <2>1. InSection(q) /\ PairOf(q)' = PairOf(q)
    BY <1>2 DEF StepOf, InSection, PairOf
  <2> QED BY <1>2, <2>1 DEF GateInv, Released
<1> QED BY <1>1, <1>2

\* A step of p that takes a free gate keeps GateInv.
LEMMA GateTaken ==
  ASSUME LocalOK, GateInv, NEW p \in Procs, StepOf(p), NEW o \in Owners,
         gate[o] = Nobody, gate' = [gate EXCEPT ![o] = p],
         PairOf(p)' = o \/ ~InSection(p)'
  PROVE  GateInv'
<1> USE ConstantsAssumption
<1> SUFFICES ASSUME NEW q \in Procs, InSection(q)'
             PROVE  PairOf(q)' \in Owners /\ gate'[PairOf(q)'] = q
  BY DEF GateInv
<1>1. CASE q = p
  BY <1>1 DEF LocalOK
<1>2. CASE q # p
  <2>1. InSection(q) /\ PairOf(q)' = PairOf(q)
    BY <1>2 DEF StepOf, InSection, PairOf
  <2> QED BY <1>2, <2>1 DEF GateInv, LocalOK
<1> QED BY <1>1, <1>2

\* Leaving and throwing put p outside every section.
LEMMA LeaveGate ==
  ASSUME LocalOK, NEW p \in Procs, NEW how \in {"done", "failed"}, Leave(p, how)
  PROVE  StepOf(p) /\ gate' = Released(p) /\ ~InSection(p)'
  BY DEF LocalOK, Leave, StepOf, InSection

\* Going on from inside the section to inside it keeps the gate.
LEMMA GotoGate ==
  ASSUME LocalOK, NEW p \in Procs, NEW l, Goto(p, l), NEW e,
         ent' = ent \/ ent' = [ent EXCEPT ![p] = e]
  PROVE  StepOf(p) /\ gate' = gate /\ pc'[p] = l
  BY DEF LocalOK, Goto, StepOf

\* The pair of a connect request never changes.
LEMMA PairOfConnect ==
  ASSUME NEW c \in Connects
  PROVE  PairOf(c) = OwnerOf[c] /\ PairOf(c)' = OwnerOf[c] /\ c \in Procs /\ c \notin Admins
  BY ConstantsAssumption DEF PairOf, Procs

\* Every step of a connect request keeps GateInv.
LEMMA ConnectGate ==
  ASSUME LocalOK, GateInv, NEW c \in Connects, ConnectStep(c)
  PROVE  GateInv'
<1>0. OwnerOf[c] \in Owners /\ c \in Procs
  BY ConstantsAssumption, PairOfConnect
<1>1. CASE Enter(c)
  <2>1. StepOf(c)
    BY <1>0, <1>1 DEF Enter, StepOf, LocalOK
  <2> QED BY <1>0, <1>1, <2>1, GateTaken, PairOfConnect DEF Enter
<1>2. ASSUME NEW how \in {"done", "failed"}, Leave(c, how) PROVE GateInv'
  BY <1>0, <1>2, LeaveGate, GateKept
<1>3. ASSUME Throw(c) PROVE GateInv'
  BY <1>2, <1>3, "failed" \in {"done", "failed"} DEF Throw
<1>4. ASSUME StepOf(c), gate' = gate, InSection(c) \/ ~InSection(c)' PROVE GateInv'
  BY <1>0, <1>4, GateKept, PairOfConnect
<1>5. CASE Request(c)
  <2>1. StepOf(c) /\ gate' = gate /\ ~InSection(c)'
    BY <1>0, <1>5 DEF Request, Goto, LocalOK, StepOf, InSection
  <2> QED BY <1>4, <2>1
<1>6. CASE FastCheck(c)
  <2>1. Leave(c, "done") \/ (StepOf(c) /\ gate' = gate /\ ~InSection(c)')
    BY <1>0, <1>6 DEF FastCheck, Goto, LocalOK, StepOf, InSection
  <2> QED BY <1>2, <1>4, <2>1
<1>7. CASE Recheck(c)
  <2>1. InSection(c)
    BY <1>7, PairOfConnect DEF Recheck, InSection
  <2>2. Leave(c, "done") \/ Throw(c) \/ (StepOf(c) /\ gate' = gate)
    BY <1>0, <1>7 DEF Recheck, Goto, LocalOK, StepOf
  <2> QED BY <1>2, <1>3, <1>4, <2>1, <2>2
<1>8. CASE Clear(c)
  <2>1. InSection(c)
    BY <1>8, PairOfConnect DEF Clear, InSection
  <2>2. Throw(c) \/ (StepOf(c) /\ gate' = gate)
    BY <1>0, <1>8 DEF Clear, Goto, LocalOK, StepOf
  <2> QED BY <1>3, <1>4, <2>1, <2>2
<1>9. CASE Pick(c)
  <2>1. InSection(c)
    BY <1>9, PairOfConnect DEF Pick, InSection
  <2>2. Leave(c, "failed") \/ (StepOf(c) /\ gate' = gate)
    BY <1>0, <1>9 DEF Pick, LocalOK, StepOf
  <2> QED BY <1>2, <1>4, <2>1, <2>2
<1>10. CASE Insert(c)
  <2>1. InSection(c)
    BY <1>10, PairOfConnect DEF Insert, InSection
  <2>2. Throw(c) \/ (StepOf(c) /\ gate' = gate)
    BY <1>0, <1>10 DEF Insert, Goto, LocalOK, StepOf
  <2> QED BY <1>3, <1>4, <2>1, <2>2
<1>11. CASE Post(c)
  <2>1. InSection(c)
    BY <1>11, PairOfConnect DEF Post, InSection
  <2>2. Leave(c, "failed") \/ (StepOf(c) /\ gate' = gate)
    BY <1>0, <1>11 DEF Post, FailRow, LocalOK, StepOf
  <2> QED BY <1>2, <1>4, <2>1, <2>2
<1>12. CASE SaveUpid(c)
  <2>1. InSection(c)
    BY <1>12, PairOfConnect DEF SaveUpid, InSection
  <2>2. Throw(c) \/ (StepOf(c) /\ gate' = gate)
    BY <1>0, <1>12 DEF SaveUpid, Goto, LocalOK, StepOf
  <2> QED BY <1>3, <1>4, <2>1, <2>2
<1>13. CASE WaitForTask(c)
  <2>1. InSection(c)
    BY <1>13, PairOfConnect DEF WaitForTask, InSection
  <2>2. Leave(c, "failed") \/ (StepOf(c) /\ gate' = gate)
    BY <1>0, <1>13 DEF WaitForTask, FailRow, Goto, LocalOK, StepOf
  <2> QED BY <1>2, <1>4, <2>1, <2>2
<1> QED
  BY <1>1, <1>5, <1>6, <1>7, <1>8, <1>9, <1>10, <1>11, <1>12, <1>13 DEF ConnectStep

\* So does every step the callers share.
LEMMA SharedGate ==
  ASSUME LocalOK, GateInv, NEW p \in Procs, SharedStep(p)
  PROVE  GateInv'
<1>1. ASSUME NEW how \in {"done", "failed"}, Leave(p, how) PROVE GateInv'
  BY <1>1, LeaveGate, GateKept
<1>2. ASSUME Throw(p) PROVE GateInv'
  BY <1>1, <1>2, "failed" \in {"done", "failed"} DEF Throw
<1>3. ASSUME StepOf(p), gate' = gate, ent'[p].id = ent[p].id \/ p \in Connects,
             pc[p] \in {"stamp", "verify", "destroy", "drop", "finish", "identity", "ready"}
      PROVE  GateInv'
  <2>1. InSection(p)' => InSection(p) /\ PairOf(p)' = PairOf(p)
    BY <1>3 DEF InSection, PairOf
  <2> QED BY <1>3, <2>1, GateKept
<1>4. CASE Stamp(p) \/ Verify(p) \/ Destroy(p)
  <2>1. StepOf(p) /\ gate' = gate /\ ent' = ent
    BY <1>4 DEF Stamp, Verify, Destroy, Goto, LocalOK, StepOf
  <2> QED BY <1>3, <1>4, <2>1 DEF Stamp, Verify, Destroy
<1>5. CASE Drop(p)
  <2>1. \/ Leave(p, "done") \/ Throw(p)
        \/ StepOf(p) /\ gate' = gate /\ p \in Connects
    BY <1>5 DEF Drop, Goto, LocalOK, StepOf
  <2> QED BY <1>1, <1>2, <1>3, <1>5, <2>1 DEF Drop
<1>6. CASE Finish(p)
  <2>1. StepOf(p) /\ gate' = gate /\ ent'[p].id = ent[p].id
    <3>1. PICK ok \in BOOLEAN : ent' = [ent EXCEPT ![p].mark = ok]
      BY <1>6 DEF Finish
    <3>2. \A e \in Entity : [e EXCEPT !.mark = ok].id = e.id
      BY DEF Entity
    <3> QED BY <1>6, <3>1, <3>2 DEF Finish, Goto, LocalOK, StepOf
  <2> QED BY <1>3, <1>6, <2>1 DEF Finish
<1>7. CASE Identity(p)
  <2>1. Throw(p) \/ (StepOf(p) /\ gate' = gate /\ ent'[p].id = ent[p].id)
    <3>1. \A e \in Entity : [e EXCEPT !.stamped = e.mark].id = e.id
      BY DEF Entity
    <3> QED BY <1>7, <3>1 DEF Identity, Goto, LocalOK, StepOf
  <2> QED BY <1>2, <1>3, <1>7, <2>1 DEF Identity
<1>8. CASE MarkReady(p)
  BY <1>1, <1>2, <1>8 DEF MarkReady
<1> QED BY <1>4, <1>5, <1>6, <1>7, <1>8 DEF SharedStep

\* So does every step of a reconcile pass: it takes a gate only when it is free.
LEMMA ReconcilerGate ==
  ASSUME LocalOK, GateInv, ReconcilerStep
  PROVE  GateInv'
<1> DEFINE p == Reconciler
<1>0. p \in Procs /\ p \notin Connects
  BY ConstantsAssumption DEF Procs
<1>1. ASSUME Leave(p, "done") PROVE GateInv'
  BY <1>0, <1>1, LeaveGate, GateKept, "done" \in {"done", "failed"}
<1>2. ASSUME StepOf(p), gate' = gate, ~InSection(p)' PROVE GateInv'
  BY <1>0, <1>2, GateKept
<1>3. CASE BeginPass
  <2>1. StepOf(p) /\ gate' = gate /\ ~InSection(p)'
    BY <1>0, <1>3 DEF BeginPass, Goto, LocalOK, StepOf, InSection
  <2> QED BY <1>2, <2>1
<1>4. CASE EndPass
  <2>1. StepOf(p) /\ gate' = gate /\ ~InSection(p)'
    BY <1>0, <1>4 DEF EndPass, Goto, LocalOK, StepOf, InSection
  <2> QED BY <1>2, <2>1
<1>5. CASE LiveStamp
  <2>1. Leave(p, "done") \/ (StepOf(p) /\ gate' = gate /\ ~InSection(p)')
    BY <1>0, <1>5 DEF LiveStamp, Goto, LocalOK, StepOf, InSection
  <2> QED BY <1>1, <1>2, <2>1
<1>6. CASE LiveSave
  BY <1>1, <1>6 DEF LiveSave
<1>7. ASSUME NEW i \in Connects, ReconcileRow(i) PROVE GateInv'
  <2>0. OwnerOf[i] \in Owners
    BY ConstantsAssumption
  <2>1. CASE Skip(i)
    <3>1. StepOf(p) /\ gate' = gate /\ ~InSection(p)'
      BY <2>1 DEF Skip, StepOf, InSection
    <3> QED BY <1>2, <3>1
  <2>2. ASSUME StepOf(p), gate[OwnerOf[i]] = Nobody,
               gate' = [gate EXCEPT ![OwnerOf[i]] = p], ent'[p].id = i
        PROVE  GateInv'
    <3>1. PairOf(p)' = OwnerOf[i]
      BY <1>0, <2>2 DEF PairOf
    <3> QED BY <1>0, <2>0, <2>2, <3>1, GateTaken
  <2>3. Track(i, snap[i]).id = i
    BY DEF Track
  <2>4. CASE ReconcileProvisioning(i)
    <3>1. \/ StepOf(p) /\ gate' = gate /\ ~InSection(p)'
          \/ /\ StepOf(p) /\ gate[OwnerOf[i]] = Nobody
             /\ gate' = [gate EXCEPT ![OwnerOf[i]] = p] /\ ent'[p].id = i
      BY <1>0, <2>3, <2>4 DEF ReconcileProvisioning, LocalOK, StepOf, InSection
    <3> QED BY <1>2, <2>2, <3>1
  <2>5. CASE ReconcileDead(i)
    <3>1. \/ StepOf(p) /\ gate' = gate /\ ~InSection(p)'
          \/ /\ StepOf(p) /\ gate[OwnerOf[i]] = Nobody
             /\ gate' = [gate EXCEPT ![OwnerOf[i]] = p] /\ ent'[p].id = i
      BY <1>0, <2>3, <2>5 DEF ReconcileDead, LocalOK, StepOf, InSection
    <3> QED BY <1>2, <2>2, <3>1
  <2>6. CASE ReconcileLive(i)
    <3>1. StepOf(p) /\ gate' = gate /\ ~InSection(p)'
      BY <1>0, <2>6 DEF ReconcileLive, LocalOK, StepOf, InSection
    <3> QED BY <1>2, <3>1
  <2> QED BY <1>7, <2>1, <2>4, <2>5, <2>6 DEF ReconcileRow
<1> QED BY <1>3, <1>4, <1>5, <1>6, <1>7 DEF ReconcilerStep

\* Deprovision takes no gate, the surroundings none either, and a restart empties
\* every section.
LEMMA OutsideGate ==
  ASSUME LocalOK, GateInv, Environment \/ \E a \in Admins : Deprovision(a)
  PROVE  GateInv'
<1>1. ASSUME NEW a \in Admins, Deprovision(a) PROVE GateInv'
  <2>1. a \in Procs /\ StepOf(a) /\ gate' = gate
    BY <1>1 DEF Deprovision, Goto, LocalOK, StepOf, Procs
  <2>2. ~InSection(a)'
    BY DEF InSection
  <2> QED BY <2>1, <2>2, GateKept
<1>2. CASE Crash
  BY <1>2 DEF Crash, GateInv, InSection
<1>3. CASE UNCHANGED <<gate, pc, ent>>
  BY <1>3 DEF GateInv, InSection, PairOf
<1> QED
  BY <1>1, <1>2, <1>3
     DEF Environment, CloneEnds, CloneFails, CreateForeign, DeleteOutOfBand

\* At most one connect request or reconcile pass works on the desktop of a user.
THEOREM OneWorker == Spec => []OneWorkerPerPair
<1>1. Init => GateInv
  BY DEF Init, GateInv, InSection
<1>2. TypeOK /\ GateInv /\ [Next]_vars => GateInv'
  <2> SUFFICES ASSUME TypeOK, GateInv, [Next]_vars PROVE GateInv'
    OBVIOUS
  <2>1. LocalOK
    BY TypeParts
  <2>2. CASE UNCHANGED vars
    BY <2>2 DEF vars, GateInv, InSection, PairOf
  <2>3. CASE Next
    BY <2>1, <2>3, ConnectGate, SharedGate, ReconcilerGate, OutsideGate DEF Next
  <2> QED BY <2>2, <2>3
<1>3. GateInv => OneWorkerPerPair
  BY DEF GateInv, OneWorkerPerPair
<1> QED BY <1>1, <1>2, <1>3, TypeCorrect, PTL DEF Spec

-----------------------------------------------------------------------------
\* VMIDs of tracked desktops are distinct.

\* A request between choosing a VMID and starting its clone holds _vmidGate, and no
\* row claims the VMID it is about to insert.
ClaimInv ==
  /\ DistinctVmIds
  /\ \A c \in Connects : pc[c] \in {"insert", "post"} => vmidGate = c
  /\ \A c \in Connects : pc[c] = "insert" => plan[c] \notin Claimed

\* No row comes to life and none changes its VMID.
RowsKept ==
  \A i \in Connects : Live(i)' => Live(i) /\ row'[i].vmid = row[i].vmid

\* Only p moves, it keeps or gives back _vmidGate, and it is not allocating.
NotAllocating(p) ==
  /\ \A q \in Connects \ {p} : pc'[q] = pc[q] /\ plan'[q] = plan[q]
  /\ \/ vmidGate' = vmidGate
     \/ vmidGate' = IF vmidGate = p THEN Nobody ELSE vmidGate
  /\ p \in Connects => pc'[p] \notin {"insert", "post"}

\* Such a step keeps ClaimInv.
LEMMA ClaimKept ==
  ASSUME ClaimInv, RowsKept, NEW p, NotAllocating(p)
  PROVE  ClaimInv'
<1>1. DistinctVmIds'
  BY DEF ClaimInv, DistinctVmIds, RowsKept
<1>2. Claimed' \subseteq Claimed
  BY DEF Claimed, RowsKept
<1>3. \A c \in Connects : pc'[c] \in {"insert", "post"} =>
        c # p /\ pc[c] = pc'[c] /\ plan[c] = plan'[c]
  BY DEF NotAllocating
<1>4. \A c \in Connects : pc'[c] \in {"insert", "post"} => vmidGate' = c
  BY <1>3 DEF ClaimInv, NotAllocating
<1> QED BY <1>1, <1>2, <1>3, <1>4 DEF ClaimInv

\* Changing the state of a live row keeps the rows.
LEMMA StateKept ==
  ASSUME GlobalOK, NEW i, NEW s \in States, i \in Connects => Live(i),
         row' = [row EXCEPT ![i].state = s]
  PROVE  RowsKept
<1>1. \A r \in Row : [r EXCEPT !.state = s].vmid = r.vmid
  BY DEF Row
<1>2. \A j \in Connects : row'[j].vmid = row[j].vmid
  BY <1>1 DEF GlobalOK
<1>3. \A j \in Connects : Live(j)' => Live(j)
  BY DEF GlobalOK, Live
<1> QED BY <1>2, <1>3 DEF RowsKept

\* So does changing a flag of a row.
LEMMA FlagKept ==
  ASSUME GlobalOK, NEW i, NEW b,
         row' = [row EXCEPT ![i].upid = b] \/ row' = [row EXCEPT ![i].stamped = b]
  PROVE  RowsKept
<1>1. \A r \in Row : /\ [r EXCEPT !.upid = b].vmid = r.vmid
                     /\ [r EXCEPT !.upid = b].state = r.state
                     /\ [r EXCEPT !.stamped = b].vmid = r.vmid
                     /\ [r EXCEPT !.stamped = b].state = r.state
  BY DEF Row
<1>2. \A j \in Connects : row'[j].vmid = row[j].vmid /\ row'[j].state = row[j].state
  <2>1. CASE row' = [row EXCEPT ![i].upid = b]
    BY <1>1, <2>1 DEF GlobalOK
  <2>2. CASE row' = [row EXCEPT ![i].stamped = b]
    BY <1>1, <2>2 DEF GlobalOK
  <2> QED BY <2>1, <2>2
<1> QED BY <1>2 DEF RowsKept, Live

\* A save in the middle of a pass keeps the rows if it keeps the VMID.
LEMMA PassSaveKept ==
  ASSUME GlobalOK, NEW i, NEW r, i \in Connects => r.vmid = row[i].vmid, PassSave(i, r)
  PROVE  RowsKept
  BY DEF PassSave, CanSave, GlobalOK, RowsKept, Live

\* Leaving and throwing end an allocation.
LEMMA LeaveClaim ==
  ASSUME LocalOK, NEW p \in Procs, NEW how \in {"done", "failed"}, Leave(p, how)
  PROVE  NotAllocating(p)
<1>1. \A q \in Connects : q \in Procs
  BY DEF Procs
<1> QED BY <1>1, ConstantsAssumption DEF LocalOK, Leave, NotAllocating

\* FailAsync keeps the rows.
LEMMA FailRowKept ==
  ASSUME GlobalOK, NEW c \in Connects, FailRow(c)
  PROVE  RowsKept /\ Leave(c, "failed")
<1>1. CASE Live(c)
  BY <1>1, StateKept DEF FailRow, States
<1>2. CASE ~Live(c)
  BY <1>2 DEF FailRow, RowsKept, Live
<1> QED BY <1>1, <1>2 DEF FailRow

\* Every step of a connect request keeps ClaimInv.
LEMMA ConnectClaim ==
  ASSUME LocalOK, GlobalOK, ClaimInv, NEW c \in Connects, ConnectStep(c)
  PROVE  ClaimInv'
<1> USE DEF dbVars, pveVars, recVars
<1>0. c \in Procs /\ \A q \in Connects : q \in Procs
  BY DEF Procs
<1>s. UNCHANGED row => RowsKept
  BY DEF RowsKept, Live
<1>l. ASSUME NEW how \in {"done", "failed"}, Leave(c, how), RowsKept PROVE ClaimInv'
  BY <1>0, <1>l, LeaveClaim, ClaimKept
<1>t. Throw(c) /\ UNCHANGED row => ClaimInv'
  BY <1>s, <1>l, "failed" \in {"done", "failed"} DEF Throw
<1>g. ASSUME NEW l \in PCs \ {"insert", "post"}, Goto(c, l), UNCHANGED plan, RowsKept
      PROVE  ClaimInv'
  <2>1. NotAllocating(c)
    BY <1>0, <1>g DEF Goto, NotAllocating, LocalOK
  <2> QED BY <1>g, <2>1, ClaimKept
<1>1. CASE Request(c)
  BY <1>s, <1>1, <1>g DEF Request, PCs
<1>2. CASE FastCheck(c)
  BY <1>s, <1>2, <1>l, <1>g DEF FastCheck, PCs
<1>3. CASE Enter(c)
  <2>1. NotAllocating(c)
    BY <1>0, <1>3 DEF Enter, NotAllocating, LocalOK
  <2> QED BY <1>3, <1>s, <2>1, ClaimKept DEF Enter
<1>4. CASE Recheck(c)
  <2> DEFINE i == ent[c].id
  <2>1. CASE CanSave(c, i) /\ row' = [row EXCEPT ![i].state = "Deprovisioning"]
             /\ Goto(c, "clear") /\ UNCHANGED plan
    <3>1. RowsKept
      BY <2>1, StateKept DEF CanSave, States
    <3> QED BY <2>1, <3>1, <1>g DEF PCs
  <2>2. CASE Leave(c, "done") /\ UNCHANGED row
    BY <2>2, <1>s, <1>l
  <2> QED BY <1>4, <1>t, <2>1, <2>2 DEF Recheck
<1>5. CASE Clear(c)
  BY <1>5, <1>s, <1>t, <1>g DEF Clear, PCs
<1>6. CASE Pick(c)
  <2>1. CASE Leave(c, "failed")
    BY <1>6, <2>1, <1>s, <1>l DEF Pick
  <2>2. CASE ~Leave(c, "failed")
    <3>1. PICK v \in VmIds \ Claimed : plan' = [plan EXCEPT ![c] = v]
      BY <1>6, <2>2 DEF Pick, NextVmId, Least
    <3>2. \A q \in Connects : pc[q] \notin {"insert", "post"}
      BY <1>6, <1>0, ConstantsAssumption DEF Pick, ClaimInv
    <3>3. Claimed' = Claimed /\ DistinctVmIds'
      BY <1>6 DEF Pick, Claimed, DistinctVmIds, Live, ClaimInv
    <3> QED BY <1>0, <1>6, <2>2, <3>1, <3>2, <3>3 DEF Pick, ClaimInv, LocalOK
  <2> QED BY <2>1, <2>2
<1>7. CASE Insert(c)
  <2>1. CASE RowsOf(OwnerOf[c]) # {}
    BY <1>7, <1>t, <2>1 DEF Insert
  <2>2. CASE RowsOf(OwnerOf[c]) = {}
    <3>1. row' = [row EXCEPT ![c] = [NoRow EXCEPT !.vmid = plan[c], !.state = "Provisioning"]]
      BY <1>7, <2>2 DEF Insert
    <3>2. vmidGate = c /\ plan[c] \notin Claimed
      BY <1>7 DEF Insert, ClaimInv
    <3>3. row'[c].vmid = plan[c] /\ \A j \in Connects \ {c} : row'[j] = row[j]
      BY <3>1 DEF GlobalOK, NoRow
    <3>4. DistinctVmIds'
      BY <3>2, <3>3 DEF DistinctVmIds, ClaimInv, Claimed, Live
    <3>5. \A q \in Connects : pc'[q] \in {"insert", "post"} => q = c /\ pc'[q] = "post"
      BY <1>0, <1>7, <2>2, <3>2 DEF Insert, Goto, ClaimInv, LocalOK
    <3> QED BY <1>7, <2>2, <3>2, <3>4, <3>5 DEF Insert, Goto, ClaimInv
  <2> QED BY <2>1, <2>2
<1>8. CASE Post(c)
  <2>1. CASE FailRow(c)
    BY <2>1, <1>l, FailRowKept
  <2>2. CASE ~FailRow(c)
    <3>1. NotAllocating(c)
      BY <1>0, <1>8, <2>2 DEF Post, NotAllocating, LocalOK, ClaimInv
    <3> QED BY <1>8, <1>s, <2>2, <3>1, ClaimKept DEF Post
  <2> QED BY <2>1, <2>2
<1>9. CASE SaveUpid(c)
  <2>1. CASE CanSave(c, c)
    <3>1. RowsKept
      BY <1>9, <2>1, FlagKept DEF SaveUpid
    <3> QED BY <1>9, <2>1, <3>1, <1>g DEF SaveUpid, PCs
  <2>2. CASE ~CanSave(c, c)
    BY <1>9, <2>2, <1>t DEF SaveUpid
  <2> QED BY <2>1, <2>2
<1>10. CASE WaitForTask(c)
  BY <1>10, <1>s, <1>l, <1>g, FailRowKept DEF WaitForTask, PCs
<1> QED BY <1>1, <1>2, <1>3, <1>4, <1>5, <1>6, <1>7, <1>8, <1>9, <1>10 DEF ConnectStep

\* So does every step the callers share.
LEMMA SharedClaim ==
  ASSUME LocalOK, GlobalOK, ClaimInv, NEW p \in Procs, SharedStep(p)
  PROVE  ClaimInv'
<1> USE DEF dbVars, pveVars, recVars
<1> DEFINE i == ent[p].id
<1>0. \A q \in Connects : q \in Procs
  BY DEF Procs
<1>s. UNCHANGED row => RowsKept
  BY DEF RowsKept, Live
<1>l. ASSUME NEW how \in {"done", "failed"}, Leave(p, how), RowsKept PROVE ClaimInv'
  BY <1>l, LeaveClaim, ClaimKept
<1>t. Throw(p) /\ UNCHANGED row => ClaimInv'
  BY <1>s, <1>l, "failed" \in {"done", "failed"} DEF Throw
<1>g. ASSUME NEW l \in PCs \ {"insert", "post"}, Goto(p, l), UNCHANGED plan, RowsKept
      PROVE  ClaimInv'
  <2>1. NotAllocating(p)
    BY <1>0, <1>g DEF Goto, NotAllocating, LocalOK
  <2> QED BY <1>g, <2>1, ClaimKept
<1>1. CASE Stamp(p) \/ Verify(p) \/ Destroy(p) \/ Finish(p)
  BY <1>1, <1>s, <1>g DEF Stamp, Verify, Destroy, Finish, PCs
<1>2. CASE Drop(p)
  <2>1. CASE CanSave(p, i)
    <3>1. RowsKept
      BY <1>2, <2>1, StateKept DEF Drop, CanSave, States
    <3> QED BY <1>2, <2>1, <3>1, <1>l, <1>g DEF Drop, PCs
  <2>2. CASE ~CanSave(p, i)
    BY <1>2, <2>2, <1>t DEF Drop
  <2> QED BY <2>1, <2>2
<1>3. CASE Identity(p)
  <2>1. RowsKept \/ (Throw(p) /\ UNCHANGED row)
    BY <1>3, <1>s, FlagKept DEF Identity
  <2> QED BY <1>3, <2>1, <1>t, <1>g DEF Identity, PCs
<1>4. CASE MarkReady(p)
  <2>1. CASE CanSave(p, i)
    <3>1. \A r \in Row : \A b :
            /\ [[r EXCEPT !.state = "Ready"] EXCEPT !.stamped = b].vmid = r.vmid
            /\ [[r EXCEPT !.state = "Ready"] EXCEPT !.stamped = b].state = "Ready"
      BY DEF Row
    <3>2. row' = [row EXCEPT ![i].state = "Ready", ![i].stamped = Marked(i, ent[p])]
      BY <1>4, <2>1 DEF MarkReady
    <3>3. \A j \in Connects : row'[j].vmid = row[j].vmid
      BY <3>1, <3>2 DEF GlobalOK
    <3>4. \A j \in Connects : j # i => row'[j].state = row[j].state
      BY <3>2 DEF GlobalOK
    <3>5. RowsKept
      BY <2>1, <3>3, <3>4 DEF RowsKept, Live, CanSave
    <3> QED BY <1>4, <2>1, <3>5, <1>l DEF MarkReady
  <2>2. CASE ~CanSave(p, i)
    BY <1>4, <2>2, <1>t DEF MarkReady
  <2> QED BY <2>1, <2>2
<1> QED BY <1>1, <1>2, <1>3, <1>4 DEF SharedStep

\* So does every step of a reconcile pass.
LEMMA ReconcilerClaim ==
  ASSUME LocalOK, GlobalOK, ClaimInv, ReconcilerStep
  PROVE  ClaimInv'
<1> USE DEF dbVars, pveVars, recVars
<1> DEFINE p == Reconciler
<1>0. p \in Procs /\ p \notin Connects /\ \A q \in Connects : q \in Procs
  BY ConstantsAssumption DEF Procs
<1>s. UNCHANGED row => RowsKept
  BY DEF RowsKept, Live
<1>l. Leave(p, "done") /\ RowsKept => ClaimInv'
  BY <1>0, LeaveClaim, ClaimKept, "done" \in {"done", "failed"}
<1>n. ASSUME RowsKept, UNCHANGED <<vmidGate, plan>>, NEW l, pc' = pc \/ pc' = [pc EXCEPT ![p] = l]
      PROVE  ClaimInv'
  <2>1. NotAllocating(p)
    BY <1>0, <1>n DEF NotAllocating, LocalOK
  <2> QED BY <1>n, <2>1, ClaimKept
<1>1. CASE BeginPass \/ EndPass
  BY <1>1, <1>s, <1>n DEF BeginPass, EndPass, Goto
<1>2. CASE LiveStamp
  BY <1>2, <1>s, <1>n, <1>l DEF LiveStamp, Goto
<1>3. CASE LiveSave
  <2> DEFINE i == ent[p].id
  <2>1. i \in Connects => [row[i] EXCEPT !.stamped = TRUE].vmid = row[i].vmid
    BY DEF GlobalOK, Row
  <2>2. RowsKept
    BY <1>3, <2>1, PassSaveKept DEF LiveSave
  <2> QED BY <1>3, <2>2, <1>l DEF LiveSave
<1>4. ASSUME NEW i \in Connects, ReconcileRow(i) PROVE ClaimInv'
  <2>1. [row[i] EXCEPT !.state = "Failed"].vmid = row[i].vmid
    BY DEF GlobalOK, Row
  <2>2. CASE Skip(i) \/ ReconcileDead(i)
    BY <2>2, <1>s, <1>n DEF Skip, ReconcileDead
  <2>3. CASE ReconcileProvisioning(i)
    <3>1. RowsKept
      BY <2>1, <2>3, <1>s, PassSaveKept DEF ReconcileProvisioning
    <3> QED BY <2>3, <3>1, <1>n DEF ReconcileProvisioning
  <2>4. CASE ReconcileLive(i)
    <3>1. RowsKept
      BY <2>1, <2>4, <1>s, PassSaveKept DEF ReconcileLive
    <3> QED BY <2>4, <3>1, <1>n DEF ReconcileLive
  <2> QED BY <1>4, <2>2, <2>3, <2>4 DEF ReconcileRow
<1> QED BY <1>1, <1>2, <1>3, <1>4 DEF ReconcilerStep

\* Deprovision, the surroundings and a restart keep ClaimInv.
LEMMA OutsideClaim ==
  ASSUME LocalOK, GlobalOK, ClaimInv, Environment \/ \E a \in Admins : Deprovision(a)
  PROVE  ClaimInv'
<1> USE DEF dbVars, pveVars, recVars
<1>1. ASSUME NEW a \in Admins, Deprovision(a) PROVE ClaimInv'
  <2>1. RowsKept
    BY <1>1, StateKept DEF Deprovision, States
  <2>2. NotAllocating(a)
    BY <1>1, ConstantsAssumption DEF Deprovision, Goto, NotAllocating, LocalOK, Procs
  <2> QED BY <2>1, <2>2, ClaimKept
<1>2. CASE Crash
  <2>1. DistinctVmIds'
    BY <1>2 DEF Crash, ClaimInv, DistinctVmIds, Live
  <2>2. \A c \in Connects : pc'[c] \notin {"insert", "post"}
    BY <1>2, ConstantsAssumption DEF Crash, Procs
  <2> QED BY <2>1, <2>2 DEF ClaimInv
<1>3. CASE UNCHANGED <<row, pc, plan, vmidGate>>
  BY <1>3 DEF ClaimInv, DistinctVmIds, Claimed, Live
<1> QED
  BY <1>1, <1>2, <1>3
     DEF Environment, CloneEnds, CloneFails, CreateForeign, DeleteOutOfBand

\* ClaimInv is an invariant.
LEMMA ClaimHolds == Spec => []ClaimInv
<1>1. Init => ClaimInv
  BY DEF Init, ClaimInv, DistinctVmIds, Live, NoRow, Procs
<1>2. TypeOK /\ ClaimInv /\ [Next]_vars => ClaimInv'
  <2> SUFFICES ASSUME TypeOK, ClaimInv, [Next]_vars PROVE ClaimInv'
    OBVIOUS
  <2>1. LocalOK /\ GlobalOK
    BY TypeParts
  <2>2. CASE UNCHANGED vars
    BY <2>2 DEF vars, dbVars, ClaimInv, DistinctVmIds, Claimed, Live
  <2>3. CASE Next
    BY <2>1, <2>3, ConnectClaim, SharedClaim, ReconcilerClaim, OutsideClaim DEF Next
  <2> QED BY <2>2, <2>3
<1> QED BY <1>1, <1>2, TypeCorrect, PTL DEF Spec

\* Two tracked desktops never claim the same VMID.
THEOREM VmIdsDistinct == Spec => []DistinctVmIds
<1>1. ClaimInv => DistinctVmIds
  BY DEF ClaimInv
<1> QED BY <1>1, ClaimHolds, PTL

-----------------------------------------------------------------------------
\* A Ready desktop is a finished clone.

\* Where a request has not asked for its clone yet.
Early == {"idle", "fastCheck", "wait", "recheck", "clear", "stamp", "verify",
          "destroy", "drop", "pick", "insert", "post"}
Finishing == {"finish", "identity", "ready"}

\* A request has a clone task only after it asked for one, it asks for its own row,
\* and whoever finishes a row knows that its task ended well.
CloneInv ==
  /\ ReadyIsCloned
  /\ \A c \in Connects : pc[c] \in Early => task[c] = "none"
  /\ \A c \in Connects : pc[c] \in {"post", "saveUpid", "waitTask"} => ent[c].id = c
  /\ \A p \in Procs : pc[p] \in Finishing => ent[p].id \in Connects /\ task[ent[p].id] = "ok"

\* A row becomes Ready only if its task ended well.
ReadyEarned ==
  \A i \in Connects : row'[i].state = "Ready" => row[i].state = "Ready" \/ task[i] = "ok"

\* A step of p that leaves the tasks alone keeps CloneInv if p itself does.
LEMMA CloneKept ==
  ASSUME CloneInv, UNCHANGED task, ReadyEarned, NEW p \in Procs, StepOf(p),
         p \in Connects /\ pc'[p] \in Early => pc[p] \in Early,
         p \in Connects /\ pc'[p] \in {"post", "saveUpid", "waitTask"} => ent'[p].id = p,
         pc'[p] \in Finishing => ent'[p].id \in Connects /\ task[ent'[p].id] = "ok"
  PROVE  CloneInv'
<1>1. ReadyIsCloned'
  BY DEF CloneInv, ReadyIsCloned, ReadyEarned
<1>2. \A c \in Connects : c \in Procs
  BY DEF Procs
<1>3. \A c \in Connects : pc'[c] \in Early => task[c] = "none"
  BY <1>2 DEF CloneInv, StepOf
<1>4. \A c \in Connects : pc'[c] \in {"post", "saveUpid", "waitTask"} => ent'[c].id = c
  BY <1>2 DEF CloneInv, StepOf
<1>5. \A q \in Procs : pc'[q] \in Finishing => ent'[q].id \in Connects /\ task[ent'[q].id] = "ok"
  BY DEF CloneInv, StepOf
<1> QED BY <1>1, <1>3, <1>4, <1>5 DEF CloneInv

\* Writing any other state, or a flag, makes no row Ready.
LEMMA NotReady ==
  ASSUME GlobalOK, NEW i, NEW s, s # "Ready", NEW b,
         \/ UNCHANGED row
         \/ row' = [row EXCEPT ![i].state = s]
         \/ row' = [row EXCEPT ![i].upid = b]
         \/ row' = [row EXCEPT ![i].stamped = b]
  PROVE  ReadyEarned
<1>1. \A r \in Row : /\ [r EXCEPT !.state = s].state = s
                     /\ [r EXCEPT !.upid = b].state = r.state
                     /\ [r EXCEPT !.stamped = b].state = r.state
  BY DEF Row
<1>2. CASE row' = [row EXCEPT ![i].state = s]
  BY <1>1, <1>2 DEF GlobalOK, ReadyEarned
<1>3. CASE row' = [row EXCEPT ![i].upid = b]
  BY <1>1, <1>3 DEF GlobalOK, ReadyEarned
<1>4. CASE row' = [row EXCEPT ![i].stamped = b]
  BY <1>1, <1>4 DEF GlobalOK, ReadyEarned
<1> QED BY <1>2, <1>3, <1>4 DEF ReadyEarned

\* Leaving ends where no condition is asked for.
LEMMA LeaveClone ==
  ASSUME LocalOK, CloneInv, UNCHANGED task, ReadyEarned, NEW p \in Procs,
         NEW how \in {"done", "failed"}, Leave(p, how)
  PROVE  CloneInv'
<1>1. pc'[p] \in {"done", "failed", "scan"}
  BY DEF Leave, LocalOK
<1> QED BY <1>1, LeaveGate, CloneKept DEF Early, Finishing

\* A save in the middle of a pass that does not write Ready earns nothing.
LEMMA PassSaveEarned ==
  ASSUME GlobalOK, NEW i, NEW r, PassSave(i, r),
         i \in Connects /\ r.state = "Ready" => row[i].state = "Ready"
  PROVE  ReadyEarned
  BY DEF PassSave, GlobalOK, ReadyEarned

\* Every step of a connect request keeps CloneInv.
LEMMA ConnectClone ==
  ASSUME LocalOK, GlobalOK, CloneInv, NEW c \in Connects, ConnectStep(c)
  PROVE  CloneInv'
<1> USE DEF dbVars, pveVars, recVars
<1>0. c \in Procs
  BY DEF Procs
<1>s. UNCHANGED row => ReadyEarned
  BY DEF ReadyEarned
<1>l. ASSUME NEW how \in {"done", "failed"}, Leave(c, how), ReadyEarned, UNCHANGED task
      PROVE  CloneInv'
  BY <1>0, <1>l, LeaveClone
<1>t. Throw(c) /\ UNCHANGED <<row, task>> => CloneInv'
  BY <1>s, <1>l, "failed" \in {"done", "failed"} DEF Throw
<1>g. ASSUME NEW l \in Early \ {"post"}, pc' = [pc EXCEPT ![c] = l], StepOf(c),
             pc[c] \in Early, ReadyEarned, UNCHANGED task
      PROVE  CloneInv'
  BY <1>0, <1>g, CloneKept DEF LocalOK, Early, Finishing
<1>1. CASE Request(c)
  <2>1. StepOf(c) /\ \E l \in {"wait", "fastCheck"} : pc' = [pc EXCEPT ![c] = l]
    BY <1>0, <1>1 DEF Request, Goto, StepOf, LocalOK
  <2> QED BY <1>1, <1>s, <1>g, <2>1 DEF Request, Early
<1>2. CASE FastCheck(c)
  <2>1. Leave(c, "done") \/ (StepOf(c) /\ pc' = [pc EXCEPT ![c] = "wait"])
    BY <1>0, <1>2 DEF FastCheck, Goto, StepOf, LocalOK
  <2> QED BY <1>2, <1>s, <1>l, <1>g, <2>1 DEF FastCheck, Early
<1>3. CASE Enter(c)
  <2>1. StepOf(c) /\ \E l \in {"clear", "recheck"} : pc' = [pc EXCEPT ![c] = l]
    BY <1>0, <1>3 DEF Enter, StepOf, LocalOK
  <2> QED BY <1>3, <1>s, <1>g, <2>1 DEF Enter, Early
<1>4. CASE Recheck(c)
  <2>1. ReadyEarned
    BY <1>4, NotReady DEF Recheck
  <2>2. \/ Leave(c, "done") \/ (Throw(c) /\ UNCHANGED row)
        \/ StepOf(c) /\ pc' = [pc EXCEPT ![c] = "clear"]
    BY <1>0, <1>4 DEF Recheck, Goto, StepOf, LocalOK
  <2> QED BY <1>4, <1>l, <1>t, <1>g, <2>1, <2>2 DEF Recheck, Early
<1>5. CASE Clear(c)
  <2>1. \/ Throw(c) /\ UNCHANGED row
        \/ StepOf(c) /\ \E l \in {"pick", "stamp", "verify"} : pc' = [pc EXCEPT ![c] = l]
    BY <1>0, <1>5 DEF Clear, Goto, StepOf, LocalOK
  <2> QED BY <1>5, <1>s, <1>t, <1>g, <2>1 DEF Clear, Early
<1>6. CASE Pick(c)
  <2>1. Leave(c, "failed") \/ (StepOf(c) /\ pc' = [pc EXCEPT ![c] = "insert"])
    BY <1>0, <1>6 DEF Pick, StepOf, LocalOK
  <2> QED BY <1>6, <1>s, <1>l, <1>g, <2>1 DEF Pick, Early
<1>7. CASE Insert(c)
  <2>1. CASE RowsOf(OwnerOf[c]) # {}
    BY <1>7, <2>1, <1>t DEF Insert
  <2>2. CASE RowsOf(OwnerOf[c]) = {}
    <3>1. [NoRow EXCEPT !.vmid = plan[c], !.state = "Provisioning"].state = "Provisioning"
      BY DEF NoRow
    <3>2. ReadyEarned
      BY <1>7, <2>2, <3>1 DEF Insert, GlobalOK, ReadyEarned
    <3>3. [NoEntity EXCEPT !.id = c, !.state = "Provisioning"].id = c
      BY DEF NoEntity
    <3>4. StepOf(c) /\ pc'[c] = "post" /\ ent'[c].id = c /\ UNCHANGED task
      BY <1>0, <1>7, <2>2, <3>3 DEF Insert, Goto, StepOf, LocalOK
    <3> QED BY <1>0, <1>7, <3>2, <3>4, CloneKept DEF Insert, Early, Finishing
  <2> QED BY <2>1, <2>2
<1>8. CASE Post(c)
  <2>0. pc[c] = "post" /\ task[c] = "none" /\ ent[c].id = c
    BY <1>8 DEF Post, CloneInv, Early
  <2>1. ReadyEarned
    BY <1>8, NotReady DEF Post, FailRow
  <2>2. CASE UNCHANGED task /\ FailRow(c)
    BY <2>1, <2>2, <1>l DEF FailRow
  <2>3. CASE task' = [task EXCEPT ![c] = "running"]
    <3>1. pc'[c] \in {"saveUpid", "failed"} /\ StepOf(c) /\ (pc'[c] = "saveUpid" => ent' = ent)
      BY <1>0, <1>8, LeaveGate, ConstantsAssumption DEF Post, FailRow, Leave, StepOf, LocalOK
    <3>2. \A i \in Connects : i # c => task'[i] = task[i]
      BY <2>3 DEF GlobalOK
    <3>3. ReadyIsCloned'
      BY <2>0, <2>1, <3>2 DEF ReadyIsCloned, ReadyEarned, CloneInv
    <3>4. \A q \in Procs : q # c => pc'[q] = pc[q] /\ ent'[q] = ent[q]
      BY <3>1 DEF StepOf
    <3>5. \A q \in Connects : q \in Procs
      BY DEF Procs
    <3>6. \A q \in Connects : pc'[q] \in Early => task'[q] = "none"
      BY <3>1, <3>2, <3>4, <3>5 DEF CloneInv, Early
    <3>7. \A q \in Connects : pc'[q] \in {"post", "saveUpid", "waitTask"} => ent'[q].id = q
      BY <2>0, <3>1, <3>4, <3>5 DEF CloneInv
    <3>8. \A q \in Procs : pc'[q] \in Finishing => ent'[q].id \in Connects /\ task'[ent'[q].id] = "ok"
      BY <2>0, <3>1, <3>2, <3>4 DEF CloneInv, Finishing
    <3> QED BY <3>3, <3>6, <3>7, <3>8 DEF CloneInv
  <2> QED BY <1>8, <2>2, <2>3 DEF Post
<1>9. CASE SaveUpid(c)
  <2>1. CASE ~CanSave(c, c)
    BY <1>9, <2>1, <1>t DEF SaveUpid
  <2>2. CASE CanSave(c, c)
    <3>1. ReadyEarned
      BY <1>9, <2>2, NotReady, "Failed" # "Ready" DEF SaveUpid
    <3>2. \A e \in Entity : [e EXCEPT !.upid = TRUE].id = e.id
      BY DEF Entity
    <3>3. StepOf(c) /\ pc'[c] = "waitTask" /\ ent'[c].id = ent[c].id /\ UNCHANGED task
      BY <1>0, <1>9, <2>2, <3>2 DEF SaveUpid, Goto, StepOf, LocalOK
    <3>4. ent[c].id = c
      BY <1>9 DEF SaveUpid, CloneInv
    <3> QED BY <1>0, <3>1, <3>3, <3>4, CloneKept DEF Early, Finishing
  <2> QED BY <2>1, <2>2
<1>10. CASE WaitForTask(c)
  <2>1. CASE FailRow(c)
    BY <1>10, <2>1, <1>l, NotReady DEF WaitForTask, FailRow
  <2>2. CASE ~FailRow(c)
    <3>1. StepOf(c) /\ pc'[c] = "finish" /\ ent' = ent /\ UNCHANGED <<row, task>>
      BY <1>0, <1>10, <2>2 DEF WaitForTask, Goto, StepOf, LocalOK
    <3>2. ent[c].id = c /\ task[c] = "ok"
      BY <1>10, <2>2 DEF WaitForTask, CloneInv
    <3> QED BY <1>0, <1>s, <3>1, <3>2, CloneKept DEF Early, Finishing
  <2> QED BY <2>1, <2>2
<1> QED BY <1>1, <1>2, <1>3, <1>4, <1>5, <1>6, <1>7, <1>8, <1>9, <1>10 DEF ConnectStep

\* So does every step the callers share.
LEMMA SharedClone ==
  ASSUME LocalOK, GlobalOK, CloneInv, NEW p \in Procs, SharedStep(p)
  PROVE  CloneInv'
<1> USE DEF dbVars, pveVars, recVars
<1> DEFINE i == ent[p].id
<1>s. UNCHANGED row => ReadyEarned
  BY DEF ReadyEarned
<1>l. ASSUME NEW how \in {"done", "failed"}, Leave(p, how), ReadyEarned, UNCHANGED task
      PROVE  CloneInv'
  BY <1>l, LeaveClone
<1>t. Throw(p) /\ UNCHANGED <<row, task>> => CloneInv'
  BY <1>s, <1>l, "failed" \in {"done", "failed"} DEF Throw
<1>1. CASE Stamp(p) \/ Verify(p) \/ Destroy(p)
  <2>1. /\ StepOf(p) /\ UNCHANGED <<row, task>>
        /\ pc[p] \in Early /\ pc'[p] \in {"verify", "destroy", "drop"}
    BY <1>1 DEF Stamp, Verify, Destroy, Goto, StepOf, LocalOK, Early
  <2> QED BY <1>s, <2>1, CloneKept DEF Early, Finishing
<1>2. CASE Drop(p)
  <2>1. ReadyEarned
    BY <1>2, NotReady DEF Drop
  <2>2. \/ Leave(p, "done") \/ (Throw(p) /\ UNCHANGED row)
        \/ StepOf(p) /\ pc'[p] = "pick"
    BY <1>2 DEF Drop, Goto, StepOf, LocalOK
  <2>3. pc[p] \in Early /\ UNCHANGED task
    BY <1>2 DEF Drop, Early
  <2> QED BY <1>l, <1>t, <2>1, <2>2, <2>3, CloneKept DEF Early, Finishing
<1>3. CASE Finish(p)
  <2>1. PICK ok \in BOOLEAN : ent' = [ent EXCEPT ![p].mark = ok]
    BY <1>3 DEF Finish
  <2>2. \A e \in Entity : [e EXCEPT !.mark = ok].id = e.id
    BY DEF Entity
  <2>3. /\ StepOf(p) /\ ent'[p].id = i /\ UNCHANGED <<row, task>>
        /\ pc[p] \in Finishing /\ pc'[p] = "identity"
    BY <1>3, <2>1, <2>2 DEF Finish, Goto, StepOf, LocalOK, Finishing
  <2>4. i \in Connects /\ task[i] = "ok"
    BY <2>3 DEF CloneInv
  <2> QED BY <1>s, <2>3, <2>4, CloneKept DEF Early, Finishing
<1>4. CASE Identity(p)
  <2>1. \A e \in Entity : [e EXCEPT !.stamped = e.mark].id = e.id
    BY DEF Entity
  <2>2. ReadyEarned
    BY <1>4, NotReady, "Failed" # "Ready" DEF Identity
  <2>3. \/ Throw(p) /\ UNCHANGED row
        \/ StepOf(p) /\ ent'[p].id = i /\ pc'[p] = "ready"
    BY <1>4, <2>1 DEF Identity, Goto, StepOf, LocalOK
  <2>4. i \in Connects /\ task[i] = "ok" /\ UNCHANGED task
    BY <1>4 DEF Identity, CloneInv, Finishing
  <2> QED BY <1>t, <2>2, <2>3, <2>4, CloneKept DEF Early, Finishing
<1>5. CASE MarkReady(p)
  <2>1. i \in Connects /\ task[i] = "ok"
    BY <1>5 DEF MarkReady, CloneInv, Finishing
  <2>2. ReadyEarned
    BY <1>5, <2>1 DEF MarkReady, GlobalOK, ReadyEarned
  <2> QED BY <1>5, <1>l, <1>t, <2>2 DEF MarkReady
<1> QED BY <1>1, <1>2, <1>3, <1>4, <1>5 DEF SharedStep

\* So does every step of a reconcile pass: it finishes only rows whose task ended well.
LEMMA ReconcilerClone ==
  ASSUME LocalOK, GlobalOK, CloneInv, ReconcilerStep
  PROVE  CloneInv'
<1> USE DEF dbVars, pveVars, recVars
<1> DEFINE p == Reconciler
<1>0. p \in Procs /\ p \notin Connects
  BY ConstantsAssumption DEF Procs
<1>s. UNCHANGED row => ReadyEarned
  BY DEF ReadyEarned
<1>l. Leave(p, "done") /\ ReadyEarned /\ UNCHANGED task => CloneInv'
  BY <1>0, LeaveClone, "done" \in {"done", "failed"}
<1>n. ASSUME StepOf(p), ReadyEarned, UNCHANGED task, pc'[p] \notin Finishing PROVE CloneInv'
  BY <1>0, <1>n, CloneKept
<1>1. CASE BeginPass \/ EndPass
  <2>1. StepOf(p) /\ UNCHANGED <<row, task>> /\ pc'[p] \notin Finishing
    BY <1>0, <1>1 DEF BeginPass, EndPass, Goto, StepOf, LocalOK, Finishing
  <2> QED BY <1>s, <1>n, <2>1
<1>2. CASE LiveStamp
  <2>1. Leave(p, "done") \/ (StepOf(p) /\ pc'[p] \notin Finishing)
    BY <1>0, <1>2 DEF LiveStamp, Goto, StepOf, LocalOK, Finishing
  <2> QED BY <1>2, <1>s, <1>l, <1>n, <2>1 DEF LiveStamp
<1>3. CASE LiveSave
  <2> DEFINE i == ent[p].id
  <2>1. i \in Connects => [row[i] EXCEPT !.stamped = TRUE].state = row[i].state
    BY DEF GlobalOK, Row
  <2>2. ReadyEarned
    BY <1>3, <2>1, PassSaveEarned DEF LiveSave
  <2> QED BY <1>3, <1>l, <2>2 DEF LiveSave
<1>4. ASSUME NEW i \in Connects, ReconcileRow(i) PROVE CloneInv'
  <2>1. [row[i] EXCEPT !.state = "Failed"].state = "Failed"
    BY DEF GlobalOK, Row
  <2>2. CASE Skip(i)
    <3>1. StepOf(p) /\ UNCHANGED <<row, task>> /\ UNCHANGED <<pc, ent>>
      BY <2>2 DEF Skip, StepOf
    <3>2. pc[p] = "scan"
      BY <2>2 DEF Skip
    <3> QED BY <1>s, <1>n, <3>1, <3>2 DEF Finishing
  <2>3. CASE ReconcileProvisioning(i)
    <3>1. ReadyEarned
      BY <1>s, <2>1, <2>3, PassSaveEarned DEF ReconcileProvisioning
    <3>2. StepOf(p) /\ UNCHANGED task
      BY <1>0, <2>3 DEF ReconcileProvisioning, StepOf, LocalOK
    <3>3. \/ pc'[p] = "scan"
          \/ pc'[p] = "finish" /\ ent'[p].id = i /\ task[i] = "ok"
      BY <1>0, <2>3 DEF ReconcileProvisioning, GetTaskStatus, Track, LocalOK
    <3> QED BY <1>0, <3>1, <3>2, <3>3, CloneKept DEF Finishing
  <2>4. CASE ReconcileDead(i)
    <3>1. StepOf(p) /\ UNCHANGED <<row, task>> /\ pc'[p] \notin Finishing
      BY <1>0, <2>4 DEF ReconcileDead, StepOf, LocalOK, Finishing
    <3> QED BY <1>s, <1>n, <3>1
  <2>5. CASE ReconcileLive(i)
    <3>1. ReadyEarned
      BY <1>s, <2>1, <2>5, PassSaveEarned DEF ReconcileLive
    <3>2. StepOf(p) /\ UNCHANGED task /\ pc'[p] \notin Finishing
      BY <1>0, <2>5 DEF ReconcileLive, StepOf, LocalOK, Finishing
    <3> QED BY <1>n, <3>1, <3>2
  <2> QED BY <1>4, <2>2, <2>3, <2>4, <2>5 DEF ReconcileRow
<1> QED BY <1>1, <1>2, <1>3, <1>4 DEF ReconcilerStep

\* Deprovision, the surroundings and a restart keep CloneInv.
LEMMA OutsideClone ==
  ASSUME LocalOK, GlobalOK, CloneInv, Environment \/ \E a \in Admins : Deprovision(a)
  PROVE  CloneInv'
<1> USE DEF dbVars, pveVars, recVars
<1>1. ASSUME NEW a \in Admins, Deprovision(a) PROVE CloneInv'
  <2>1. ReadyEarned
    BY <1>1, NotReady DEF Deprovision
  <2>2. a \in Procs /\ a \notin Connects
    BY ConstantsAssumption DEF Procs
  <2>3. StepOf(a) /\ pc'[a] = "verify" /\ UNCHANGED task
    BY <1>1, <2>2 DEF Deprovision, Goto, StepOf, LocalOK
  <2> QED BY <2>1, <2>2, <2>3, CloneKept DEF Finishing
<1>2. ASSUME NEW i \in Connects, CloneEnds(i) \/ CloneFails(i) PROVE CloneInv'
  <2>1. task[i] = "running" /\ UNCHANGED <<row, pc, ent>>
    BY <1>2 DEF CloneEnds, CloneFails
  <2>2. \A j \in Connects : j # i => task'[j] = task[j]
    BY <1>2 DEF CloneEnds, CloneFails, GlobalOK
  <2> QED BY <2>1, <2>2 DEF CloneInv, ReadyIsCloned
<1>3. CASE Crash
  <2>1. UNCHANGED <<row, task>>
    BY <1>3 DEF Crash
  <2>2. \A c \in Connects : c \in Procs /\ c # Reconciler
    BY ConstantsAssumption DEF Procs
  <2>3. \A c \in Connects : pc'[c] \in {pc[c], "failed"} /\ pc'[c] \in {"idle", "done", "failed"}
    BY <1>3, <2>2 DEF Crash
  <2>4. \A q \in Procs : pc'[q] \notin Finishing
    BY <1>3 DEF Crash, Finishing
  <2> QED BY <2>1, <2>2, <2>3, <2>4 DEF CloneInv, ReadyIsCloned, Early
<1>4. CASE UNCHANGED <<row, task, pc, ent>>
  BY <1>4 DEF CloneInv, ReadyIsCloned
<1> QED BY <1>1, <1>2, <1>3, <1>4 DEF Environment, CreateForeign, DeleteOutOfBand

\* CloneInv is an invariant.
LEMMA CloneHolds == Spec => []CloneInv
<1>1. Init => CloneInv
  BY DEF Init, CloneInv, ReadyIsCloned, NoRow, Procs, Finishing
<1>2. TypeOK /\ CloneInv /\ [Next]_vars => CloneInv'
  <2> SUFFICES ASSUME TypeOK, CloneInv, [Next]_vars PROVE CloneInv'
    OBVIOUS
  <2>1. LocalOK /\ GlobalOK
    BY TypeParts
  <2>2. CASE UNCHANGED vars
    BY <2>2 DEF vars, dbVars, pveVars, CloneInv, ReadyIsCloned
  <2>3. CASE Next
    BY <2>1, <2>3, ConnectClone, SharedClone, ReconcilerClone, OutsideClone DEF Next
  <2> QED BY <2>2, <2>3
<1> QED BY <1>1, <1>2, TypeCorrect, PTL DEF Spec

\* Whatever fails, a row is Ready only when its own clone task ended well.
THEOREM ReadyCloned == Spec => []ReadyIsCloned
<1>1. CloneInv => ReadyIsCloned
  BY DEF CloneInv
<1> QED BY <1>1, CloneHolds, PTL

\* All of it, in every state: the rows are well formed, no VMID is claimed twice and
\* no desktop is Ready whose clone task did not end well.
THEOREM RowsAreConsistent == Spec => []RowsConsistent
<1>1. TypeOK /\ DistinctVmIds /\ ReadyIsCloned => RowsConsistent
  BY DEF RowsConsistent
<1> QED BY <1>1, TypeCorrect, VmIdsDistinct, ReadyCloned, PTL

-----------------------------------------------------------------------------
\* The books: what rows, copies and requests say of one another.

\* Where a request has inserted no row yet.
Rowless == Early \ {"post"}

\* A row that was never inserted has no clone task and no copy; what a copy says of a
\* recorded clone task the row says too; and a request that clones knows its VMID.
BookInv ==
  /\ \A c \in Connects : pc[c] \in Rowless => row[c] = NoRow
  /\ \A i \in Connects : row[i].state = "unused" =>
       row[i] = NoRow /\ snap[i] = NoRow /\ task[i] = "none"
  /\ \A i \in Connects : row[i].state # "unused" => row[i].vmid \in VmIds
  /\ \A i \in Connects : row[i].upid => task[i] # "none"
  /\ \A i \in Connects : snap[i].upid => row[i].upid
  /\ \A p \in Procs : ent[p].id # Nobody =>
       row[ent[p].id].state # "unused" /\ (ent[p].upid => row[ent[p].id].upid)
  /\ \A c \in Connects : pc[c] \in {"post", "saveUpid"} => ~row[c].upid
  /\ \A c \in Connects : pc[c] = "saveUpid" => task[c] # "none"
  /\ \A c \in Connects : pc[c] = "insert" => plan[c] \in VmIds
  /\ \A c \in Connects : pc[c] = "post" => plan[c] = row[c].vmid

\* Rows that live are written, but for VMID and clone task; so are the copies of a pass.
RowsWritten ==
  \A i \in Connects :
    \/ row'[i] = row[i]
    \/ /\ Live(i) /\ row'[i].state # "unused"
       /\ row'[i].vmid = row[i].vmid /\ row'[i].upid = row[i].upid

CopiesKept == \A i \in Connects : snap'[i] \in {snap[i], NoRow}

\* The copy p tracks then is one the books allow.
Tracks(p) ==
  \/ ent'[p].id = Nobody
  \/ ent'[p].id = ent[p].id /\ ent'[p].upid = ent[p].upid
  \/ /\ ent'[p].id \in Connects /\ row[ent'[p].id].state # "unused"
     /\ ent'[p].upid => row[ent'[p].id].upid

\* A step of p that is not part of cloning keeps the books.
LEMMA BookKept ==
  ASSUME LocalOK, GlobalOK, BookInv, NEW p \in Procs, StepOf(p), RowsWritten, CopiesKept,
         UNCHANGED task, Tracks(p), pc'[p] \notin {"insert", "post", "saveUpid"},
         \A c \in Connects \ {p} : plan'[c] = plan[c],
         p \in Connects /\ pc'[p] \in Rowless => pc[p] \in Rowless
  PROVE  BookInv'
<1> USE ConstantsAssumption
<1>0. /\ \A c \in Connects : c \in Procs /\ c # Nobody
      /\ \A q \in Procs : ent[q].id \in Connects \cup {Nobody}
      /\ NoRow.state = "unused" /\ ~NoRow.upid
  BY DEF Procs, LocalOK, Entity, NoRow
<1>1. \A i \in Connects : row'[i].upid = row[i].upid /\ row'[i].vmid = row[i].vmid
                          /\ (row'[i].state = "unused" <=> row[i].state = "unused")
  BY DEF RowsWritten, Live
<1>2. \A i \in Connects : row[i].state = "unused" => row'[i] = row[i]
  BY DEF RowsWritten, Live
<1>3. \A c \in Connects : pc'[c] \in Rowless => pc[c] \in Rowless
  BY <1>0 DEF StepOf
<1>4. \A c \in Connects : pc'[c] \in Rowless => row'[c] = NoRow
  BY <1>0, <1>2, <1>3 DEF BookInv
<1>5. \A i \in Connects : row'[i].state = "unused" =>
        row'[i] = NoRow /\ snap'[i] = NoRow /\ task'[i] = "none"
  BY <1>1, <1>2 DEF BookInv, CopiesKept
<1>6. \A i \in Connects : /\ row'[i].state # "unused" => row'[i].vmid \in VmIds
                          /\ row'[i].upid => task'[i] # "none"
                          /\ snap'[i].upid => row'[i].upid
  BY <1>0, <1>1 DEF BookInv, CopiesKept
<1>7. \A q \in Procs : ent'[q].id # Nobody =>
        row'[ent'[q].id].state # "unused" /\ (ent'[q].upid => row'[ent'[q].id].upid)
  BY <1>0, <1>1 DEF BookInv, StepOf, Tracks
<1>8. \A c \in Connects : /\ pc'[c] \in {"post", "saveUpid"} => ~row'[c].upid
                          /\ pc'[c] = "saveUpid" => task'[c] # "none"
                          /\ pc'[c] = "insert" => plan'[c] \in VmIds
                          /\ pc'[c] = "post" => plan'[c] = row'[c].vmid
  BY <1>0, <1>1 DEF BookInv, StepOf
<1> QED BY <1>4, <1>5, <1>6, <1>7, <1>8 DEF BookInv

\* Writing the state or the stamp of a live row writes no more.
LEMMA StateWritten ==
  ASSUME GlobalOK, NEW i, i \in Connects => Live(i), NEW s \in States \ {"unused"}, NEW b,
         \/ row' = [row EXCEPT ![i].state = s]
         \/ row' = [row EXCEPT ![i].stamped = b]
         \/ row' = [row EXCEPT ![i].state = s, ![i].stamped = b]
  PROVE  RowsWritten
<1>1. \A r \in Row : /\ [r EXCEPT !.state = s].state = s
                     /\ [r EXCEPT !.state = s].vmid = r.vmid
                     /\ [r EXCEPT !.state = s].upid = r.upid
                     /\ [r EXCEPT !.stamped = b].state = r.state
                     /\ [r EXCEPT !.stamped = b].vmid = r.vmid
                     /\ [r EXCEPT !.stamped = b].upid = r.upid
                     /\ [r EXCEPT !.state = s, !.stamped = b].state = s
                     /\ [r EXCEPT !.state = s, !.stamped = b].vmid = r.vmid
                     /\ [r EXCEPT !.state = s, !.stamped = b].upid = r.upid
  BY DEF Row
<1>2. CASE row' = [row EXCEPT ![i].state = s]
  BY <1>1, <1>2 DEF GlobalOK, RowsWritten
<1>3. CASE row' = [row EXCEPT ![i].stamped = b]
  BY <1>1, <1>3 DEF GlobalOK, RowsWritten, Live
<1>4. CASE row' = [row EXCEPT ![i].state = s, ![i].stamped = b]
  BY <1>1, <1>4 DEF GlobalOK, RowsWritten
<1> QED BY <1>2, <1>3, <1>4

\* So does a save of a pass.
LEMMA PassSaveWritten ==
  ASSUME GlobalOK, NEW i \in Connects, NEW r, PassSave(i, r),
         r.state # "unused", r.vmid = row[i].vmid, r.upid = row[i].upid
  PROVE  RowsWritten
  BY DEF PassSave, CanSave, GlobalOK, RowsWritten

\* What a lookup returns the books allow.
LEMMA QueryTracked ==
  ASSUME LocalOK, GlobalOK, BookInv, NEW p \in Procs, NEW i \in Connects, Live(i)
  PROVE  /\ Query(p, i).id = i
         /\ Query(p, i).upid => row[i].upid
         /\ Track(i, row[i]).id = i /\ Track(i, row[i]).upid = row[i].upid
         /\ row[i].state # "unused"
<1>1. i # Nobody
  BY ConstantsAssumption DEF Procs
<1> QED BY <1>1 DEF Query, Track, Live, BookInv

\* Leaving and throwing keep the books.
LEMMA LeaveBook ==
  ASSUME LocalOK, GlobalOK, BookInv, NEW p \in Procs, NEW how \in {"done", "failed"},
         Leave(p, how), RowsWritten, CopiesKept, UNCHANGED task
  PROVE  BookInv'
<1>1. pc'[p] \in {"done", "failed", "scan"} /\ (ent'[p] = ent[p] \/ ent'[p] = NoEntity)
  BY DEF Leave, LocalOK
<1>2. \A c \in Connects \ {p} : plan'[c] = plan[c]
  BY ConstantsAssumption DEF Leave, LocalOK
<1>3. Tracks(p)
  BY <1>1 DEF Tracks, NoEntity
<1> QED BY <1>1, <1>2, <1>3, LeaveGate, BookKept DEF Rowless, Early

\* Every step of a connect request keeps the books.
LEMMA ConnectBook ==
  ASSUME LocalOK, GlobalOK, CloneInv, BookInv, NEW c \in Connects, ConnectStep(c)
  PROVE  BookInv'
<1> USE DEF dbVars, pveVars, recVars
<1>0. c \in Procs /\ c # Reconciler /\ c # Nobody
  BY ConstantsAssumption DEF Procs
<1>s. /\ UNCHANGED row => RowsWritten
      /\ UNCHANGED snap => CopiesKept
  BY DEF RowsWritten, CopiesKept
<1>l. ASSUME NEW how \in {"done", "failed"}, Leave(c, how), RowsWritten, UNCHANGED <<snap, task>>
      PROVE  BookInv'
  BY <1>0, <1>l, <1>s, LeaveBook
<1>t. Throw(c) /\ UNCHANGED <<row, snap, task>> => BookInv'
  BY <1>s, <1>l, "failed" \in {"done", "failed"} DEF Throw
<1>f. ASSUME FailRow(c), UNCHANGED <<snap, task>> PROVE BookInv'
  <2>1. RowsWritten
    BY <1>f, <1>s, StateWritten DEF FailRow, States
  <2> QED BY <1>f, <1>l, <2>1 DEF FailRow
<1>g. ASSUME NEW l \in Rowless \ {"insert"}, pc' = [pc EXCEPT ![c] = l], StepOf(c), Tracks(c),
             pc[c] \in Rowless, RowsWritten, UNCHANGED <<snap, plan, task>>
      PROVE  BookInv'
  <2>1. pc'[c] \in Rowless /\ pc'[c] \notin {"insert", "post", "saveUpid"}
    BY <1>0, <1>g DEF LocalOK, Rowless, Early
  <2> QED BY <1>0, <1>g, <1>s, <2>1, BookKept
<1>e. ASSUME ent' = ent \/ ent'[c] = NoEntity \/
             (\E i \in Connects : Live(i) /\ ent'[c] \in {Query(c, i), Track(i, row[i])})
      PROVE  Tracks(c)
  BY <1>0, <1>e, QueryTracked DEF Tracks, NoEntity, Query
<1>1. CASE Request(c)
  <2>1. StepOf(c) /\ \E l \in {"wait", "fastCheck"} : pc' = [pc EXCEPT ![c] = l]
    BY <1>0, <1>1 DEF Request, Goto, StepOf, LocalOK
  <2>2. Tracks(c)
    BY <1>0, <1>1, <1>e DEF Request, Existing, RowsOf, LocalOK
  <2> QED BY <1>1, <1>s, <1>g, <2>1, <2>2 DEF Request, Rowless, Early
<1>2. CASE FastCheck(c)
  <2>1. Leave(c, "done") \/ (StepOf(c) /\ pc' = [pc EXCEPT ![c] = "wait"] /\ UNCHANGED <<ent, plan>>)
    BY <1>0, <1>2 DEF FastCheck, Goto, StepOf, LocalOK
  <2> QED BY <1>2, <1>s, <1>l, <1>g, <1>e, <2>1 DEF FastCheck, Rowless, Early
<1>3. CASE Enter(c)
  <2>1. StepOf(c) /\ \E l \in {"clear", "recheck"} : pc' = [pc EXCEPT ![c] = l]
    BY <1>0, <1>3 DEF Enter, StepOf, LocalOK
  <2>2. Tracks(c)
    BY <1>0, <1>3, <1>e DEF Enter, Existing, RowsOf, LocalOK
  <2> QED BY <1>3, <1>s, <1>g, <2>1, <2>2 DEF Enter, Rowless, Early
<1>4. CASE Recheck(c)
  <2>1. RowsWritten
    BY <1>4, <1>s, StateWritten DEF Recheck, CanSave, States
  <2>2. \A e \in Entity : [e EXCEPT !.state = "Deprovisioning"].id = e.id
                          /\ [e EXCEPT !.state = "Deprovisioning"].upid = e.upid
    BY DEF Entity
  <2>3. \/ Leave(c, "done") \/ (Throw(c) /\ UNCHANGED row)
        \/ StepOf(c) /\ Tracks(c) /\ pc' = [pc EXCEPT ![c] = "clear"] /\ UNCHANGED plan
    BY <1>0, <1>4, <2>2 DEF Recheck, Goto, StepOf, LocalOK, Tracks
  <2> QED BY <1>4, <1>l, <1>t, <1>g, <2>1, <2>3 DEF Recheck, Rowless, Early
<1>5. CASE Clear(c)
  <2>1. \/ Throw(c) /\ UNCHANGED row
        \/ /\ StepOf(c) /\ UNCHANGED plan
           /\ \E l \in {"pick", "stamp", "verify"} : pc' = [pc EXCEPT ![c] = l]
           /\ ent'[c] = NoEntity \/ \E i \in RowsOf(OwnerOf[c]) : ent'[c] = Query(c, i)
    BY <1>0, <1>5 DEF Clear, Goto, StepOf, LocalOK
  <2> QED BY <1>5, <1>s, <1>t, <1>g, <1>e, <2>1 DEF Clear, Rowless, Early, RowsOf
<1>6. CASE Pick(c)
  <2>1. CASE Leave(c, "failed")
    BY <1>6, <2>1, <1>s, <1>l DEF Pick
  <2>2. CASE ~Leave(c, "failed")
    <3>1. PICK taken \in ListVms : \E v \in NextVmId(taken) :
            plan' = [plan EXCEPT ![c] = v] /\ pc' = [pc EXCEPT ![c] = "insert"]
      BY <1>6, <2>2 DEF Pick
    <3>2. plan'[c] \in VmIds
      BY <3>1 DEF NextVmId, Least, LocalOK
    <3>3. /\ \A q \in Procs : q # c => pc'[q] = pc[q]
          /\ \A d \in Connects : d # c => plan'[d] = plan[d]
          /\ pc'[c] = "insert" /\ UNCHANGED <<row, snap, task, ent>>
      BY <1>0, <1>6, <2>2, <3>1 DEF Pick, LocalOK
    <3>4. pc[c] \in Rowless /\ \A d \in Connects : d \in Procs
      BY <1>6 DEF Pick, Rowless, Early, Procs
    <3> QED BY <3>2, <3>3, <3>4 DEF BookInv, Rowless, Early
  <2> QED BY <2>1, <2>2
<1>7. CASE Insert(c)
  <2>1. CASE RowsOf(OwnerOf[c]) # {}
    BY <1>7, <2>1, <1>t DEF Insert
  <2>2. CASE RowsOf(OwnerOf[c]) = {}
    <3> DEFINE r == [NoRow EXCEPT !.vmid = plan[c], !.state = "Provisioning"]
               e == [NoEntity EXCEPT !.id = c, !.state = "Provisioning"]
    <3>1. /\ r.state = "Provisioning" /\ r.vmid = plan[c] /\ ~r.upid
          /\ e.id = c /\ ~e.upid
      BY DEF NoRow, NoEntity
    <3>2. /\ row' = [row EXCEPT ![c] = r] /\ ent' = [ent EXCEPT ![c] = e]
          /\ pc' = [pc EXCEPT ![c] = "post"] /\ UNCHANGED <<snap, task, plan>>
      BY <1>7, <2>2 DEF Insert, Goto
    <3>m. row'[c] = r /\ ent'[c] = e
      BY <1>0, <3>2 DEF LocalOK, GlobalOK
    <3>n. /\ row'[c].state = "Provisioning" /\ row'[c].vmid = plan[c] /\ ~row'[c].upid
          /\ ent'[c].id = c /\ ~ent'[c].upid
      BY <3>1, <3>m
    <3> HIDE DEF r, e
    <3>3. /\ \A i \in Connects : i # c => row'[i] = row[i]
          /\ \A q \in Procs : q # c => ent'[q] = ent[q] /\ pc'[q] = pc[q]
          /\ pc'[c] = "post"
      BY <1>0, <3>2 DEF LocalOK, GlobalOK
    <3>4. row[c] = NoRow /\ plan[c] \in VmIds /\ task[c] = "none" /\ snap[c] = NoRow
      BY <1>7 DEF Insert, BookInv, Rowless, Early, NoRow
    <3>5. \A q \in Procs : ent[q].id # c
      BY <1>0, <3>4 DEF BookInv, NoRow
    <3>6. \A d \in Connects : d \in Procs
      BY DEF Procs
    <3>7. \A d \in Connects : pc'[d] \in Rowless => row'[d] = NoRow
      BY <3>3, <3>6 DEF BookInv, Rowless
    <3>8. \A i \in Connects : /\ row'[i].state = "unused" =>
                                   row'[i] = NoRow /\ snap'[i] = NoRow /\ task'[i] = "none"
                              /\ row'[i].state # "unused" => row'[i].vmid \in VmIds
                              /\ row'[i].upid => task'[i] # "none"
                              /\ snap'[i].upid => row'[i].upid
      <4> TAKE i \in Connects
      <4>1. CASE i = c
        BY <3>n, <3>2, <3>4, <4>1 DEF NoRow
      <4>2. CASE i # c
        BY <3>2, <3>3, <4>2 DEF BookInv
      <4> QED BY <4>1, <4>2
    <3>9. \A q \in Procs : ent'[q].id # Nobody =>
            row'[ent'[q].id].state # "unused" /\ (ent'[q].upid => row'[ent'[q].id].upid)
      <4> SUFFICES ASSUME NEW q \in Procs, ent'[q].id # Nobody
                   PROVE  row'[ent'[q].id].state # "unused" /\ (ent'[q].upid => row'[ent'[q].id].upid)
        OBVIOUS
      <4>1. CASE q = c
        BY <3>n, <4>1
      <4>2. CASE q # c
        <5>1. ent'[q] = ent[q] /\ ent[q].id \in Connects /\ ent[q].id # c
          BY <3>3, <3>5, <4>2 DEF LocalOK, Entity
        <5> QED BY <3>3, <5>1 DEF BookInv
      <4> QED BY <4>1, <4>2
    <3>10. \A d \in Connects : /\ pc'[d] \in {"post", "saveUpid"} => ~row'[d].upid
                               /\ pc'[d] = "saveUpid" => task'[d] # "none"
                               /\ pc'[d] = "insert" => plan'[d] \in VmIds
                               /\ pc'[d] = "post" => plan'[d] = row'[d].vmid
      BY <3>n, <3>2, <3>3, <3>6 DEF BookInv
    <3> QED BY <3>7, <3>8, <3>9, <3>10 DEF BookInv
  <2> QED BY <2>1, <2>2
<1>8. CASE Post(c)
  <2>0. pc[c] = "post" /\ row[c].state # "unused" /\ UNCHANGED snap
    BY <1>0, <1>8 DEF Post, CloneInv, BookInv
  <2>1. CASE UNCHANGED task /\ FailRow(c)
    BY <2>0, <2>1, <1>f
  <2>2. CASE task' = [task EXCEPT ![c] = "running"]
    <3>1. RowsWritten
      BY <1>8, <1>s, StateWritten DEF Post, FailRow, States
    <3>2. /\ pc'[c] \in {"saveUpid", "failed"} /\ StepOf(c)
          /\ ent'[c] = ent[c] \/ ent'[c] = NoEntity
          /\ \A d \in Connects : d # c => plan'[d] = plan[d]
      BY <1>0, <1>8, LeaveGate DEF Post, FailRow, Leave, StepOf, LocalOK
    <3>3. \A i \in Connects : (i # c => task'[i] = task[i]) /\ (i = c => task'[i] = "running")
      BY <2>2 DEF GlobalOK
    <3>4. \A i \in Connects : row'[i].upid = row[i].upid /\ row'[i].vmid = row[i].vmid
                              /\ (row'[i].state = "unused" <=> row[i].state = "unused")
                              /\ (row[i].state = "unused" => row'[i] = row[i])
      BY <3>1 DEF RowsWritten, Live
    <3>5. \A d \in Connects : d \in Procs
      BY DEF Procs
    <3>6. \A d \in Connects : pc'[d] \in Rowless => row'[d] = NoRow
      BY <3>2, <3>4, <3>5 DEF BookInv, StepOf, Rowless, Early, NoRow
    <3>7. \A i \in Connects : /\ row'[i].state = "unused" =>
                                   row'[i] = NoRow /\ snap'[i] = NoRow /\ task'[i] = "none"
                              /\ row'[i].state # "unused" => row'[i].vmid \in VmIds
                              /\ row'[i].upid => task'[i] # "none"
                              /\ snap'[i].upid => row'[i].upid
      BY <2>0, <3>3, <3>4 DEF BookInv
    <3>8. \A q \in Procs : ent'[q].id # Nobody =>
            row'[ent'[q].id].state # "unused" /\ (ent'[q].upid => row'[ent'[q].id].upid)
      <4>1. \A q \in Procs : ent'[q].id # Nobody => ent'[q] = ent[q] /\ ent[q].id \in Connects
        BY <3>2 DEF StepOf, LocalOK, Entity, NoEntity
      <4> QED BY <3>4, <4>1 DEF BookInv
    <3>9. \A d \in Connects : /\ pc'[d] \in {"post", "saveUpid"} => ~row'[d].upid
                              /\ pc'[d] = "saveUpid" => task'[d] # "none"
                              /\ pc'[d] = "insert" => plan'[d] \in VmIds
                              /\ pc'[d] = "post" => plan'[d] = row'[d].vmid
      BY <2>0, <3>2, <3>3, <3>4, <3>5 DEF BookInv, StepOf
    <3> QED BY <3>6, <3>7, <3>8, <3>9 DEF BookInv
  <2> QED BY <1>8, <2>1, <2>2 DEF Post
<1>9. CASE SaveUpid(c)
  <2>1. CASE ~CanSave(c, c)
    BY <1>9, <2>1, <1>t DEF SaveUpid
  <2>2. CASE CanSave(c, c)
    <3>1. pc[c] = "saveUpid" /\ ent[c].id = c /\ row[c].state # "unused" /\ task[c] # "none"
      BY <1>0, <1>9 DEF SaveUpid, CloneInv, BookInv
    <3>2. /\ \A r \in Row : /\ [r EXCEPT !.upid = TRUE].state = r.state
                            /\ [r EXCEPT !.upid = TRUE].vmid = r.vmid
                            /\ [r EXCEPT !.upid = TRUE].upid
          /\ \A e \in Entity : [e EXCEPT !.upid = TRUE].id = e.id
      BY DEF Row, Entity
    <3>m. row'[c] = [row[c] EXCEPT !.upid = TRUE] /\ \A i \in Connects : i # c => row'[i] = row[i]
      BY <1>9, <2>2, <3>1 DEF SaveUpid, GlobalOK
    <3>n. /\ ent'[c] = [ent[c] EXCEPT !.upid = TRUE] /\ pc'[c] = "waitTask" /\ StepOf(c)
          /\ UNCHANGED <<snap, task, plan>>
      BY <1>0, <1>9, <2>2 DEF SaveUpid, Goto, StepOf, LocalOK
    <3>3. /\ row'[c].state = row[c].state /\ row'[c].vmid = row[c].vmid /\ row'[c].upid
          /\ \A i \in Connects : i # c => row'[i] = row[i]
          /\ ent'[c].id = c /\ pc'[c] = "waitTask" /\ StepOf(c) /\ UNCHANGED <<snap, task, plan>>
      BY <1>0, <3>1, <3>2, <3>m, <3>n DEF LocalOK, GlobalOK
    <3>4. \A d \in Connects : d \in Procs
      BY DEF Procs
    <3>5. \A d \in Connects : pc'[d] \in Rowless => row'[d] = NoRow
      BY <3>3, <3>4 DEF BookInv, StepOf, Rowless, Early
    <3>6. \A i \in Connects : /\ row'[i].state = "unused" =>
                                   row'[i] = NoRow /\ snap'[i] = NoRow /\ task'[i] = "none"
                              /\ row'[i].state # "unused" => row'[i].vmid \in VmIds
                              /\ row'[i].upid => task'[i] # "none"
                              /\ snap'[i].upid => row'[i].upid
      BY <3>1, <3>3 DEF BookInv
    <3>7. \A q \in Procs : ent'[q].id # Nobody =>
            row'[ent'[q].id].state # "unused" /\ (ent'[q].upid => row'[ent'[q].id].upid)
      <4> SUFFICES ASSUME NEW q \in Procs, ent'[q].id # Nobody
                   PROVE  row'[ent'[q].id].state # "unused" /\ (ent'[q].upid => row'[ent'[q].id].upid)
        OBVIOUS
      <4>1. CASE ent'[q].id = c
        BY <3>1, <3>3, <4>1
      <4>2. CASE ent'[q].id # c
        <5>1. ent'[q] = ent[q] /\ ent[q].id \in Connects
          BY <3>3, <4>2 DEF StepOf, LocalOK, Entity
        <5> QED BY <3>3, <4>2, <5>1 DEF BookInv
      <4> QED BY <4>1, <4>2
    <3>8. \A d \in Connects : /\ pc'[d] \in {"post", "saveUpid"} => ~row'[d].upid
                              /\ pc'[d] = "saveUpid" => task'[d] # "none"
                              /\ pc'[d] = "insert" => plan'[d] \in VmIds
                              /\ pc'[d] = "post" => plan'[d] = row'[d].vmid
      BY <3>3, <3>4 DEF BookInv, StepOf
    <3> QED BY <3>5, <3>6, <3>7, <3>8 DEF BookInv
  <2> QED BY <2>1, <2>2
<1>10. CASE WaitForTask(c)
  <2>1. CASE FailRow(c)
    BY <1>10, <2>1, <1>f DEF WaitForTask
  <2>2. CASE ~FailRow(c)
    <3>1. StepOf(c) /\ pc'[c] = "finish" /\ UNCHANGED <<row, task, snap, plan, ent>>
      BY <1>0, <1>10, <2>2 DEF WaitForTask, Goto, StepOf, LocalOK
    <3> QED BY <1>0, <1>s, <1>e, <3>1, BookKept DEF Rowless, Early
  <2> QED BY <2>1, <2>2
<1> QED BY <1>1, <1>2, <1>3, <1>4, <1>5, <1>6, <1>7, <1>8, <1>9, <1>10 DEF ConnectStep

\* So does every step the callers share.
LEMMA SharedBook ==
  ASSUME LocalOK, GlobalOK, CloneInv, BookInv, NEW p \in Procs, SharedStep(p)
  PROVE  BookInv'
<1> USE DEF dbVars, pveVars, recVars
<1> DEFINE i == ent[p].id
<1>s. /\ UNCHANGED row => RowsWritten
      /\ UNCHANGED snap => CopiesKept
  BY DEF RowsWritten, CopiesKept
<1>l. ASSUME NEW how \in {"done", "failed"}, Leave(p, how), RowsWritten, UNCHANGED <<snap, task>>
      PROVE  BookInv'
  BY <1>l, <1>s, LeaveBook
<1>t. Throw(p) /\ UNCHANGED <<row, snap, task>> => BookInv'
  BY <1>s, <1>l, "failed" \in {"done", "failed"} DEF Throw
<1>g. ASSUME NEW l, pc' = [pc EXCEPT ![p] = l], StepOf(p), RowsWritten, Tracks(p),
             UNCHANGED <<snap, plan, task>>,
             l \in {"identity", "ready"} \/ (l \in Rowless \ {"insert"} /\ pc[p] \in Rowless)
      PROVE  BookInv'
  <2>1. pc'[p] = l /\ l \notin {"insert", "post", "saveUpid"}
        /\ (l \in Rowless => pc[p] \in Rowless)
    BY <1>g DEF LocalOK, Rowless, Early
  <2> QED BY <1>g, <1>s, <2>1, BookKept
<1>1. CASE Stamp(p) \/ Verify(p) \/ Destroy(p)
  <2>1. PICK l \in {"verify", "destroy", "drop"} : pc' = [pc EXCEPT ![p] = l]
    BY <1>1 DEF Stamp, Verify, Destroy, Goto
  <2>2. StepOf(p) /\ UNCHANGED <<row, snap, plan, task, ent>> /\ pc[p] \in Rowless
    BY <1>1, <2>1 DEF Stamp, Verify, Destroy, StepOf, LocalOK, Rowless, Early
  <2> QED BY <1>s, <1>g, <2>1, <2>2 DEF Tracks, Rowless, Early
<1>2. CASE Drop(p)
  <2>1. RowsWritten
    BY <1>2, <1>s, StateWritten DEF Drop, CanSave, States
  <2>2. \/ Leave(p, "done") \/ (Throw(p) /\ UNCHANGED row)
        \/ StepOf(p) /\ Tracks(p) /\ pc' = [pc EXCEPT ![p] = "pick"] /\ UNCHANGED plan
    BY <1>2 DEF Drop, Goto, StepOf, LocalOK, Tracks, NoEntity
  <2>3. pc[p] \in Rowless /\ UNCHANGED <<snap, task>>
    BY <1>2 DEF Drop, Rowless, Early
  <2> QED BY <1>l, <1>t, <1>g, <2>1, <2>2, <2>3 DEF Rowless, Early
<1>3. CASE Finish(p)
  <2>1. PICK ok \in BOOLEAN : ent' = [ent EXCEPT ![p].mark = ok]
    BY <1>3 DEF Finish
  <2>2. \A e \in Entity : [e EXCEPT !.mark = ok].id = e.id /\ [e EXCEPT !.mark = ok].upid = e.upid
    BY DEF Entity
  <2>3. Tracks(p)
    BY <2>1, <2>2 DEF Tracks, LocalOK
  <2>4. StepOf(p) /\ pc' = [pc EXCEPT ![p] = "identity"] /\ UNCHANGED <<row, snap, plan, task>>
    BY <1>3, <2>1 DEF Finish, Goto, StepOf, LocalOK
  <2> QED BY <1>s, <1>g, <2>3, <2>4
<1>4. CASE Identity(p)
  <2>1. \A e \in Entity : [e EXCEPT !.stamped = e.mark].id = e.id
                          /\ [e EXCEPT !.stamped = e.mark].upid = e.upid
    BY DEF Entity
  <2>2. RowsWritten
    BY <1>4, <1>s, StateWritten, "Failed" \in States \ {"unused"} DEF Identity, CanSave, States
  <2>3. \/ Throw(p) /\ UNCHANGED row
        \/ StepOf(p) /\ Tracks(p) /\ pc' = [pc EXCEPT ![p] = "ready"] /\ UNCHANGED plan
    BY <1>4, <2>1 DEF Identity, Goto, StepOf, LocalOK, Tracks
  <2>4. UNCHANGED <<snap, task>>
    BY <1>4 DEF Identity
  <2> QED BY <1>t, <1>g, <2>2, <2>3, <2>4
<1>5. CASE MarkReady(p)
  <2>1. RowsWritten
    BY <1>5, <1>s, StateWritten, "Ready" \in States \ {"unused"} DEF MarkReady, CanSave, States
  <2> QED BY <1>5, <1>l, <1>t, <2>1 DEF MarkReady
<1> QED BY <1>1, <1>2, <1>3, <1>4, <1>5 DEF SharedStep

\* So does every step of a reconcile pass: its copies are those of rows.
LEMMA ReconcilerBook ==
  ASSUME LocalOK, GlobalOK, CloneInv, BookInv, ReconcilerStep
  PROVE  BookInv'
<1> USE DEF dbVars, pveVars, recVars
<1> DEFINE p == Reconciler
<1>0. p \in Procs /\ p \notin Connects /\ p # Nobody /\ \A c \in Connects : c \in Procs
  BY ConstantsAssumption DEF Procs
<1>s. /\ UNCHANGED row => RowsWritten
      /\ UNCHANGED snap => CopiesKept
      /\ UNCHANGED ent => Tracks(p)
  BY DEF RowsWritten, CopiesKept, Tracks
<1>l. ASSUME Leave(p, "done"), RowsWritten, UNCHANGED <<snap, task>> PROVE BookInv'
  BY <1>0, <1>s, <1>l, LeaveBook, "done" \in {"done", "failed"}
<1>n. ASSUME StepOf(p), RowsWritten, CopiesKept, Tracks(p), UNCHANGED <<task, plan>>,
             pc'[p] \notin {"insert", "post", "saveUpid"}
      PROVE  BookInv'
  BY <1>0, <1>n, BookKept
<1>1. CASE BeginPass
  <2>1. /\ \A i \in Connects : snap'[i] = row[i] \/ snap'[i] = NoRow
        /\ StepOf(p) /\ pc'[p] = "scan" /\ UNCHANGED <<row, task, plan, ent>>
    BY <1>0, <1>1 DEF BeginPass, Goto, StepOf, LocalOK
  <2>2. \A i \in Connects : /\ row[i].state = "unused" => snap'[i] = NoRow
                            /\ snap'[i].upid => row[i].upid
    BY <2>1 DEF BookInv, NoRow
  <2> QED BY <1>0, <2>1, <2>2 DEF BookInv, StepOf
<1>2. CASE EndPass
  <2>1. StepOf(p) /\ pc'[p] = "idle" /\ UNCHANGED <<row, snap, task, plan, ent>>
    BY <1>0, <1>2 DEF EndPass, Goto, StepOf, LocalOK
  <2> QED BY <1>s, <1>n, <2>1
<1>3. CASE LiveStamp
  <2>1. \/ Leave(p, "done")
        \/ StepOf(p) /\ pc'[p] = "liveSave" /\ UNCHANGED <<ent, plan>>
    BY <1>0, <1>3 DEF LiveStamp, Goto, StepOf, LocalOK
  <2> QED BY <1>3, <1>s, <1>l, <1>n, <2>1 DEF LiveStamp
<1>4. CASE LiveSave
  <2> DEFINE i == ent[p].id
  <2>1. PassSave(i, [row[i] EXCEPT !.stamped = TRUE])
    BY <1>4 DEF LiveSave
  <2>2. CASE i \in Connects
    <3>1. /\ [row[i] EXCEPT !.stamped = TRUE].vmid = row[i].vmid
          /\ [row[i] EXCEPT !.stamped = TRUE].upid = row[i].upid
          /\ [row[i] EXCEPT !.stamped = TRUE].state = row[i].state
      BY <2>2 DEF GlobalOK, Row
    <3>2. CASE row[i].state # "unused"
      BY <1>4, <1>l, <2>1, <2>2, <3>1, <3>2, PassSaveWritten DEF LiveSave
    <3>3. CASE row[i].state = "unused"
      BY <1>4, <1>l, <1>s, <2>1, <3>3 DEF LiveSave, PassSave, CanSave, Live
    <3> QED BY <3>2, <3>3
  <2>3. CASE i \notin Connects
    <3>1. UNCHANGED row
      BY <2>1, <2>3 DEF PassSave, GlobalOK
    <3> QED BY <1>4, <1>l, <1>s, <3>1 DEF LiveSave
  <2> QED BY <2>2, <2>3
<1>5. ASSUME NEW i \in Connects, ReconcileRow(i) PROVE BookInv'
  <2>1. /\ [row[i] EXCEPT !.state = "Failed"].state = "Failed"
        /\ [row[i] EXCEPT !.state = "Failed"].vmid = row[i].vmid
        /\ [row[i] EXCEPT !.state = "Failed"].upid = row[i].upid
    BY DEF GlobalOK, Row
  <2>2. pc[p] = "scan" /\ i \in Todo /\ Taken(i) /\ UNCHANGED <<task, plan>>
    BY <1>5 DEF ReconcileRow, Skip, ReconcileProvisioning, ReconcileDead, ReconcileLive
  <2>3. CopiesKept
    BY <2>2 DEF CopiesKept, Taken, GlobalOK
  <2>4. RowsWritten
    BY <1>5, <1>s, <2>1, PassSaveWritten
       DEF ReconcileRow, Skip, ReconcileProvisioning, ReconcileDead, ReconcileLive
  <2>5. /\ StepOf(p) /\ pc'[p] \in {"scan", "finish", "stamp", "verify", "liveStamp"}
        /\ ent'[p] = ent[p] \/ ent'[p] = Track(i, snap[i])
    <3>1. \/ UNCHANGED <<pc, ent>>
          \/ /\ \E l \in {"finish", "stamp", "verify", "liveStamp"} : pc' = [pc EXCEPT ![p] = l]
             /\ ent' = [ent EXCEPT ![p] = Track(i, snap[i])]
      BY <1>5 DEF ReconcileRow, Skip, ReconcileProvisioning, ReconcileDead, ReconcileLive
    <3> QED BY <1>0, <2>2, <3>1 DEF StepOf, LocalOK
  <2>6. Tracks(p)
    <3>1. row[i].state # "unused" /\ (snap[i].upid => row[i].upid)
      BY <2>2 DEF Todo, BookInv, NoRow
    <3> QED BY <2>5, <3>1 DEF Tracks, Track
  <2> QED BY <1>n, <2>2, <2>3, <2>4, <2>5, <2>6
<1> QED BY <1>1, <1>2, <1>3, <1>4, <1>5 DEF ReconcilerStep

\* Deprovision, the surroundings and a restart keep the books.
LEMMA OutsideBook ==
  ASSUME LocalOK, GlobalOK, CloneInv, BookInv, Environment \/ \E a \in Admins : Deprovision(a)
  PROVE  BookInv'
<1> USE DEF dbVars, pveVars, recVars
<1>0. /\ \A c \in Connects : c \in Procs /\ c # Reconciler /\ c \notin Admins
      /\ \A a \in Admins : a \in Procs
  BY ConstantsAssumption DEF Procs
<1>1. ASSUME NEW a \in Admins, Deprovision(a) PROVE BookInv'
  <2>1. PICK i \in Connects : /\ Live(i) /\ row' = [row EXCEPT ![i].state = "Deprovisioning"]
                              /\ ent' = [ent EXCEPT ![a] = Track(i, row[i])]
    BY <1>1 DEF Deprovision
  <2>2. RowsWritten
    BY <2>1, StateWritten DEF States
  <2>3. /\ StepOf(a) /\ pc'[a] = "verify" /\ CopiesKept /\ UNCHANGED <<task, plan>>
        /\ ent'[a] = Track(i, row[i])
    BY <1>0, <1>1, <2>1 DEF Deprovision, Goto, StepOf, LocalOK, CopiesKept
  <2>4. Tracks(a)
    BY <2>1, <2>3 DEF Tracks, Track, Live
  <2> QED BY <1>0, <2>2, <2>3, <2>4, BookKept
<1>2. ASSUME NEW i \in Connects, CloneEnds(i) \/ CloneFails(i) PROVE BookInv'
  <2>1. UNCHANGED <<row, snap, pc, ent, plan>>
    BY <1>2 DEF CloneEnds, CloneFails
  <2>2. task[i] = "running" /\ task'[i] \in {"ok", "failed"} /\ \A j \in Connects : j # i => task'[j] = task[j]
    BY <1>2 DEF CloneEnds, CloneFails, GlobalOK
  <2> QED BY <2>1, <2>2 DEF BookInv
<1>3. CASE Crash
  <2>1. /\ UNCHANGED <<row, task>> /\ \A i \in Connects : snap'[i] = NoRow
        /\ \A c \in Connects : pc'[c] \in {pc[c], "failed"} /\ pc'[c] \in {"idle", "done", "failed"}
        /\ \A q \in Procs : ent'[q] = ent[q] \/ ent'[q] = NoEntity
    BY <1>0, <1>3 DEF Crash
  <2> QED BY <2>1 DEF BookInv, Rowless, Early, NoRow, NoEntity
<1>4. CASE UNCHANGED <<row, snap, task, pc, ent, plan>>
  BY <1>4 DEF BookInv
<1> QED BY <1>1, <1>2, <1>3, <1>4 DEF Environment, CreateForeign, DeleteOutOfBand

\* Every step keeps the books.
LEMMA BookIsInductive ==
  ASSUME TypeOK, CloneInv, BookInv, [Next]_vars
  PROVE  BookInv'
<1>1. LocalOK /\ GlobalOK
  BY TypeParts
<1>2. CASE UNCHANGED vars
  BY <1>2 DEF vars, dbVars, pveVars, recVars, BookInv
<1>3. CASE Next
  BY <1>1, <1>3, ConnectBook, SharedBook, ReconcilerBook, OutsideBook DEF Next
<1> QED BY <1>2, <1>3

\* Initially there is nothing in them.
LEMMA InitBook == Init => BookInv
  BY ConstantsAssumption DEF Init, BookInv, NoRow, NoEntity, Procs

-----------------------------------------------------------------------------
\* Stamps and destroys.

\* A VM the gateway cloned is at its row's VMID; a stamp stands at the VMID of the row it
\* names, whose clone ended well; who stamps or destroys acts for such a row, at its VMID;
\* where no others use the VMIDs, the VM there is the row's own; and a request about to
\* clone has its VMID to itself.
StampInv ==
  /\ \A v \in VmIds : vm[v].by # Nobody =>
       vm[v].kind = "clone" /\ row[vm[v].by].vmid = v /\ task[vm[v].by] \in {"running", "ok"}
  /\ \A v \in VmIds : vm[v].kind = "clone" => vm[v].by # Nobody
  /\ \A v \in VmIds : vm[v].kind = "foreign" => May("foreign")
  /\ \A v \in VmIds : vm[v].note # Nobody => row[vm[v].note].vmid = v /\ task[vm[v].note] = "ok"
  /\ \A i \in Connects : snap[i].state = "Ready" => task[i] = "ok"
  /\ \A p \in Procs : pc[p] \in {"stamp", "verify", "destroy", "liveStamp"} => ent[p].id \in Connects
  /\ \A p \in Procs : pc[p] \in {"stamp", "destroy", "liveStamp"} => task[ent[p].id] = "ok"
  /\ \A p \in Procs : pc[p] = "destroy" => target[p] \in VmIds /\ target[p] = row[ent[p].id].vmid
  /\ ~May("foreign") => \A i \in Connects, v \in VmIds :
       Live(i) /\ task[i] \in {"running", "ok"} /\ row[i].vmid = v /\ Exists(v) => vm[v].by = i
  /\ \A c \in Connects : pc[c] = "post" =>
       \A i \in Connects \ {c} : Live(i) => row[i].vmid # row[c].vmid

\* A VM stays, goes, or gets the stamp of a row.
VmTouched(v) ==
  \/ vm'[v] = vm[v]
  \/ vm'[v] = AbsentVm
  \/ /\ Exists(v) /\ vm'[v].kind = vm[v].kind /\ vm'[v].by = vm[v].by
     /\ vm'[v].note \in Connects /\ row[vm'[v].note].vmid = v /\ task[vm'[v].note] = "ok"

\* A step of p that neither inserts nor clones keeps StampInv, if p goes on to stamp or to
\* destroy only with a reason.
LEMMA StampKept ==
  ASSUME LocalOK, GlobalOK, BookInv, StampInv, NEW p \in Procs, StepOf(p), RowsWritten,
         CopiesKept, UNCHANGED <<env, task>>, \A v \in VmIds : VmTouched(v),
         \A q \in Procs \ {p} : target'[q] = target[q],
         pc'[p] \in {"stamp", "verify", "destroy", "liveStamp"} => ent'[p].id \in Connects,
         pc'[p] \in {"stamp", "destroy", "liveStamp"} => task[ent'[p].id] = "ok",
         pc'[p] = "destroy" => target'[p] \in VmIds /\ target'[p] = row[ent'[p].id].vmid,
         pc'[p] # "post"
  PROVE  StampInv'
<1> USE ConstantsAssumption
<1>0. /\ \A v \in VmIds : vm[v] \in Vm
      /\ \A v \in VmIds : vm[v].by \in Connects \cup {Nobody} /\ vm[v].note \in Connects \cup {Nobody}
      /\ Nobody \notin Connects /\ AbsentVm.by = Nobody /\ AbsentVm.note = Nobody
      /\ AbsentVm.kind = "absent"
  BY DEF GlobalOK, Vm, AbsentVm, Procs
<1>1. \A i \in Connects : row'[i].vmid = row[i].vmid /\ (Live(i)' => Live(i))
  BY DEF RowsWritten, Live
<1>2. \A v \in VmIds :
        /\ vm'[v].by # Nobody =>
             vm'[v].by = vm[v].by /\ vm'[v].kind = vm[v].kind /\ vm[v].by \in Connects
        /\ vm'[v].kind # "absent" => Exists(v) /\ vm'[v].kind = vm[v].kind /\ vm'[v].by = vm[v].by
        /\ vm'[v].note # Nobody =>
             /\ vm'[v].note \in Connects /\ row[vm'[v].note].vmid = v
             /\ task[vm'[v].note] = "ok"
  BY <1>0 DEF VmTouched, StampInv, Exists
<1>3. \A v \in VmIds : vm'[v].by # Nobody =>
        vm'[v].kind = "clone" /\ row'[vm'[v].by].vmid = v /\ task'[vm'[v].by] \in {"running", "ok"}
  BY <1>1, <1>2 DEF StampInv
<1>4. \A v \in VmIds : /\ vm'[v].kind = "clone" => vm'[v].by # Nobody
                       /\ vm'[v].kind = "foreign" => May("foreign")'
  BY <1>2 DEF StampInv, May
<1>5. \A v \in VmIds : vm'[v].note # Nobody =>
        row'[vm'[v].note].vmid = v /\ task'[vm'[v].note] = "ok"
  BY <1>1, <1>2
<1>6. \A i \in Connects : snap'[i].state = "Ready" => task'[i] = "ok"
  BY DEF CopiesKept, StampInv, NoRow
<1>7. \A q \in Procs :
        /\ pc'[q] \in {"stamp", "verify", "destroy", "liveStamp"} => ent'[q].id \in Connects
        /\ pc'[q] \in {"stamp", "destroy", "liveStamp"} => task'[ent'[q].id] = "ok"
        /\ pc'[q] = "destroy" => target'[q] \in VmIds /\ target'[q] = row'[ent'[q].id].vmid
  BY <1>1 DEF StampInv, StepOf
<1>8. ~May("foreign")' => \A i \in Connects, v \in VmIds :
        Live(i)' /\ task'[i] \in {"running", "ok"} /\ row'[i].vmid = v /\ Exists(v)' => vm'[v].by = i
  BY <1>1, <1>2 DEF StampInv, May, Exists
<1>9. \A c \in Connects : pc'[c] = "post" =>
        \A i \in Connects \ {c} : Live(i)' => row'[i].vmid # row'[c].vmid
  BY <1>1 DEF StampInv, StepOf, Procs
<1> QED BY <1>3, <1>4, <1>5, <1>6, <1>7, <1>8, <1>9 DEF StampInv

\* Leaving and throwing keep it.
LEMMA LeaveStamp ==
  ASSUME LocalOK, GlobalOK, BookInv, StampInv, NEW p \in Procs, NEW how \in {"done", "failed"},
         Leave(p, how), RowsWritten, CopiesKept, UNCHANGED <<env, task, vm>>
  PROVE  StampInv'
<1>1. pc'[p] \in {"done", "failed", "scan"} /\ \A q \in Procs \ {p} : target'[q] = target[q]
  BY DEF Leave, LocalOK
<1> QED BY <1>1, LeaveGate, StampKept DEF VmTouched

\* A note on the VM at a row's VMID touches it if the row's clone ended well.
LEMMA NotesTouch ==
  ASSUME GlobalOK, BookInv, NEW i \in Connects, task[i] = "ok", NEW ok \in BOOLEAN,
         SetNotes(row[i].vmid, i, ok)
  PROVE  \A v \in VmIds : VmTouched(v)
<1>1. row[i].vmid \in VmIds
  BY DEF BookInv
<1>2. \A w \in Vm : [w EXCEPT !.note = i].note = i /\ [w EXCEPT !.note = i].kind = w.kind
                    /\ [w EXCEPT !.note = i].by = w.by
  BY DEF Vm
<1>3. CASE UNCHANGED vm
  BY <1>3 DEF VmTouched
<1>4. CASE Exists(row[i].vmid) /\ vm' = [vm EXCEPT ![row[i].vmid].note = i]
  <2>1. /\ vm'[row[i].vmid] = [vm[row[i].vmid] EXCEPT !.note = i]
        /\ \A v \in VmIds : v # row[i].vmid => vm'[v] = vm[v]
    BY <1>1, <1>4 DEF GlobalOK
  <2>2. vm[row[i].vmid] \in Vm
    BY <1>1 DEF GlobalOK
  <2> QED BY <1>2, <1>4, <2>1, <2>2 DEF VmTouched
<1> QED BY <1>3, <1>4 DEF SetNotes

\* Every step of a connect request keeps StampInv.
LEMMA ConnectStamp ==
  ASSUME LocalOK, GlobalOK, CloneInv, ClaimInv, BookInv, StampInv, NEW c \in Connects, ConnectStep(c)
  PROVE  StampInv'
<1> USE DEF dbVars, pveVars, recVars
<1>0. c \in Procs /\ c # Reconciler /\ c # Nobody
  BY ConstantsAssumption DEF Procs
<1>s. /\ UNCHANGED row => RowsWritten
      /\ UNCHANGED snap => CopiesKept
      /\ UNCHANGED vm => \A v \in VmIds : VmTouched(v)
  BY DEF RowsWritten, CopiesKept, VmTouched
<1>l. ASSUME NEW how \in {"done", "failed"}, Leave(c, how), RowsWritten,
             UNCHANGED <<env, snap, task, vm>>
      PROVE  StampInv'
  BY <1>0, <1>l, <1>s, LeaveStamp
<1>t. Throw(c) /\ UNCHANGED <<env, row, snap, task, vm>> => StampInv'
  BY <1>s, <1>l, "failed" \in {"done", "failed"} DEF Throw
<1>f. ASSUME FailRow(c), UNCHANGED <<env, snap, task, vm>> PROVE StampInv'
  <2>1. RowsWritten
    BY <1>f, <1>s, StateWritten DEF FailRow, States
  <2> QED BY <1>f, <1>l, <2>1 DEF FailRow
<1>g. ASSUME NEW l \in PCs \ {"stamp", "verify", "destroy", "liveStamp", "post"},
             pc' = [pc EXCEPT ![c] = l], StepOf(c), RowsWritten,
             UNCHANGED <<env, snap, task, vm, target>>
      PROVE  StampInv'
  <2>1. pc'[c] = l
    BY <1>0, <1>g DEF LocalOK
  <2> QED BY <1>0, <1>g, <1>s, <2>1, StampKept
<1>1. CASE Request(c)
  <2>1. StepOf(c) /\ \E l \in {"wait", "fastCheck"} : pc' = [pc EXCEPT ![c] = l]
    BY <1>0, <1>1 DEF Request, Goto, StepOf, LocalOK
  <2> QED BY <1>1, <1>s, <1>g, <2>1 DEF Request, PCs
<1>2. CASE FastCheck(c)
  <2>1. Leave(c, "done") \/ (StepOf(c) /\ pc' = [pc EXCEPT ![c] = "wait"] /\ UNCHANGED target)
    BY <1>0, <1>2 DEF FastCheck, Goto, StepOf, LocalOK
  <2> QED BY <1>2, <1>s, <1>l, <1>g, <2>1 DEF FastCheck, PCs
<1>3. CASE Enter(c)
  <2>1. StepOf(c) /\ \E l \in {"clear", "recheck"} : pc' = [pc EXCEPT ![c] = l]
    BY <1>0, <1>3 DEF Enter, StepOf, LocalOK
  <2> QED BY <1>3, <1>s, <1>g, <2>1 DEF Enter, PCs
<1>4. CASE Recheck(c)
  <2>1. RowsWritten
    BY <1>4, <1>s, StateWritten DEF Recheck, CanSave, States
  <2>2. \/ Leave(c, "done") \/ (Throw(c) /\ UNCHANGED row)
        \/ StepOf(c) /\ pc' = [pc EXCEPT ![c] = "clear"] /\ UNCHANGED target
    BY <1>0, <1>4 DEF Recheck, Goto, StepOf, LocalOK
  <2> QED BY <1>4, <1>l, <1>t, <1>g, <2>1, <2>2 DEF Recheck, PCs
<1>5. CASE Clear(c)
  <2>1. UNCHANGED <<env, row, snap, task, vm>>
    BY <1>5 DEF Clear
  <2>2. CASE Throw(c)
    BY <1>t, <2>1, <2>2
  <2>3. CASE pc' = [pc EXCEPT ![c] = "pick"] /\ ent' = [ent EXCEPT ![c] = NoEntity] /\ UNCHANGED target
    <3>1. StepOf(c)
      BY <1>0, <2>3 DEF StepOf, LocalOK
    <3> QED BY <1>s, <1>g, <2>1, <2>3, <3>1 DEF PCs
  <2>4. ASSUME NEW i \in RowsOf(OwnerOf[c]), ent' = [ent EXCEPT ![c] = Query(c, i)], UNCHANGED target,
               \/ pc' = [pc EXCEPT ![c] = "verify"]
               \/ pc' = [pc EXCEPT ![c] = "stamp"] /\ task[i] = "ok"
        PROVE  StampInv'
    <3>1. i \in Connects /\ ent'[c].id = i
      BY <1>0, <2>4, QueryTracked DEF RowsOf, LocalOK
    <3>2. StepOf(c) /\ pc'[c] \in {"verify", "stamp"} /\ (pc'[c] = "stamp" => task[i] = "ok")
      BY <1>0, <2>4 DEF StepOf, LocalOK
    <3> QED BY <1>0, <1>s, <2>1, <2>4, <3>1, <3>2, StampKept
  <2> QED BY <1>5, <2>2, <2>3, <2>4 DEF Clear, Goto, GetTaskStatus
<1>6. CASE Pick(c)
  <2>1. Leave(c, "failed") \/ (StepOf(c) /\ pc' = [pc EXCEPT ![c] = "insert"] /\ UNCHANGED target)
    BY <1>0, <1>6 DEF Pick, StepOf, LocalOK
  <2> QED BY <1>6, <1>s, <1>l, <1>g, <2>1 DEF Pick, PCs
<1>7. CASE Insert(c)
  <2>1. CASE RowsOf(OwnerOf[c]) # {}
    BY <1>7, <2>1, <1>t DEF Insert
  <2>2. CASE RowsOf(OwnerOf[c]) = {}
    <3>1. /\ \A i \in Connects : i # c => row'[i] = row[i]
          /\ StepOf(c) /\ pc'[c] = "post" /\ UNCHANGED <<env, snap, task, vm, target>>
      BY <1>0, <1>7, <2>2 DEF Insert, Goto, StepOf, LocalOK, GlobalOK
    <3>2. task[c] = "none"
      BY <1>7 DEF Insert, CloneInv, Early
    <3>3. \A v \in VmIds : vm[v].by \in Connects \cup {Nobody} /\ vm[v].note \in Connects \cup {Nobody}
      BY DEF GlobalOK, Vm
    <3>4. \A v \in VmIds : vm[v].by # c /\ vm[v].note # c
      BY <1>0, <3>2 DEF StampInv
    <3>5. \A q \in Procs : q # c => pc'[q] = pc[q] /\ ent'[q] = ent[q]
      BY <3>1 DEF StepOf
    <3>6. \A q \in Procs : pc[q] \in {"stamp", "destroy", "liveStamp"} => ent[q].id # c
      BY <3>2 DEF StampInv
    <3>7. \A v \in VmIds : vm'[v].by # Nobody =>
            vm'[v].kind = "clone" /\ row'[vm'[v].by].vmid = v /\ task'[vm'[v].by] \in {"running", "ok"}
      BY <3>1, <3>3, <3>4 DEF StampInv
    <3>8. \A v \in VmIds : vm'[v].note # Nobody => row'[vm'[v].note].vmid = v /\ task'[vm'[v].note] = "ok"
      BY <3>1, <3>3, <3>4 DEF StampInv
    <3>9. \A q \in Procs :
            /\ pc'[q] \in {"stamp", "verify", "destroy", "liveStamp"} => ent'[q].id \in Connects
            /\ pc'[q] \in {"stamp", "destroy", "liveStamp"} => task'[ent'[q].id] = "ok"
            /\ pc'[q] = "destroy" => target'[q] \in VmIds /\ target'[q] = row'[ent'[q].id].vmid
      BY <3>1, <3>5, <3>6 DEF StampInv
    <3>10. \A i \in Connects : task[i] \in {"running", "ok"} => i # c /\ row'[i] = row[i]
      BY <3>1, <3>2
    <3>11. \A d \in Connects : pc'[d] = "post" =>
             \A i \in Connects \ {d} : Live(i)' => row'[i].vmid # row'[d].vmid
      <4>1. vmidGate = c /\ plan[c] \notin Claimed
        BY <1>7 DEF Insert, ClaimInv
      <4>2. \A d \in Connects : d # c => pc'[d] # "post"
        BY <1>0, <3>1, <4>1 DEF ClaimInv, StepOf, Procs
      <4>3. row'[c].vmid = plan[c]
        BY <1>7, <2>2 DEF Insert, GlobalOK, NoRow
      <4> QED BY <3>1, <4>1, <4>2, <4>3 DEF Claimed, Live
    <3> QED BY <3>1, <3>7, <3>8, <3>9, <3>10, <3>11 DEF StampInv, May, Live, Exists
  <2> QED BY <2>1, <2>2
<1>8. CASE Post(c)
  <2>0. pc[c] = "post" /\ task[c] = "none" /\ plan[c] = row[c].vmid /\ row[c].vmid \in VmIds
        /\ UNCHANGED <<env, snap>>
    BY <1>0, <1>8 DEF Post, CloneInv, BookInv, Early
  <2>1. CASE UNCHANGED <<vm, task>> /\ FailRow(c)
    BY <2>0, <2>1, <1>f
  <2>2. CASE /\ ~Exists(plan[c])
             /\ vm' = [vm EXCEPT ![plan[c]] = [kind |-> "clone", by |-> c, note |-> Nobody]]
             /\ task' = [task EXCEPT ![c] = "running"]
    <3> DEFINE w == row[c].vmid
    <3>1. RowsWritten
      BY <1>8, <1>s, StateWritten DEF Post, FailRow, States
    <3>2. /\ pc'[c] \in {"saveUpid", "failed"} /\ StepOf(c)
          /\ \A q \in Procs : q # c => target'[q] = target[q]
      BY <1>0, <1>8, LeaveGate DEF Post, FailRow, Leave, StepOf, LocalOK
    <3>3. \A i \in Connects : (i # c => task'[i] = task[i]) /\ (i = c => task'[i] = "running")
      BY <2>2 DEF GlobalOK
    <3>4. /\ vm'[w].kind = "clone" /\ vm'[w].by = c /\ vm'[w].note = Nobody
          /\ \A v \in VmIds : v # w => vm'[v] = vm[v]
      BY <2>0, <2>2 DEF GlobalOK
    <3>5. \A i \in Connects : row'[i].vmid = row[i].vmid /\ (Live(i)' => Live(i))
      BY <3>1 DEF RowsWritten, Live
    <3>6. \A v \in VmIds : /\ vm[v].by \in Connects \cup {Nobody} /\ vm[v].note \in Connects \cup {Nobody}
                           /\ vm[v].by # c /\ vm[v].note # c
      BY <1>0, <2>0 DEF GlobalOK, Vm, StampInv
    <3>7. \A v \in VmIds : vm'[v].by # Nobody =>
            vm'[v].kind = "clone" /\ row'[vm'[v].by].vmid = v /\ task'[vm'[v].by] \in {"running", "ok"}
      BY <3>3, <3>4, <3>5, <3>6 DEF StampInv
    <3>8. \A v \in VmIds : /\ vm'[v].kind = "clone" => vm'[v].by # Nobody
                           /\ vm'[v].kind = "foreign" => May("foreign")'
      BY <1>0, <2>0, <3>4 DEF StampInv, May
    <3>9. \A v \in VmIds : vm'[v].note # Nobody => row'[vm'[v].note].vmid = v /\ task'[vm'[v].note] = "ok"
      BY <3>3, <3>4, <3>5, <3>6 DEF StampInv
    <3>10. \A i \in Connects : snap'[i].state = "Ready" => task'[i] = "ok"
      BY <2>0, <3>3 DEF StampInv
    <3>11. \A q \in Procs : q # c => pc'[q] = pc[q] /\ ent'[q] = ent[q]
      BY <3>2 DEF StepOf
    <3>12. \A q \in Procs : pc[q] \in {"stamp", "destroy", "liveStamp"} => ent[q].id # c
      BY <2>0 DEF StampInv
    <3>13. \A q \in Procs :
            /\ pc'[q] \in {"stamp", "verify", "destroy", "liveStamp"} => ent'[q].id \in Connects
            /\ pc'[q] \in {"stamp", "destroy", "liveStamp"} => task'[ent'[q].id] = "ok"
            /\ pc'[q] = "destroy" => target'[q] \in VmIds /\ target'[q] = row'[ent'[q].id].vmid
      BY <3>2, <3>3, <3>5, <3>11, <3>12 DEF StampInv
    <3>14. \A i \in Connects : Live(i)' /\ row'[i].vmid = w => i = c
      BY <2>0, <3>5 DEF StampInv
    <3>15. ~May("foreign")' => \A i \in Connects, v \in VmIds :
             Live(i)' /\ task'[i] \in {"running", "ok"} /\ row'[i].vmid = v /\ Exists(v)' =>
               vm'[v].by = i
      <4> SUFFICES ASSUME ~May("foreign")', NEW i \in Connects, NEW v \in VmIds, Live(i)',
                          task'[i] \in {"running", "ok"}, row'[i].vmid = v, Exists(v)'
                   PROVE  vm'[v].by = i
        OBVIOUS
      <4>1. CASE v = w
        BY <3>4, <3>14, <4>1
      <4>2. CASE v # w
        BY <2>0, <3>3, <3>4, <3>5, <4>2 DEF StampInv, May, Exists
      <4> QED BY <4>1, <4>2
    <3>16. \A d \in Connects : pc'[d] = "post" =>
             \A i \in Connects \ {d} : Live(i)' => row'[i].vmid # row'[d].vmid
      BY <1>0, <3>2, <3>5 DEF StampInv, StepOf, Procs
    <3> QED BY <3>7, <3>8, <3>9, <3>10, <3>13, <3>15, <3>16 DEF StampInv
  <2> QED BY <1>8, <2>1, <2>2 DEF Post
<1>9. CASE SaveUpid(c)
  <2>1. CASE ~CanSave(c, c)
    BY <1>9, <2>1, <1>t DEF SaveUpid
  <2>2. CASE CanSave(c, c)
    <3>1. \A r \in Row : [r EXCEPT !.upid = TRUE].state = r.state
                         /\ [r EXCEPT !.upid = TRUE].vmid = r.vmid
      BY DEF Row
    <3>m. /\ row'[c] = [row[c] EXCEPT !.upid = TRUE] /\ row[c] \in Row
          /\ \A i \in Connects : i # c => row'[i] = row[i]
      BY <1>9, <2>2 DEF SaveUpid, GlobalOK
    <3>2. \A i \in Connects : row'[i].state = row[i].state /\ row'[i].vmid = row[i].vmid
      <4>1. row'[c].state = row[c].state /\ row'[c].vmid = row[c].vmid
        BY <3>1, <3>m
      <4> QED BY <3>m, <4>1
    <3>3. /\ \A q \in Procs : q # c => pc'[q] = pc[q] /\ ent'[q] = ent[q]
          /\ pc'[c] = "waitTask" /\ UNCHANGED <<env, snap, task, vm, target>>
      BY <1>0, <1>9, <2>2 DEF SaveUpid, Goto, LocalOK
    <3>4. \A q \in Procs :
            /\ pc'[q] \in {"stamp", "verify", "destroy", "liveStamp"} => ent'[q].id \in Connects
            /\ pc'[q] \in {"stamp", "destroy", "liveStamp"} => task'[ent'[q].id] = "ok"
            /\ pc'[q] = "destroy" => target'[q] \in VmIds /\ target'[q] = row'[ent'[q].id].vmid
      BY <3>2, <3>3 DEF StampInv
    <3>5. \A v \in VmIds : vm[v].by \in Connects \cup {Nobody} /\ vm[v].note \in Connects \cup {Nobody}
      BY DEF GlobalOK, Vm
    <3>6. \A v \in VmIds : /\ vm'[v].by # Nobody =>
                                vm'[v].kind = "clone" /\ row'[vm'[v].by].vmid = v /\ task'[vm'[v].by] \in {"running", "ok"}
                           /\ vm'[v].note # Nobody => row'[vm'[v].note].vmid = v /\ task'[vm'[v].note] = "ok"
      BY <3>2, <3>3, <3>5 DEF StampInv
    <3>7. \A d \in Connects : pc'[d] = "post" =>
            \A i \in Connects \ {d} : Live(i)' => row'[i].vmid # row'[d].vmid
      BY <1>0, <3>2, <3>3 DEF StampInv, Procs, Live
    <3>8. \A v \in VmIds : /\ vm'[v].kind = "clone" => vm'[v].by # Nobody
                           /\ vm'[v].kind = "foreign" => May("foreign")'
      BY <3>3 DEF StampInv, May
    <3>9. ~May("foreign")' => \A i \in Connects, v \in VmIds :
            Live(i)' /\ task'[i] \in {"running", "ok"} /\ row'[i].vmid = v /\ Exists(v)' => vm'[v].by = i
      BY <3>2, <3>3 DEF StampInv, May, Live, Exists
    <3> QED BY <3>3, <3>4, <3>6, <3>7, <3>8, <3>9 DEF StampInv
  <2> QED BY <2>1, <2>2
<1>10. CASE WaitForTask(c)
  <2>1. CASE FailRow(c)
    BY <1>10, <2>1, <1>f DEF WaitForTask
  <2>2. CASE ~FailRow(c)
    <3>1. StepOf(c) /\ pc' = [pc EXCEPT ![c] = "finish"] /\ UNCHANGED <<env, row, task, snap, vm, target>>
      BY <1>0, <1>10, <2>2 DEF WaitForTask, Goto, StepOf, LocalOK
    <3> QED BY <1>s, <1>g, <3>1 DEF PCs
  <2> QED BY <2>1, <2>2
<1> QED BY <1>1, <1>2, <1>3, <1>4, <1>5, <1>6, <1>7, <1>8, <1>9, <1>10 DEF ConnectStep

\* So does every step the callers share: the stamp a verified destroy found names its row.
LEMMA SharedStamp ==
  ASSUME LocalOK, GlobalOK, CloneInv, BookInv, StampInv, NEW p \in Procs, SharedStep(p)
  PROVE  StampInv'
<1> USE DEF dbVars, pveVars, recVars
<1> DEFINE i == ent[p].id
<1>s. /\ UNCHANGED row => RowsWritten
      /\ UNCHANGED snap => CopiesKept
      /\ UNCHANGED vm => \A v \in VmIds : VmTouched(v)
  BY DEF RowsWritten, CopiesKept, VmTouched
<1>l. ASSUME NEW how \in {"done", "failed"}, Leave(p, how), RowsWritten,
             UNCHANGED <<env, snap, task, vm>>
      PROVE  StampInv'
  BY <1>l, <1>s, LeaveStamp
<1>t. Throw(p) /\ UNCHANGED <<env, row, snap, task, vm>> => StampInv'
  BY <1>s, <1>l, "failed" \in {"done", "failed"} DEF Throw
<1>g. ASSUME NEW l \in PCs \ {"stamp", "verify", "destroy", "liveStamp", "post"},
             pc' = [pc EXCEPT ![p] = l], StepOf(p), RowsWritten, \A v \in VmIds : VmTouched(v),
             UNCHANGED <<env, snap, task>>, \A q \in Procs \ {p} : target'[q] = target[q]
      PROVE  StampInv'
  <2>1. pc'[p] = l
    BY <1>g DEF LocalOK
  <2> QED BY <1>g, <1>s, <2>1, StampKept
<1>1. CASE Stamp(p)
  <2>1. i \in Connects /\ task[i] = "ok" /\ \E ok \in BOOLEAN : SetNotes(row[i].vmid, i, ok)
    BY <1>1 DEF Stamp, StampInv
  <2>2. \A v \in VmIds : VmTouched(v)
    BY <2>1, NotesTouch
  <2>3. /\ StepOf(p) /\ pc'[p] = "verify" /\ ent' = ent
        /\ UNCHANGED <<env, row, snap, task, target>>
    BY <1>1 DEF Stamp, Goto, StepOf, LocalOK
  <2> QED BY <1>s, <2>1, <2>2, <2>3, StampKept
<1>2. CASE Verify(p)
  <2>1. PICK v \in Bound(i) : /\ target' = [target EXCEPT ![p] = v]
                              /\ pc' = [pc EXCEPT ![p] = IF v = 0 THEN "drop" ELSE "destroy"]
    BY <1>2 DEF Verify, Goto
  <2>2. /\ StepOf(p) /\ pc'[p] = (IF v = 0 THEN "drop" ELSE "destroy") /\ ent' = ent
        /\ target'[p] = v /\ \A q \in Procs \ {p} : target'[q] = target[q]
        /\ UNCHANGED <<env, row, snap, task, vm>>
    BY <1>2, <2>1 DEF Verify, Goto, StepOf, LocalOK
  <2>3. i \in Connects /\ i # Nobody
    BY <1>2, ConstantsAssumption DEF Verify, StampInv, Procs
  <2>4. v # 0 => v \in VmIds /\ task[i] = "ok" /\ v = row[i].vmid
    <3>1. v # 0 => v \in VmIds /\ vm[v].note = i
      BY <2>1 DEF Bound
    <3> QED BY <2>3, <3>1 DEF StampInv
  <2> QED BY <1>s, <2>2, <2>3, <2>4, StampKept
<1>3. CASE Destroy(p)
  <2>1. /\ StepOf(p) /\ pc' = [pc EXCEPT ![p] = "drop"]
        /\ \A q \in Procs \ {p} : target'[q] = target[q]
        /\ UNCHANGED <<env, row, snap, task>>
    BY <1>3 DEF Destroy, Goto, StepOf, LocalOK
  <2>2. \A v \in VmIds : VmTouched(v)
    BY <1>3 DEF Destroy, DestroyVm, VmTouched, GlobalOK
  <2> QED BY <1>s, <1>g, <2>1, <2>2 DEF PCs
<1>4. CASE Drop(p)
  <2>1. RowsWritten
    BY <1>4, <1>s, StateWritten DEF Drop, CanSave, States
  <2>2. \/ Leave(p, "done") \/ (Throw(p) /\ UNCHANGED row)
        \/ StepOf(p) /\ pc' = [pc EXCEPT ![p] = "pick"] /\ UNCHANGED target
    BY <1>4 DEF Drop, Goto, StepOf, LocalOK
  <2>3. UNCHANGED <<env, snap, task, vm>>
    BY <1>4 DEF Drop
  <2> QED BY <1>s, <1>l, <1>t, <1>g, <2>1, <2>2, <2>3 DEF PCs
<1>5. CASE Finish(p)
  <2>1. CASE i \in Connects /\ task[i] = "ok"
    <3>1. \A v \in VmIds : VmTouched(v)
      BY <1>5, <2>1, NotesTouch DEF Finish
    <3>2. StepOf(p) /\ pc' = [pc EXCEPT ![p] = "identity"] /\ UNCHANGED <<env, row, snap, task, target>>
      BY <1>5 DEF Finish, Goto, StepOf, LocalOK
    <3> QED BY <1>s, <1>g, <3>1, <3>2 DEF PCs
  <2> QED BY <1>5, <2>1 DEF CloneInv, Finish, Finishing
<1>6. CASE Identity(p)
  <2>1. RowsWritten
    BY <1>6, <1>s, StateWritten, "Failed" \in States \ {"unused"} DEF Identity, CanSave, States
  <2>2. \/ Throw(p) /\ UNCHANGED row
        \/ StepOf(p) /\ pc' = [pc EXCEPT ![p] = "ready"] /\ UNCHANGED target
    BY <1>6 DEF Identity, Goto, StepOf, LocalOK
  <2>3. UNCHANGED <<env, snap, task, vm>>
    BY <1>6 DEF Identity
  <2> QED BY <1>s, <1>t, <1>g, <2>1, <2>2, <2>3 DEF PCs
<1>7. CASE MarkReady(p)
  <2>1. RowsWritten
    BY <1>7, <1>s, StateWritten, "Ready" \in States \ {"unused"} DEF MarkReady, CanSave, States
  <2> QED BY <1>7, <1>l, <1>t, <2>1 DEF MarkReady
<1> QED BY <1>1, <1>2, <1>3, <1>4, <1>5, <1>6, <1>7 DEF SharedStep

\* So does every step of a reconcile pass: it stamps for what it saw Ready, or for a clone
\* task that ended well.
LEMMA ReconcilerStamp ==
  ASSUME LocalOK, GlobalOK, CloneInv, BookInv, StampInv, ReconcilerStep
  PROVE  StampInv'
<1> USE DEF dbVars, pveVars, recVars
<1> DEFINE p == Reconciler
<1>0. p \in Procs /\ p \notin Connects /\ p # Nobody /\ \A c \in Connects : c \in Procs
  BY ConstantsAssumption DEF Procs
<1>s. /\ UNCHANGED row => RowsWritten
      /\ UNCHANGED snap => CopiesKept
      /\ UNCHANGED vm => \A v \in VmIds : VmTouched(v)
  BY DEF RowsWritten, CopiesKept, VmTouched
<1>l. ASSUME Leave(p, "done"), RowsWritten, \A v \in VmIds : VmTouched(v),
             UNCHANGED <<env, snap, task>>
      PROVE  StampInv'
  <2>1. pc'[p] = "scan" /\ StepOf(p) /\ \A q \in Procs \ {p} : target'[q] = target[q]
    BY <1>0, <1>l, LeaveGate DEF Leave, LocalOK
  <2> QED BY <1>0, <1>s, <1>l, <2>1, StampKept
<1>1. CASE BeginPass
  <2>1. /\ \A i \in Connects : snap'[i] = row[i] \/ snap'[i] = NoRow
        /\ StepOf(p) /\ pc'[p] = "scan" /\ UNCHANGED <<env, row, task, vm, ent, target>>
    BY <1>0, <1>1 DEF BeginPass, Goto, StepOf, LocalOK
  <2>2. \A i \in Connects : snap'[i].state = "Ready" => task[i] = "ok"
    BY <2>1 DEF CloneInv, ReadyIsCloned, NoRow
  <2>3. \A q \in Procs : pc'[q] = pc[q] \/ pc'[q] = "scan"
    BY <2>1 DEF StepOf
  <2> QED BY <1>0, <2>1, <2>2, <2>3 DEF StampInv, May, Live, Exists
<1>2. CASE EndPass
  <2>1. StepOf(p) /\ pc'[p] = "idle" /\ UNCHANGED <<env, row, snap, task, vm, ent, target>>
    BY <1>0, <1>2 DEF EndPass, Goto, StepOf, LocalOK
  <2> QED BY <1>0, <1>s, <2>1, StampKept
<1>3. CASE LiveStamp
  <2> DEFINE i == ent[p].id
  <2>1. i \in Connects /\ task[i] = "ok"
    BY <1>0, <1>3 DEF LiveStamp, StampInv
  <2>2. \A v \in VmIds : VmTouched(v)
    BY <1>3, <2>1, NotesTouch DEF LiveStamp
  <2>3. \/ Leave(p, "done")
        \/ StepOf(p) /\ pc'[p] = "liveSave" /\ UNCHANGED <<ent, target>>
    BY <1>0, <1>3 DEF LiveStamp, Goto, StepOf, LocalOK
  <2> QED BY <1>0, <1>3, <1>s, <1>l, <2>2, <2>3, StampKept DEF LiveStamp
<1>4. CASE LiveSave
  <2> DEFINE i == ent[p].id
  <2>1. PassSave(i, [row[i] EXCEPT !.stamped = TRUE])
    BY <1>4 DEF LiveSave
  <2>2. CASE i \in Connects
    <3>1. /\ [row[i] EXCEPT !.stamped = TRUE].vmid = row[i].vmid
          /\ [row[i] EXCEPT !.stamped = TRUE].upid = row[i].upid
          /\ [row[i] EXCEPT !.stamped = TRUE].state = row[i].state
      BY <2>2 DEF GlobalOK, Row
    <3>2. CASE row[i].state # "unused"
      BY <1>4, <1>l, <1>s, <2>1, <2>2, <3>1, <3>2, PassSaveWritten DEF LiveSave
    <3>3. CASE row[i].state = "unused"
      BY <1>4, <1>l, <1>s, <2>1, <3>3 DEF LiveSave, PassSave, CanSave, Live
    <3> QED BY <3>2, <3>3
  <2>3. CASE i \notin Connects
    <3>1. UNCHANGED row
      BY <2>1, <2>3 DEF PassSave, GlobalOK
    <3> QED BY <1>4, <1>l, <1>s, <3>1 DEF LiveSave
  <2> QED BY <2>2, <2>3
<1>5. ASSUME NEW i \in Connects, ReconcileRow(i) PROVE StampInv'
  <2>1. /\ [row[i] EXCEPT !.state = "Failed"].state = "Failed"
        /\ [row[i] EXCEPT !.state = "Failed"].vmid = row[i].vmid
        /\ [row[i] EXCEPT !.state = "Failed"].upid = row[i].upid
    BY DEF GlobalOK, Row
  <2>2. pc[p] = "scan" /\ i \in Todo /\ Taken(i) /\ UNCHANGED <<env, task, vm, target>>
    BY <1>5 DEF ReconcileRow, Skip, ReconcileProvisioning, ReconcileDead, ReconcileLive
  <2>3. CopiesKept
    BY <2>2 DEF CopiesKept, Taken, GlobalOK
  <2>4. RowsWritten
    BY <1>5, <1>s, <2>1, PassSaveWritten
       DEF ReconcileRow, Skip, ReconcileProvisioning, ReconcileDead, ReconcileLive
  <2>5. \/ UNCHANGED <<pc, ent>>
        \/ /\ ent' = [ent EXCEPT ![p] = Track(i, snap[i])]
           /\ \/ pc' = [pc EXCEPT ![p] = "finish"] \/ pc' = [pc EXCEPT ![p] = "verify"]
              \/ pc' = [pc EXCEPT ![p] = "stamp"] /\ task[i] = "ok"
              \/ pc' = [pc EXCEPT ![p] = "liveStamp"] /\ snap[i].state = "Ready"
    BY <1>5 DEF ReconcileRow, Skip, ReconcileProvisioning, ReconcileDead, ReconcileLive, GetTaskStatus
  <2>6. /\ StepOf(p)
        /\ \/ pc'[p] = "scan"
           \/ /\ ent'[p] = Track(i, snap[i])
              /\ pc'[p] \in {"finish", "verify", "stamp", "liveStamp"}
              /\ pc'[p] \in {"stamp", "liveStamp"} => task[i] = "ok"
    BY <1>0, <2>2, <2>5 DEF StepOf, LocalOK, StampInv
  <2>7. Track(i, snap[i]).id = i
    BY DEF Track
  <2> QED BY <1>0, <1>s, <2>2, <2>3, <2>4, <2>6, <2>7, StampKept
<1> QED BY <1>1, <1>2, <1>3, <1>4, <1>5 DEF ReconcilerStep

\* Deprovision, the surroundings and a restart keep StampInv.
LEMMA OutsideStamp ==
  ASSUME LocalOK, GlobalOK, BookInv, StampInv, Environment \/ \E a \in Admins : Deprovision(a)
  PROVE  StampInv'
<1> USE DEF dbVars, pveVars, recVars
<1>0. /\ \A a \in Admins : a \in Procs
      /\ Nobody \notin Connects /\ Foreign.by = Nobody /\ Foreign.note = Nobody /\ Foreign.kind = "foreign"
      /\ AbsentVm.by = Nobody /\ AbsentVm.note = Nobody /\ AbsentVm.kind = "absent"
      /\ Reconciler \in Procs
  BY ConstantsAssumption DEF Procs, Foreign, AbsentVm
<1>1. ASSUME NEW a \in Admins, Deprovision(a) PROVE StampInv'
  <2>1. PICK i \in Connects : /\ Live(i) /\ row' = [row EXCEPT ![i].state = "Deprovisioning"]
                              /\ ent' = [ent EXCEPT ![a] = Track(i, row[i])]
    BY <1>1 DEF Deprovision
  <2>2. RowsWritten
    BY <2>1, StateWritten DEF States
  <2>3. /\ StepOf(a) /\ pc'[a] = "verify" /\ CopiesKept /\ UNCHANGED <<env, task, vm, target>>
        /\ ent'[a] = Track(i, row[i])
    BY <1>0, <1>1, <2>1 DEF Deprovision, Goto, StepOf, LocalOK, CopiesKept
  <2> QED BY <1>0, <2>2, <2>3, StampKept DEF Track, VmTouched
<1>2. ASSUME NEW i \in Connects, CloneEnds(i) \/ CloneFails(i) PROVE StampInv'
  <2>1. UNCHANGED <<env, row, snap, pc, ent, target>>
    BY <1>2 DEF CloneEnds, CloneFails
  <2>2. task[i] = "running" /\ task'[i] \in {"ok", "failed"} /\ \A j \in Connects : j # i => task'[j] = task[j]
    BY <1>2 DEF CloneEnds, CloneFails, GlobalOK
  <2>3. \A v \in VmIds : /\ vm'[v] = vm[v] \/ vm'[v] = AbsentVm
                         /\ task'[i] = "failed" => vm'[v].by # i
    BY <1>0, <1>2 DEF CloneEnds, CloneFails, GlobalOK
  <2>4. \A v \in VmIds : vm[v].by \in Connects \cup {Nobody} /\ vm[v].note \in Connects \cup {Nobody}
    BY DEF GlobalOK, Vm
  <2>5. \A j \in Connects : /\ task[j] = "ok" => task'[j] = "ok"
                            /\ task'[j] \in {"running", "ok"} => task[j] \in {"running", "ok"}
    BY <2>2
  <2>6. \A v \in VmIds : vm'[v].by # Nobody =>
          vm'[v].kind = "clone" /\ row'[vm'[v].by].vmid = v /\ task'[vm'[v].by] \in {"running", "ok"}
    BY <1>0, <2>1, <2>2, <2>3, <2>4 DEF StampInv
  <2>7. \A v \in VmIds : vm'[v].note # Nobody => row'[vm'[v].note].vmid = v /\ task'[vm'[v].note] = "ok"
    BY <1>0, <2>1, <2>3, <2>4, <2>5 DEF StampInv
  <2>8. \A v \in VmIds : /\ vm'[v].kind = "clone" => vm'[v].by # Nobody
                         /\ vm'[v].kind = "foreign" => May("foreign")'
    BY <1>0, <2>1, <2>3 DEF StampInv, May
  <2>9. ~May("foreign")' => \A j \in Connects, v \in VmIds :
          Live(j)' /\ task'[j] \in {"running", "ok"} /\ row'[j].vmid = v /\ Exists(v)' => vm'[v].by = j
    BY <1>0, <2>1, <2>3, <2>5 DEF StampInv, May, Live, Exists
  <2>10. \A q \in Procs :
           /\ pc'[q] \in {"stamp", "verify", "destroy", "liveStamp"} => ent'[q].id \in Connects
           /\ pc'[q] \in {"stamp", "destroy", "liveStamp"} => task'[ent'[q].id] = "ok"
           /\ pc'[q] = "destroy" => target'[q] \in VmIds /\ target'[q] = row'[ent'[q].id].vmid
    BY <2>1, <2>5 DEF StampInv
  <2>11. \A j \in Connects : snap'[j].state = "Ready" => task'[j] = "ok"
    BY <2>1, <2>5 DEF StampInv
  <2>12. \A c \in Connects : pc'[c] = "post" =>
           \A j \in Connects \ {c} : Live(j)' => row'[j].vmid # row'[c].vmid
    BY <2>1 DEF StampInv, Live
  <2> QED BY <2>6, <2>7, <2>8, <2>9, <2>10, <2>11, <2>12 DEF StampInv
<1>3. ASSUME NEW w \in VmIds, CreateForeign(w) PROVE StampInv'
  <2>1. UNCHANGED <<env, row, snap, task, pc, ent, target>> /\ May("foreign")
    BY <1>3 DEF CreateForeign
  <2>2. vm'[w] = Foreign /\ \A v \in VmIds : v # w => vm'[v] = vm[v]
    BY <1>3 DEF CreateForeign, GlobalOK
  <2> QED BY <1>0, <2>1, <2>2 DEF StampInv, May, Live
<1>4. ASSUME NEW w \in VmIds, DeleteOutOfBand(w) PROVE StampInv'
  <2>1. UNCHANGED <<env, row, snap, task, pc, ent, target>>
    BY <1>4 DEF DeleteOutOfBand
  <2>2. vm'[w] = AbsentVm /\ \A v \in VmIds : v # w => vm'[v] = vm[v]
    BY <1>4 DEF DeleteOutOfBand, GlobalOK
  <2> QED BY <1>0, <2>1, <2>2 DEF StampInv, May, Live, Exists
<1>5. CASE Crash
  <2>1. /\ UNCHANGED <<env, row, task, vm>> /\ \A i \in Connects : snap'[i] = NoRow
        /\ \A q \in Procs : pc'[q] \in {"idle", "done", "failed"}
    BY <1>5 DEF Crash
  <2>2. \A c \in Connects : c \in Procs
    BY DEF Procs
  <2> QED BY <2>1, <2>2 DEF StampInv, May, Live, Exists, NoRow
<1> QED BY <1>1, <1>2, <1>3, <1>4, <1>5 DEF Environment

\* Every step keeps StampInv.
LEMMA StampIsInductive ==
  ASSUME TypeOK, ClaimInv, CloneInv, BookInv, StampInv, [Next]_vars
  PROVE  StampInv'
<1>1. LocalOK /\ GlobalOK
  BY TypeParts
<1>2. CASE UNCHANGED vars
  BY <1>2 DEF vars, dbVars, pveVars, recVars, StampInv, May, Live, Exists
<1>3. CASE Next
  BY <1>1, <1>3, ConnectStamp, SharedStamp, ReconcilerStamp, OutsideStamp DEF Next
<1> QED BY <1>2, <1>3

\* Initially nothing is cloned and nobody destroys.
LEMMA InitStamp == Init => StampInv
  BY ConstantsAssumption DEF Init, StampInv, AbsentVm, NoRow, Live, Procs

-----------------------------------------------------------------------------
\* While the backend answers, nobody deprovisions and passes are short.

Gone(i) == row[i].state \in {"Failed", "Deprovisioning", "removed"}
Was(i)  == row[i].state \in {"Ready", "Failed", "Deprovisioning", "removed"}

\* Where a request works on the row it inserted.
Busy == {"post", "saveUpid", "waitTask"} \cup Finishing

Online == env \cap {"outage", "deprovision", "longPass"} = {}

\* A row is Provisioning as long as its request, or the reconciler, works on it, and not
\* both do; who destroys and drops works on a row that is given up; a copy that was Ready
\* or given up belongs to a row that is no longer Provisioning; and the inventory of a pass
\* has every clone that the pass has still to look at.
OnlineInv ==
  /\ \A a \in Admins : pc[a] = "idle"
  /\ \A c \in Connects : pc[c] \in Busy => ent[c].id = c /\ row[c].state = "Provisioning"
  /\ pc[Reconciler] \in Finishing =>
       /\ ent[Reconciler].id \in Connects
       /\ row[ent[Reconciler].id].state = "Provisioning" /\ pc[ent[Reconciler].id] \notin Busy
       /\ snap[ent[Reconciler].id] = NoRow
  /\ \A p \in Procs : pc[p] \in {"stamp", "verify", "destroy", "drop"} =>
       ent[p].id \in Connects /\ Gone(ent[p].id)
  /\ \A c \in Connects : ent[c].state = "Ready" => ent[c].id \in Connects /\ Was(ent[c].id)
  /\ \A c \in Connects : pc[c] \in {"fastCheck", "recheck"} => ent[c].state = "Ready"
  /\ \A i \in Connects : snap[i].state = "Provisioning" =>
       row[i].state = "Provisioning" /\ pc[i] \notin Busy /\ snap[i].upid = row[i].upid
  /\ \A i \in Connects : Dead(snap[i].state) => Gone(i)
  /\ \A i \in Connects : snap[i].state = "Ready" => Was(i)
  /\ pc[Reconciler] = "idle" => inv = NotLoaded
  /\ inv.status = "known" =>
       \A i \in Connects, v \in VmIds : snap[i].state = "Ready" /\ vm[v].by = i => v \in inv.ids

\* What a step of p does to the rows: it leaves their states, or moves a row on that was
\* Ready, or one that p is working on, or inserts its own.
RowsMove(p) ==
  \A i \in Connects :
    \/ row'[i].state = row[i].state /\ (row'[i].upid = row[i].upid \/ pc[i] \in Busy)
    \/ Was(i) /\ Was(i)' /\ (Gone(i) => Gone(i)')
    \/ /\ row[i].state = "Provisioning" /\ Was(i)'
       /\ \/ p = i /\ pc[i] \in Busy
          \/ p = Reconciler /\ pc[i] \notin Busy /\ snap'[i] = NoRow
    \/ p = i /\ row[i].state = "unused" /\ row'[i].state = "Provisioning"

\* New clones are of rows whose clone task was just started.
ClonesNew == \A v \in VmIds : vm'[v].by \in {vm[v].by, Nobody} \/ task[vm'[v].by] = "none"

\* The inventory is kept, or complete, or emptied with the pass.
InventoryTaken ==
  \/ inv' = inv \/ inv' = NotLoaded
  \/ \A v \in VmIds : vm'[v].by # Nobody => v \in inv'.ids

LEMMA OnlineKept ==
  ASSUME LocalOK, GlobalOK, BookInv, StampInv, OnlineInv,
         NEW p \in Connects \cup {Reconciler}, StepOf(p), RowsMove(p), CopiesKept, ClonesNew,
         InventoryTaken,
         p \in Connects /\ pc'[p] \in Busy =>
           /\ ent'[p].id = p /\ row'[p].state = "Provisioning"
           /\ pc[p] \in Busy \/ row[p].state = "unused",
         p = Reconciler /\ pc'[p] \in Finishing =>
           /\ ent'[p].id \in Connects
           /\ row'[ent'[p].id].state = "Provisioning" /\ pc'[ent'[p].id] \notin Busy
           /\ snap'[ent'[p].id] = NoRow,
         pc'[p] \in {"stamp", "verify", "destroy", "drop"} =>
           ent'[p].id \in Connects /\ Gone(ent'[p].id),
         p \in Connects /\ ent'[p].state = "Ready" => ent'[p].id \in Connects /\ Was(ent'[p].id),
         p \in Connects /\ pc'[p] \in {"fastCheck", "recheck"} => ent'[p].state = "Ready",
         pc'[Reconciler] = "idle" => inv' = NotLoaded
  PROVE  OnlineInv'
<1> USE ConstantsAssumption
<1>0. /\ Reconciler \notin Connects /\ Reconciler \in Procs /\ Nobody \notin Connects
      /\ \A c \in Connects : c \in Procs /\ c \notin Admins
      /\ \A a \in Admins : a \in Procs /\ a # p
      /\ NoRow.state = "unused" /\ ~NoRow.upid /\ NotLoaded.status = "none"
      /\ p \in Procs
  BY DEF Procs, NoRow, NotLoaded
<1>1. \A i \in Connects : (Gone(i) => Gone(i)') /\ (Was(i) => Was(i)')
  BY DEF RowsMove, Gone, Was
<1>2. \A i \in Connects : row[i].state = "Provisioning" =>
        \/ row'[i].state = "Provisioning"
        \/ Was(i)' /\ p = i /\ pc[i] \in Busy
        \/ Was(i)' /\ p = Reconciler /\ pc[i] \notin Busy /\ snap'[i] = NoRow
  BY DEF RowsMove, Gone, Was
<1>3. \A a \in Admins : pc'[a] = "idle"
  BY <1>0 DEF OnlineInv, StepOf
<1>4. \A c \in Connects : pc'[c] \in Busy => ent'[c].id = c /\ row'[c].state = "Provisioning"
  <2> SUFFICES ASSUME NEW c \in Connects, pc'[c] \in Busy, c # p
               PROVE  ent'[c].id = c /\ row'[c].state = "Provisioning"
    OBVIOUS
  <2>1. pc[c] \in Busy /\ ent'[c] = ent[c]
    BY <1>0 DEF StepOf
  <2> QED BY <1>2, <2>1 DEF OnlineInv
<1>5. \A i \in Connects : pc[i] \notin Busy /\ row[i].state # "unused" => pc'[i] \notin Busy
  BY <1>0 DEF StepOf
<1>6. pc'[Reconciler] \in Finishing =>
        /\ ent'[Reconciler].id \in Connects
        /\ row'[ent'[Reconciler].id].state = "Provisioning" /\ pc'[ent'[Reconciler].id] \notin Busy
        /\ snap'[ent'[Reconciler].id] = NoRow
  <2>1. CASE p # Reconciler
    <3> SUFFICES ASSUME pc'[Reconciler] \in Finishing
                 PROVE  /\ ent'[Reconciler].id \in Connects
                        /\ row'[ent'[Reconciler].id].state = "Provisioning"
                        /\ pc'[ent'[Reconciler].id] \notin Busy
                        /\ snap'[ent'[Reconciler].id] = NoRow
      OBVIOUS
    <3> DEFINE i == ent[Reconciler].id
    <3>1. pc[Reconciler] \in Finishing /\ ent'[Reconciler].id = i
      BY <1>0, <2>1 DEF StepOf
    <3>2. i \in Connects /\ row[i].state = "Provisioning" /\ pc[i] \notin Busy /\ snap[i] = NoRow
      BY <3>1 DEF OnlineInv
    <3>3. row'[i].state = "Provisioning" /\ pc'[i] \notin Busy /\ snap'[i] = NoRow
      BY <1>2, <1>5, <2>1, <3>2 DEF CopiesKept
    <3> QED BY <3>1, <3>2, <3>3
  <2> QED BY <2>1
<1>7. \A q \in Procs : pc'[q] \in {"stamp", "verify", "destroy", "drop"} =>
        ent'[q].id \in Connects /\ Gone(ent[q].id)'
  <2> SUFFICES ASSUME NEW q \in Procs, pc'[q] \in {"stamp", "verify", "destroy", "drop"}
               PROVE  ent'[q].id \in Connects /\ Gone(ent[q].id)'
    OBVIOUS
  <2>1. ent'[q].id \in Connects /\ Gone(ent'[q].id)
    BY <1>0 DEF OnlineInv, StepOf
  <2> QED BY <1>1, <2>1 DEF Gone, Was
<1>8. \A c \in Connects : ent'[c].state = "Ready" => ent'[c].id \in Connects /\ Was(ent[c].id)'
  <2> SUFFICES ASSUME NEW c \in Connects, ent'[c].state = "Ready"
               PROVE  ent'[c].id \in Connects /\ Was(ent[c].id)'
    OBVIOUS
  <2>1. ent'[c].id \in Connects /\ Was(ent'[c].id)
    BY <1>0 DEF OnlineInv, StepOf
  <2> QED BY <1>1, <2>1 DEF Gone, Was
<1>9. \A c \in Connects : pc'[c] \in {"fastCheck", "recheck"} => ent'[c].state = "Ready"
  BY <1>0 DEF OnlineInv, StepOf
<1>10. \A i \in Connects : snap'[i].state # "unused" => snap'[i] = snap[i] /\ row[i].state # "unused"
  BY <1>0 DEF CopiesKept, BookInv
<1>11. \A i \in Connects : snap'[i].state = "Provisioning" =>
         row'[i].state = "Provisioning" /\ pc'[i] \notin Busy /\ snap'[i].upid = row'[i].upid
  <2> SUFFICES ASSUME NEW i \in Connects, snap'[i].state = "Provisioning"
               PROVE  row'[i].state = "Provisioning" /\ pc'[i] \notin Busy /\ snap'[i].upid = row'[i].upid
    OBVIOUS
  <2>1. snap'[i] = snap[i] /\ row[i].state = "Provisioning" /\ pc[i] \notin Busy /\ snap[i].upid = row[i].upid
    BY <1>10 DEF OnlineInv
  <2>2. row'[i].state = "Provisioning"
    BY <1>0, <1>2, <2>1
  <2>3. row'[i].upid = row[i].upid
    BY <2>1, <2>2 DEF RowsMove, Was
  <2> QED BY <1>5, <2>1, <2>2, <2>3
<1>12. \A i \in Connects : /\ Dead(snap'[i].state) => Gone(i)'
                           /\ snap'[i].state = "Ready" => Was(i)'
  BY <1>1, <1>10 DEF OnlineInv, Dead
<1>13. inv'.status = "known" =>
         \A i \in Connects, v \in VmIds : snap'[i].state = "Ready" /\ vm'[v].by = i => v \in inv'.ids
  <2> SUFFICES ASSUME inv'.status = "known", NEW i \in Connects, NEW v \in VmIds,
                      snap'[i].state = "Ready", vm'[v].by = i
               PROVE  v \in inv'.ids
    OBVIOUS
  <2>1. snap[i].state = "Ready" /\ task[i] = "ok"
    BY <1>10 DEF StampInv
  <2>2. vm[v].by = i
    BY <1>0, <2>1 DEF ClonesNew
  <2> QED BY <1>0, <2>1, <2>2 DEF InventoryTaken, OnlineInv
<1> QED BY <1>3, <1>4, <1>6, <1>7, <1>8, <1>9, <1>11, <1>12, <1>13 DEF OnlineInv, Dead

\* Leaving and throwing keep OnlineInv.
LEMMA LeaveOnline ==
  ASSUME LocalOK, GlobalOK, BookInv, StampInv, OnlineInv,
         NEW p \in Connects \cup {Reconciler}, NEW how \in {"done", "failed"}, Leave(p, how),
         RowsMove(p), CopiesKept, ClonesNew, UNCHANGED inv
  PROVE  OnlineInv'
<1>0. p \in Procs
  BY DEF Procs
<1>1. pc'[p] \in {"done", "failed", "scan"} /\ (ent'[p] = ent[p] \/ ent'[p] = NoEntity)
  BY <1>0 DEF Leave, LocalOK
<1>2. p \in Connects /\ ent'[p].state = "Ready" => ent'[p].id \in Connects /\ Was(ent'[p].id)
  BY <1>1 DEF OnlineInv, NoEntity
<1>3. StepOf(p)
  BY <1>0, LeaveGate
<1>4. pc'[Reconciler] = "idle" => inv' = NotLoaded
  <2>1. pc'[Reconciler] = "idle" => pc[Reconciler] = "idle"
    BY <1>0, <1>1, <1>3 DEF StepOf, Procs
  <2> QED BY <2>1 DEF OnlineInv
<1>5. InventoryTaken
  BY DEF InventoryTaken
<1> QED BY <1>1, <1>2, <1>3, <1>4, <1>5, OnlineKept DEF Busy, Finishing

\* Every step of a connect request keeps OnlineInv: the backend's answers are complete.
LEMMA ConnectOnline ==
  ASSUME LocalOK, GlobalOK, CloneInv, BookInv, StampInv, Online, OnlineInv,
         NEW c \in Connects, ConnectStep(c)
  PROVE  OnlineInv'
<1> USE DEF dbVars, pveVars, recVars
<1>0. /\ c \in Procs /\ c # Reconciler /\ c # Nobody /\ c \in Connects \cup {Reconciler}
      /\ Reconciler \in Procs
  BY ConstantsAssumption DEF Procs
<1>o. ~May("outage")
  BY DEF Online, May
<1>v. \A vms \in ListVms : vms = {v \in VmIds : Exists(v)}
  BY <1>o DEF ListVms
<1>s. /\ UNCHANGED row => RowsMove(c)
      /\ UNCHANGED snap => CopiesKept
      /\ UNCHANGED vm => ClonesNew
      /\ UNCHANGED inv => InventoryTaken
  BY DEF RowsMove, CopiesKept, ClonesNew, InventoryTaken
<1>l. ASSUME NEW how \in {"done", "failed"}, Leave(c, how), RowsMove(c), ClonesNew,
             UNCHANGED <<snap, inv>>
      PROVE  OnlineInv'
  BY <1>0, <1>l, <1>s, LeaveOnline
<1>t. Throw(c) /\ UNCHANGED <<row, snap, vm, inv>> => OnlineInv'
  BY <1>s, <1>l, "failed" \in {"done", "failed"} DEF Throw
<1>f. ASSUME FailRow(c), pc[c] \in Busy, ClonesNew, UNCHANGED <<snap, inv>> PROVE OnlineInv'
  <2>1. row[c].state = "Provisioning"
    BY <1>f DEF OnlineInv
  <2>2. row' = [row EXCEPT ![c].state = "Failed"]
    BY <1>f, <2>1 DEF FailRow, Live
  <2>3. row'[c].state = "Failed" /\ \A i \in Connects : i # c => row'[i] = row[i]
    BY <2>2 DEF GlobalOK, Row
  <2>4. RowsMove(c)
    BY <1>f, <2>1, <2>3 DEF RowsMove, Was
  <2> QED BY <1>f, <1>l, <2>4 DEF FailRow
<1>g. ASSUME StepOf(c), pc'[c] \notin Busy, RowsMove(c), UNCHANGED <<snap, vm, inv>>,
             pc'[c] \in {"stamp", "verify", "destroy", "drop"} =>
               ent'[c].id \in Connects /\ Gone(ent'[c].id),
             ent'[c].state = "Ready" => ent'[c].id \in Connects /\ Was(ent'[c].id),
             pc'[c] \in {"fastCheck", "recheck"} => ent'[c].state = "Ready"
      PROVE  OnlineInv'
  <2>1. pc'[Reconciler] = "idle" => inv' = NotLoaded
    BY <1>0, <1>g DEF StepOf, OnlineInv
  <2> QED BY <1>0, <1>g, <1>s, <2>1, OnlineKept
<1>q. ASSUME NEW i \in Connects, Live(i)
      PROVE  /\ Query(c, i).id = i /\ (Query(c, i).state = "Ready" => Was(i))
             /\ Track(i, row[i]).id = i /\ Track(i, row[i]).state = row[i].state
             /\ row[i].state = "Ready" => Was(i)
  BY <1>q, QueryTracked DEF Query, Track, OnlineInv, Was
<1>1. CASE Request(c)
  <2>1. CASE Existing(OwnerOf[c]) = {} /\ ent' = ent /\ pc' = [pc EXCEPT ![c] = "wait"]
    <3>1. StepOf(c) /\ pc'[c] = "wait" /\ UNCHANGED <<row, snap, vm, inv>>
      BY <1>0, <1>1, <2>1 DEF Request, StepOf, LocalOK
    <3> QED BY <1>g, <1>s, <2>1, <3>1 DEF OnlineInv, Busy, Finishing
  <2>2. ASSUME NEW i \in Existing(OwnerOf[c]), ent' = [ent EXCEPT ![c] = Track(i, row[i])],
               pc' = [pc EXCEPT ![c] = IF row[i].state = "Ready" THEN "fastCheck" ELSE "wait"]
        PROVE  OnlineInv'
    <3>1. /\ StepOf(c) /\ pc'[c] = (IF row[i].state = "Ready" THEN "fastCheck" ELSE "wait")
          /\ ent'[c] = Track(i, row[i]) /\ UNCHANGED <<row, snap, vm, inv>>
      BY <1>0, <1>1, <2>2 DEF Request, StepOf, LocalOK
    <3>2. i \in Connects /\ Live(i)
      BY DEF Existing, RowsOf
    <3> QED BY <1>g, <1>s, <1>q, <3>1, <3>2 DEF Busy, Finishing
  <2> QED BY <1>1, <2>1, <2>2 DEF Request, Goto
<1>2. CASE FastCheck(c)
  <2>1. CASE Leave(c, "done")
    BY <1>2, <1>l, <1>s, <2>1, "done" \in {"done", "failed"} DEF FastCheck
  <2>2. CASE ~Leave(c, "done")
    <3>1. StepOf(c) /\ pc'[c] = "wait" /\ UNCHANGED <<row, snap, vm, inv, ent>>
      BY <1>0, <1>2, <2>2 DEF FastCheck, Goto, StepOf, LocalOK
    <3> QED BY <1>g, <1>s, <3>1 DEF OnlineInv, Busy, Finishing
  <2> QED BY <2>1, <2>2
<1>3. CASE Enter(c)
  <2>1. CASE ent' = ent /\ pc' = [pc EXCEPT ![c] = "clear"]
    <3>1. StepOf(c) /\ pc'[c] = "clear" /\ UNCHANGED <<row, snap, vm, inv>>
      BY <1>0, <1>3, <2>1 DEF Enter, StepOf, LocalOK
    <3> QED BY <1>g, <1>s, <2>1, <3>1 DEF OnlineInv, Busy, Finishing
  <2>2. ASSUME NEW i \in Existing(OwnerOf[c]), ent' = [ent EXCEPT ![c] = Query(c, i)],
               pc' = [pc EXCEPT ![c] = IF Query(c, i).state = "Ready" THEN "recheck" ELSE "clear"]
        PROVE  OnlineInv'
    <3>1. /\ StepOf(c) /\ pc'[c] = (IF Query(c, i).state = "Ready" THEN "recheck" ELSE "clear")
          /\ ent'[c] = Query(c, i) /\ UNCHANGED <<row, snap, vm, inv>>
      BY <1>0, <1>3, <2>2 DEF Enter, StepOf, LocalOK
    <3>2. i \in Connects /\ Live(i)
      BY DEF Existing, RowsOf
    <3> QED BY <1>g, <1>s, <1>q, <3>1, <3>2 DEF Busy, Finishing
  <2> QED BY <1>3, <2>1, <2>2 DEF Enter
<1>4. CASE Recheck(c)
  <2> DEFINE i == ent[c].id
  <2>0. i \in Connects /\ Was(i)
    BY <1>4 DEF Recheck, OnlineInv
  <2>1. CASE Leave(c, "done") /\ UNCHANGED row
    BY <1>4, <1>l, <1>s, <2>1, "done" \in {"done", "failed"} DEF Recheck
  <2>2. CASE Throw(c) /\ UNCHANGED row
    BY <1>4, <1>t, <2>2 DEF Recheck
  <2>3. CASE /\ CanSave(c, i) /\ row' = [row EXCEPT ![i].state = "Deprovisioning"]
             /\ ent' = [ent EXCEPT ![c].state = "Deprovisioning"] /\ Goto(c, "clear")
    <3>1. row'[i].state = "Deprovisioning" /\ \A j \in Connects : j # i => row'[j] = row[j]
      BY <2>0, <2>3 DEF GlobalOK, Row
    <3>2. RowsMove(c)
      BY <2>0, <3>1 DEF RowsMove, Was, Gone
    <3>3. ent'[c].state = "Deprovisioning" /\ pc'[c] = "clear" /\ StepOf(c) /\ UNCHANGED <<snap, vm, inv>>
      BY <1>0, <1>4, <2>3 DEF Recheck, Goto, StepOf, LocalOK, Entity
    <3> QED BY <1>g, <3>2, <3>3 DEF Busy, Finishing
  <2> QED BY <1>4, <2>1, <2>2, <2>3 DEF Recheck
<1>5. CASE Clear(c)
  <2>1. UNCHANGED <<row, snap, vm, inv>>
    BY <1>5 DEF Clear
  <2>2. CASE Throw(c)
    BY <1>t, <2>1, <2>2
  <2>3. CASE pc' = [pc EXCEPT ![c] = "pick"] /\ ent' = [ent EXCEPT ![c] = NoEntity]
    <3>1. StepOf(c) /\ pc'[c] = "pick" /\ ent'[c] = NoEntity
      BY <1>0, <2>3 DEF StepOf, LocalOK
    <3> QED BY <1>s, <1>g, <2>1, <3>1 DEF NoEntity, Busy, Finishing
  <2>4. ASSUME NEW i \in RowsOf(OwnerOf[c]), Dead(row[i].state), ent' = [ent EXCEPT ![c] = Query(c, i)],
               pc' = [pc EXCEPT ![c] = "verify"] \/ pc' = [pc EXCEPT ![c] = "stamp"]
        PROVE  OnlineInv'
    <3>1. StepOf(c) /\ pc'[c] \in {"verify", "stamp"} /\ ent'[c] = Query(c, i)
      BY <1>0, <2>4 DEF StepOf, LocalOK
    <3>2. i \in Connects /\ Live(i) /\ Gone(i)
      BY <2>4 DEF RowsOf, Dead, Gone
    <3> QED BY <1>g, <1>s, <1>q, <2>1, <3>1, <3>2 DEF Busy, Finishing
  <2> QED BY <1>5, <2>2, <2>3, <2>4 DEF Clear, Goto
<1>6. CASE Pick(c)
  <2>1. CASE Leave(c, "failed")
    BY <1>6, <1>l, <1>s, <2>1, "failed" \in {"done", "failed"} DEF Pick
  <2>2. CASE ~Leave(c, "failed")
    <3>1. StepOf(c) /\ pc'[c] = "insert" /\ UNCHANGED <<row, snap, vm, inv, ent>>
      BY <1>0, <1>6, <2>2 DEF Pick, StepOf, LocalOK
    <3> QED BY <1>g, <1>s, <3>1 DEF OnlineInv, Busy, Finishing
  <2> QED BY <2>1, <2>2
<1>7. CASE Insert(c)
  <2>1. CASE RowsOf(OwnerOf[c]) # {}
    BY <1>7, <2>1, <1>t DEF Insert
  <2>2. CASE RowsOf(OwnerOf[c]) = {}
    <3>1. /\ row'[c].state = "Provisioning" /\ \A i \in Connects : i # c => row'[i] = row[i]
      BY <1>7, <2>2 DEF Insert, GlobalOK, NoRow
    <3>2. /\ StepOf(c) /\ pc'[c] = "post" /\ ent'[c].id = c /\ ent'[c].state = "Provisioning"
          /\ UNCHANGED <<snap, vm, inv>>
      <4>1. /\ StepOf(c) /\ pc'[c] = "post" /\ UNCHANGED <<snap, vm, inv>>
            /\ ent'[c] = [NoEntity EXCEPT !.id = c, !.state = "Provisioning"]
        BY <1>0, <1>7, <2>2 DEF Insert, Goto, StepOf, LocalOK
      <4> QED BY <4>1 DEF NoEntity
    <3>3. row[c].state = "unused"
      BY <1>7 DEF Insert, BookInv, Rowless, Early, NoRow
    <3>4. RowsMove(c)
      BY <3>1, <3>3 DEF RowsMove
    <3>5. pc'[Reconciler] = "idle" => inv' = NotLoaded
      BY <1>0, <3>2 DEF StepOf, OnlineInv
    <3> QED BY <1>0, <1>s, <3>1, <3>2, <3>3, <3>4, <3>5, OnlineKept
  <2> QED BY <2>1, <2>2
<1>b. ASSUME pc[c] \in {"post", "saveUpid", "waitTask"}, StepOf(c), pc'[c] \in Busy,
             ent'[c].id = c, ent'[c].state # "Ready", row'[c].state = row[c].state,
             RowsMove(c), ClonesNew, UNCHANGED <<snap, inv>>
      PROVE  OnlineInv'
  <2>1. pc'[Reconciler] = "idle" => inv' = NotLoaded
    BY <1>0, <1>b DEF StepOf, OnlineInv
  <2>2. pc[c] \in Busy /\ row[c].state = "Provisioning"
    BY <1>b DEF OnlineInv, Busy
  <2> QED BY <1>0, <1>b, <1>s, <2>1, <2>2, OnlineKept DEF Busy, Finishing
<1>8. CASE Post(c)
  <2>0. /\ pc[c] = "post" /\ pc[c] \in Busy /\ task[c] = "none" /\ plan[c] \in VmIds
        /\ row[c].state = "Provisioning" /\ ent[c].id = c /\ UNCHANGED <<snap, inv>>
    BY <1>8 DEF Post, CloneInv, BookInv, OnlineInv, Early, Busy
  <2>1. ClonesNew
    <3>1. CASE UNCHANGED vm
      BY <3>1, <1>s
    <3>2. CASE vm' = [vm EXCEPT ![plan[c]] = [kind |-> "clone", by |-> c, note |-> Nobody]]
      BY <2>0, <3>2 DEF ClonesNew, GlobalOK
    <3> QED BY <1>8, <3>1, <3>2 DEF Post
  <2>2. CASE FailRow(c)
    BY <2>0, <2>1, <2>2, <1>f
  <2>3. CASE ~FailRow(c)
    <3>1. StepOf(c) /\ pc'[c] = "saveUpid" /\ UNCHANGED <<row, ent>>
      BY <1>0, <1>8, <2>3 DEF Post, StepOf, LocalOK
    <3>2. ent[c].state # "Ready"
      BY <2>0 DEF OnlineInv, Was
    <3> QED BY <1>b, <1>s, <2>0, <2>1, <3>1, <3>2 DEF Busy
  <2> QED BY <2>2, <2>3
<1>9. CASE SaveUpid(c)
  <2>1. CASE ~CanSave(c, c)
    BY <1>9, <2>1, <1>t DEF SaveUpid
  <2>2. CASE CanSave(c, c)
    <3>1. pc[c] = "saveUpid" /\ row[c].state = "Provisioning" /\ ent[c].id = c /\ ent[c].state # "Ready"
      <4>1. pc[c] = "saveUpid" /\ row[c].state = "Provisioning" /\ ent[c].id = c
        BY <1>9 DEF SaveUpid, OnlineInv, Busy
      <4> QED BY <4>1 DEF OnlineInv, Was
    <3>2. \A r \in Row : [r EXCEPT !.upid = TRUE].state = r.state
      BY DEF Row
    <3>3. \A e \in Entity : [e EXCEPT !.upid = TRUE].state = e.state /\ [e EXCEPT !.upid = TRUE].id = e.id
      BY DEF Entity
    <3>4. /\ row'[c] = [row[c] EXCEPT !.upid = TRUE] /\ row[c] \in Row
          /\ \A i \in Connects : i # c => row'[i] = row[i]
      BY <1>9, <2>2 DEF SaveUpid, GlobalOK
    <3>5. /\ ent'[c] = [ent[c] EXCEPT !.upid = TRUE] /\ ent[c] \in Entity
          /\ StepOf(c) /\ pc'[c] = "waitTask" /\ UNCHANGED <<snap, vm, inv>>
      BY <1>0, <1>9, <2>2 DEF SaveUpid, Goto, StepOf, LocalOK
    <3>6. RowsMove(c)
      BY <3>1, <3>2, <3>4 DEF RowsMove, Busy
    <3> QED BY <1>b, <1>s, <3>1, <3>2, <3>3, <3>4, <3>5, <3>6 DEF Busy
  <2> QED BY <2>1, <2>2
<1>10. CASE WaitForTask(c)
  <2>0. pc[c] = "waitTask" /\ pc[c] \in Busy /\ UNCHANGED <<snap, vm, inv>>
    BY <1>10 DEF WaitForTask, Busy
  <2>1. CASE FailRow(c)
    BY <2>0, <2>1, <1>f, <1>s
  <2>2. CASE ~FailRow(c)
    <3>1. StepOf(c) /\ pc'[c] = "finish" /\ UNCHANGED <<row, ent>>
      BY <1>0, <1>10, <2>2 DEF WaitForTask, Goto, StepOf, LocalOK
    <3>2. ent[c].id = c /\ ent[c].state # "Ready"
      <4>1. row[c].state = "Provisioning" /\ ent[c].id = c
        BY <2>0 DEF OnlineInv
      <4> QED BY <4>1 DEF OnlineInv, Was
    <3> QED BY <1>b, <1>s, <2>0, <3>1, <3>2 DEF Busy, Finishing
  <2> QED BY <2>1, <2>2
<1> QED BY <1>1, <1>2, <1>3, <1>4, <1>5, <1>6, <1>7, <1>8, <1>9, <1>10 DEF ConnectStep

\* Writing notes clones nothing.
LEMMA NotesNew ==
  ASSUME GlobalOK, NEW i \in Connects, NEW v, NEW ok, SetNotes(v, i, ok)
  PROVE  ClonesNew
<1>1. \A u \in Vm : [u EXCEPT !.note = i].by = u.by
  BY DEF Vm
<1>2. CASE UNCHANGED vm
  BY <1>2 DEF ClonesNew
<1>3. CASE vm' = [vm EXCEPT ![v].note = i]
  <2>1. \A w \in VmIds : vm[w] \in Vm /\ (vm'[w] = vm[w] \/ vm'[w] = [vm[w] EXCEPT !.note = i])
    BY <1>3 DEF GlobalOK
  <2>2. \A w \in VmIds : vm'[w].by = vm[w].by
    BY <1>1, <2>1
  <2> QED BY <2>2 DEF ClonesNew
<1> QED BY <1>2, <1>3 DEF SetNotes

\* So does every step the callers share.
LEMMA SharedOnline ==
  ASSUME LocalOK, GlobalOK, CloneInv, BookInv, StampInv, Online, OnlineInv,
         NEW p \in Procs, SharedStep(p)
  PROVE  OnlineInv'
<1> USE DEF dbVars, pveVars, recVars
<1> DEFINE i == ent[p].id
<1>0. p \in Connects \cup {Reconciler} /\ Reconciler \in Procs /\ Reconciler \notin Connects
      /\ pc[p] # "idle"
  BY ConstantsAssumption
     DEF Procs, SharedStep, Stamp, Verify, Destroy, Drop, Finish, Identity, MarkReady, OnlineInv
<1>s. /\ UNCHANGED row => RowsMove(p)
      /\ UNCHANGED snap => CopiesKept
      /\ UNCHANGED vm => ClonesNew
      /\ UNCHANGED inv => InventoryTaken
  BY DEF RowsMove, CopiesKept, ClonesNew, InventoryTaken
<1>l. ASSUME NEW how \in {"done", "failed"}, Leave(p, how), RowsMove(p), UNCHANGED <<snap, vm, inv>>
      PROVE  OnlineInv'
  BY <1>0, <1>l, <1>s, LeaveOnline
<1>t. Throw(p) /\ UNCHANGED <<row, snap, vm, inv>> => OnlineInv'
  BY <1>s, <1>l, "failed" \in {"done", "failed"} DEF Throw
<1>g. ASSUME NEW l \in {"verify", "destroy", "drop", "pick"}, StepOf(p), pc'[p] = l,
             RowsMove(p), ClonesNew, UNCHANGED <<snap, inv>>,
             ent'[p].state = "Ready" => ent'[p] = ent[p],
             l = "pick" => p \in Connects,
             l # "pick" => ent'[p] = ent[p] /\ i \in Connects /\ Gone(i)
      PROVE  OnlineInv'
  <2>1. pc'[Reconciler] = "idle" => inv' = NotLoaded
    BY <1>0, <1>g DEF StepOf, OnlineInv
  <2>2. p \in Connects /\ ent'[p].state = "Ready" => ent'[p].id \in Connects /\ Was(ent'[p].id)
    BY <1>g DEF OnlineInv
  <2> QED BY <1>0, <1>g, <1>s, <2>1, <2>2, OnlineKept DEF Busy, Finishing
<1>1. CASE Stamp(p) \/ Verify(p) \/ Destroy(p)
  <2>1. PICK l \in {"verify", "destroy", "drop"} : pc' = [pc EXCEPT ![p] = l]
    BY <1>1 DEF Stamp, Verify, Destroy, Goto
  <2>2. StepOf(p) /\ pc'[p] = l /\ UNCHANGED <<row, snap, ent, inv>>
    BY <1>1, <2>1 DEF Stamp, Verify, Destroy, StepOf, LocalOK
  <2>3. i \in Connects /\ Gone(i)
    BY <1>1 DEF Stamp, Verify, Destroy, OnlineInv
  <2>4. ClonesNew
    <3>1. CASE Stamp(p)
      BY <2>3, <3>1, NotesNew DEF Stamp
    <3>2. CASE Verify(p)
      BY <3>2, <1>s DEF Verify
    <3>3. CASE Destroy(p)
      BY <3>3 DEF Destroy, DestroyVm, ClonesNew, GlobalOK, AbsentVm
    <3> QED BY <1>1, <3>1, <3>2, <3>3
  <2> QED BY <1>g, <1>s, <2>2, <2>3, <2>4
<1>2. CASE Drop(p)
  <2>0. i \in Connects /\ Gone(i) /\ UNCHANGED <<snap, vm, inv>>
    BY <1>2 DEF Drop, OnlineInv
  <2>1. RowsMove(p)
    <3>1. CASE UNCHANGED row
      BY <3>1, <1>s
    <3>2. CASE row' = [row EXCEPT ![i].state = "removed"]
      <4>1. row'[i].state = "removed" /\ \A j \in Connects : j # i => row'[j] = row[j]
        BY <2>0, <3>2 DEF GlobalOK, Row
      <4> QED BY <2>0, <4>1 DEF RowsMove, Gone, Was
    <3> QED BY <1>2, <3>1, <3>2 DEF Drop
  <2>2. CASE Leave(p, "done")
    BY <2>0, <2>1, <2>2, <1>l, "done" \in {"done", "failed"}
  <2>3. CASE Throw(p) /\ UNCHANGED row
    BY <2>0, <2>3, <1>t
  <2>4. CASE p \in Connects /\ ent' = [ent EXCEPT ![p] = NoEntity] /\ pc' = [pc EXCEPT ![p] = "pick"]
    <3>1. StepOf(p) /\ pc'[p] = "pick" /\ ent'[p] = NoEntity
      BY <2>4 DEF StepOf, LocalOK
    <3> QED BY <1>g, <1>s, <2>0, <2>1, <2>4, <3>1 DEF NoEntity
  <2> QED BY <1>2, <2>2, <2>3, <2>4 DEF Drop, Goto
<1>w. pc[p] \in Finishing =>
        /\ i \in Connects /\ row[i].state = "Provisioning"
        /\ p \in Connects => i = p /\ pc[p] \in Busy
        /\ p = Reconciler => pc[i] \notin Busy /\ snap[i] = NoRow
  BY <1>0 DEF OnlineInv, Busy
<1>b. ASSUME pc[p] \in Finishing, StepOf(p), pc'[p] \in Finishing,
             ent'[p].id = i, ent'[p].state = ent[p].state, row'[i].state = row[i].state,
             RowsMove(p), ClonesNew, UNCHANGED <<snap, inv>>
      PROVE  OnlineInv'
  <2>1. pc'[Reconciler] = "idle" => inv' = NotLoaded
    BY <1>0, <1>b DEF StepOf, OnlineInv, Finishing
  <2>2. p = Reconciler => pc'[ent'[p].id] \notin Busy
    <3>1. p = Reconciler => i # p /\ i \in Procs /\ pc[i] \notin Busy
      BY <1>0, <1>b, <1>w DEF Procs
    <3> QED BY <1>b, <3>1 DEF StepOf
  <2>3. p \in Connects => ent'[p].state # "Ready"
    BY <1>b, <1>w DEF OnlineInv, Was
  <2>4. pc'[p] \notin {"stamp", "verify", "destroy", "drop", "fastCheck", "recheck"}
    BY <1>b DEF Finishing
  <2> QED BY <1>0, <1>b, <1>w, <1>s, <2>1, <2>2, <2>3, <2>4, OnlineKept
<1>3. CASE Finish(p)
  <2>0. pc[p] \in Finishing
    BY <1>3 DEF Finish, Finishing
  <2>1. PICK ok \in BOOLEAN : SetNotes(row[i].vmid, i, ok) /\ ent' = [ent EXCEPT ![p].mark = ok]
    BY <1>3 DEF Finish
  <2>2. ent'[p].id = i /\ ent'[p].state = ent[p].state
    <3>1. ent'[p] = [ent[p] EXCEPT !.mark = ok] /\ ent[p] \in Entity
      BY <2>1 DEF LocalOK
    <3> QED BY <3>1 DEF Entity
  <2>3. StepOf(p) /\ pc'[p] = "identity" /\ UNCHANGED <<row, snap, inv>>
    BY <1>3, <2>1 DEF Finish, Goto, StepOf, LocalOK
  <2>4. ClonesNew
    BY <2>0, <1>w, <2>1, NotesNew
  <2> QED BY <1>b, <1>s, <2>0, <2>2, <2>3, <2>4 DEF Finishing
<1>4. CASE Identity(p)
  <2>0. pc[p] \in Finishing /\ UNCHANGED <<snap, vm, inv>>
    BY <1>4 DEF Identity, Finishing
  <2>1. CASE Throw(p) /\ UNCHANGED row
    BY <2>0, <2>1, <1>t
  <2>2. CASE pc' = [pc EXCEPT ![p] = "ready"] /\ UNCHANGED <<row, ent>>
    <3>1. StepOf(p) /\ pc'[p] = "ready"
      BY <2>2 DEF StepOf, LocalOK
    <3> QED BY <1>b, <1>s, <2>0, <2>2, <3>1 DEF Finishing
  <2>3. CASE /\ pc' = [pc EXCEPT ![p] = "ready"]
             /\ row' = [row EXCEPT ![i].stamped = Marked(i, ent[p])]
             /\ ent' = [ent EXCEPT ![p].stamped = ent[p].mark]
    <3>1. StepOf(p) /\ pc'[p] = "ready" /\ ent'[p] = [ent[p] EXCEPT !.stamped = ent[p].mark]
      BY <2>3 DEF StepOf, LocalOK
    <3>2. ent'[p].id = i /\ ent'[p].state = ent[p].state
      <4>1. ent[p] \in Entity
        BY DEF LocalOK
      <4> QED BY <3>1, <4>1 DEF Entity
    <3>3. \A j \in Connects : row'[j].state = row[j].state /\ row'[j].upid = row[j].upid
      BY <2>0, <1>w, <2>3 DEF GlobalOK, Row
    <3>4. RowsMove(p) /\ row'[i].state = row[i].state
      BY <2>0, <1>w, <3>3 DEF RowsMove
    <3> QED BY <1>b, <1>s, <2>0, <3>1, <3>2, <3>4 DEF Finishing
  <2> QED BY <1>4, <2>1, <2>2, <2>3 DEF Identity, Goto
<1>5. CASE MarkReady(p)
  <2>0. pc[p] \in Finishing /\ UNCHANGED <<snap, vm, inv>>
    BY <1>5 DEF MarkReady, Finishing
  <2>1. CASE Throw(p) /\ UNCHANGED row
    BY <2>0, <2>1, <1>t
  <2>2. CASE /\ row' = [row EXCEPT ![i].state = "Ready", ![i].stamped = Marked(i, ent[p])]
             /\ Leave(p, "done")
    <3>1. row'[i].state = "Ready" /\ \A j \in Connects : j # i => row'[j] = row[j]
      BY <2>0, <1>w, <2>2 DEF GlobalOK, Row
    <3>2. RowsMove(p)
      BY <1>0, <1>w, <2>0, <3>1 DEF RowsMove, Was
    <3> QED BY <2>0, <2>2, <3>2, <1>l, "done" \in {"done", "failed"}
  <2> QED BY <1>5, <2>1, <2>2 DEF MarkReady
<1> QED BY <1>1, <1>2, <1>3, <1>4, <1>5 DEF SharedStep

\* So does every step of a reconcile pass: its copies are no older than the pass.
LEMMA ReconcilerOnline ==
  ASSUME LocalOK, GlobalOK, CloneInv, BookInv, StampInv, Online, OnlineInv, ReconcilerStep
  PROVE  OnlineInv'
<1> USE DEF dbVars, pveVars, recVars
<1> DEFINE p == Reconciler
<1>0. /\ p \in Procs /\ p \notin Connects /\ p \in Connects \cup {Reconciler}
      /\ \A c \in Connects : c \in Procs /\ c # p
  BY ConstantsAssumption DEF Procs
<1>o. ~May("outage") /\ ~May("longPass")
  BY DEF Online, May
<1>s. /\ UNCHANGED row => RowsMove(p)
      /\ UNCHANGED snap => CopiesKept
      /\ UNCHANGED vm => ClonesNew
      /\ UNCHANGED inv => InventoryTaken
  BY DEF RowsMove, CopiesKept, ClonesNew, InventoryTaken
<1>l. ASSUME Leave(p, "done"), RowsMove(p), ClonesNew, UNCHANGED <<snap, inv>>
      PROVE  OnlineInv'
  BY <1>0, <1>l, <1>s, LeaveOnline, "done" \in {"done", "failed"}
<1>1. CASE BeginPass
  <2>1. /\ \A i \in Connects : snap'[i] = IF Live(i) /\ ~Young(i) THEN row[i] ELSE NoRow
        /\ StepOf(p) /\ pc[p] = "idle" /\ pc'[p] = "scan"
        /\ UNCHANGED <<row, vm, ent, inv>>
    BY <1>0, <1>1 DEF BeginPass, Goto, StepOf, LocalOK
  <2>2. \A c \in Connects : pc'[c] = pc[c]
    BY <1>0, <2>1 DEF StepOf
  <2>3. \A i \in Connects :
          /\ snap'[i].state = "Provisioning" =>
               row[i].state = "Provisioning" /\ pc[i] \notin Busy /\ snap'[i].upid = row[i].upid
          /\ Dead(snap'[i].state) => Gone(i)
          /\ snap'[i].state = "Ready" => Was(i)
    BY <1>o, <2>1 DEF Young, Busy, Finishing, Dead, Gone, Was, NoRow
  <2>4. inv' = NotLoaded /\ NotLoaded.status # "known"
    BY <2>1 DEF OnlineInv, NotLoaded
  <2>5. \A a \in Admins : pc'[a] = pc[a]
    BY <2>1, ConstantsAssumption DEF StepOf, Procs
  <2>6. \A q \in Procs : pc'[q] = pc[q] \/ pc'[q] = "scan"
    BY <2>1 DEF StepOf
  <2>7. pc'[p] \notin Finishing
    BY <2>1 DEF Finishing
  <2> QED BY <2>1, <2>2, <2>3, <2>4, <2>5, <2>6, <2>7 DEF OnlineInv, Dead, Gone, Was
<1>2. CASE EndPass
  <2>1. StepOf(p) /\ pc'[p] = "idle" /\ inv' = NotLoaded /\ UNCHANGED <<row, snap, vm, ent>>
    BY <1>0, <1>2 DEF EndPass, Goto, StepOf, LocalOK
  <2> QED BY <1>0, <1>s, <2>1, OnlineKept DEF InventoryTaken, Finishing
<1>3. CASE LiveStamp
  <2> DEFINE i == ent[p].id
  <2>1. i \in Connects
    BY <1>0, <1>3 DEF LiveStamp, StampInv
  <2>2. ClonesNew
    BY <1>3, <2>1, NotesNew DEF LiveStamp
  <2>3. \/ Leave(p, "done")
        \/ StepOf(p) /\ pc'[p] = "liveSave" /\ UNCHANGED ent
    BY <1>0, <1>3 DEF LiveStamp, Goto, StepOf, LocalOK
  <2> QED BY <1>0, <1>3, <1>s, <1>l, <2>2, <2>3, OnlineKept DEF LiveStamp, Finishing
<1>4. CASE LiveSave
  <2> DEFINE i == ent[p].id
  <2>1. PassSave(i, [row[i] EXCEPT !.stamped = TRUE]) /\ UNCHANGED <<snap, vm, inv>>
    BY <1>4 DEF LiveSave
  <2>2. \A j \in Connects : row'[j].state = row[j].state /\ row'[j].upid = row[j].upid
    BY <2>1 DEF PassSave, GlobalOK, Row
  <2>3. RowsMove(p)
    BY <2>2 DEF RowsMove
  <2> QED BY <1>4, <1>s, <1>l, <2>1, <2>3 DEF LiveSave
<1>5. ASSUME NEW i \in Connects, ReconcileRow(i) PROVE OnlineInv'
  <2>1. /\ pc[p] = "scan" /\ i \in Todo /\ UNCHANGED vm
        /\ snap'[i] = NoRow /\ \A j \in Connects : j # i => snap'[j] = snap[j]
    BY <1>5 DEF ReconcileRow, Skip, ReconcileProvisioning, ReconcileDead, ReconcileLive, Taken, GlobalOK
  <2>2. CopiesKept
    BY <2>1 DEF CopiesKept
  <2>s. ASSUME PassSave(i, [row[i] EXCEPT !.state = "Failed"]),
               Was(i) \/ (row[i].state = "Provisioning" /\ pc[i] \notin Busy)
        PROVE  RowsMove(p)
    <3>1. CASE UNCHANGED row
      BY <3>1, <1>s
    <3>2. CASE row' = [row EXCEPT ![i] = [row[i] EXCEPT !.state = "Failed"]]
      <4>1. row'[i].state = "Failed" /\ \A j \in Connects : j # i => row'[j] = row[j]
        BY <3>2 DEF GlobalOK, Row
      <4> QED BY <2>1, <2>s, <4>1 DEF RowsMove, Was, Gone
    <3> QED BY <2>s, <3>1, <3>2 DEF PassSave
  <2>g. ASSUME NEW l \in {"scan", "stamp", "verify", "finish", "liveStamp"}, StepOf(p), pc'[p] = l,
               RowsMove(p), InventoryTaken,
               l \in {"stamp", "verify"} => ent'[p].id = i /\ Gone(i),
               l = "finish" => ent'[p].id = i /\ row'[i].state = "Provisioning" /\ pc[i] \notin Busy
        PROVE  OnlineInv'
    <3>1. pc'[i] = pc[i]
      BY <1>0, <2>g DEF StepOf
    <3> QED BY <1>0, <1>s, <2>1, <2>2, <2>g, <3>1, OnlineKept DEF Finishing
  <2>3. CASE Skip(i)
    <3>1. StepOf(p) /\ pc'[p] = "scan" /\ UNCHANGED <<row, inv>>
      BY <2>1, <2>3 DEF Skip, StepOf
    <3> QED BY <1>s, <2>g, <3>1
  <2>4. CASE ReconcileProvisioning(i)
    <3>0. row[i].state = "Provisioning" /\ pc[i] \notin Busy /\ UNCHANGED inv
      BY <2>4 DEF ReconcileProvisioning, OnlineInv
    <3>1. CASE UNCHANGED <<pc, ent>>
      <4>1. UNCHANGED row \/ PassSave(i, [row[i] EXCEPT !.state = "Failed"])
        BY <2>4 DEF ReconcileProvisioning
      <4>2. RowsMove(p)
        BY <1>s, <2>s, <3>0, <4>1
      <4>3. StepOf(p) /\ pc'[p] = "scan"
        BY <2>1, <3>1 DEF StepOf
      <4> QED BY <1>s, <2>g, <3>0, <4>2, <4>3
    <3>2. CASE /\ pc' = [pc EXCEPT ![p] = "finish"] /\ ent' = [ent EXCEPT ![p] = Track(i, snap[i])]
               /\ UNCHANGED row
      <4>1. StepOf(p) /\ pc'[p] = "finish" /\ ent'[p].id = i
        BY <1>0, <3>2 DEF StepOf, LocalOK, Track
      <4> QED BY <1>s, <2>g, <3>0, <3>2, <4>1
    <3> QED BY <2>4, <3>1, <3>2 DEF ReconcileProvisioning
  <2>5. CASE ReconcileDead(i)
    <3>0. Gone(i) /\ UNCHANGED <<row, inv>>
      BY <2>5 DEF ReconcileDead, OnlineInv
    <3>1. CASE UNCHANGED <<pc, ent>>
      <4>1. StepOf(p) /\ pc'[p] = "scan"
        BY <2>1, <3>1 DEF StepOf
      <4> QED BY <1>s, <2>g, <3>0, <4>1
    <3>2. ASSUME NEW l \in {"stamp", "verify"}, pc' = [pc EXCEPT ![p] = l],
                 ent' = [ent EXCEPT ![p] = Track(i, snap[i])]
          PROVE  OnlineInv'
      <4>1. StepOf(p) /\ pc'[p] = l /\ ent'[p].id = i
        BY <1>0, <3>2 DEF StepOf, LocalOK, Track
      <4> QED BY <1>s, <2>g, <3>0, <4>1
    <3> QED BY <2>5, <3>1, <3>2 DEF ReconcileDead
  <2>6. CASE ReconcileLive(i)
    <3>0. Was(i)
      BY <2>6 DEF ReconcileLive, OnlineInv
    <3>1. InventoryTaken
      <4>1. \A vms \in ListVms : vms = {v \in VmIds : Exists(v)}
        BY <1>o DEF ListVms
      <4>2. \A v \in VmIds : vm'[v].by # Nobody => Exists(v)
        BY <2>1 DEF StampInv, Exists
      <4> QED BY <2>6, <4>1, <4>2 DEF ReconcileLive, InventoryTaken
    <3>2. RowsMove(p)
      BY <2>6, <1>s, <2>s, <3>0 DEF ReconcileLive
    <3>3. StepOf(p) /\ pc'[p] \in {"scan", "liveStamp"}
      BY <1>0, <2>1, <2>6 DEF ReconcileLive, StepOf, LocalOK
    <3> QED BY <2>g, <3>1, <3>2, <3>3
  <2> QED BY <1>5, <2>3, <2>4, <2>5, <2>6 DEF ReconcileRow
<1> QED BY <1>1, <1>2, <1>3, <1>4, <1>5 DEF ReconcilerStep

\* The surroundings and a restart keep OnlineInv; nobody deprovisions.
LEMMA OutsideOnline ==
  ASSUME LocalOK, GlobalOK, BookInv, StampInv, Online, OnlineInv,
         Environment \/ \E a \in Admins : Deprovision(a)
  PROVE  OnlineInv'
<1> USE DEF dbVars, pveVars, recVars
<1>0. /\ Reconciler \in Procs /\ Reconciler \in Connects \cup {Reconciler}
      /\ Reconciler \notin Connects /\ Nobody \notin Connects
      /\ \A c \in Connects : c \in Procs /\ c # Reconciler
      /\ \A a \in Admins : a \in Procs /\ a # Reconciler
  BY ConstantsAssumption DEF Procs
<1>1. \A a \in Admins : ~Deprovision(a)
  BY DEF Deprovision, Online, May
<1>2. CASE UNCHANGED <<row, pc, ent, snap, inv>> /\ ClonesNew
  <2>1. StepOf(Reconciler) /\ RowsMove(Reconciler) /\ CopiesKept /\ InventoryTaken
    BY <1>2 DEF StepOf, RowsMove, CopiesKept, InventoryTaken
  <2> QED BY <1>0, <1>2, <2>1, OnlineKept DEF OnlineInv
<1>3. CASE Environment /\ ~Crash
  <2>1. ClonesNew
    BY <1>0, <1>3 DEF Environment, CloneEnds, CloneFails, CreateForeign, DeleteOutOfBand, ClonesNew,
                      AbsentVm, Foreign, GlobalOK
  <2> QED BY <1>2, <1>3, <2>1 DEF Environment, CloneEnds, CloneFails, CreateForeign, DeleteOutOfBand
<1>4. CASE Crash
  <2>1. /\ UNCHANGED row /\ inv' = NotLoaded /\ \A i \in Connects : snap'[i] = NoRow
        /\ \A q \in Procs : /\ pc'[q] \in {"idle", "done", "failed"}
                            /\ ent'[q] = ent[q] \/ ent'[q] = NoEntity
        /\ \A a \in Admins : pc'[a] = "idle"
    BY <1>0, <1>4 DEF Crash, OnlineInv
  <2>2. \A c \in Connects : ent'[c].state = "Ready" => ent'[c].id \in Connects /\ Was(ent'[c].id)
    BY <1>0, <2>1 DEF OnlineInv, NoEntity
  <2> QED BY <1>0, <2>1, <2>2 DEF OnlineInv, Busy, Finishing, NoRow, NotLoaded, Dead, Was
<1> QED BY <1>1, <1>3, <1>4

\* Every step keeps OnlineInv.
LEMMA OnlineIsInductive ==
  ASSUME TypeOK, CloneInv, BookInv, StampInv, Online => OnlineInv, [Next]_vars
  PROVE  (Online => OnlineInv)'
<1>0. LocalOK /\ GlobalOK
  BY TypeParts
<1>1. CASE UNCHANGED vars
  BY <1>1 DEF vars, Online, OnlineInv, Busy, Finishing, Gone, Was
<1>2. CASE Next
  <2>1. UNCHANGED env
    BY <1>2 DEF Next, ConnectStep, Request, FastCheck, Enter, Recheck, Clear, Pick, Insert, Post,
                SaveUpid, WaitForTask, SharedStep, Stamp, Verify, Destroy, Drop, Finish, Identity,
                MarkReady, ReconcilerStep, BeginPass, EndPass, LiveStamp, LiveSave, ReconcileRow,
                Skip, ReconcileProvisioning, ReconcileDead, ReconcileLive, Deprovision, Environment,
                CloneEnds, CloneFails, CreateForeign, DeleteOutOfBand, Crash
  <2>2. Online' => Online
    BY <2>1 DEF Online
  <2> QED BY <1>0, <1>2, <2>2, ConnectOnline, SharedOnline, ReconcilerOnline, OutsideOnline DEF Next
<1> QED BY <1>1, <1>2

\* Initially nobody works on anything.
LEMMA InitOnline == Init => OnlineInv
  BY ConstantsAssumption DEF Init, OnlineInv, NoRow, NoEntity, NotLoaded, Procs, Busy, Finishing, Dead

\* No clone is given up while it runs.
Prompt == env \cap {"slow", "hang"} = {}

\* What becomes of a row while the backend answers: a row that was Ready is given up only
\* when its VM is gone, and one that is Provisioning, unless its clone was slow, only when
\* its clone failed or was never recorded; VMID and clone task of a row do not change once
\* they are recorded.
Fate(i) ==
  /\ \/ row'[i].state = row[i].state
     \/ Gone(i) /\ Gone(i)'
     \/ Was(i) /\ Gone(i)' /\ (\A v \in VmIds : vm[v].by # i) /\ UNCHANGED <<vm, task>>
     \/ row[i].state = "Provisioning" /\ row'[i].state = "Ready" /\ UNCHANGED <<vm, task>>
     \/ /\ row[i].state = "Provisioning" /\ Gone(i)'
        /\ Prompt /\ row'[i].upid => task[i] = "failed" /\ UNCHANGED <<vm, task>>
     \/ row[i].state = "unused" /\ row'[i].state = "Provisioning" /\ ~row'[i].upid
  /\ \/ row'[i].upid = row[i].upid
     \/ row[i].state = "Provisioning" /\ row'[i].state = "Provisioning" /\ row'[i].upid
  /\ row'[i].vmid = row[i].vmid \/ row[i].state = "unused"

\* A step that moves one row on to a state.
LEMMA FateOf ==
  ASSUME GlobalOK, NEW i \in Connects, NEW s \in States,
         row' = row \/ row' = [row EXCEPT ![i].state = s],
         Gone(i)' /\ row'[i].upid = row[i].upid /\ row'[i].vmid = row[i].vmid => Fate(i),
         s \in {"Failed", "Deprovisioning", "removed"}
  PROVE  \A j \in Connects : Fate(j)
<1>1. CASE row' = row
  BY <1>1 DEF Fate
<1>2. CASE row' = [row EXCEPT ![i].state = s]
  <2>1. /\ row'[i].state = s /\ row'[i].upid = row[i].upid /\ row'[i].vmid = row[i].vmid
        /\ \A j \in Connects : j # i => row'[j] = row[j]
    BY <1>2 DEF GlobalOK, Row
  <2>2. Fate(i)
    BY <2>1 DEF Gone
  <2> QED BY <2>1, <2>2 DEF Fate
<1> QED BY <1>1, <1>2

\* An answer of the cluster has every VM the gateway cloned.
LEMMA ListComplete ==
  ASSUME StampInv, Online, NEW vms \in ListVms, NEW i \in Connects, row[i].vmid \notin vms
  PROVE  \A v \in VmIds : vm[v].by # i
<1>1. vms = {v \in VmIds : Exists(v)}
  BY DEF ListVms, Online, May
<1>2. \A v \in VmIds : vm[v].by = i => v = row[i].vmid /\ Exists(v)
  BY ConstantsAssumption DEF StampInv, Exists, Procs
<1> QED BY <1>1, <1>2

\* Every step leads every row to one of these.
LEMMA ConnectFate ==
  ASSUME LocalOK, GlobalOK, CloneInv, BookInv, StampInv, Online, OnlineInv,
         NEW c \in Connects, ConnectStep(c)
  PROVE  \A i \in Connects : Fate(i)
<1> USE DEF dbVars, pveVars, recVars
<1>0. /\ c \in Procs /\ c # Reconciler /\ c # Nobody
      /\ "Failed" \in States /\ "Deprovisioning" \in States
  BY ConstantsAssumption DEF Procs, States
<1>s. CASE UNCHANGED row
  BY <1>s DEF Fate
<1>f. ASSUME FailRow(c), pc[c] \in Busy,
             Prompt /\ row[c].upid => task[c] = "failed" /\ UNCHANGED <<vm, task>>
      PROVE  \A i \in Connects : Fate(i)
  <2>1. row[c].state = "Provisioning"
    BY <1>f DEF OnlineInv
  <2>2. row' = row \/ row' = [row EXCEPT ![c].state = "Failed"]
    BY <1>f DEF FailRow
  <2>3. Gone(c)' /\ row'[c].upid = row[c].upid /\ row'[c].vmid = row[c].vmid => Fate(c)
    BY <1>f, <2>1 DEF Fate, Gone
  <2> QED BY <1>0, <2>2, <2>3, FateOf
<1>4. CASE Recheck(c)
  <2>0. PICK i \in Connects : i = ent[c].id /\ Was(i)
    BY <1>4 DEF Recheck, OnlineInv
  <2>1. PICK vms \in ListVms :
          row' = row \/ (row[i].vmid \notin vms /\ row' = [row EXCEPT ![i].state = "Deprovisioning"])
    BY <1>4, <2>0 DEF Recheck
  <2>2. CASE row' # row
    <3>1. \A v \in VmIds : vm[v].by # i
      BY <2>0, <2>1, <2>2, ListComplete
    <3>2. UNCHANGED <<vm, task>>
      BY <1>4 DEF Recheck
    <3>3. Gone(i)' /\ row'[i].upid = row[i].upid /\ row'[i].vmid = row[i].vmid => Fate(i)
      BY <2>0, <3>1, <3>2 DEF Fate
    <3> QED BY <1>0, <2>0, <2>1, <2>2, <3>3, FateOf
  <2> QED BY <2>2, <1>s
<1>7. CASE Insert(c)
  <2>1. CASE RowsOf(OwnerOf[c]) # {}
    BY <1>7, <2>1, <1>s DEF Insert
  <2>2. CASE RowsOf(OwnerOf[c]) = {}
    <3>1. row[c].state = "unused" /\ ~row[c].upid
      BY <1>7 DEF Insert, BookInv, Rowless, Early, NoRow
    <3>2. \A i \in Connects : i # c => row'[i] = row[i]
      BY <1>7, <2>2 DEF Insert, GlobalOK
    <3>3. row'[c].state = "Provisioning" /\ ~row'[c].upid
      BY <1>7, <2>2 DEF Insert, GlobalOK, NoRow
    <3>4. row[c].upid \in BOOLEAN /\ row'[c].upid = FALSE
      BY <1>7, <2>2 DEF Insert, GlobalOK, Row, NoRow
    <3> QED BY <3>1, <3>2, <3>3, <3>4 DEF Fate
  <2> QED BY <2>1, <2>2
<1>8. CASE Post(c)
  <2>1. pc[c] \in Busy /\ ~row[c].upid
    BY <1>8 DEF Post, BookInv, Busy
  <2> QED BY <1>8, <2>1, <1>f, <1>s DEF Post
<1>9. CASE SaveUpid(c)
  <2>1. CASE CanSave(c, c)
    <3>1. row[c].state = "Provisioning"
      BY <1>9 DEF SaveUpid, OnlineInv, Busy
    <3>2. /\ row'[c].state = row[c].state /\ row'[c].vmid = row[c].vmid /\ row'[c].upid
          /\ \A i \in Connects : i # c => row'[i] = row[i]
      BY <1>9, <2>1 DEF SaveUpid, GlobalOK, Row
    <3> QED BY <3>1, <3>2 DEF Fate
  <2> QED BY <1>9, <2>1, <1>s DEF SaveUpid
<1>10. CASE WaitForTask(c)
  <2>1. CASE FailRow(c)
    <3>1. pc[c] \in Busy /\ UNCHANGED <<vm, task>>
      BY <1>10 DEF WaitForTask, Busy
    <3>2. CASE task[c] = "failed" \/ ~Prompt
      BY <2>1, <3>1, <3>2, <1>f
    <3>3. CASE task[c] # "failed" /\ Prompt
      <4>1. ~May("slow") /\ ~May("outage")
        BY <3>3 DEF Prompt, Online, May
      <4> QED BY <1>10, <3>3, <4>1, <1>s DEF WaitForTask
    <3> QED BY <3>2, <3>3
  <2> QED BY <1>10, <2>1, <1>s DEF WaitForTask
<1> QED BY <1>s, <1>4, <1>7, <1>8, <1>9, <1>10
        DEF ConnectStep, Request, FastCheck, Enter, Clear, Pick

LEMMA SharedFate ==
  ASSUME LocalOK, GlobalOK, CloneInv, BookInv, StampInv, Online, OnlineInv,
         NEW p \in Procs, SharedStep(p)
  PROVE  \A i \in Connects : Fate(i)
<1> USE DEF dbVars, pveVars, recVars
<1> DEFINE i == ent[p].id
<1>0. "removed" \in States /\ Reconciler \notin Connects /\ (p \in Connects \cup {Reconciler} \/ pc[p] = "idle")
  BY ConstantsAssumption DEF States, Procs, OnlineInv
<1>s. CASE UNCHANGED row
  BY <1>s DEF Fate
<1>2. CASE Drop(p)
  <2>1. PICK k \in Connects : k = i /\ Gone(k)
    BY <1>2 DEF Drop, OnlineInv
  <2>2. row' = row \/ row' = [row EXCEPT ![k].state = "removed"]
    BY <1>2, <2>1 DEF Drop
  <2>3. Gone(k)' /\ row'[k].upid = row[k].upid /\ row'[k].vmid = row[k].vmid => Fate(k)
    BY <2>1 DEF Fate
  <2> QED BY <1>0, <2>1, <2>2, <2>3, FateOf
<1>w. pc[p] \in Finishing => i \in Connects /\ row[i].state = "Provisioning"
  BY <1>0 DEF OnlineInv, Busy, Finishing
<1>4. CASE Identity(p)
  <2>1. i \in Connects
    BY <1>4, <1>w DEF Identity, Finishing
  <2>2. \A j \in Connects : /\ row'[j].state = row[j].state /\ row'[j].upid = row[j].upid
                             /\ row'[j].vmid = row[j].vmid
    BY <1>4, <2>1 DEF Identity, GlobalOK, Row
  <2> QED BY <2>2 DEF Fate
<1>5. CASE MarkReady(p)
  <2>0. i \in Connects /\ row[i].state = "Provisioning" /\ UNCHANGED <<vm, task>>
    BY <1>5, <1>w DEF MarkReady, Finishing
  <2>1. CASE row' = [row EXCEPT ![i].state = "Ready", ![i].stamped = Marked(i, ent[p])]
    <3>1. /\ row'[i].state = "Ready" /\ row'[i].upid = row[i].upid /\ row'[i].vmid = row[i].vmid
          /\ \A j \in Connects : j # i => row'[j] = row[j]
      BY <2>0, <2>1 DEF GlobalOK, Row
    <3> QED BY <2>0, <3>1 DEF Fate
  <2> QED BY <1>5, <2>1, <1>s DEF MarkReady
<1> QED BY <1>s, <1>2, <1>4, <1>5 DEF SharedStep, Stamp, Verify, Destroy, Finish

LEMMA ReconcilerFate ==
  ASSUME LocalOK, GlobalOK, CloneInv, BookInv, StampInv, Online, OnlineInv, ReconcilerStep
  PROVE  \A i \in Connects : Fate(i)
<1> USE DEF dbVars, pveVars, recVars
<1>s. CASE UNCHANGED row
  BY <1>s DEF Fate
<1>4. CASE LiveSave
  <2> DEFINE i == ent[Reconciler].id
  <2>1. \A j \in Connects : /\ row'[j].state = row[j].state /\ row'[j].upid = row[j].upid
                             /\ row'[j].vmid = row[j].vmid
    BY <1>4 DEF LiveSave, PassSave, GlobalOK, Row
  <2> QED BY <2>1 DEF Fate
<1>p. ASSUME NEW i \in Connects, PassSave(i, [row[i] EXCEPT !.state = "Failed"]),
             Gone(i)' /\ row'[i].upid = row[i].upid /\ row'[i].vmid = row[i].vmid => Fate(i)
      PROVE  \A j \in Connects : Fate(j)
  <2>1. CASE row' = [row EXCEPT ![i] = [row[i] EXCEPT !.state = "Failed"]]
    <3>1. /\ row'[i].state = "Failed" /\ row'[i].upid = row[i].upid /\ row'[i].vmid = row[i].vmid
          /\ \A j \in Connects : j # i => row'[j] = row[j]
      BY <2>1 DEF GlobalOK, Row
    <3> QED BY <1>p, <3>1 DEF Fate, Gone
  <2> QED BY <1>p, <2>1, <1>s DEF PassSave
<1>5. ASSUME NEW i \in Connects, ReconcileProvisioning(i) PROVE \A j \in Connects : Fate(j)
  <2>0. /\ row[i].state = "Provisioning" /\ snap[i].upid = row[i].upid /\ UNCHANGED <<vm, task>>
    BY <1>5 DEF ReconcileProvisioning, OnlineInv
  <2>1. CASE PassSave(i, [row[i] EXCEPT !.state = "Failed"])
    <3>1. CASE ~Prompt \/ ~row[i].upid \/ task[i] = "failed"
      BY <2>0, <2>1, <3>1, <1>p DEF Fate
    <3>2. CASE Prompt /\ row[i].upid /\ task[i] # "failed"
      <4>1. ~May("hang") /\ ~May("outage")
        BY <3>2 DEF Prompt, Online, May
      <4>2. \A t \in GetTaskStatus(i, snap[i].upid) : t = task[i]
        BY <2>0, <3>2, <4>1 DEF GetTaskStatus
      <4>3. task[i] # "unknown"
        BY DEF GlobalOK
      <4> QED BY <1>5, <1>s, <3>2, <4>1, <4>2, <4>3 DEF ReconcileProvisioning
    <3> QED BY <3>1, <3>2
  <2> QED BY <1>5, <2>1, <1>s DEF ReconcileProvisioning
<1>6. ASSUME NEW i \in Connects, ReconcileLive(i) PROVE \A j \in Connects : Fate(j)
  <2>0. Was(i) /\ snap[i].state = "Ready" /\ UNCHANGED <<vm, task>>
    BY <1>6 DEF ReconcileLive, OnlineInv
  <2>1. CASE /\ inv'.status = "known" /\ row[i].vmid \notin inv'.ids
             /\ PassSave(i, [row[i] EXCEPT !.state = "Failed"])
    <3>1. \A v \in VmIds : vm[v].by # i
      <4>1. CASE inv.status = "none"
        <5>1. PICK vms \in ListVms : inv' = [status |-> IF vms = {} THEN "unknown" ELSE "known", ids |-> vms]
          BY <1>6, <4>1 DEF ReconcileLive
        <5> QED BY <2>1, <5>1, ListComplete
      <4>2. CASE inv.status # "none"
        <5>1. inv' = inv
          BY <1>6, <4>2 DEF ReconcileLive
        <5>2. \A v \in VmIds : vm[v].by = i => v = row[i].vmid /\ v \in inv.ids
          BY <2>0, <2>1, <5>1, ConstantsAssumption DEF OnlineInv, StampInv, Procs
        <5> QED BY <2>1, <5>1, <5>2
      <4> QED BY <4>1, <4>2
    <3> QED BY <2>0, <2>1, <3>1, <1>p DEF Fate
  <2> QED BY <1>6, <2>1, <1>s DEF ReconcileLive
<1> QED BY <1>s, <1>4, <1>5, <1>6
        DEF ReconcilerStep, BeginPass, EndPass, LiveStamp, ReconcileRow, Skip, ReconcileDead

LEMMA NextFate ==
  ASSUME TypeOK, CloneInv, BookInv, StampInv, Online, OnlineInv, [Next]_vars
  PROVE  \A i \in Connects : Fate(i)
<1>0. LocalOK /\ GlobalOK
  BY TypeParts
<1>1. CASE UNCHANGED row
  BY <1>1 DEF Fate
<1>2. \A a \in Admins : ~Deprovision(a)
  BY DEF Deprovision, Online, May
<1>3. Environment => UNCHANGED row
  BY DEF Environment, CloneEnds, CloneFails, CreateForeign, DeleteOutOfBand, Crash, dbVars
<1> QED BY <1>0, <1>1, <1>2, <1>3, ConnectFate, SharedFate, ReconcilerFate DEF Next, vars

\* A Ready desktop whose VM is there stays Ready.
LEMMA LiveDesktopKept ==
  ASSUME TypeOK, CloneInv, BookInv, StampInv, Online => OnlineInv, [Next]_vars
  PROVE  Online => \A i \in Connects :
           row[i].state = "Ready" /\ vm[row[i].vmid].by = i => row'[i].state = "Ready"
<1> SUFFICES ASSUME Online, NEW i \in Connects, row[i].state = "Ready", vm[row[i].vmid].by = i
             PROVE  row'[i].state = "Ready"
  OBVIOUS
<1>1. Fate(i) /\ row[i].vmid \in VmIds
  BY NextFate DEF BookInv
<1> QED BY <1>1 DEF Fate, Gone

\* Clones come only from requests that clone, and tasks that failed stay failed.
CloneStep(i) ==
  /\ task[i] = "failed" => task'[i] = "failed"
  /\ task[i] # "none" => \A v \in VmIds : vm'[v].by = i => vm[v].by = i
  /\ task'[i] \in {"running", "ok"} /\ ~May("delete") /\ (\A p \in Procs : pc[p] # "destroy") =>
       \/ row[i].vmid \in VmIds /\ vm'[row[i].vmid].by = i
       \/ task[i] \in {"running", "ok"} /\ \A v \in VmIds : vm[v].by = i => vm'[v].by = i

LEMMA NotesClone ==
  ASSUME GlobalOK, NEW j \in Connects, NEW v, NEW ok, SetNotes(v, j, ok), UNCHANGED task
  PROVE  \A i \in Connects : CloneStep(i)
<1>1. \A u \in Vm : [u EXCEPT !.note = j].by = u.by
  BY DEF Vm
<1>2. \A w \in VmIds : vm[w] \in Vm /\ (vm'[w] = vm[w] \/ vm'[w] = [vm[w] EXCEPT !.note = j])
  BY DEF SetNotes, GlobalOK
<1>3. \A w \in VmIds : vm'[w].by = vm[w].by
  BY <1>1, <1>2
<1> QED BY <1>3 DEF CloneStep

LEMMA NextClones ==
  ASSUME TypeOK, CloneInv, BookInv, StampInv, [Next]_vars
  PROVE  \A i \in Connects : CloneStep(i)
<1> USE DEF dbVars, pveVars, recVars
<1>0. LocalOK /\ GlobalOK /\ Nobody \notin Connects /\ AbsentVm.by = Nobody /\ Foreign.by = Nobody
  BY TypeParts, ConstantsAssumption DEF AbsentVm, Foreign, Procs
<1>s. CASE UNCHANGED <<vm, task>>
  BY <1>s DEF CloneStep
<1>1. ASSUME NEW c \in Connects, Post(c) PROVE \A i \in Connects : CloneStep(i)
  <2>1. CASE /\ ~Exists(plan[c])
             /\ vm' = [vm EXCEPT ![plan[c]] = [kind |-> "clone", by |-> c, note |-> Nobody]]
             /\ task' = [task EXCEPT ![c] = "running"]
    <3>1. plan[c] = row[c].vmid /\ row[c].vmid \in VmIds /\ task[c] = "none"
      <4>1. c \in Procs /\ c # Nobody /\ ent[c].id = c /\ task[c] = "none"
        BY <1>1, ConstantsAssumption DEF Post, CloneInv, Early, Procs
      <4>2. row[c].state # "unused"
        BY <4>1 DEF BookInv
      <4> QED BY <1>1, <4>1, <4>2 DEF Post, BookInv
    <3>2. /\ vm'[row[c].vmid].by = c
          /\ \A v \in VmIds : v # row[c].vmid => vm'[v] = vm[v]
          /\ \A i \in Connects : i # c => task'[i] = task[i]
      BY <1>0, <2>1, <3>1 DEF GlobalOK
    <3>3. \A i \in Connects : vm[row[c].vmid].by # i
      BY <1>0, <2>1, <3>1 DEF StampInv, Exists
    <3> QED BY <3>1, <3>2, <3>3 DEF CloneStep
  <2> QED BY <1>1, <1>s, <2>1 DEF Post
<1>2. ASSUME NEW p \in Procs, Stamp(p) \/ Destroy(p) \/ Finish(p)
      PROVE  \A i \in Connects : CloneStep(i)
  <2>1. CASE Destroy(p)
    BY <1>0, <2>1 DEF Destroy, DestroyVm, CloneStep, GlobalOK
  <2>2. CASE Stamp(p) \/ Finish(p)
    <3>1. ent[p].id \in Connects
      BY <2>2 DEF Stamp, Finish, StampInv, CloneInv, Finishing
    <3> QED BY <1>0, <2>2, <3>1, NotesClone DEF Stamp, Finish
  <2> QED BY <1>2, <2>1, <2>2
<1>3. CASE LiveStamp
  <2>1. ent[Reconciler].id \in Connects
    BY <1>3 DEF LiveStamp, StampInv, Procs
  <2> QED BY <1>0, <1>3, <2>1, NotesClone DEF LiveStamp
<1>4. CASE Environment
  BY <1>0, <1>4 DEF Environment, CloneEnds, CloneFails, CreateForeign, DeleteOutOfBand, Crash,
                    CloneStep, GlobalOK, StampInv, Exists
<1> QED BY <1>s, <1>1, <1>2, <1>3, <1>4
        DEF Next, vars, ConnectStep, Request, FastCheck, Enter, Recheck, Clear, Pick, Insert,
            SaveUpid, WaitForTask, SharedStep, Verify, Drop, Identity, MarkReady, ReconcilerStep,
            BeginPass, EndPass, LiveSave, ReconcileRow, Skip, ReconcileProvisioning, ReconcileDead,
            ReconcileLive, Deprovision

\* The environment of a behaviour does not change.
LEMMA EnvKept == [Next]_vars => UNCHANGED env
  BY DEF Next, vars, ConnectStep, Request, FastCheck, Enter, Recheck, Clear, Pick, Insert, Post,
         SaveUpid, WaitForTask, SharedStep, Stamp, Verify, Destroy, Drop, Finish, Identity,
         MarkReady, ReconcilerStep, BeginPass, EndPass, LiveStamp, LiveSave, ReconcileRow,
         Skip, ReconcileProvisioning, ReconcileDead, ReconcileLive, Deprovision, Environment,
         CloneEnds, CloneFails, CreateForeign, DeleteOutOfBand, Crash

\* A row with a recorded clone task that is given up has no VM left.
KeptInv ==
  Online /\ Prompt =>
    \A i \in Connects : Gone(i) /\ row[i].upid => \A v \in VmIds : vm[v].by # i

LEMMA KeptIsInductive ==
  ASSUME TypeOK, CloneInv, BookInv, StampInv, Online => OnlineInv, KeptInv, [Next]_vars, StampInv'
  PROVE  KeptInv'
<1>0. UNCHANGED env
  BY EnvKept
<1> SUFFICES ASSUME Online, Prompt, NEW i \in Connects, Gone(i)', row'[i].upid,
                    NEW v \in VmIds, vm'[v].by = i
             PROVE  FALSE
  BY <1>0 DEF KeptInv, Online, Prompt
<1>1. Fate(i) /\ CloneStep(i)
  BY NextFate, NextClones
<1>2. task'[i] \in {"running", "ok"}
  BY ConstantsAssumption DEF StampInv, Procs
<1>3. Gone(i) /\ row[i].upid => vm[v].by # i
  BY DEF KeptInv
<1>4. row[i].upid => task[i] # "none"
  BY DEF BookInv
<1> QED BY <1>1, <1>2, <1>3, <1>4 DEF Fate, CloneStep, Gone, Was

LEMMA KeptMeans ==
  ASSUME TypeOK, BookInv, StampInv, KeptInv
  PROVE  RecordedCloneKept
<1> SUFFICES ASSUME env \subseteq {"refuse", "cloneFails", "noStamp", "foreign", "delete", "crash"},
                    NEW v \in VmIds, vm[v].kind = "clone", row[vm[v].by].upid, ~Live(vm[v].by)
             PROVE  FALSE
  BY DEF RecordedCloneKept
<1>1. Online /\ Prompt
  BY DEF Online, Prompt
<1>2. vm[v].by \in Connects
  BY DEF TypeOK, Vm, StampInv
<1>3. row[vm[v].by].state # "unused"
  BY <1>2 DEF BookInv, NoRow
<1> QED BY <1>1, <1>2, <1>3 DEF KeptInv, Gone, Live

-----------------------------------------------------------------------------
\* While all is calm.

\* A recorded clone is given up only if it failed; a desktop that is in use or on its way
\* has its VM; nothing is stamped late and nothing destroyed; and what a copy says is Ready
\* is Ready.
CalmInv ==
  /\ \A i \in Connects : Gone(i) /\ row[i].upid => task[i] = "failed"
  /\ \A i \in Connects : Usable(i) /\ task[i] \in {"running", "ok"} => vm[row[i].vmid].by = i
  /\ \A i \in Connects : row[i].state = "Ready" => row[i].upid
  /\ \A p \in Procs : pc[p] \notin {"stamp", "destroy"}
  /\ \A c \in Connects : ent[c].state = "Ready" => row[ent[c].id].state = "Ready"
  /\ \A v \in VmIds : vm[v].note # Nobody => row[vm[v].note].upid
  /\ \A p \in Procs : pc[p] \in Finishing \cup {"waitTask"} =>
       ent[p].id \in Connects /\ row[ent[p].id].upid
  /\ pc[Reconciler] = "liveStamp" => row[ent[Reconciler].id].state = "Ready"
  /\ \A i \in Connects : snap[i].state = "Ready" => row[i].state = "Ready"

\* New stamps name rows with a recorded clone.
NotesRecorded ==
  \A v \in VmIds :
    vm'[v].note \in {Nobody, vm[v].note} \/ (vm'[v].note \in Connects /\ row[vm'[v].note].upid)

LEMMA CalmKept ==
  ASSUME LocalOK, GlobalOK, CloneInv, BookInv, StampInv, Prompt, ~May("delete"), OnlineInv, CalmInv,
         NEW p \in Procs, StepOf(p), \A i \in Connects : Fate(i) /\ CloneStep(i), NotesRecorded,
         \A i \in Connects : snap'[i].state = "Ready" => "Ready" \in {snap[i].state, row[i].state},
         \A i \in Connects : row'[i].state = "Ready" => row[i].state = "Ready" \/ row[i].upid,
         pc'[p] \notin {"stamp", "destroy"},
         p \in Connects /\ ent'[p].state = "Ready" =>
           ent'[p].id \in Connects /\ row[ent'[p].id].state = "Ready",
         pc'[p] \in Finishing \cup {"waitTask"} =>
           ent'[p].id \in Connects /\ row'[ent'[p].id].upid,
         pc'[p] = "liveStamp" => ent'[p].id \in Connects /\ row[ent'[p].id].state = "Ready"
  PROVE  CalmInv'
<1> USE ConstantsAssumption
<1>0. /\ \A c \in Connects : c \in Procs
      /\ Reconciler \in Procs /\ Nobody \notin Connects
      /\ \A v \in VmIds : vm[v].note \in Connects \cup {Nobody}
      /\ \A q \in Procs : pc[q] # "destroy"
  BY DEF Procs, GlobalOK, Vm, CalmInv
<1>1. \A i \in Connects : row[i].state = "Ready" => row'[i].state = "Ready"
  <2> SUFFICES ASSUME NEW i \in Connects, row[i].state = "Ready" PROVE row'[i].state = "Ready"
    OBVIOUS
  <2>1. task[i] = "ok" /\ row[i].vmid \in VmIds
    BY DEF CloneInv, ReadyIsCloned, BookInv
  <2>2. vm[row[i].vmid].by = i
    BY <2>1 DEF CalmInv, Usable
  <2> QED BY <2>1, <2>2 DEF Fate, Gone
<1>2. \A i \in Connects : row[i].upid => row'[i].upid /\ row'[i].vmid = row[i].vmid
  BY DEF Fate, BookInv, NoRow
<1>3. \A i \in Connects : Gone(i)' /\ row'[i].upid => task'[i] = "failed"
  <2> SUFFICES ASSUME NEW i \in Connects, Gone(i)', row'[i].upid PROVE task'[i] = "failed"
    OBVIOUS
  <2>1. row[i].state # "Ready"
    BY <1>1 DEF Gone
  <2>2. \/ Gone(i) /\ row[i].upid
        \/ row[i].state = "Provisioning" /\ task[i] = "failed"
    BY <2>1 DEF Fate, Gone, Was
  <2>3. task[i] = "failed"
    BY <2>2 DEF CalmInv
  <2> QED BY <2>3 DEF CloneStep
<1>4. \A i \in Connects : Usable(i)' /\ task'[i] \in {"running", "ok"} => vm'[row[i].vmid].by = i /\ row'[i].vmid = row[i].vmid
  <2> SUFFICES ASSUME NEW i \in Connects, Usable(i)', task'[i] \in {"running", "ok"}
               PROVE  vm'[row[i].vmid].by = i /\ row'[i].vmid = row[i].vmid
    OBVIOUS
  <2>1. \/ row[i].vmid \in VmIds /\ vm'[row[i].vmid].by = i
        \/ task[i] \in {"running", "ok"} /\ \A v \in VmIds : vm[v].by = i => vm'[v].by = i
    BY <1>0 DEF CloneStep
  <2>2. row[i].state # "unused"
    <3>1. row[i].state = "unused" => row[i].vmid \notin VmIds /\ task[i] = "none"
      BY DEF BookInv, NoRow, VmIds
    <3> QED BY <2>1, <3>1
  <2>3. Usable(i) /\ row[i].vmid \in VmIds /\ row'[i].vmid = row[i].vmid
    BY <2>2 DEF Fate, Usable, Gone, Was, BookInv
  <2> QED BY <2>1, <2>3 DEF CalmInv
<1>5. \A i \in Connects : row'[i].state = "Ready" => row'[i].upid
  BY <1>2 DEF CalmInv
<1>6. \A q \in Procs : pc'[q] \notin {"stamp", "destroy"}
  BY DEF StepOf, CalmInv
<1>7. \A c \in Connects : ent'[c].state = "Ready" => row'[ent'[c].id].state = "Ready"
  <2> SUFFICES ASSUME NEW c \in Connects, ent'[c].state = "Ready" PROVE row'[ent'[c].id].state = "Ready"
    OBVIOUS
  <2>1. ent'[c].id \in Connects /\ row[ent'[c].id].state = "Ready"
    BY <1>0 DEF StepOf, CalmInv, OnlineInv
  <2> QED BY <1>1, <2>1
<1>8. \A v \in VmIds : vm'[v].note # Nobody => row'[vm'[v].note].upid
  BY <1>0, <1>2 DEF NotesRecorded, CalmInv
<1>9. \A q \in Procs : pc'[q] \in Finishing \cup {"waitTask"} =>
        ent'[q].id \in Connects /\ row'[ent'[q].id].upid
  BY <1>2 DEF StepOf, CalmInv
<1>10. pc'[Reconciler] = "liveStamp" => row'[ent'[Reconciler].id].state = "Ready"
  BY <1>0, <1>1 DEF StepOf, CalmInv, StampInv
<1>11. \A i \in Connects : snap'[i].state = "Ready" => row'[i].state = "Ready"
  BY <1>1 DEF CalmInv
<1> QED BY <1>3, <1>4, <1>5, <1>6, <1>7, <1>8, <1>9, <1>10, <1>11 DEF CalmInv, Gone, Usable

LEMMA NotesNamed ==
  ASSUME GlobalOK, NEW i \in Connects, NEW v, NEW ok, SetNotes(v, i, ok), row[i].upid
  PROVE  NotesRecorded
<1>1. \A u \in Vm : [u EXCEPT !.note = i].note = i
  BY DEF Vm
<1>2. \A w \in VmIds : vm[w] \in Vm /\ (vm'[w] = vm[w] \/ vm'[w] = [vm[w] EXCEPT !.note = i])
  BY DEF SetNotes, GlobalOK
<1>3. \A w \in VmIds : vm'[w].note = vm[w].note \/ vm'[w].note = i
  BY <1>1, <1>2
<1> QED BY <1>3 DEF NotesRecorded

\* Leaving and throwing keep CalmInv.
LEMMA LeaveCalm ==
  ASSUME LocalOK, GlobalOK, CloneInv, BookInv, StampInv, Prompt, ~May("delete"), OnlineInv, CalmInv,
         NEW p \in Procs, NEW how \in {"done", "failed"}, Leave(p, how),
         \A i \in Connects : Fate(i) /\ CloneStep(i), NotesRecorded, UNCHANGED snap,
         \A i \in Connects : row'[i].state = "Ready" => row[i].state = "Ready" \/ row[i].upid
  PROVE  CalmInv'
<1>1. pc'[p] \in {"done", "failed", "scan"} /\ (ent'[p] = ent[p] \/ ent'[p] = NoEntity)
  BY DEF Leave, LocalOK
<1>2. p \in Connects /\ ent'[p].state = "Ready" =>
        ent'[p].id \in Connects /\ row[ent'[p].id].state = "Ready"
  BY <1>1 DEF OnlineInv, CalmInv, NoEntity
<1> QED BY <1>1, <1>2, LeaveGate, CalmKept DEF Finishing

\* Every step of a connect request keeps CalmInv.
LEMMA ConnectCalm ==
  ASSUME LocalOK, GlobalOK, CloneInv, BookInv, StampInv, Online, Prompt, ~May("delete"), OnlineInv,
         CalmInv, \A i \in Connects : Fate(i) /\ CloneStep(i),
         NEW c \in Connects, ConnectStep(c)
  PROVE  CalmInv'
<1> USE DEF dbVars, pveVars, recVars
<1>0. /\ c \in Procs /\ c # Reconciler /\ c # Nobody /\ Nobody \notin Connects
      /\ "done" \in {"done", "failed"} /\ "failed" \in {"done", "failed"}
  BY ConstantsAssumption DEF Procs
<1>r. \A i \in Connects : row'[i].state = "Ready" => row[i].state = "Ready"
  <2> SUFFICES ASSUME NEW i \in Connects, row'[i].state = "Ready", row[i].state # "Ready" PROVE FALSE
    OBVIOUS
  <2>1. row'[i] # row[i] /\ row[i].state = "Provisioning"
    BY DEF Fate, Gone
  <2>2. \A s \in States \ {"Ready"}, j \in Connects : row' # [row EXCEPT ![j].state = s]
    BY <2>1 DEF GlobalOK, Row
  <2>3. {"Failed", "Deprovisioning"} \subseteq States \ {"Ready"}
    BY DEF States
  <2>4. CASE Recheck(c)
    BY <2>1, <2>2, <2>3, <2>4 DEF Recheck, OnlineInv
  <2>5. CASE Insert(c)
    BY <2>1, <2>5 DEF Insert, GlobalOK, NoRow
  <2>6. CASE SaveUpid(c)
    BY <2>1, <2>6 DEF SaveUpid, GlobalOK, Row
  <2>7. ~FailRow(c)
    BY <2>1, <2>2, <2>3 DEF FailRow
  <2>8. ~UNCHANGED row
    BY <2>1
  <2> QED BY <2>4, <2>5, <2>6, <2>7, <2>8
          DEF ConnectStep, Request, FastCheck, Enter, Clear, Pick, Post, WaitForTask
<1>n. NotesRecorded /\ UNCHANGED snap
  <2>1. CASE UNCHANGED vm
    BY <2>1 DEF NotesRecorded, ConnectStep, Request, FastCheck, Enter, Recheck, Clear, Pick, Insert,
                Post, SaveUpid, WaitForTask
  <2>2. CASE Post(c) /\ vm' = [vm EXCEPT ![plan[c]] = [kind |-> "clone", by |-> c, note |-> Nobody]]
    BY <2>2 DEF Post, NotesRecorded, GlobalOK
  <2> QED BY <2>1, <2>2
          DEF ConnectStep, Request, FastCheck, Enter, Recheck, Clear, Pick, Insert, Post, SaveUpid,
              WaitForTask
<1>l. ASSUME NEW how \in {"done", "failed"}, Leave(c, how) PROVE CalmInv'
  BY <1>0, <1>l, <1>r, <1>n, LeaveCalm
<1>t. Throw(c) \/ FailRow(c) => CalmInv'
  BY <1>0, <1>l DEF Throw, FailRow
<1>g. ASSUME StepOf(c), pc'[c] \notin {"stamp", "destroy", "liveStamp"},
             ent'[c].state = "Ready" => ent'[c].id \in Connects /\ row[ent'[c].id].state = "Ready",
             pc'[c] \in Finishing \cup {"waitTask"} =>
               ent'[c].id \in Connects /\ row'[ent'[c].id].upid
      PROVE  CalmInv'
  BY <1>0, <1>g, <1>r, <1>n, CalmKept
<1>e. /\ ent[c].state = "Ready" => ent[c].id \in Connects /\ row[ent[c].id].state = "Ready"
      /\ \A i \in Connects : Live(i) =>
           /\ Query(c, i).state = "Ready" => Query(c, i).id \in Connects /\ row[Query(c, i).id].state = "Ready"
           /\ Track(i, row[i]).id = i /\ Track(i, row[i]).state = row[i].state
  BY DEF OnlineInv, CalmInv, Query, Track
<1>1. CASE Request(c)
  <2>1. StepOf(c) /\ pc'[c] \in {"wait", "fastCheck"}
    BY <1>0, <1>1 DEF Request, Goto, StepOf, LocalOK
  <2>2. ent'[c] = ent[c] \/ \E i \in Connects : Live(i) /\ ent'[c] = Track(i, row[i])
    BY <1>0, <1>1 DEF Request, Existing, RowsOf, LocalOK
  <2> QED BY <1>e, <1>g, <2>1, <2>2 DEF Finishing
<1>2. CASE FastCheck(c)
  <2>1. Leave(c, "done") \/ (StepOf(c) /\ pc'[c] = "wait" /\ ent' = ent)
    BY <1>0, <1>2 DEF FastCheck, Goto, StepOf, LocalOK
  <2> QED BY <1>0, <1>e, <1>l, <1>g, <2>1 DEF Finishing
<1>3. CASE Enter(c)
  <2>1. StepOf(c) /\ pc'[c] \in {"clear", "recheck"}
    BY <1>0, <1>3 DEF Enter, StepOf, LocalOK
  <2>2. ent'[c] = ent[c] \/ \E i \in Connects : Live(i) /\ ent'[c] = Query(c, i)
    BY <1>0, <1>3 DEF Enter, Existing, RowsOf, LocalOK
  <2> QED BY <1>e, <1>g, <2>1, <2>2 DEF Finishing
<1>4. CASE Recheck(c)
  <2>1. \A e \in Entity : [e EXCEPT !.state = "Deprovisioning"].state = "Deprovisioning"
    BY DEF Entity
  <2>2. \/ Leave(c, "done") \/ Throw(c)
        \/ /\ StepOf(c) /\ pc'[c] = "clear"
           /\ ent'[c] = [ent[c] EXCEPT !.state = "Deprovisioning"] /\ ent[c] \in Entity
    BY <1>0, <1>4 DEF Recheck, Goto, StepOf, LocalOK
  <2> QED BY <1>0, <1>l, <1>t, <1>g, <2>1, <2>2 DEF Finishing
<1>5. CASE Clear(c)
  <2>1. CASE Throw(c)
    BY <1>t, <2>1
  <2>2. CASE pc' = [pc EXCEPT ![c] = "pick"] /\ ent' = [ent EXCEPT ![c] = NoEntity]
    <3>1. StepOf(c) /\ pc'[c] = "pick" /\ ent'[c] = NoEntity
      BY <1>0, <2>2 DEF StepOf, LocalOK
    <3> QED BY <1>g, <3>1 DEF NoEntity, Finishing
  <2>3. ASSUME NEW i \in RowsOf(OwnerOf[c]), Dead(row[i].state), ent' = [ent EXCEPT ![c] = Query(c, i)],
               \/ pc' = [pc EXCEPT ![c] = "verify"]
               \/ pc' = [pc EXCEPT ![c] = "stamp"] /\ Query(c, i).upid /\ task[i] = "ok"
        PROVE  CalmInv'
    <3>1. i \in Connects /\ Live(i) /\ Gone(i)
      BY <2>3 DEF RowsOf, Dead, Gone
    <3>2. Query(c, i).upid => task[i] = "failed"
      BY <1>0, <3>1, QueryTracked DEF CalmInv
    <3>3. StepOf(c) /\ pc'[c] = "verify" /\ ent'[c] = Query(c, i)
      BY <1>0, <2>3, <3>2 DEF StepOf, LocalOK
    <3> QED BY <1>e, <1>g, <3>1, <3>3 DEF Finishing
  <2>4. ~May("outage")
    BY DEF Online, May
  <2> QED BY <1>5, <2>1, <2>2, <2>3, <2>4 DEF Clear, Goto, GetTaskStatus
<1>6. CASE Pick(c)
  <2>1. Leave(c, "failed") \/ (StepOf(c) /\ pc'[c] = "insert" /\ ent' = ent)
    BY <1>0, <1>6 DEF Pick, StepOf, LocalOK
  <2> QED BY <1>0, <1>e, <1>l, <1>g, <2>1 DEF Finishing
<1>7. CASE Insert(c)
  <2>1. [NoEntity EXCEPT !.id = c, !.state = "Provisioning"].state = "Provisioning"
    BY DEF NoEntity
  <2>2. Throw(c) \/ (StepOf(c) /\ pc'[c] = "post" /\ ent'[c].state = "Provisioning")
    BY <1>0, <1>7, <2>1 DEF Insert, Goto, StepOf, LocalOK
  <2> QED BY <1>t, <1>g, <2>2 DEF Finishing
<1>8. CASE Post(c)
  <2>1. FailRow(c) \/ (StepOf(c) /\ pc'[c] = "saveUpid" /\ ent' = ent)
    BY <1>0, <1>8 DEF Post, StepOf, LocalOK
  <2> QED BY <1>e, <1>t, <1>g, <2>1 DEF Finishing
<1>9. CASE SaveUpid(c)
  <2>1. CASE ~CanSave(c, c)
    BY <1>9, <2>1, <1>t DEF SaveUpid
  <2>2. CASE CanSave(c, c)
    <3>1. ent[c].id = c /\ ent[c].state # "Ready"
      <4>1. row[c].state = "Provisioning" /\ ent[c].id = c
        BY <1>9 DEF SaveUpid, OnlineInv, Busy
      <4> QED BY <4>1 DEF OnlineInv, Was
    <3>2. \A e \in Entity : [e EXCEPT !.upid = TRUE].state = e.state /\ [e EXCEPT !.upid = TRUE].id = e.id
      BY DEF Entity
    <3>3. /\ ent'[c] = [ent[c] EXCEPT !.upid = TRUE] /\ ent[c] \in Entity
          /\ StepOf(c) /\ pc'[c] = "waitTask"
      BY <1>0, <1>9, <2>2 DEF SaveUpid, Goto, StepOf, LocalOK
    <3>4. row'[c].upid
      BY <1>9, <2>2 DEF SaveUpid, GlobalOK, Row
    <3> QED BY <1>g, <3>1, <3>2, <3>3, <3>4
  <2> QED BY <2>1, <2>2
<1>10. CASE WaitForTask(c)
  <2>1. CASE FailRow(c)
    BY <2>1, <1>t
  <2>2. CASE ~FailRow(c)
    <3>1. StepOf(c) /\ pc[c] = "waitTask" /\ pc'[c] = "finish" /\ UNCHANGED <<row, ent>>
      BY <1>0, <1>10, <2>2 DEF WaitForTask, Goto, StepOf, LocalOK
    <3> QED BY <1>0, <1>e, <1>g, <3>1 DEF CalmInv
  <2> QED BY <2>1, <2>2
<1> QED BY <1>1, <1>2, <1>3, <1>4, <1>5, <1>6, <1>7, <1>8, <1>9, <1>10 DEF ConnectStep

\* So does every step the callers share: nothing is stamped for a row that is given up.
LEMMA SharedCalm ==
  ASSUME LocalOK, GlobalOK, CloneInv, BookInv, StampInv, Online, Prompt, ~May("delete"), OnlineInv,
         CalmInv, \A i \in Connects : Fate(i) /\ CloneStep(i),
         NEW p \in Procs, SharedStep(p)
  PROVE  CalmInv'
<1> USE DEF dbVars, pveVars, recVars
<1> DEFINE i == ent[p].id
<1>0. "done" \in {"done", "failed"} /\ "failed" \in {"done", "failed"} /\ Nobody \notin Connects
  BY ConstantsAssumption DEF Procs
<1>e. p \in Connects => (ent[p].state = "Ready" => i \in Connects /\ row[i].state = "Ready")
  BY DEF OnlineInv, CalmInv
<1>s. UNCHANGED vm => NotesRecorded
  BY DEF NotesRecorded
<1>l. ASSUME NEW how \in {"done", "failed"}, Leave(p, how), UNCHANGED <<snap, vm>>,
             \A j \in Connects : row'[j].state = "Ready" => row[j].state = "Ready" \/ row[j].upid
      PROVE  CalmInv'
  BY <1>l, <1>s, LeaveCalm
<1>t. ASSUME Throw(p), UNCHANGED <<row, snap, vm>> PROVE CalmInv'
  BY <1>0, <1>t, <1>l DEF Throw
<1>g. ASSUME StepOf(p), pc'[p] \notin {"stamp", "destroy", "liveStamp"}, NotesRecorded, UNCHANGED snap,
             \A j \in Connects : row'[j].state = "Ready" => row[j].state = "Ready" \/ row[j].upid,
             (ent'[p].id = i /\ ent'[p].state = ent[p].state) \/ ent'[p] = NoEntity,
             pc'[p] \in Finishing \cup {"waitTask"} => i \in Connects /\ ent'[p].id = i /\ row'[i].upid
      PROVE  CalmInv'
  <2>1. p \in Connects /\ ent'[p].state = "Ready" =>
          ent'[p].id \in Connects /\ row[ent'[p].id].state = "Ready"
    BY <1>e, <1>g DEF NoEntity
  <2> QED BY <1>g, <2>1, CalmKept
<1>1. ~Stamp(p) /\ ~Destroy(p)
  BY DEF CalmInv, Stamp, Destroy
<1>2. CASE Verify(p)
  <2>1. PICK v \in Bound(i) : pc' = [pc EXCEPT ![p] = IF v = 0 THEN "drop" ELSE "destroy"]
    BY <1>2 DEF Verify, Goto
  <2>2. i \in Connects /\ Gone(i)
    BY <1>2 DEF Verify, OnlineInv
  <2>3. v = 0
    <3>1. v # 0 => v \in VmIds /\ vm[v].note = i
      BY <2>1 DEF Bound
    <3>2. v # 0 => task[i] = "ok" /\ row[i].upid
      BY <1>0, <2>2, <3>1 DEF StampInv, CalmInv
    <3> QED BY <2>2, <3>2 DEF CalmInv
  <2>4. StepOf(p) /\ pc'[p] = "drop" /\ UNCHANGED <<row, snap, vm, ent>>
    BY <1>2, <2>1, <2>3 DEF Verify, StepOf, LocalOK
  <2> QED BY <1>s, <1>g, <2>4 DEF Finishing
<1>3. CASE Drop(p)
  <2>0. i \in Connects /\ UNCHANGED <<snap, vm>>
    BY <1>3 DEF Drop, OnlineInv
  <2>1. \A j \in Connects : row'[j].state = "Ready" => row[j].state = "Ready"
    BY <1>3, <2>0 DEF Drop, GlobalOK, Row
  <2>2. \/ Leave(p, "done") \/ (Throw(p) /\ UNCHANGED row)
        \/ StepOf(p) /\ pc'[p] = "pick" /\ ent'[p] = NoEntity
    BY <1>3 DEF Drop, Goto, StepOf, LocalOK
  <2> QED BY <1>0, <1>s, <1>l, <1>t, <1>g, <2>0, <2>1, <2>2 DEF Finishing
<1>w. pc[p] \in Finishing => i \in Connects /\ row[i].upid
  BY DEF CalmInv
<1>4. CASE Finish(p)
  <2>0. i \in Connects /\ row[i].upid
    BY <1>4, <1>w DEF Finish, Finishing
  <2>1. PICK ok \in BOOLEAN : SetNotes(row[i].vmid, i, ok) /\ ent' = [ent EXCEPT ![p].mark = ok]
    BY <1>4 DEF Finish
  <2>2. ent'[p].id = i /\ ent'[p].state = ent[p].state
    <3>1. ent'[p] = [ent[p] EXCEPT !.mark = ok] /\ ent[p] \in Entity
      BY <2>1 DEF LocalOK
    <3> QED BY <3>1 DEF Entity
  <2>3. StepOf(p) /\ pc'[p] = "identity" /\ UNCHANGED <<row, snap>>
    BY <1>4, <2>1 DEF Finish, Goto, StepOf, LocalOK
  <2>4. NotesRecorded
    BY <2>0, <2>1, NotesNamed
  <2> QED BY <1>g, <2>0, <2>2, <2>3, <2>4
<1>5. CASE Identity(p)
  <2>0. i \in Connects /\ row[i].upid /\ UNCHANGED <<snap, vm>>
    BY <1>5, <1>w DEF Identity, Finishing
  <2>1. CASE Throw(p) /\ UNCHANGED row
    BY <2>0, <2>1, <1>t
  <2>2. CASE pc' = [pc EXCEPT ![p] = "ready"] /\ UNCHANGED <<row, ent>>
    <3>1. StepOf(p) /\ pc'[p] = "ready"
      BY <2>2 DEF StepOf, LocalOK
    <3> QED BY <1>g, <1>s, <2>0, <2>2, <3>1
  <2>3. CASE /\ pc' = [pc EXCEPT ![p] = "ready"]
             /\ row' = [row EXCEPT ![i].stamped = Marked(i, ent[p])]
             /\ ent' = [ent EXCEPT ![p].stamped = ent[p].mark]
    <3>1. StepOf(p) /\ pc'[p] = "ready" /\ ent'[p] = [ent[p] EXCEPT !.stamped = ent[p].mark]
      BY <2>3 DEF StepOf, LocalOK
    <3>2. ent'[p].id = i /\ ent'[p].state = ent[p].state
      <4>1. ent[p] \in Entity
        BY DEF LocalOK
      <4> QED BY <3>1, <4>1 DEF Entity
    <3>3. \A j \in Connects : row'[j].state = row[j].state /\ row'[j].upid = row[j].upid
      BY <2>0, <2>3 DEF GlobalOK, Row
    <3> QED BY <1>g, <1>s, <2>0, <3>1, <3>2, <3>3
  <2> QED BY <1>5, <2>1, <2>2, <2>3 DEF Identity, Goto
<1>6. CASE MarkReady(p)
  <2>0. i \in Connects /\ row[i].upid /\ UNCHANGED <<snap, vm>>
    BY <1>6, <1>w DEF MarkReady, Finishing
  <2>1. CASE Throw(p) /\ UNCHANGED row
    BY <2>0, <2>1, <1>t
  <2>2. CASE /\ row' = [row EXCEPT ![i].state = "Ready", ![i].stamped = Marked(i, ent[p])]
             /\ Leave(p, "done")
    <3>1. \A j \in Connects : j # i => row'[j] = row[j]
      BY <2>0, <2>2 DEF GlobalOK
    <3> QED BY <1>0, <2>0, <2>2, <3>1, <1>l
  <2> QED BY <1>6, <2>1, <2>2 DEF MarkReady
<1> QED BY <1>1, <1>2, <1>3, <1>4, <1>5, <1>6 DEF SharedStep

\* So does every step of a reconcile pass.
LEMMA ReconcilerCalm ==
  ASSUME LocalOK, GlobalOK, CloneInv, BookInv, StampInv, Online, Prompt, ~May("delete"), OnlineInv,
         CalmInv, \A i \in Connects : Fate(i) /\ CloneStep(i), ReconcilerStep
  PROVE  CalmInv'
<1> USE DEF dbVars, pveVars, recVars
<1> DEFINE p == Reconciler
<1>0. p \in Procs /\ p \notin Connects /\ "done" \in {"done", "failed"} /\ ~May("outage")
  BY ConstantsAssumption DEF Procs, Online, May
<1>s. UNCHANGED vm => NotesRecorded
  BY DEF NotesRecorded
<1>g. ASSUME StepOf(p), pc'[p] \notin {"stamp", "destroy"}, NotesRecorded,
             \A i \in Connects : snap'[i].state = "Ready" => "Ready" \in {snap[i].state, row[i].state},
             \A i \in Connects : row'[i].state = "Ready" => row[i].state = "Ready",
             pc'[p] \in Finishing \cup {"waitTask"} =>
               ent'[p].id \in Connects /\ row'[ent'[p].id].upid,
             pc'[p] = "liveStamp" => ent'[p].id \in Connects /\ row[ent'[p].id].state = "Ready"
      PROVE  CalmInv'
  BY <1>0, <1>g, CalmKept
<1>1. CASE BeginPass
  <2>1. /\ \A i \in Connects : snap'[i] = row[i] \/ snap'[i] = NoRow
        /\ StepOf(p) /\ pc'[p] = "scan" /\ UNCHANGED <<row, vm>>
    BY <1>0, <1>1 DEF BeginPass, Goto, StepOf, LocalOK
  <2> QED BY <1>g, <1>s, <2>1 DEF NoRow, Finishing
<1>2. CASE EndPass
  <2>1. StepOf(p) /\ pc'[p] = "idle" /\ UNCHANGED <<row, snap, vm>>
    BY <1>0, <1>2 DEF EndPass, Goto, StepOf, LocalOK
  <2> QED BY <1>g, <1>s, <2>1 DEF Finishing
<1>3. CASE LiveStamp
  <2> DEFINE i == ent[p].id
  <2>1. i \in Connects /\ row[i].upid
    BY <1>0, <1>3 DEF LiveStamp, StampInv, CalmInv
  <2>2. NotesRecorded
    BY <1>3, <2>1, NotesNamed DEF LiveStamp
  <2>3. StepOf(p) /\ pc'[p] \in {"liveSave", "scan"} /\ UNCHANGED <<row, snap>>
    BY <1>0, <1>3, LeaveGate DEF LiveStamp, Goto, Leave, StepOf, LocalOK
  <2> QED BY <1>g, <2>2, <2>3 DEF Finishing
<1>4. CASE LiveSave
  <2>1. \A j \in Connects : row'[j].state = row[j].state
    BY <1>4 DEF LiveSave, PassSave, GlobalOK, Row
  <2>2. StepOf(p) /\ pc'[p] = "scan" /\ UNCHANGED <<snap, vm>>
    BY <1>0, <1>4, LeaveGate DEF LiveSave, Leave, LocalOK
  <2> QED BY <1>g, <1>s, <2>1, <2>2 DEF Finishing
<1>5. ASSUME NEW i \in Connects, ReconcileRow(i) PROVE CalmInv'
  <2>1. /\ pc[p] = "scan" /\ UNCHANGED vm
        /\ \A j \in Connects : snap'[j] = snap[j] \/ snap'[j] = NoRow
    BY <1>5 DEF ReconcileRow, Skip, ReconcileProvisioning, ReconcileDead, ReconcileLive, Taken, GlobalOK
  <2>2. \A j \in Connects : snap'[j].state = "Ready" => snap[j].state = "Ready"
    BY <2>1 DEF NoRow
  <2>3. \A j \in Connects : row'[j].state = "Ready" => row[j].state = "Ready"
    BY <1>5 DEF ReconcileRow, Skip, ReconcileProvisioning, ReconcileDead, ReconcileLive, PassSave,
                GlobalOK, Row
  <2>4. \/ UNCHANGED pc
        \/ /\ ent' = [ent EXCEPT ![p] = Track(i, snap[i])]
           /\ \/ pc' = [pc EXCEPT ![p] = "finish"] /\ snap[i].upid /\ UNCHANGED row
              \/ pc' = [pc EXCEPT ![p] = "verify"]
              \/ pc' = [pc EXCEPT ![p] = "stamp"] /\ Dead(snap[i].state) /\ snap[i].upid /\ task[i] = "ok"
              \/ pc' = [pc EXCEPT ![p] = "liveStamp"] /\ snap[i].state = "Ready"
    BY <1>0, <1>5 DEF ReconcileRow, Skip, ReconcileProvisioning, ReconcileDead, ReconcileLive, GetTaskStatus
  <2>5. ~(Dead(snap[i].state) /\ snap[i].upid /\ task[i] = "ok")
    BY DEF BookInv, OnlineInv, CalmInv
  <2>6. /\ StepOf(p)
        /\ \/ pc'[p] = "scan"
           \/ ent'[p].id = i /\ pc'[p] = "finish" /\ row'[i].upid
           \/ pc'[p] = "verify"
           \/ ent'[p].id = i /\ pc'[p] = "liveStamp" /\ row[i].state = "Ready"
    <3>1. UNCHANGED ent \/ \A q \in Procs \ {p} : ent'[q] = ent[q]
      BY <1>0, <1>5 DEF ReconcileRow, Skip, ReconcileProvisioning, ReconcileDead, ReconcileLive, LocalOK
    <3>2. Track(i, snap[i]).id = i /\ (snap[i].upid => row[i].upid)
          /\ (snap[i].state = "Ready" => row[i].state = "Ready")
      BY DEF Track, BookInv, CalmInv
    <3> QED BY <1>0, <2>1, <2>4, <2>5, <3>1, <3>2 DEF StepOf, LocalOK
  <2> QED BY <1>g, <1>s, <2>1, <2>2, <2>3, <2>6 DEF Finishing
<1> QED BY <1>1, <1>2, <1>3, <1>4, <1>5 DEF ReconcilerStep

\* The surroundings and a restart keep CalmInv.
LEMMA OutsideCalm ==
  ASSUME LocalOK, GlobalOK, CloneInv, BookInv, StampInv, Online, Prompt, ~May("delete"), OnlineInv,
         CalmInv, \A i \in Connects : Fate(i) /\ CloneStep(i),
         Environment \/ \E a \in Admins : Deprovision(a)
  PROVE  CalmInv'
<1> USE DEF dbVars, pveVars, recVars
<1>0. /\ Reconciler \in Procs /\ Reconciler \notin Connects
      /\ AbsentVm.note = Nobody /\ Foreign.note = Nobody
      /\ \A c \in Connects : c \in Procs
  BY ConstantsAssumption DEF Procs, AbsentVm, Foreign
<1>1. \A a \in Admins : ~Deprovision(a)
  BY DEF Deprovision, Online, May
<1>2. CASE Environment /\ ~Crash
  <2>1. NotesRecorded
    BY <1>0, <1>2 DEF Environment, CloneEnds, CloneFails, CreateForeign, DeleteOutOfBand,
                      NotesRecorded, GlobalOK
  <2>2. UNCHANGED <<row, pc, ent, snap>>
    BY <1>2 DEF Environment, CloneEnds, CloneFails, CreateForeign, DeleteOutOfBand
  <2>3. StepOf(Reconciler)
    BY <2>2 DEF StepOf
  <2>4. pc'[Reconciler] \in Finishing \cup {"waitTask"} =>
          ent'[Reconciler].id \in Connects /\ row'[ent'[Reconciler].id].upid
    BY <1>0, <2>2 DEF CalmInv
  <2>5. pc'[Reconciler] = "liveStamp" =>
          ent'[Reconciler].id \in Connects /\ row[ent'[Reconciler].id].state = "Ready"
    BY <1>0, <2>2 DEF CalmInv, StampInv
  <2>6. pc'[Reconciler] \notin {"stamp", "destroy"}
    BY <1>0, <2>2 DEF CalmInv
  <2> QED BY <1>0, <2>1, <2>2, <2>3, <2>4, <2>5, <2>6, CalmKept
<1>3. CASE Crash
  <2>1. /\ UNCHANGED <<row, vm, task>> /\ \A i \in Connects : snap'[i] = NoRow
        /\ \A q \in Procs : /\ pc'[q] \in {"idle", "done", "failed"}
                            /\ ent'[q] = ent[q] \/ ent'[q] = NoEntity
    BY <1>0, <1>3 DEF Crash
  <2>2. \A c \in Connects : ent'[c].state = "Ready" => row'[ent'[c].id].state = "Ready"
    BY <1>0, <2>1 DEF CalmInv, NoEntity
  <2> QED BY <1>0, <2>1, <2>2 DEF CalmInv, Finishing, NoRow, Gone, Usable
<1> QED BY <1>1, <1>2, <1>3

\* Calm is a case of Online and Prompt.
LEMMA CalmImplies == Calm => Online /\ Prompt /\ ~May("delete")
  BY DEF Calm, Online, Prompt, May

\* Every step keeps CalmInv.
LEMMA CalmIsInductive ==
  ASSUME TypeOK, CloneInv, BookInv, StampInv, Online => OnlineInv, Calm => CalmInv, [Next]_vars
  PROVE  (Calm => CalmInv)'
<1>1. LocalOK /\ GlobalOK
  BY TypeParts
<1>2. Calm' => Calm
  BY EnvKept DEF Calm
<1>3. CASE UNCHANGED vars
  BY <1>2, <1>3 DEF vars, CalmInv, Gone, Usable
<1>4. CASE Next
  <2> SUFFICES ASSUME Calm PROVE CalmInv'
    BY <1>2
  <2>1. Online /\ Prompt /\ ~May("delete") /\ OnlineInv /\ CalmInv
    BY CalmImplies
  <2>2. \A i \in Connects : Fate(i) /\ CloneStep(i)
    BY <2>1, NextFate, NextClones
  <2> QED BY <1>1, <1>4, <2>1, <2>2, ConnectCalm, SharedCalm, ReconcilerCalm, OutsideCalm DEF Next
<1> QED BY <1>3, <1>4

LEMMA InitCalm == Init => CalmInv
  BY ConstantsAssumption
     DEF Init, CalmInv, NoRow, NoEntity, AbsentVm, Procs, Finishing, Gone, Usable

\* A request is answered with a desktop that is Ready.
LEMMA ReadyHandedOut ==
  ASSUME TypeOK, CloneInv, Online => OnlineInv, Calm => CalmInv, [Next]_vars
  PROVE  Calm => \A c \in Connects :
           pc[c] # "done" /\ pc'[c] = "done" => row'[ent[c].id].state = "Ready"
<1> USE DEF dbVars, pveVars, recVars
<1> SUFFICES ASSUME Calm, NEW c \in Connects, pc[c] # "done", pc'[c] = "done"
             PROVE  row'[ent[c].id].state = "Ready"
  OBVIOUS
<1>0. /\ LocalOK /\ GlobalOK /\ OnlineInv /\ CalmInv
      /\ c \in Procs /\ c # Reconciler /\ c \notin Admins /\ Reconciler \in Procs
      /\ \A a \in Admins : a \in Procs /\ \A d \in Connects : d \in Procs /\ d # Reconciler
  BY TypeParts, CalmImplies, ConstantsAssumption DEF Procs
<1>1. ASSUME NEW d \in Connects, ConnectStep(d) PROVE row'[ent[c].id].state = "Ready"
  <2>1. \A q \in Procs \ {d} : pc'[q] = pc[q]
    BY <1>0, <1>1 DEF ConnectStep, Request, FastCheck, Enter, Recheck, Clear, Pick, Insert, Post,
                      SaveUpid, WaitForTask, FailRow, Throw, Leave, Goto, LocalOK
  <2>2. d = c
    BY <1>0, <2>1
  <2>3. CASE FastCheck(c) \/ Recheck(c)
    <3>1. pc[c] \in {"fastCheck", "recheck"}
      BY <2>3 DEF FastCheck, Recheck
    <3>2. row[ent[c].id].state = "Ready"
      BY <3>1, <1>0 DEF OnlineInv, CalmInv
    <3>3. row' = row
      BY <1>0, <2>3 DEF FastCheck, Recheck, Goto, Throw, Leave, LocalOK
    <3> QED BY <3>2, <3>3
  <2>4. CASE ~FastCheck(c) /\ ~Recheck(c)
    <3>1. pc'[c] # "done"
      BY <1>0, <1>1, <2>2, <2>4
         DEF ConnectStep, Request, Enter, Clear, Pick, Insert, Post,
             SaveUpid, WaitForTask, FailRow, Throw, Leave, Goto, LocalOK
    <3> QED BY <3>1
  <2> QED BY <2>3, <2>4
<1>2. ASSUME NEW p \in Procs, SharedStep(p) PROVE row'[ent[c].id].state = "Ready"
  <2>1. p = c
    BY <1>0, <1>2 DEF SharedStep, Stamp, Verify, Destroy, Drop, Finish, Identity, MarkReady, Throw,
                      Leave, Goto, LocalOK
  <2>2. MarkReady(c) /\ Leave(c, "done")
    BY <1>0, <1>2, <2>1 DEF SharedStep, Stamp, Verify, Destroy, Drop, Finish, Identity, MarkReady,
                            Throw, Leave, Goto, LocalOK
  <2>3. ent[c].id \in Connects
    BY <1>0, <2>2 DEF MarkReady, CalmInv, Finishing
  <2>4. row' = [row EXCEPT ![ent[c].id].state = "Ready", ![ent[c].id].stamped = Marked(ent[c].id, ent[c])]
    BY <1>0, <2>2 DEF MarkReady, Throw, Leave, LocalOK
  <2> QED BY <1>0, <2>3, <2>4 DEF GlobalOK, Row
<1>3. ~ReconcilerStep
  <2>1. ReconcilerStep => \A q \in Procs \ {Reconciler} : pc'[q] = pc[q]
    BY <1>0 DEF ReconcilerStep, BeginPass, EndPass, LiveStamp, LiveSave, ReconcileRow, Skip,
                ReconcileProvisioning, ReconcileDead, ReconcileLive, Leave, Goto, LocalOK
  <2> QED BY <1>0, <2>1
<1>4. ~Environment /\ ~UNCHANGED vars
  BY <1>0 DEF Environment, CloneEnds, CloneFails, CreateForeign, DeleteOutOfBand, Crash, vars
<1>5. \A a \in Admins : ~Deprovision(a)
  BY <1>0 DEF Deprovision, Goto, LocalOK
<1> QED BY <1>1, <1>2, <1>3, <1>4, <1>5 DEF Next

\* A destroy finds nothing to destroy while all is calm, and else the row's own VM.
LEMMA DestroyMeans ==
  ASSUME StampInv, Calm => CalmInv
  PROVE  DestroysOwnVm
<1>1. Calm => \A p \in Procs : ~Destroys(p)
  BY DEF CalmInv, Destroys
<1>2. ASSUME ~May("foreign"), NEW p \in Procs, Destroys(p), Live(ent[p].id)
      PROVE  OwnsTarget(p)
  BY <1>2 DEF StampInv, Destroys, OwnsTarget
<1> QED BY <1>1, <1>2 DEF DestroysOwnVm

\* All of it is an invariant together.
ProvisioningInv ==
  BookInv /\ StampInv /\ (Online => OnlineInv) /\ KeptInv /\ (Calm => CalmInv)

LEMMA ProvisioningHolds == Spec => []ProvisioningInv
<1>1. Init => ProvisioningInv
  <2>1. Init => KeptInv
    BY DEF Init, KeptInv, Gone, NoRow
  <2> QED BY <2>1, InitBook, InitStamp, InitOnline, InitCalm DEF ProvisioningInv
<1>2. TypeOK /\ ClaimInv /\ CloneInv /\ ProvisioningInv /\ [Next]_vars => ProvisioningInv'
  <2> SUFFICES ASSUME TypeOK, ClaimInv, CloneInv, ProvisioningInv, [Next]_vars
               PROVE  ProvisioningInv'
    OBVIOUS
  <2>0. BookInv /\ StampInv /\ (Online => OnlineInv) /\ KeptInv /\ (Calm => CalmInv)
    BY DEF ProvisioningInv
  <2>1. BookInv' /\ StampInv'
    BY <2>0, BookIsInductive, StampIsInductive
  <2>2. (Online => OnlineInv)' /\ (Calm => CalmInv)'
    BY <2>0, OnlineIsInductive, CalmIsInductive
  <2>3. KeptInv'
    BY <2>0, <2>1, KeptIsInductive
  <2> QED BY <2>1, <2>2, <2>3 DEF ProvisioningInv
<1> QED BY <1>1, <1>2, TypeCorrect, ClaimHolds, CloneHolds, PTL DEF Spec

\* The gateway loses none of its clones and destroys none but its own, for every number
\* of requests, rows, VMIDs and restarts.
THEOREM ClonesKept == Spec => []ClonesAreKept
<1>1. TypeOK /\ ProvisioningInv => ClonesAreKept
  BY KeptMeans, DestroyMeans DEF ProvisioningInv, ClonesAreKept
<1> QED BY <1>1, TypeCorrect, ProvisioningHolds, PTL

\* A desktop that works stays Ready, and a request is answered with one that is Ready.
THEOREM DesktopsAreServed == Spec => DesktopsServe
<1>1. TypeOK /\ CloneInv /\ ProvisioningInv /\ [Next]_vars =>
        /\ env \cap {"outage", "deprovision", "longPass"} = {} =>
             \A i \in Connects :
               row[i].state = "Ready" /\ vm[row[i].vmid].by = i => row'[i].state = "Ready"
        /\ Calm => \A c \in Connects :
             pc[c] # "done" /\ pc'[c] = "done" => row'[ent[c].id].state = "Ready"
  BY LiveDesktopKept, ReadyHandedOut DEF ProvisioningInv, Online
<1>2. Spec => KeepsLiveDesktopOnline /\ HandsOutReady
  BY <1>1, TypeCorrect, CloneHolds, ProvisioningHolds, PTL
     DEF Spec, KeepsLiveDesktopOnline, HandsOutReady
<1> QED BY <1>2 DEF DesktopsServe

=============================================================================
