------------------------ MODULE CatalogRefreshProofs ------------------------
(***************************************************************************)
(* The types of CatalogRefresh, that the sweep of a scan retires only what *)
(* was not there or is not declared, and that a catalog that is not marked *)
(* as changed shows what is on disk (FreshInv: a change is an event on its *)
(* way, or a scan has still to read it, or the row is right), for every    *)
(* set of roots and any number of changes.                                 *)
(***************************************************************************)
EXTENDS CatalogRefresh, TLAPS

\* The ghost is complete: while a scan runs, a skill that is not there is absent.
AbsentKnown == Scanning => \A r \in Roots : disk[r].kind # "skill" => r \in absent

\* What a root was passed over or walked to its end without was not there.
UnreadAbsent ==
  Scanning => \A r \in Roots : op.how[r] \in {"absent", "complete"} /\ op.read[r] = 0
                                 => r \in absent

RefreshInv == RefreshTypeOK /\ AbsentKnown /\ UnreadAbsent

USE RefreshAssumption

\* A record of an operation at rest has its type.
LEMMA IdleType == Idle \in OpType
BY DEF Idle, OpType, RowType, NoRow

\* The initial state.
LEMMA RefreshInitial == RefreshInit => RefreshInv
<1> SUFFICES ASSUME RefreshInit PROVE RefreshInv
  OBVIOUS
<1> USE DEF RefreshInit
<1>1. disk \in [Roots -> [kind : Kinds, at : 1 .. changes]]
  OBVIOUS
<1>2. catalog \in [Roots -> RowType] /\ shown \in [Roots -> RowType]
  BY DEF NoRow, RowType
<1>3. begun \in [session : 0 .. session, stream : SUBSET Roots]
  BY DEF NoScan
<1>4. covered \in [session : 0 .. session, stream : SUBSET Roots, missed : SUBSET Roots]
  OBVIOUS
<1>5. op \in OpType /\ op.gen <= changeGen
  BY IdleType DEF Idle
<1>6. RefreshTypeOK
  BY <1>1, <1>2, <1>3, <1>4, <1>5
     DEF RefreshTypeOK, DiskTypes, RowTypes, WatchTypes, OpTypes
<1> QED BY <1>6 DEF RefreshInv, AbsentKnown, UnreadAbsent, Scanning, InOp, Idle

\* updateAuthorizedFileWatcher keeps the types of the watcher.
LEMMA UpdateTypes ==
  ASSUME RefreshTypeOK, NEW newPlan \in SUBSET Roots, NEW clear \in BOOLEAN,
         UpdateWatcher(newPlan, clear)
  PROVE  /\ plan' \subseteq Roots /\ stream' \subseteq plan'
         /\ session' \in Nat /\ session' >= session /\ pending' \in BOOLEAN
<1> USE DEF RefreshTypeOK, WatchTypes
<1>1. plan' = newPlan /\ pending' \in BOOLEAN
  BY DEF UpdateWatcher
<1>2. CASE UNCHANGED <<stream, session>> /\ newPlan = plan
  BY <1>1, <1>2
<1>3. CASE session' = session + 1 /\ stream' \in {{r \in newPlan : Exists(r)}, {}}
  BY <1>1, <1>3
<1> QED BY <1>2, <1>3 DEF UpdateWatcher

\* What grows: counters of sessions and changes bound what refers to them.
LEMMA Grown ==
  ASSUME NEW a \in Nat, NEW b \in Nat, b >= a, NEW c \in Nat, NEW d \in Nat, d >= c
  PROVE  /\ 0 .. a \subseteq 0 .. b
         /\ [session : 0 .. a, at : 1 .. c] \subseteq [session : 0 .. b, at : 1 .. d]
         /\ [session : 0 .. a, stream : SUBSET Roots] \subseteq [session : 0 .. b, stream : SUBSET Roots]
         /\ [session : 0 .. a, stream : SUBSET Roots, missed : SUBSET Roots]
            \subseteq [session : 0 .. b, stream : SUBSET Roots, missed : SUBSET Roots]
OBVIOUS

\* Within an operation of which only the progress changes, the types of the rest.
LEMMA RestKeeps ==
  ASSUME RefreshInv, Rest, session' \in Nat, session' >= session,
         changeGen' \in Nat, UNCHANGED covered
  PROVE  OpTypes' /\ absent' \subseteq Roots /\ AbsentKnown' /\ UnreadAbsent'
<1>1. op' \in OpType /\ op'.gen = 0 /\ op'.pc = "idle"
  BY IdleType DEF Rest, Idle
<1>2. begun' \in [session : 0 .. session', stream : SUBSET Roots]
  BY DEF Rest, NoScan
<1>3. covered' \in [session : 0 .. session', stream : SUBSET Roots, missed : SUBSET Roots]
  BY Grown DEF RefreshInv, RefreshTypeOK, OpTypes, WatchTypes
<1> QED BY <1>1, <1>2, <1>3 DEF OpTypes, AbsentKnown, UnreadAbsent, Scanning, InOp, Rest

\* A root is visited: what is not found was not there, or is not passed over.
LEMMA VisitKeeps ==
  ASSUME RefreshInv, NEW r \in Roots, Visit(r)
  PROVE  RefreshInv'
<1> USE DEF RefreshInv, RefreshTypeOK
<1>0. PICK how \in IF Exists(r) THEN {"complete", "partial", "skipped"} ELSE {"absent", "skipped"} :
      \E found \in {disk[r].at} \cup (IF how = "partial" THEN {0} ELSE {}) :
        op' = [op EXCEPT !.how[r] = how,
                         !.read[r] = IF disk[r].kind = "skill" /\ how \in {"complete", "partial"}
                                     THEN found ELSE 0]
  BY DEF Visit
<1>. PICK found \in {disk[r].at} \cup (IF how = "partial" THEN {0} ELSE {}) :
        op' = [op EXCEPT !.how[r] = how,
                         !.read[r] = IF disk[r].kind = "skill" /\ how \in {"complete", "partial"}
                                     THEN found ELSE 0]
  BY <1>0
<1>1. /\ how \in {"absent", "skipped", "partial", "complete"}
      /\ how = "absent" => disk[r].kind = "noroot"
      /\ how = "complete" => found = disk[r].at
      /\ found \in Nat /\ disk[r].at \in Nat
  BY DEF Exists, DiskTypes
<1>2. op' \in OpType /\ op'.gen = op.gen /\ op'.pc = op.pc
  BY <1>1 DEF OpTypes, OpType
<1>3. OpTypes' /\ DiskTypes' /\ RowTypes' /\ WatchTypes'
  BY <1>2 DEF Visit, watcher, OpTypes, DiskTypes, RowTypes, WatchTypes
<1>4. AbsentKnown'
  BY <1>2 DEF Visit, AbsentKnown, Scanning, InOp
<1>5. ASSUME NEW s \in Roots, op'.how[s] \in {"absent", "complete"}, op'.read[s] = 0
      PROVE  s \in absent
  <2>1. CASE s # r
    BY <2>1, <1>1, <1>5 DEF OpTypes, OpType, UnreadAbsent, Scanning, InOp, Visit
  <2>2. CASE s = r
    <3>1. disk[r].at # 0
      BY DEF DiskTypes
    <3>2. disk[r].kind # "skill"
      BY <2>2, <3>1, <1>1, <1>5 DEF OpTypes, OpType
    <3> QED BY <2>2, <3>2 DEF AbsentKnown, Scanning, Visit, InOp
  <2> QED BY <2>1, <2>2
<1> QED BY <1>3, <1>4, <1>5 DEF UnreadAbsent, Visit

\* The roots are asked for.
LEMMA DeclareKeeps == RefreshInv /\ Declare => RefreshInv'
<1> SUFFICES ASSUME RefreshInv, Declare PROVE RefreshInv'
  OBVIOUS
<1> USE DEF RefreshInv, RefreshTypeOK
<1>1. /\ UNCHANGED <<disk, declared, project, catalog, shown, plan, stream, session, pending,
                    events, changeGen, changes, ops, absent, covered, begun>>
      /\ op.pc = "begin"
  BY DEF Declare, watcher, InOp
<1>2. {r \in declared : InScope(r)} \subseteq Roots
  BY DEF DiskTypes
<1>3. /\ op' \in OpType /\ op'.gen = op.gen /\ op'.pc = "scan"
      /\ op'.how = op.how /\ op'.read = op.read
  BY <1>2 DEF Declare, OpTypes, OpType
<1>4. OpTypes' /\ DiskTypes' /\ RowTypes' /\ WatchTypes'
  BY <1>1, <1>3 DEF OpTypes, DiskTypes, RowTypes, WatchTypes
<1> QED BY <1>1, <1>3, <1>4 DEF AbsentKnown, UnreadAbsent, Scanning, InOp

\* Rows are written; the scan goes on to its sweep, or is over.
LEMMA UpsertKeeps == RefreshInv /\ Upsert => RefreshInv'
<1> SUFFICES ASSUME RefreshInv, Upsert PROVE RefreshInv'
  OBVIOUS
<1> USE DEF RefreshInv, RefreshTypeOK
<1>1. UNCHANGED <<disk, declared, project, changes, ops, shown, watcher, events, changeGen, covered>>
  BY DEF Upsert
<1>2. catalog' \in [Roots -> RowType]
  BY DEF Upsert, RowTypes, RowType, OpTypes, OpType
<1>3. RowTypes' /\ WatchTypes'
  BY <1>1, <1>2 DEF RowTypes, WatchTypes, watcher
<1>4. CASE op' = [op EXCEPT !.pc = "sweep"] /\ UNCHANGED <<absent, begun>>
  <2>1. op' \in OpType /\ op'.gen = op.gen /\ op'.how = op.how /\ op'.read = op.read
    BY <1>4 DEF OpTypes, OpType
  <2>2. OpTypes' /\ DiskTypes'
    BY <1>1, <1>4, <2>1 DEF OpTypes, DiskTypes, watcher
  <2>3. AbsentKnown' /\ UnreadAbsent'
    BY <1>1, <1>4, <2>1 DEF AbsentKnown, UnreadAbsent, Scanning, InOp, Upsert
  <2> QED BY <1>3, <2>2, <2>3
<1>5. CASE Rest
  <2>1. OpTypes' /\ absent' \subseteq Roots /\ AbsentKnown' /\ UnreadAbsent'
    BY <1>1, <1>5, RestKeeps DEF WatchTypes, watcher
  <2> QED BY <1>1, <1>3, <2>1 DEF DiskTypes
<1> QED BY <1>4, <1>5 DEF Upsert

\* The sweep is the end of the scan.
LEMMA SweepKeeps == RefreshInv /\ Sweep => RefreshInv'
<1> SUFFICES ASSUME RefreshInv, Sweep PROVE RefreshInv'
  OBVIOUS
<1> USE DEF RefreshInv, RefreshTypeOK
<1>1. op' \in OpType /\ op'.gen = op.gen /\ op'.pc = "collect"
  BY DEF Sweep, OpTypes, OpType
<1>2. catalog' \in [Roots -> RowType]
  BY DEF Sweep, RowTypes, RowType
<1>3. covered' \in [session : 0 .. session, stream : SUBSET Roots, missed : SUBSET Roots]
  BY DEF Sweep, Swept, OpTypes
<1>4. OpTypes' /\ DiskTypes' /\ RowTypes' /\ WatchTypes'
  BY <1>1, <1>2, <1>3 DEF Sweep, watcher, OpTypes, DiskTypes, RowTypes, WatchTypes
<1> QED BY <1>1, <1>4 DEF AbsentKnown, UnreadAbsent, Scanning, InOp

\* An event is recorded, or belongs to a session that is over.
LEMMA DeliverKeeps ==
  ASSUME RefreshInv, NEW e \in events, Deliver(e)
  PROVE  RefreshInv'
<1> USE DEF RefreshInv, RefreshTypeOK
<1>1. changeGen' \in Nat /\ changeGen' >= changeGen /\ pending' \in BOOLEAN /\ events' \subseteq events
  <2>1. events' \subseteq events
    BY DEF Deliver
  <2>2. CASE pending' = TRUE /\ changeGen' = changeGen + 1
    BY <2>1, <2>2 DEF WatchTypes
  <2>3. CASE UNCHANGED <<pending, changeGen>>
    BY <2>1, <2>3 DEF WatchTypes
  <2> QED BY <2>2, <2>3 DEF Deliver
<1>2. UNCHANGED <<disk, declared, project, catalog, shown, plan, stream, session, op,
                  changes, ops, absent, covered, begun>>
  BY DEF Deliver
<1>3. DiskTypes' /\ RowTypes' /\ WatchTypes'
  BY <1>1, <1>2 DEF DiskTypes, RowTypes, WatchTypes
<1>4. op.gen \in Nat
  BY DEF OpTypes, OpType
<1>5. op.gen <= changeGen'
  BY <1>1, <1>4 DEF OpTypes, WatchTypes
<1>6. OpTypes'
  BY <1>2, <1>5 DEF OpTypes
<1> QED BY <1>2, <1>3, <1>6 DEF AbsentKnown, UnreadAbsent, Scanning, InOp

\* A scan begins with what is not there, and has visited nothing.
LEMMA BeginKeeps ==
  ASSUME RefreshInv, BeginScan, session' \in Nat, session' >= session, stream' \subseteq Roots,
         UNCHANGED <<disk, changeGen, covered>>
  PROVE  OpTypes' /\ absent' \subseteq Roots /\ AbsentKnown' /\ UnreadAbsent'
<1> USE DEF RefreshInv, RefreshTypeOK
<1>0. op' = [Idle EXCEPT !.pc = "begin", !.kind = "scan", !.gen = changeGen]
  BY DEF BeginScan
<1>1. op' \in OpType /\ op'.gen = changeGen /\ op'.how = [r \in Roots |-> "unvisited"]
  BY <1>0, IdleType DEF WatchTypes, OpType, Idle
<1>2. begun' \in [session : 0 .. session', stream : SUBSET Roots]
  BY DEF BeginScan
<1>3. covered' \in [session : 0 .. session', stream : SUBSET Roots, missed : SUBSET Roots]
  BY Grown DEF OpTypes, WatchTypes
<1>4. OpTypes'
  BY <1>1, <1>2, <1>3 DEF OpTypes, WatchTypes
<1> QED BY <1>1, <1>4 DEF BeginScan, AbsentKnown, UnreadAbsent

\* A refresh begins a scan under the watcher as it is.
LEMMA RefreshKeeps == RefreshInv /\ Refresh => RefreshInv'
<1> SUFFICES ASSUME RefreshInv, Refresh PROVE RefreshInv'
  OBVIOUS
<1> USE DEF RefreshInv, RefreshTypeOK
<1>1. UNCHANGED <<disk, declared, project, catalog, shown, plan, stream, session, pending, events,
                  changeGen, changes, covered>> /\ ops' \in Nat /\ BeginScan
  BY DEF Refresh, watcher, DiskTypes
<1>2. OpTypes' /\ absent' \subseteq Roots /\ AbsentKnown' /\ UnreadAbsent'
  BY <1>1, BeginKeeps DEF WatchTypes
<1> QED BY <1>1, <1>2 DEF DiskTypes, RowTypes, WatchTypes

\* A reload reads what there is.
LEMMA ReloadKeeps == RefreshInv /\ Reload => RefreshInv'
<1> SUFFICES ASSUME RefreshInv, Reload PROVE RefreshInv'
  OBVIOUS
<1> USE DEF RefreshInv, RefreshTypeOK
<1>1. UNCHANGED <<disk, declared, project, catalog, shown, plan, stream, session, pending, events,
                  changeGen, changes, covered, absent, begun>> /\ ops' \in Nat
  BY DEF Reload, watcher, DiskTypes
<1>2. op' \in OpType /\ op'.gen = 0 /\ op'.pc = "collect"
  BY IdleType DEF Reload, OpType, Idle
<1>3. OpTypes'
  BY <1>1, <1>2 DEF OpTypes, WatchTypes
<1> QED BY <1>1, <1>2, <1>3 DEF DiskTypes, RowTypes, WatchTypes, AbsentKnown, UnreadAbsent, Scanning, InOp

\* A project is selected or cleared: the session of the watcher is over.
LEMMA TransitionKeeps == RefreshInv /\ Transition => RefreshInv'
<1> SUFFICES ASSUME RefreshInv, Transition PROVE RefreshInv'
  OBVIOUS
<1> USE DEF RefreshInv, RefreshTypeOK
<1>1. /\ UNCHANGED <<disk, declared, catalog, shown, events, changeGen, changes, covered>>
      /\ project' \in BOOLEAN /\ ops' \in Nat
      /\ session' = session + 1 /\ plan' = {} /\ stream' = {} /\ pending' = FALSE
  <2>1. ops' \in Nat
    BY DEF Transition, DiskTypes
  <2>2. project' \in BOOLEAN
    BY DEF Transition
  <2> QED BY <2>1, <2>2 DEF Transition, ResetWatcher
<1>2. /\ 0 .. session \subseteq 0 .. session'
      /\ events' \subseteq [session : 0 .. session', at : 1 .. changes']
  BY <1>1, Grown DEF WatchTypes, DiskTypes
<1>3. RowTypes' /\ WatchTypes'
  <2>1. session' \in Nat /\ changeGen' \in Nat
    BY <1>1 DEF WatchTypes
  <2>2. plan' \subseteq Roots /\ stream' \subseteq plan' /\ pending' \in BOOLEAN
    BY <1>1
  <2> QED BY <1>1, <1>2, <2>1, <2>2 DEF RowTypes, WatchTypes
<1>4. CASE BeginScan
  <2>1. OpTypes' /\ absent' \subseteq Roots /\ AbsentKnown' /\ UnreadAbsent'
    BY <1>1, <1>4, BeginKeeps DEF WatchTypes
  <2> QED BY <1>1, <1>3, <2>1 DEF DiskTypes
<1>5. CASE UNCHANGED <<op, begun, absent>>
  <2>1. /\ begun' \in [session : 0 .. session', stream : SUBSET Roots]
        /\ covered' \in [session : 0 .. session', stream : SUBSET Roots, missed : SUBSET Roots]
    BY <1>1, <1>2, <1>5 DEF OpTypes
  <2>2. OpTypes'
    BY <1>1, <1>5, <2>1 DEF OpTypes
  <2> QED BY <1>1, <1>3, <1>5, <2>2 DEF DiskTypes, AbsentKnown, UnreadAbsent, Scanning, InOp
<1> QED BY <1>4, <1>5 DEF Transition

\* The rows and the plan are read.
LEMMA CollectKeeps == RefreshInv /\ Collect => RefreshInv'
<1> SUFFICES ASSUME RefreshInv, Collect PROVE RefreshInv'
  OBVIOUS
<1> USE DEF RefreshInv, RefreshTypeOK
<1>1. UNCHANGED <<disk, declared, project, catalog, shown, plan, stream, session, pending, events,
                  changeGen, changes, ops, covered, absent, begun>>
  BY DEF Collect, watcher
<1>2. [r \in Roots |-> IF InScope(r) THEN catalog[r] ELSE NoRow] \in [Roots -> RowType]
  BY DEF RowTypes, RowType, NoRow
<1>3. op' \in OpType /\ op'.gen = op.gen /\ op'.pc = "apply"
  <2>1. {r \in declared : InScope(r) /\ Exists(r)} \in SUBSET Roots
    BY DEF DiskTypes
  <2> QED BY <1>2, <2>1 DEF Collect, OpTypes, OpType
<1>4. OpTypes'
  BY <1>1, <1>3 DEF OpTypes, WatchTypes
<1> QED BY <1>1, <1>3, <1>4 DEF DiskTypes, RowTypes, WatchTypes, AbsentKnown, UnreadAbsent, Scanning, InOp

\* When the watcher is updated, what refers to its session keeps its type.
LEMMA WatchGrows ==
  ASSUME RefreshInv, NEW newPlan \in SUBSET Roots, NEW clear \in BOOLEAN,
         UpdateWatcher(newPlan, clear), UNCHANGED <<events, changeGen, changes>>
  PROVE  WatchTypes' /\ session' \in Nat /\ session' >= session
<1> USE DEF RefreshInv, RefreshTypeOK
<1>1. /\ plan' \subseteq Roots /\ stream' \subseteq plan'
      /\ session' \in Nat /\ session' >= session /\ pending' \in BOOLEAN
  BY UpdateTypes
<1>2. events' \subseteq [session : 0 .. session', at : 1 .. changes']
  BY <1>1, Grown DEF WatchTypes, DiskTypes
<1> QED BY <1>1, <1>2 DEF WatchTypes

\* The rows are shown, and the watcher follows the plan.
LEMMA ApplyKeeps == RefreshInv /\ Apply => RefreshInv'
<1> SUFFICES ASSUME RefreshInv, Apply PROVE RefreshInv'
  OBVIOUS
<1> USE DEF RefreshInv, RefreshTypeOK
<1>1. /\ UNCHANGED <<disk, declared, project, catalog, events, changeGen, changes, ops, covered>>
      /\ shown' = op.rows /\ UpdateWatcher(op.plan, FALSE)
  BY DEF Apply
<1>2. op.rows \in [Roots -> RowType] /\ op.plan \in SUBSET Roots
  BY DEF OpTypes, OpType
<1>3. WatchTypes' /\ session' \in Nat /\ session' >= session
  BY <1>1, <1>2, WatchGrows
<1>4. RowTypes'
  BY <1>1, <1>2 DEF RowTypes
<1>5. CASE Rest
  <2>1. OpTypes' /\ absent' \subseteq Roots /\ AbsentKnown' /\ UnreadAbsent'
    BY <1>1, <1>3, <1>5, RestKeeps DEF WatchTypes
  <2> QED BY <1>1, <1>3, <1>4, <2>1 DEF DiskTypes
<1>6. CASE op' = [op EXCEPT !.pc = "reconcile"] /\ UNCHANGED <<absent, begun>>
  <2>1. op' \in OpType /\ op'.gen = op.gen /\ op'.pc = "reconcile"
    BY <1>6 DEF OpTypes, OpType
  <2>2. /\ begun' \in [session : 0 .. session', stream : SUBSET Roots]
        /\ covered' \in [session : 0 .. session', stream : SUBSET Roots, missed : SUBSET Roots]
    BY <1>1, <1>3, <1>6, Grown DEF OpTypes, WatchTypes
  <2>3. OpTypes'
    BY <1>1, <2>1, <2>2 DEF OpTypes
  <2> QED BY <1>1, <1>3, <1>4, <1>6, <2>1, <2>3 DEF DiskTypes, AbsentKnown, UnreadAbsent, Scanning, InOp
<1> QED BY <1>5, <1>6 DEF Apply

\* The end of a refresh: what was pending before the scan is cleared.
LEMMA ReconcileKeeps == RefreshInv /\ Reconcile => RefreshInv'
<1> SUFFICES ASSUME RefreshInv, Reconcile PROVE RefreshInv'
  OBVIOUS
<1> USE DEF RefreshInv, RefreshTypeOK
<1>1. UNCHANGED <<disk, declared, project, catalog, shown, events, changeGen, changes, ops>> /\ Rest
  BY DEF Reconcile
<1>2. WatchTypes' /\ session' \in Nat /\ session' >= session
  <2>1. CASE UpdateWatcher(plan, TRUE)
    BY <1>1, <2>1, WatchGrows DEF WatchTypes
  <2>2. CASE UNCHANGED watcher
    BY <1>1, <2>2 DEF WatchTypes, watcher
  <2> QED BY <2>1, <2>2 DEF Reconcile
<1>3. op' \in OpType /\ op'.gen = 0 /\ op'.pc = "idle"
  BY <1>1, IdleType DEF Rest, Idle
<1>4. begun' \in [session : 0 .. session', stream : SUBSET Roots]
  BY <1>1, <1>2 DEF Rest, NoScan
<1>5. covered' \in [session : 0 .. session', stream : SUBSET Roots, missed : SUBSET Roots]
  <2>1. begun \in [session : 0 .. session', stream : SUBSET Roots]
    BY <1>2, Grown DEF OpTypes, WatchTypes
  <2> QED BY <2>1 DEF Reconcile
<1>6. OpTypes'
  BY <1>2, <1>3, <1>4, <1>5 DEF OpTypes, WatchTypes
<1>7. absent' = {}
  BY <1>1 DEF Rest
<1> QED BY <1>1, <1>2, <1>3, <1>6, <1>7
        DEF DiskTypes, RowTypes, AbsentKnown, UnreadAbsent, Scanning, InOp

\* A call fails: nothing of the operation is kept.
LEMMA OpFailsKeeps == RefreshInv /\ OpFails => RefreshInv'
<1> SUFFICES ASSUME RefreshInv, OpFails PROVE RefreshInv'
  OBVIOUS
<1> USE DEF RefreshInv, RefreshTypeOK
<1>1. UNCHANGED <<disk, declared, project, catalog, shown, plan, stream, session, pending, events,
                  changeGen, changes, ops, covered>> /\ Rest
  BY DEF OpFails, watcher
<1>2. OpTypes' /\ absent' \subseteq Roots /\ AbsentKnown' /\ UnreadAbsent'
  BY <1>1, RestKeeps DEF WatchTypes
<1> QED BY <1>1, <1>2 DEF DiskTypes, RowTypes, WatchTypes

\* A skill changes: the ghost notes it while a scan runs.
LEMMA ChangeKeeps ==
  ASSUME RefreshInv, NEW r \in Roots, NEW kind \in Kinds, Change(r, kind)
  PROVE  RefreshInv'
<1> USE DEF RefreshInv, RefreshTypeOK
<1>1. /\ UNCHANGED <<declared, project, catalog, shown, plan, stream, session, pending, changeGen, op,
                     ops, covered, begun>>
      /\ changes' = changes + 1 /\ changes \in Nat
      /\ disk' = [disk EXCEPT ![r] = [kind |-> kind, at |-> changes + 1]]
  BY DEF Change, watcher, DiskTypes
<1>2. 1 .. changes \subseteq 1 .. changes' /\ changes + 1 \in 1 .. changes'
  BY <1>1
<1>3. absent \subseteq absent' /\ absent' \subseteq Roots
  BY DEF Change, DiskTypes
<1>4. disk' \in [Roots -> [kind : Kinds, at : 1 .. changes']]
  BY <1>1, <1>2 DEF DiskTypes
<1>5. DiskTypes' /\ RowTypes'
  BY <1>1, <1>3, <1>4 DEF DiskTypes, RowTypes
<1>6. WatchTypes'
  <2>1. events \subseteq [session : 0 .. session', at : 1 .. changes']
    BY <1>1, <1>2 DEF WatchTypes
  <2>2. [session |-> session, at |-> changes + 1] \in [session : 0 .. session', at : 1 .. changes']
    BY <1>1, <1>2 DEF WatchTypes
  <2>3. events' \subseteq events \cup {[session |-> session, at |-> changes + 1]}
    BY DEF Change
  <2> QED BY <1>1, <2>1, <2>2, <2>3 DEF WatchTypes
<1>7. OpTypes'
  BY <1>1 DEF OpTypes
<1>8. AbsentKnown'
  <2>1. SUFFICES ASSUME Scanning', NEW s \in Roots, disk'[s].kind # "skill" PROVE s \in absent'
    BY DEF AbsentKnown
  <2>2. Scanning
    BY <1>1, <2>1 DEF Scanning, InOp
  <2>3. CASE s = r
    BY <1>1, <2>1, <2>2, <2>3 DEF Change, Scanning, DiskTypes
  <2>4. CASE s # r
    BY <1>1, <1>3, <2>1, <2>2, <2>4 DEF AbsentKnown, DiskTypes
  <2> QED BY <2>3, <2>4
<1>9. UnreadAbsent'
  BY <1>1, <1>3 DEF UnreadAbsent, Scanning, InOp
<1> QED BY <1>5, <1>6, <1>7, <1>8, <1>9

\* A root is declared, or is not any more.
LEMMA RedeclareKeeps ==
  ASSUME RefreshInv, NEW r \in Roots, Redeclare(r)
  PROVE  RefreshInv'
<1> USE DEF RefreshInv, RefreshTypeOK
<1>1. /\ UNCHANGED <<disk, project, catalog, shown, plan, stream, session, pending, changeGen, op,
                     ops, absent, covered, begun>>
      /\ changes' = changes + 1 /\ changes \in Nat
  BY DEF Redeclare, watcher, DiskTypes
<1>2. 1 .. changes \subseteq 1 .. changes' /\ changes + 1 \in 1 .. changes'
  BY <1>1
<1>3. DiskTypes' /\ RowTypes' /\ OpTypes'
  BY <1>1, <1>2 DEF Redeclare, DiskTypes, RowTypes, OpTypes
<1>4. WatchTypes'
  <2>1. events \subseteq [session : 0 .. session', at : 1 .. changes']
    BY <1>1, <1>2 DEF WatchTypes
  <2>2. [session |-> session, at |-> changes + 1] \in [session : 0 .. session', at : 1 .. changes']
    BY <1>1, <1>2 DEF WatchTypes
  <2>3. events' \subseteq events \cup {[session |-> session, at |-> changes + 1]}
    BY DEF Redeclare
  <2> QED BY <1>1, <2>1, <2>2, <2>3 DEF WatchTypes
<1> QED BY <1>1, <1>3, <1>4 DEF AbsentKnown, UnreadAbsent, Scanning

\* The invariant is inductive.
LEMMA RefreshStepKeeps == RefreshInv /\ [RefreshNext]_refreshVars => RefreshInv'
<1> SUFFICES ASSUME RefreshInv, [RefreshNext]_refreshVars PROVE RefreshInv'
  OBVIOUS
<1>1. CASE UNCHANGED refreshVars
  BY <1>1 DEF refreshVars, watcher, RefreshInv, RefreshTypeOK, DiskTypes, RowTypes, WatchTypes,
              OpTypes, AbsentKnown, UnreadAbsent, Scanning, InOp
<1>2. ASSUME NEW r \in Roots, Visit(r) PROVE RefreshInv'
  BY <1>2, VisitKeeps
<1>3. ASSUME NEW e \in events, Deliver(e) PROVE RefreshInv'
  BY <1>3, DeliverKeeps
<1>4. ASSUME NEW r \in Roots, NEW kind \in Kinds, Change(r, kind)
      PROVE  RefreshInv'
  BY <1>4, ChangeKeeps
<1>5. ASSUME NEW r \in Roots, Redeclare(r) PROVE RefreshInv'
  BY <1>5, RedeclareKeeps
<1> QED
  BY <1>1, <1>2, <1>3, <1>4, <1>5, DeclareKeeps, RefreshKeeps, ReloadKeeps, TransitionKeeps, UpsertKeeps, SweepKeeps,
     CollectKeeps, ApplyKeeps, ReconcileKeeps, OpFailsKeeps
     DEF RefreshNext

\* In every state: the types, and what the scan knows of what is not there.
THEOREM RefreshInvariant == RefreshSpec => []RefreshInv
BY RefreshInitial, RefreshStepKeeps, PTL DEF RefreshSpec

\* The variables of the catalog, the watcher and the app keep their types.
THEOREM RefreshTypes == RefreshSpec => []RefreshTypeOK
<1>1. RefreshInv => RefreshTypeOK
  BY DEF RefreshInv
<1> QED BY <1>1, RefreshInvariant, PTL

\* Only the sweep retires a row: of a skill it did not find in a root that it
\* read to the end or that was not there, or of a root that is not declared when
\* all that are have been read.
LEMMA SweepRetiresGone ==
  ASSUME RefreshInv, Sweep, NEW r \in Roots, catalog[r].state = "loaded", catalog'[r].state = "missing"
  PROVE  InScope(r) /\ (r \in absent \/ (r \notin op.roots /\ Exact))
<1>1. r \in Swept /\ op.read[r] = 0
  BY DEF Sweep, RefreshInv, RefreshTypeOK, RowTypes, RowType
<1>2. InScope(r) /\ (op.how[r] \in {"complete", "absent"} \/ (r \notin op.roots /\ Exact))
  BY <1>1 DEF Swept, Exact
<1> QED BY <1>1, <1>2 DEF RefreshInv, UnreadAbsent, Scanning, Sweep, InOp

\* A row becomes missing only if its skill, at some time of the scan, was not
\* there for the scanner to accept, or its root is not declared and all that are
\* were read.
THEOREM OnlyGoneRetired == RefreshSpec => MissingWasGone
<1> DEFINE Gone == \A r \in Roots :
             catalog[r].state = "loaded" /\ catalog'[r].state = "missing" =>
               InScope(r) /\ (r \in absent \/ (r \notin op.roots /\ Exact))
<1>1. RefreshInv /\ [RefreshNext]_refreshVars => [Gone]_refreshVars
  <2> SUFFICES ASSUME RefreshInv, RefreshNext PROVE Gone
    OBVIOUS
  <2> SUFFICES ASSUME NEW r \in Roots, catalog[r].state = "loaded", catalog'[r].state = "missing"
               PROVE  InScope(r) /\ (r \in absent \/ (r \notin op.roots /\ Exact))
    OBVIOUS
  <2>1. CASE Sweep
    BY <2>1, SweepRetiresGone
  <2>2. CASE Upsert
    BY <2>2 DEF Upsert
  <2>3. ASSUME catalog' = catalog PROVE FALSE
    BY <2>3
  <2> QED
    BY <2>1, <2>2, <2>3 DEF RefreshNext, Refresh, Reload, Transition, Declare, Visit, Collect,
       Apply, Reconcile, OpFails, Deliver, Change, Redeclare
<1> QED BY <1>1, RefreshInvariant, PTL DEF RefreshSpec, MissingWasGone
-----------------------------------------------------------------------------
(* Freshness: the invariant under CleanIsFresh.                            *)

\* An event of the stream in place is on its way.
InFlight == \E e \in events : e.session = session

\* A change that the scan may not have seen was reported, or will be.
Since == changeGen > op.gen \/ InFlight

\* The app knows, or will know, that something changed.
Told == pending \/ InFlight

\* Only roots in scope are watched, and the project stays while they are.
WatchedInScope == /\ \A r \in plan : InScope(r)
                  /\ InOp("apply") => \A r \in op.plan : InScope(r)

\* A scan belongs to one session until its rows are applied, and what is
\* reported while it runs stays pending.
ScanSession ==
  /\ op.pc \in {"begin", "scan", "sweep", "reconcile"} => op.kind = "scan"
  /\ op.pc = "idle" => op.kind = "none"
  /\ op.kind = "scan" /\ op.pc # "reconcile" => begun.session = session
  /\ op.kind = "scan" /\ begun.session = session /\ changeGen > op.gen => pending

\* What a scan has read of a watched root is what is there, and what it found
\* without a skill has none, but for changes since.
ReadsTrue ==
  Scanning => \A r \in stream :
    \/ Since
    \/ /\ op.read[r] # 0 => disk[r] = [kind |-> "skill", at |-> op.read[r]]
       /\ op.read[r] = 0 /\ op.how[r] \in {"absent", "complete"} => disk[r].kind # "skill"

\* The rows that were read are in the catalog when the sweep begins.
ReadsWritten ==
  InOp("sweep") => \A r \in Roots : op.read[r] # 0 =>
    catalog[r] = [state |-> "loaded", at |-> op.read[r]]

\* After the sweep the catalog is right about the roots of the stream that were read.
SweptTrue ==
  op.kind = "scan" /\ op.pc \in {"collect", "apply", "reconcile"} /\ begun.session = session =>
    \A r \in stream \cap Read : Since \/ Agrees(catalog[r], disk[r])

\* What is shown, or about to be shown, is what the catalog holds.
RowsAreCatalog ==
  \A r \in Roots : InScope(r) =>
    /\ InOp("apply") => op.rows[r] = catalog[r]
    /\ InOp("reconcile") => shown[r] = catalog[r]

\* As long as the session of the last scan lasts, catalog and app are right
\* about the watched roots that it read and no later one found undeclared, or it
\* is known that they are not.
CoveredTrue ==
  covered.session = session => \A r \in stream \ covered.missed :
    \/ Told
    \/ Agrees(catalog[r], disk[r]) /\ Agrees(shown[r], disk[r])

FreshInv ==
  /\ RefreshInv /\ WatchedInScope /\ ScanSession /\ ReadsTrue /\ ReadsWritten
  /\ SweptTrue /\ RowsAreCatalog /\ CoveredTrue

\* The initial state: nothing is watched and no scan has run.
LEMMA FreshInitial == RefreshInit => FreshInv
<1> SUFFICES ASSUME RefreshInit PROVE FreshInv
  OBVIOUS
<1>1. RefreshInv
  BY RefreshInitial
<1>2. op.pc = "idle" /\ op.kind = "none" /\ stream = {} /\ plan = {}
  BY DEF RefreshInit, Idle
<1> QED BY <1>1, <1>2 DEF FreshInv, WatchedInScope, ScanSession, ReadsTrue, ReadsWritten,
       SweptTrue, RowsAreCatalog, CoveredTrue, Scanning, InOp

\* What the steps of an operation that only read leave as it is.
ReadsOnly == UNCHANGED <<disk, declared, project, catalog, shown, watcher, events, changeGen, covered>>

\* Such a step disturbs nothing that was promised of the last scan.
LEMMA ReadsKeepCovered ==
  ASSUME FreshInv, ReadsOnly
  PROVE  /\ CoveredTrue' /\ \A r \in plan' : InScope(r)'
         /\ stream' = stream /\ session' = session /\ pending' = pending
         /\ \A r \in Roots : InScope(r)' = InScope(r)
BY DEF FreshInv, ReadsOnly, watcher, CoveredTrue, WatchedInScope, Told, InFlight, Agrees, InScope

\* At rest nothing is promised of the operation.
LEMMA RestFresh ==
  ASSUME FreshInv, Rest, \A r \in plan' : InScope(r)'
  PROVE  WatchedInScope' /\ ScanSession' /\ ReadsTrue' /\ ReadsWritten' /\ SweptTrue'
         /\ RowsAreCatalog'
<1>1. op'.pc = "idle" /\ op'.kind = "none"
  BY DEF Rest, Idle
<1> QED BY <1>1 DEF WatchedInScope, ScanSession, ReadsTrue, ReadsWritten, SweptTrue,
           RowsAreCatalog, Scanning, InOp

\* The roots are asked for: nothing has been read.
LEMMA DeclareFresh == FreshInv /\ Declare => FreshInv'
<1> SUFFICES ASSUME FreshInv, Declare PROVE FreshInv'
  OBVIOUS
<1> USE DEF FreshInv
<1>0. RefreshInv'
  BY DeclareKeeps
<1>1. ReadsOnly /\ UNCHANGED begun /\ op.pc = "begin"
  BY DEF Declare, ReadsOnly, InOp
<1>2. /\ op'.pc = "scan" /\ op'.kind = op.kind /\ op'.gen = op.gen /\ op'.how = op.how
      /\ op'.read = op.read
  BY DEF Declare, RefreshInv, RefreshTypeOK, OpTypes, OpType
<1>3. ReadsTrue'
  BY <1>1, <1>2 DEF ReadsTrue, Scanning, ReadsOnly, watcher, Since, InFlight
<1>4. ScanSession'
  BY <1>1, <1>2, ReadsKeepCovered DEF ScanSession, ReadsOnly
<1> QED BY <1>0, <1>1, <1>2, <1>3, <1>4, ReadsKeepCovered
        DEF WatchedInScope, ReadsWritten, SweptTrue, RowsAreCatalog, InOp

\* A root is visited: what is read is what is there.
LEMMA VisitFresh ==
  ASSUME FreshInv, NEW r \in Roots, Visit(r)
  PROVE  FreshInv'
<1> USE DEF FreshInv
<1>0. RefreshInv'
  BY VisitKeeps
<1>1. PICK how \in IF Exists(r) THEN {"complete", "partial", "skipped"} ELSE {"absent", "skipped"} :
      \E found \in {disk[r].at} \cup (IF how = "partial" THEN {0} ELSE {}) :
        op' = [op EXCEPT !.how[r] = how,
                         !.read[r] = IF disk[r].kind = "skill" /\ how \in {"complete", "partial"}
                                     THEN found ELSE 0]
  BY DEF Visit
<1>. PICK found \in {disk[r].at} \cup (IF how = "partial" THEN {0} ELSE {}) :
        op' = [op EXCEPT !.how[r] = how,
                         !.read[r] = IF disk[r].kind = "skill" /\ how \in {"complete", "partial"}
                                     THEN found ELSE 0]
  BY <1>1
<1>2. /\ op'.pc = op.pc /\ op.pc = "scan" /\ op'.gen = op.gen /\ op'.kind = op.kind
      /\ \A s \in Roots : s # r => op'.how[s] = op.how[s] /\ op'.read[s] = op.read[s]
      /\ op'.how[r] = how
      /\ op'.read[r] = IF disk[r].kind = "skill" /\ how \in {"complete", "partial"}
                       THEN found ELSE 0
  <2>1. op \in OpType /\ op.pc = "scan"
    BY DEF RefreshInv, RefreshTypeOK, OpTypes, Visit, InOp
  <2> QED BY <2>1 DEF OpType
<1>3. /\ ReadsOnly /\ UNCHANGED begun
  BY DEF Visit, ReadsOnly
<1>4. disk[r] \in [kind : Kinds, at : 1 .. changes]
  BY DEF RefreshInv, RefreshTypeOK, DiskTypes
<1>5. ReadsTrue'
  <2>1. Since' = Since /\ stream' = stream /\ disk' = disk
    BY <1>2, <1>3 DEF Since, InFlight, ReadsOnly, watcher
  <2>2. ASSUME NEW s \in stream, ~Since
        PROVE  /\ op'.read[s] # 0 => disk[s] = [kind |-> "skill", at |-> op'.read[s]]
               /\ op'.read[s] = 0 /\ op'.how[s] \in {"absent", "complete"} => disk[s].kind # "skill"
    <3>1. CASE s = r
      BY <3>1, <1>1, <1>2, <1>4 DEF Exists
    <3>2. CASE s # r
      <4>1. s \in Roots /\ op'.how[s] = op.how[s] /\ op'.read[s] = op.read[s]
        BY <3>2, <2>2, <1>2 DEF RefreshInv, RefreshTypeOK, WatchTypes
      <4> QED BY <4>1, <2>2, <1>2 DEF ReadsTrue, Scanning, InOp
    <3> QED BY <3>1, <3>2
  <2> QED BY <2>1, <2>2 DEF ReadsTrue
<1>6. ScanSession'
  BY <1>2, <1>3, ReadsKeepCovered DEF ScanSession, ReadsOnly
<1> QED BY <1>0, <1>2, <1>3, <1>5, <1>6, ReadsKeepCovered
        DEF WatchedInScope, ReadsWritten, SweptTrue, RowsAreCatalog, InOp

\* Rows are written as they were read.
LEMMA UpsertFresh == FreshInv /\ Upsert => FreshInv'
<1> SUFFICES ASSUME FreshInv, Upsert PROVE FreshInv'
  OBVIOUS
<1> USE DEF FreshInv
<1>0. RefreshInv'
  BY UpsertKeeps
<1>1. PICK written \in SUBSET {r \in Roots : op.read[r] # 0} :
        /\ catalog' = [r \in Roots |-> IF r \in written THEN [state |-> "loaded", at |-> op.read[r]]
                                      ELSE catalog[r]]
        /\ \/ /\ written = {r \in Roots : op.read[r] # 0}
              /\ op' = [op EXCEPT !.pc = "sweep"] /\ UNCHANGED <<absent, begun>>
           \/ Rest
  BY DEF Upsert
<1>2. op.pc = "scan" /\ UNCHANGED <<disk, declared, project, shown, watcher, events, changeGen, covered>>
  BY DEF Upsert, InOp
<1>3. /\ \A r \in plan' : InScope(r)'
      /\ stream' = stream /\ session' = session /\ pending' = pending /\ Told' = Told
      /\ InFlight' = InFlight
  BY <1>2 DEF WatchedInScope, InScope, watcher, Told, InFlight
<1>4. Since => Told
  BY <1>2 DEF ScanSession, Since, Told
<1>5. CoveredTrue'
  <2> SUFFICES ASSUME covered.session = session, NEW r \in stream \ covered.missed, ~Told
               PROVE  Agrees(catalog'[r], disk[r]) /\ Agrees(shown[r], disk[r])
    BY <1>2, <1>3 DEF CoveredTrue, Agrees
  <2>1. Agrees(catalog[r], disk[r]) /\ Agrees(shown[r], disk[r]) /\ r \in Roots
    BY DEF CoveredTrue, RefreshInv, RefreshTypeOK, WatchTypes
  <2>2. CASE r \in written
    <3>1. disk[r] = [kind |-> "skill", at |-> op.read[r]]
      BY <1>2, <1>4, <2>2 DEF ReadsTrue, Scanning, InOp
    <3> QED BY <1>1, <2>1, <2>2, <3>1 DEF Agrees
  <2>3. CASE r \notin written
    BY <1>1, <2>1, <2>3
  <2> QED BY <2>2, <2>3
<1>6. CASE /\ written = {r \in Roots : op.read[r] # 0}
           /\ op' = [op EXCEPT !.pc = "sweep"] /\ UNCHANGED <<absent, begun>>
  <2>1. /\ op'.pc = "sweep" /\ op'.kind = op.kind /\ op'.gen = op.gen /\ op'.how = op.how
        /\ op'.read = op.read
    BY <1>6 DEF RefreshInv, RefreshTypeOK, OpTypes, OpType
  <2>2. ReadsTrue'
    BY <1>2, <1>3, <2>1 DEF ReadsTrue, Scanning, InOp, Since
  <2>3. ScanSession'
    BY <1>2, <1>3, <1>6, <2>1 DEF ScanSession
  <2>4. ReadsWritten'
    BY <1>1, <1>6, <2>1 DEF ReadsWritten
  <2> QED BY <1>0, <1>3, <1>5, <2>1, <2>2, <2>3, <2>4
          DEF WatchedInScope, SweptTrue, RowsAreCatalog, InOp
<1>7. CASE Rest
  BY <1>0, <1>3, <1>5, <1>7, RestFresh
<1> QED BY <1>1, <1>6, <1>7

\* The sweep retires what was found not to be there.
LEMMA SweepFresh == FreshInv /\ Sweep => FreshInv'
<1> SUFFICES ASSUME FreshInv, Sweep PROVE FreshInv'
  OBVIOUS
<1> USE DEF FreshInv
<1>0. RefreshInv'
  BY SweepKeeps
<1>1. /\ op.pc = "sweep"
      /\ catalog' = [r \in Roots |->
           IF r \in Swept /\ op.read[r] = 0 /\ catalog[r].state = "loaded"
           THEN [catalog[r] EXCEPT !.state = "missing"] ELSE catalog[r]]
      /\ covered' = [covered EXCEPT !.missed = @ \cup (Swept \ op.roots)]
      /\ UNCHANGED <<disk, declared, project, shown, watcher, events, changeGen, begun>>
  BY DEF Sweep, InOp
<1>2. /\ op'.pc = "collect" /\ op'.kind = op.kind /\ op'.gen = op.gen /\ op'.how = op.how
      /\ op'.read = op.read /\ op'.roots = op.roots
  BY DEF Sweep, RefreshInv, RefreshTypeOK, OpTypes, OpType
<1>3. /\ \A r \in plan' : InScope(r)'
      /\ stream' = stream /\ session' = session /\ pending' = pending /\ Told' = Told
      /\ Since' = Since /\ Read' = Read
  BY <1>1, <1>2 DEF WatchedInScope, InScope, watcher, Told, InFlight, Since, Read, Swept, Exact
<1>4. Since => Told
  BY <1>1 DEF ScanSession, Since, Told
<1>5. ASSUME NEW r \in stream, ~Since, r \in Read
      PROVE  Agrees(catalog'[r], disk[r])
  <2>1. /\ op.read[r] # 0 => disk[r] = [kind |-> "skill", at |-> op.read[r]]
        /\ op.read[r] = 0 => disk[r].kind # "skill"
    BY <1>1, <1>5 DEF ReadsTrue, Scanning, InOp, Read, Swept, Exact
  <2>2. r \in Roots /\ catalog[r] \in RowType
    BY <1>5 DEF RefreshInv, RefreshTypeOK, WatchTypes, RowTypes
  <2>3. CASE op.read[r] # 0
    BY <1>1, <2>1, <2>2, <2>3 DEF ReadsWritten, InOp, Agrees
  <2>4. CASE op.read[r] = 0
    BY <1>1, <1>5, <2>1, <2>2, <2>4 DEF Agrees, RowType, Read
  <2> QED BY <2>3, <2>4
<1>6. ASSUME NEW r \in Roots, r \notin Swept
      PROVE  catalog'[r] = catalog[r]
  BY <1>1, <1>6
<1>7. CoveredTrue'
  <2>1. /\ covered'.session = covered.session
        /\ covered'.missed = covered.missed \cup (Swept \ op.roots)
    BY <1>1 DEF RefreshInv, RefreshTypeOK, OpTypes
  <2> SUFFICES ASSUME covered.session = session, NEW r \in stream \ covered'.missed, ~Told
               PROVE  Agrees(catalog'[r], disk[r]) /\ Agrees(shown[r], disk[r])
    BY <1>1, <1>3, <2>1 DEF CoveredTrue, Agrees
  <2>2. r \notin covered.missed /\ (r \in Swept => r \in Read)
    BY <2>1 DEF Read
  <2>3. Agrees(catalog[r], disk[r]) /\ Agrees(shown[r], disk[r]) /\ r \in Roots
    BY <2>2 DEF CoveredTrue, RefreshInv, RefreshTypeOK, WatchTypes
  <2> QED BY <1>4, <1>5, <1>6, <2>2, <2>3
<1>8. SweptTrue'
  BY <1>1, <1>2, <1>3, <1>5 DEF SweptTrue, Agrees
<1>9. ScanSession'
  BY <1>1, <1>2, <1>3 DEF ScanSession
<1> QED BY <1>0, <1>2, <1>3, <1>7, <1>8, <1>9
        DEF WatchedInScope, ReadsTrue, ReadsWritten, RowsAreCatalog, Scanning, InOp

\* A scan begins in the session of the stream in place, and has read nothing.
LEMMA BeginFresh ==
  ASSUME FreshInv, RefreshInv', BeginScan, UNCHANGED changeGen, \A r \in plan' : InScope(r)'
  PROVE  WatchedInScope' /\ ScanSession' /\ ReadsTrue' /\ ReadsWritten' /\ SweptTrue'
         /\ RowsAreCatalog'
<1>1. /\ op'.pc = "begin" /\ op'.kind = "scan" /\ op'.gen = changeGen /\ begun'.session = session'
      /\ op'.how = [r \in Roots |-> "unvisited"] /\ op'.read = [r \in Roots |-> 0]
  BY DEF BeginScan, Idle
<1>2. changeGen' = changeGen /\ changeGen \in Nat
  BY DEF FreshInv, RefreshInv, RefreshTypeOK, WatchTypes
<1>3. ScanSession'
  BY <1>1, <1>2 DEF ScanSession
<1>4. ReadsTrue'
  BY <1>1 DEF ReadsTrue, RefreshInv, RefreshTypeOK, WatchTypes
<1> QED BY <1>1, <1>3, <1>4 DEF WatchedInScope, ReadsWritten, SweptTrue, RowsAreCatalog, InOp

\* A refresh begins a scan under the watcher as it is.
LEMMA RefreshFresh == FreshInv /\ Refresh => FreshInv'
<1> SUFFICES ASSUME FreshInv, Refresh PROVE FreshInv'
  OBVIOUS
<1>1. RefreshInv'
  BY RefreshKeeps DEF FreshInv
<1>2. ReadsOnly /\ BeginScan /\ UNCHANGED changeGen
  BY DEF Refresh, ReadsOnly
<1> QED BY <1>1, <1>2, ReadsKeepCovered, BeginFresh DEF FreshInv

\* A reload has nothing to promise of a scan.
LEMMA ReloadFresh == FreshInv /\ Reload => FreshInv'
<1> SUFFICES ASSUME FreshInv, Reload PROVE FreshInv'
  OBVIOUS
<1>1. RefreshInv'
  BY ReloadKeeps DEF FreshInv
<1>2. ReadsOnly
  BY DEF Reload, ReadsOnly
<1>3. op'.pc = "collect" /\ op'.kind = "reload"
  BY DEF Reload, Idle
<1> QED BY <1>1, <1>2, <1>3, ReadsKeepCovered
        DEF FreshInv, WatchedInScope, ScanSession, ReadsTrue, ReadsWritten, SweptTrue,
            RowsAreCatalog, Scanning, InOp

\* A transition of the project: nothing is watched, and no scan covers the new
\* session yet.
LEMMA TransitionFresh == FreshInv /\ Transition => FreshInv'
<1> SUFFICES ASSUME FreshInv, Transition PROVE FreshInv'
  OBVIOUS
<1>1. RefreshInv'
  BY TransitionKeeps DEF FreshInv
<1>2. /\ UNCHANGED <<changeGen, covered>> /\ op.pc = "idle"
      /\ session' = session + 1 /\ plan' = {} /\ stream' = {}
  BY DEF Transition, ResetWatcher, MayBegin, InOp
<1>3. CoveredTrue'
  BY <1>2 DEF CoveredTrue
<1>4. CASE BeginScan
  BY <1>1, <1>2, <1>3, <1>4, BeginFresh DEF FreshInv
<1>5. CASE UNCHANGED <<op, begun, absent>>
  BY <1>1, <1>2, <1>3, <1>5
     DEF FreshInv, WatchedInScope, ScanSession, ReadsTrue, ReadsWritten, SweptTrue,
         RowsAreCatalog, Scanning, InOp
<1> QED BY <1>4, <1>5 DEF Transition

\* The rows and the plan are read as the catalog has them.
LEMMA CollectFresh == FreshInv /\ Collect => FreshInv'
<1> SUFFICES ASSUME FreshInv, Collect PROVE FreshInv'
  OBVIOUS
<1> USE DEF FreshInv
<1>0. RefreshInv'
  BY CollectKeeps
<1>1. ReadsOnly /\ UNCHANGED begun /\ op.pc = "collect"
  BY DEF Collect, ReadsOnly, InOp
<1>2. /\ op'.pc = "apply" /\ op'.kind = op.kind /\ op'.gen = op.gen /\ op'.how = op.how
      /\ op'.rows = [r \in Roots |-> IF InScope(r) THEN catalog[r] ELSE NoRow]
      /\ op'.plan = {r \in declared : InScope(r) /\ Exists(r)} /\ op'.roots = op.roots
  BY DEF Collect, RefreshInv, RefreshTypeOK, OpTypes, OpType
<1>3. Since' = Since /\ Read' = Read
  BY <1>1, <1>2 DEF ReadsOnly, watcher, Since, InFlight, Read, Swept, Exact, InScope
<1>4. WatchedInScope'
  <2>1. \A r \in op'.plan : r \in Roots /\ InScope(r)
    BY <1>2 DEF RefreshInv, RefreshTypeOK, DiskTypes
  <2> QED BY <1>1, <2>1, ReadsKeepCovered DEF WatchedInScope
<1>5. ScanSession'
  BY <1>1, <1>2, ReadsKeepCovered DEF ScanSession, ReadsOnly
<1>6. SweptTrue'
  BY <1>1, <1>2, <1>3, ReadsKeepCovered DEF SweptTrue, ReadsOnly, Agrees
<1>7. RowsAreCatalog'
  BY <1>1, <1>2, ReadsKeepCovered DEF RowsAreCatalog, ReadsOnly, InOp
<1> QED BY <1>0, <1>1, <1>2, <1>4, <1>5, <1>6, <1>7, ReadsKeepCovered
        DEF ReadsTrue, ReadsWritten, Scanning, InOp

\* The watcher is left as it is, or its session is over.
LEMMA UpdateEnds ==
  ASSUME RefreshInv, NEW newPlan \in SUBSET Roots, NEW clear \in BOOLEAN,
         UpdateWatcher(newPlan, clear)
  PROVE  /\ plan' = newPlan
         /\ \/ UNCHANGED <<stream, session>>
            \/ session' = session + 1
         /\ ~clear => pending' = pending
<1>1. pending \in BOOLEAN
  BY DEF RefreshInv, RefreshTypeOK, WatchTypes
<1> QED BY <1>1 DEF UpdateWatcher

\* What is shown is the catalog, and so as right as the catalog is.
LEMMA ApplyFresh == FreshInv /\ Apply => FreshInv'
<1> SUFFICES ASSUME FreshInv, Apply PROVE FreshInv'
  OBVIOUS
<1> USE DEF FreshInv
<1>0. RefreshInv'
  BY ApplyKeeps
<1>1. /\ op.pc = "apply" /\ shown' = op.rows /\ plan' = op.plan /\ pending' = pending
      /\ UNCHANGED <<stream, session>> \/ session' = session + 1
      /\ UNCHANGED <<disk, declared, project, catalog, events, changeGen, covered>>
  BY UpdateEnds DEF Apply, InOp, RefreshInv, RefreshTypeOK, OpTypes, OpType
<1>2. \A r \in plan' : InScope(r)'
  BY <1>1 DEF WatchedInScope, InOp, InScope
<1>3. \A r \in Roots : InScope(r)' = InScope(r) /\ (InScope(r) => shown'[r] = catalog[r])
  BY <1>1 DEF RowsAreCatalog, InOp, InScope
<1>4. /\ session \in Nat /\ covered.session <= session /\ begun.session <= session
      /\ stream \subseteq plan /\ stream \subseteq Roots
      /\ covered.session \in Nat /\ begun.session \in Nat
  BY DEF RefreshInv, RefreshTypeOK, WatchTypes, OpTypes
<1>5. CoveredTrue'
  <2>1. SUFFICES ASSUME covered'.session = session', NEW r \in stream' \ covered'.missed, ~Told'
                 PROVE  Agrees(catalog'[r], disk'[r]) /\ Agrees(shown'[r], disk'[r])
    BY DEF CoveredTrue, Agrees
  <2>2. UNCHANGED <<stream, session>>
    BY <1>1, <1>4, <2>1
  <2>3. Told' = Told
    BY <1>1, <2>2 DEF Told, InFlight
  <2>4. Agrees(catalog[r], disk[r])
    BY <1>1, <2>1, <2>2, <2>3 DEF CoveredTrue
  <2>5. InScope(r) /\ r \in Roots
    BY <1>4, <2>1, <2>2 DEF WatchedInScope
  <2> QED BY <1>1, <1>3, <2>4, <2>5 DEF Agrees
<1>6. CASE Rest
  BY <1>0, <1>2, <1>5, <1>6, RestFresh
<1>7. CASE op.kind = "scan" /\ op' = [op EXCEPT !.pc = "reconcile"] /\ UNCHANGED begun
  <2>1. /\ op'.pc = "reconcile" /\ op'.kind = op.kind /\ op'.gen = op.gen /\ op'.how = op.how
        /\ op'.roots = op.roots
    BY <1>7 DEF RefreshInv, RefreshTypeOK, OpTypes, OpType
  <2>2. Read' = Read
    BY <1>1, <2>1 DEF Read, Swept, Exact, InScope
  <2>3. ScanSession'
    BY <1>1, <1>7, <2>1, <1>4 DEF ScanSession
  <2>4. SweptTrue'
    <3>1. SUFFICES ASSUME begun'.session = session', NEW r \in stream' \cap Read'
                   PROVE  Since' \/ Agrees(catalog'[r], disk'[r])
      BY DEF SweptTrue
    <3>2. UNCHANGED <<stream, session>>
      BY <1>1, <1>4, <1>7, <3>1
    <3>3. Since' = Since
      BY <1>1, <2>1, <3>2 DEF Since, InFlight
    <3>4. Since \/ Agrees(catalog[r], disk[r])
      BY <1>1, <1>7, <2>2, <3>1, <3>2 DEF SweptTrue
    <3> QED BY <1>1, <3>3, <3>4 DEF Agrees
  <2>5. RowsAreCatalog'
    BY <1>1, <1>3, <2>1 DEF RowsAreCatalog, InOp
  <2>6. WatchedInScope'
    BY <1>2, <2>1 DEF WatchedInScope, InOp
  <2> QED BY <1>0, <1>5, <2>1, <2>3, <2>4, <2>5, <2>6 DEF ReadsTrue, ReadsWritten, Scanning, InOp
<1> QED BY <1>6, <1>7 DEF Apply

\* The end of a scan: what has not been reported since it began is right.
LEMMA ReconcileFresh == FreshInv /\ Reconcile => FreshInv'
<1> SUFFICES ASSUME FreshInv, Reconcile PROVE FreshInv'
  OBVIOUS
<1> USE DEF FreshInv
<1>0. RefreshInv'
  BY ReconcileKeeps
<1>1. /\ op.pc = "reconcile" /\ Rest
      /\ UNCHANGED <<disk, declared, project, catalog, shown, events, changeGen>>
      /\ covered' = [session |-> begun.session, stream |-> begun.stream,
                     missed |-> Roots \ Read]
  BY DEF Reconcile, InOp
<1>2. /\ plan' = plan
      /\ UNCHANGED <<stream, session>> \/ session' = session + 1
      /\ changeGen = op.gen \/ UNCHANGED watcher
  <2>1. CASE changeGen = op.gen /\ UpdateWatcher(plan, TRUE)
    <3>1. plan \in SUBSET Roots
      BY DEF RefreshInv, RefreshTypeOK, WatchTypes
    <3> QED BY <2>1, <3>1, UpdateEnds
  <2>2. CASE UNCHANGED watcher
    BY <2>2 DEF watcher
  <2> QED BY <2>1, <2>2 DEF Reconcile
<1>3. \A r \in plan' : InScope(r)'
  BY <1>1, <1>2 DEF WatchedInScope, InScope
<1>4. /\ session \in Nat /\ begun.session <= session /\ begun.session \in Nat
      /\ stream \subseteq plan /\ stream \subseteq Roots
      /\ op.gen \in Nat /\ changeGen \in Nat /\ op.gen <= changeGen
  BY DEF RefreshInv, RefreshTypeOK, WatchTypes, OpTypes, OpType
<1>5. CoveredTrue'
  <2>1. SUFFICES ASSUME covered'.session = session', NEW r \in stream' \ covered'.missed, ~Told'
                 PROVE  Agrees(catalog'[r], disk'[r]) /\ Agrees(shown'[r], disk'[r])
    BY DEF CoveredTrue, Agrees
  <2>2. UNCHANGED <<stream, session>> /\ begun.session = session
    BY <1>1, <1>2, <1>4, <2>1
  <2>3. InScope(r) /\ r \in Read /\ r \in stream /\ r \in Roots
    BY <1>1, <1>4, <2>1, <2>2 DEF Read, Swept
  <2>4. ~InFlight
    BY <1>1, <2>1, <2>2 DEF Told, InFlight
  <2>5. ~(changeGen > op.gen)
    BY <1>1, <1>2, <1>4, <2>1, <2>2 DEF ScanSession, Told, watcher
  <2>6. Agrees(catalog[r], disk[r])
    BY <1>1, <2>2, <2>3, <2>4, <2>5 DEF SweptTrue, ScanSession, Since
  <2>7. shown[r] = catalog[r]
    BY <1>1, <2>3 DEF RowsAreCatalog, InOp
  <2> QED BY <1>1, <2>6, <2>7 DEF Agrees
<1> QED BY <1>0, <1>1, <1>3, <1>5, RestFresh

\* A failure: what has been written of the scan is right all the same.
LEMMA OpFailsFresh == FreshInv /\ OpFails => FreshInv'
<1> SUFFICES ASSUME FreshInv, OpFails PROVE FreshInv'
  OBVIOUS
<1>1. RefreshInv'
  BY OpFailsKeeps DEF FreshInv
<1>2. ReadsOnly /\ Rest
  BY DEF OpFails, ReadsOnly
<1> QED BY <1>1, <1>2, ReadsKeepCovered, RestFresh DEF FreshInv

\* An event is recorded before it is forgotten, or is of an older session.
LEMMA DeliverFresh ==
  ASSUME FreshInv, NEW e \in events, Deliver(e)
  PROVE  FreshInv'
<1> USE DEF FreshInv
<1>0. RefreshInv'
  BY DeliverKeeps
<1>1. /\ UNCHANGED <<disk, declared, project, catalog, shown, plan, stream, session, op, covered, begun>>
      /\ events' = events \ {e}
      /\ IF e.session = session THEN pending' = TRUE /\ changeGen' = changeGen + 1
         ELSE UNCHANGED <<pending, changeGen>>
  BY DEF Deliver
<1>2. op.gen \in Nat /\ changeGen \in Nat /\ op.gen <= changeGen
  BY DEF RefreshInv, RefreshTypeOK, OpTypes, OpType, WatchTypes
<1>3. (Since => Since') /\ (Told => Told')
  <2>1. CASE e.session = session
    BY <1>1, <1>2, <2>1 DEF Since, Told
  <2>2. CASE e.session # session
    BY <1>1, <2>2 DEF Since, Told, InFlight
  <2> QED BY <2>1, <2>2
<1>4. \A r \in Roots : InScope(r)' = InScope(r)
  BY <1>1 DEF InScope
<1>5. Read' = Read
  BY <1>1 DEF Read, Swept, Exact, InScope
<1>6. WatchedInScope' /\ ReadsWritten' /\ RowsAreCatalog'
  BY <1>1, <1>4 DEF WatchedInScope, ReadsWritten, RowsAreCatalog, InOp, InScope
<1>7. ScanSession'
  BY <1>1, <1>2 DEF ScanSession
<1>8. ReadsTrue'
  BY <1>1, <1>3 DEF ReadsTrue, Scanning, InOp
<1>9. SweptTrue'
  BY <1>1, <1>3, <1>5 DEF SweptTrue, Agrees
<1>10. CoveredTrue'
  BY <1>1, <1>3 DEF CoveredTrue, Agrees
<1> QED BY <1>0, <1>6, <1>7, <1>8, <1>9, <1>10

\* A change of a watched root sends an event; no other is promised anything.
LEMMA ChangeFresh ==
  ASSUME FreshInv, NEW r \in Roots, NEW kind \in Kinds, Change(r, kind)
  PROVE  FreshInv'
<1> USE DEF FreshInv
<1>0. RefreshInv'
  BY ChangeKeeps
<1>1. /\ UNCHANGED <<declared, project, catalog, shown, plan, stream, session, pending, changeGen, op,
                     covered, begun>>
      /\ \A s \in Roots : s # r => disk'[s] = disk[s]
      /\ events \subseteq events'
      /\ r \in stream => [session |-> session, at |-> changes + 1] \in events'
  BY DEF Change, watcher, RefreshInv, RefreshTypeOK, DiskTypes
<1>2. (InFlight => InFlight') /\ (r \in stream => InFlight')
  BY <1>1 DEF InFlight
<1>3. \A s \in stream : InFlight' \/ disk'[s] = disk[s]
  BY <1>1, <1>2 DEF RefreshInv, RefreshTypeOK, WatchTypes
<1>4. (Since => Since') /\ (Told => Told') /\ (InFlight' => Since' /\ Told')
  BY <1>1, <1>2 DEF Since, Told
<1>5. \A s \in Roots : InScope(s)' = InScope(s)
  BY <1>1 DEF InScope
<1>6. Read' = Read
  BY <1>1 DEF Read, Swept, Exact, InScope
<1>7. WatchedInScope' /\ ReadsWritten' /\ RowsAreCatalog'
  BY <1>1, <1>5 DEF WatchedInScope, ReadsWritten, RowsAreCatalog, InOp, InScope
<1>8. ScanSession'
  BY <1>1 DEF ScanSession
<1>9. ReadsTrue'
  BY <1>1, <1>3, <1>4 DEF ReadsTrue, Scanning, InOp
<1>10. SweptTrue'
  BY <1>1, <1>3, <1>4, <1>6 DEF SweptTrue
<1>11. CoveredTrue'
  BY <1>1, <1>3, <1>4 DEF CoveredTrue
<1> QED BY <1>0, <1>7, <1>8, <1>9, <1>10, <1>11

\* What is declared changes nothing that is promised: a scan has its own roots.
LEMMA RedeclareFresh ==
  ASSUME FreshInv, NEW r \in Roots, Redeclare(r)
  PROVE  FreshInv'
<1> USE DEF FreshInv
<1>0. RefreshInv'
  BY RedeclareKeeps
<1>1. /\ UNCHANGED <<disk, project, catalog, shown, plan, stream, session, pending, changeGen, op,
                     covered, begun>>
      /\ events \subseteq events'
  BY DEF Redeclare, watcher
<1>2. (Since => Since') /\ (Told => Told')
  BY <1>1 DEF Since, Told, InFlight
<1>3. /\ \A s \in Roots : InScope(s)' = InScope(s)
      /\ Read' = Read
  BY <1>1 DEF InScope, Read, Swept, Exact
<1>4. WatchedInScope' /\ ReadsWritten' /\ RowsAreCatalog'
  BY <1>1, <1>3 DEF WatchedInScope, ReadsWritten, RowsAreCatalog, InOp, InScope
<1>5. ScanSession'
  BY <1>1 DEF ScanSession
<1>6. ReadsTrue'
  BY <1>1, <1>2 DEF ReadsTrue, Scanning
<1>7. SweptTrue' /\ CoveredTrue'
  BY <1>1, <1>2, <1>3 DEF SweptTrue, CoveredTrue, Agrees
<1> QED BY <1>0, <1>4, <1>5, <1>6, <1>7

\* The freshness invariant is inductive.
LEMMA FreshStepKeeps == FreshInv /\ [RefreshNext]_refreshVars => FreshInv'
<1> SUFFICES ASSUME FreshInv, [RefreshNext]_refreshVars PROVE FreshInv'
  OBVIOUS
<1>1. CASE UNCHANGED refreshVars
  <2>1. RefreshInv'
    BY <1>1, RefreshStepKeeps DEF FreshInv
  <2>2. ReadsOnly /\ UNCHANGED <<op, begun>>
    BY <1>1 DEF refreshVars, ReadsOnly
  <2>3. Since' = Since /\ Read' = Read
    BY <2>2 DEF ReadsOnly, watcher, Since, InFlight, Read, Swept, Exact, InScope
  <2>4. WatchedInScope' /\ ReadsWritten' /\ RowsAreCatalog'
    BY <2>2, ReadsKeepCovered
       DEF FreshInv, ReadsOnly, WatchedInScope, ReadsWritten, RowsAreCatalog, InOp, InScope
  <2>5. ScanSession'
    BY <2>2, ReadsKeepCovered DEF FreshInv, ReadsOnly, ScanSession
  <2>6. ReadsTrue' /\ SweptTrue'
    BY <2>2, <2>3, ReadsKeepCovered
       DEF FreshInv, ReadsOnly, ReadsTrue, SweptTrue, Scanning, InOp, Agrees
  <2> QED BY <2>1, <2>2, <2>4, <2>5, <2>6, ReadsKeepCovered DEF FreshInv
<1>2. ASSUME NEW r \in Roots, Visit(r) PROVE FreshInv'
  BY <1>2, VisitFresh
<1>3. ASSUME NEW e \in events, Deliver(e) PROVE FreshInv'
  BY <1>3, DeliverFresh
<1>4. ASSUME NEW r \in Roots, NEW kind \in Kinds, Change(r, kind)
      PROVE  FreshInv'
  BY <1>4, ChangeFresh
<1>5. ASSUME NEW r \in Roots, Redeclare(r) PROVE FreshInv'
  BY <1>5, RedeclareFresh
<1> QED
  BY <1>1, <1>2, <1>3, <1>4, <1>5, DeclareFresh, RefreshFresh, ReloadFresh, TransitionFresh, UpsertFresh, SweepFresh,
     CollectFresh, ApplyFresh, ReconcileFresh, OpFailsFresh
     DEF RefreshNext

\* With nothing pending, nothing running and no event on its way, the app shows
\* what is on disk, of every root that the last scan found declared and could
\* read, that no scan since has retired as not declared, and that is watched by
\* the stream that was there when the scan began.
THEOREM CleanMeansFresh == RefreshSpec => []CleanIsFresh
<1>1. RefreshInit => FreshInv
  BY FreshInitial
<1>2. FreshInv /\ [RefreshNext]_refreshVars => FreshInv'
  BY FreshStepKeeps
<1>3. FreshInv => CleanIsFresh
  BY DEF FreshInv, CoveredTrue, CleanIsFresh, Clean, Told, InFlight
<1> QED BY <1>1, <1>2, <1>3, PTL DEF RefreshSpec
=============================================================================
