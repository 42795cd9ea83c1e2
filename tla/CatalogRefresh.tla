--------------------------- MODULE CatalogRefresh ---------------------------
(***************************************************************************)
(* The catalog of one agent and what keeps it up to date: the scan of the  *)
(* roots (crates/scanner), the rows it writes and the sweep of those it    *)
(* did not find (crates/catalog), the app that shows the rows, and the     *)
(* watcher of the roots (SkillStore+FileWatching.swift), which only says   *)
(* that something has changed since the last scan.  Each root stands for   *)
(* one skill, and all have different names: of two with one name some      *)
(* agents keep the first only, which is left out.  An event is delivered   *)
(* at any time after its change, or never if the stream it belongs to has  *)
(* been stopped.                                                           *)
(***************************************************************************)
EXTENDS Naturals, FiniteSets

CONSTANTS
  Roots,
  ProjectRoots, \* the roots that belong to a project
  Lasting,      \* the roots that nobody removes
  Linked,       \* the roots whose skill may be a link that the scanner refuses
  Configured,   \* the roots that the agent declares at some times only
  MaxChanges,   \* bound: changes of the roots and of what is declared
  MaxOps,       \* bound: refreshes, reloads and project transitions
  Transitions,  \* whether projects are selected and cleared
  StreamFails   \* whether a stream may fail to start

ASSUME RefreshAssumption ==
  /\ IsFiniteSet(Roots) /\ ProjectRoots \subseteq Roots /\ Lasting \subseteq Roots
  /\ Linked \subseteq Roots /\ Configured \subseteq Roots
  /\ MaxChanges \in Nat /\ MaxOps \in Nat /\ Transitions \in BOOLEAN /\ StreamFails \in BOOLEAN

VARIABLES
  disk,      \* each root: not there, without a skill, with a link to one that the
             \* scanner refuses, or with a skill; since when
  declared,  \* the roots of the agent's adapter
  project,   \* whether a project is selected
  catalog,   \* the row of each skill
  shown,     \* SkillStore.skills
  plan,      \* authorizedFileWatchPlan
  stream,    \* activeAuthorizedFileWatchRoots
  session,   \* authorizedFileWatcherSessionGeneration
  events,    \* events on their way, with the session of their stream
  pending,   \* hasPendingFileSystemChanges
  changeGen, \* authorizedFileSystemChangeGeneration
  op,        \* the refresh that runs, and what it has read
  changes, ops,
  absent,    \* ghost: the roots without a skill that the scanner accepts, at
             \* some time of the scan
  covered,   \* ghost: the session and stream in place when the last
             \* successful scan began, and the roots it could not read or a
             \* later one retired as not declared
  begun      \* ghost: the session and stream when the running scan began

watcher     == <<plan, stream, session, pending>>
refreshVars == <<disk, declared, project, catalog, shown, watcher, events, changeGen, op,
                 changes, ops, absent, covered, begun>>

Kinds == {"noroot", "empty", "refused", "skill"}
NoRow == [state |-> "none", at |-> 0]
Idle  == [pc |-> "idle", kind |-> "none", gen |-> 0, roots |-> {}, how |-> [r \in Roots |-> "unvisited"],
          read |-> [r \in Roots |-> 0], rows |-> [r \in Roots |-> NoRow], plan |-> {}]

NoScan == [session |-> 0, stream |-> {}]

RefreshInit ==
  /\ disk \in [Roots -> {[kind |-> k, at |-> 1] : k \in Kinds}]
  /\ \A r \in Roots \ Linked : disk[r].kind # "refused"
  /\ declared \in {d \in SUBSET Roots : Roots \ Configured \subseteq d}
  /\ project = FALSE
  /\ catalog = [r \in Roots |-> NoRow] /\ shown = catalog
  /\ plan = {} /\ stream = {} /\ session = 0 /\ events = {}
  /\ pending = FALSE /\ changeGen = 0 /\ op = Idle
  /\ changes = 1 /\ ops = 0
  /\ covered = [session |-> 0, stream |-> {}, missed |-> Roots]
  /\ absent = {} /\ begun = NoScan

-----------------------------------------------------------------------------
(* The watcher.                                                            *)

Exists(r)  == disk[r].kind # "noroot"
InScope(r) == r \in ProjectRoots => project

\* updateAuthorizedFileWatcher: the stream is made anew when the plan or what
\* there is of it has changed; it may fail to start.
UpdateWatcher(newPlan, clear) ==
  LET roots == {r \in newPlan : Exists(r)}
  IN  /\ plan' = newPlan
      /\ pending' = (pending /\ ~clear)
      /\ IF roots # {} /\ roots = stream /\ newPlan = plan
         THEN UNCHANGED <<stream, session>>
         ELSE session' = session + 1 /\ stream' \in {roots} \cup (IF StreamFails THEN {{}} ELSE {})

\* Mutant of ResetWatcher: the stream of the old project is kept.
ResetWatcherHalf == plan' = {} /\ pending' = FALSE /\ UNCHANGED <<stream, session>>

\* resetAuthorizedFileWatcherForProjectTransition
ResetWatcher == session' = session + 1 /\ plan' = {} /\ stream' = {} /\ pending' = FALSE

\* recordAuthorizedFileSystemChange, unless the session is over.
Deliver(e) ==
  /\ e \in events /\ events' = events \ {e}
  /\ IF e.session = session THEN pending' = TRUE /\ changeGen' = changeGen + 1
     ELSE UNCHANGED <<pending, changeGen>>
  /\ UNCHANGED <<disk, declared, project, catalog, shown, plan, stream, session, op,
                 changes, ops, absent, covered, begun>>

-----------------------------------------------------------------------------
(* The scan, in a process of the service.                                  *)

InOp(pc) == op.pc = pc
Rest     == op' = Idle /\ begun' = NoScan /\ absent' = {}

\* The roots of the adapter are asked for once, when the agent is scanned.
Declare ==
  /\ InOp("begin")
  /\ op' = [op EXCEPT !.pc = "scan", !.roots = {r \in declared : InScope(r)}]
  /\ UNCHANGED <<disk, declared, project, catalog, shown, watcher, events, changeGen,
                 changes, ops, absent, covered, begun>>

\* scan_agent: a root that may be absent is passed over; any other that cannot
\* be opened is skipped; the walk of one may end early, before or after its
\* skill was read.  A link that is refused gives no skill, and the walk is as
\* complete as without it.
Visit(r) ==
  /\ InOp("scan") /\ r \in op.roots /\ op.how[r] = "unvisited"
  /\ \E how \in IF Exists(r) THEN {"complete", "partial", "skipped"} ELSE {"absent", "skipped"} :
     \E found \in {disk[r].at} \cup (IF how = "partial" THEN {0} ELSE {}) :
       op' = [op EXCEPT !.how[r] = how,
                        !.read[r] = IF disk[r].kind = "skill" /\ how \in {"complete", "partial"}
                                    THEN found ELSE 0]
  /\ UNCHANGED <<disk, declared, project, catalog, shown, watcher, events, changeGen,
                 changes, ops, absent, covered, begun>>

\* upsert_skill_instances writes one row at a time; the process may be killed
\* before all of them are written.
Upsert ==
  /\ InOp("scan") /\ \A r \in op.roots : op.how[r] # "unvisited"
  /\ \E written \in SUBSET {r \in Roots : op.read[r] # 0} :
       /\ catalog' = [r \in Roots |-> IF r \in written THEN [state |-> "loaded", at |-> op.read[r]]
                                      ELSE catalog[r]]
       /\ \/ /\ written = {r \in Roots : op.read[r] # 0}
             /\ op' = [op EXCEPT !.pc = "sweep"] /\ UNCHANGED <<absent, begun>>
          \/ Rest
  /\ UNCHANGED <<disk, declared, project, shown, watcher, events, changeGen, changes, ops, covered>>

\* exact_agent_scan
Exact == \A r \in op.roots : op.how[r] \in {"complete", "absent"}

\* Mutant of Swept: any scan retires the rows of its agent.
SweptAlways == {r \in Roots : InScope(r)}

\* The roots whose rows the sweep may retire: after an exact scan all of the
\* agent, also those that it does not declare any more.
Swept == {r \in Roots : InScope(r) /\ (Exact \/ op.how[r] = "complete")}

\* mark_missing_except_with_project_context, one transaction.
Sweep ==
  /\ InOp("sweep")
  /\ catalog' = [r \in Roots |->
       IF r \in Swept /\ op.read[r] = 0 /\ catalog[r].state = "loaded"
       THEN [catalog[r] EXCEPT !.state = "missing"] ELSE catalog[r]]
  /\ op' = [op EXCEPT !.pc = "collect"] /\ absent' = {}
  /\ covered' = [covered EXCEPT !.missed = @ \cup (Swept \ op.roots)]
  /\ UNCHANGED <<disk, declared, project, shown, watcher, events, changeGen, changes, ops, begun>>

-----------------------------------------------------------------------------
(* The app: one refresh, reload or transition at a time.                   *)

MayBegin == InOp("idle") /\ ops < MaxOps

\* The roots of which the scan has found out what is there.
Read == Swept \cap op.roots

\* scanAll
BeginScan ==
  /\ op' = [Idle EXCEPT !.pc = "begin", !.kind = "scan", !.gen = changeGen]
  /\ begun' = [session |-> session', stream |-> stream']
  /\ absent' = {r \in Roots : disk[r].kind # "skill"}

Refresh ==
  /\ MayBegin /\ ops' = ops + 1
  /\ UNCHANGED <<disk, declared, project, catalog, shown, watcher, events, changeGen, changes, covered>>
  /\ BeginScan

\* reload, and the load at the start.
Reload ==
  /\ MayBegin /\ ops' = ops + 1
  /\ op' = [Idle EXCEPT !.pc = "collect", !.kind = "reload"]
  /\ UNCHANGED <<disk, declared, project, catalog, shown, watcher, events, changeGen, changes,
                 absent, covered, begun>>

\* setProject, clearProject: then a scan, unless the project is not valid.
Transition ==
  /\ Transitions /\ MayBegin /\ ops' = ops + 1
  /\ project' = ~project /\ ResetWatcher
  /\ BeginScan \/ UNCHANGED <<op, begun, absent>>
  /\ UNCHANGED <<disk, declared, catalog, shown, events, changeGen, changes, covered>>

\* refreshCollections reads rows and plan in one call of the service, and more
\* in others.
Collect ==
  /\ InOp("collect")
  /\ op' = [op EXCEPT !.pc = "apply",
                      !.rows = [r \in Roots |-> IF InScope(r) THEN catalog[r] ELSE NoRow],
                      !.plan = {r \in declared : InScope(r) /\ Exists(r)}]
  /\ UNCHANGED <<disk, declared, project, catalog, shown, watcher, events, changeGen,
                 changes, ops, absent, covered, begun>>

Apply ==
  /\ InOp("apply")
  /\ shown' = op.rows
  /\ UpdateWatcher(op.plan, FALSE)
  /\ IF op.kind = "scan" THEN op' = [op EXCEPT !.pc = "reconcile"] /\ UNCHANGED <<absent, begun>>
     ELSE Rest
  /\ UNCHANGED <<disk, declared, project, catalog, events, changeGen, changes, ops, covered>>

\* Mutant of Reconcile: whatever is pending is cleared.
ReconcileAll ==
  /\ InOp("reconcile") /\ UpdateWatcher(plan, TRUE) /\ Rest
  /\ covered' = [session |-> begun.session, stream |-> begun.stream,
                 missed |-> Roots \ Read]
  /\ UNCHANGED <<disk, declared, project, catalog, shown, events, changeGen, changes, ops>>

\* reconcileAuthorizedFileWatcherAfterDeepScan: what has been reported since the
\* scan began stays pending.
Reconcile ==
  /\ InOp("reconcile")
  /\ IF changeGen = op.gen THEN UpdateWatcher(plan, TRUE) ELSE UNCHANGED watcher
  /\ Rest
  /\ covered' = [session |-> begun.session, stream |-> begun.stream,
                 missed |-> Roots \ Read]
  /\ UNCHANGED <<disk, declared, project, catalog, shown, events, changeGen, changes, ops>>

\* A call of the service fails, or its process is killed.
OpFails ==
  /\ op.pc \in {"begin", "scan", "sweep", "collect", "apply"}
  /\ Rest
  /\ UNCHANGED <<disk, declared, project, catalog, shown, watcher, events, changeGen,
                 changes, ops, covered>>

Scanning == op.pc \in {"begin", "scan", "sweep"}

\* Somebody writes, removes or makes a skill or its root, or puts a link there
\* that the scanner refuses.
Change(r, kind) ==
  /\ changes < MaxChanges /\ changes' = changes + 1
  /\ kind = "noroot" => Exists(r) /\ r \notin Lasting
  /\ kind = "refused" => r \in Linked
  /\ disk' = [disk EXCEPT ![r] = [kind |-> kind, at |-> changes + 1]]
  /\ events' = IF r \in stream THEN events \cup {[session |-> session, at |-> changes + 1]} ELSE events
  /\ absent' = IF kind # "skill" /\ Scanning THEN absent \cup {r} ELSE absent
  /\ UNCHANGED <<declared, project, catalog, shown, watcher, changeGen, op, ops,
                 covered, begun>>

\* The configuration of the agent, or a link in another root, declares a root or
\* does not any more; an event may tell of it.
Redeclare(r) ==
  /\ r \in Configured /\ changes < MaxChanges /\ changes' = changes + 1
  /\ declared' = IF r \in declared THEN declared \ {r} ELSE declared \cup {r}
  /\ \/ UNCHANGED events
     \/ stream # {} /\ events' = events \cup {[session |-> session, at |-> changes + 1]}
  /\ UNCHANGED <<disk, project, catalog, shown, watcher, changeGen, op, ops, absent,
                 covered, begun>>

-----------------------------------------------------------------------------
RefreshNext ==
  \/ Refresh \/ Reload \/ Transition
  \/ \E r \in Roots : Visit(r)
  \/ Declare \/ Upsert \/ Sweep \/ Collect \/ Apply \/ Reconcile \/ OpFails
  \/ \E e \in events : Deliver(e)
  \/ \E r \in Roots, kind \in Kinds : Change(r, kind)
  \/ \E r \in Roots : Redeclare(r)

RefreshSpec == RefreshInit /\ [][RefreshNext]_refreshVars

-----------------------------------------------------------------------------
(* Properties.                                                             *)

RowType == [state : {"none", "loaded", "missing"}, at : Nat]
OpType  == [pc : {"idle", "begin", "scan", "sweep", "collect", "apply", "reconcile"},
            kind : {"none", "scan", "reload"}, gen : Nat,
            roots : SUBSET Roots,
            how : [Roots -> {"unvisited", "absent", "skipped", "partial", "complete"}],
            read : [Roots -> Nat], rows : [Roots -> RowType], plan : SUBSET Roots]

DiskTypes ==
  /\ disk \in [Roots -> [kind : Kinds, at : 1 .. changes]] /\ declared \subseteq Roots
  /\ project \in BOOLEAN /\ changes \in Nat /\ ops \in Nat /\ absent \subseteq Roots
RowTypes == catalog \in [Roots -> RowType] /\ shown \in [Roots -> RowType]
WatchTypes ==
  /\ pending \in BOOLEAN /\ session \in Nat /\ changeGen \in Nat
  /\ plan \subseteq Roots /\ stream \subseteq plan
  /\ events \subseteq [session : 0 .. session, at : 1 .. changes]
OpTypes ==
  /\ op \in OpType /\ op.gen <= changeGen
  /\ begun \in [session : 0 .. session, stream : SUBSET Roots]
  /\ covered \in [session : 0 .. session, stream : SUBSET Roots, missed : SUBSET Roots]

\* The variables have their types; events belong to sessions up to this one,
\* only roots of the plan are watched, and a scan began at no later generation.
RefreshTypeOK == DiskTypes /\ RowTypes /\ WatchTypes /\ OpTypes

\* A row becomes missing only if its skill, at some time of the scan, was not
\* there but for a link that the scanner refuses, or if its root is not declared
\* and every root that is was read: never because its root could not be read,
\* its walk ended early, the service was killed, or it belongs to another
\* project.
MissingWasGone ==
  [][\A r \in Roots : catalog[r].state = "loaded" /\ catalog'[r].state = "missing" =>
       InScope(r) /\ (r \in absent \/ (r \notin op.roots /\ Exact))]_refreshVars

Agrees(row, root) ==
  IF root.kind = "skill" THEN row = [state |-> "loaded", at |-> root.at]
  ELSE row.state # "loaded"

\* The app rests, nothing is pending and no event is on its way.
Clean == InOp("idle") /\ ~pending /\ \A e \in events : e.session # session

\* With nothing pending the app shows what is on disk, of every root that the
\* last scan found declared and could read, that no scan since has retired as not
\* declared, and that is watched by the stream that was there when the scan began,
\* whatever changed while it ran (docs/service-protocol.md).
CleanIsFresh ==
  Clean /\ covered.session = session =>
    \A r \in stream \ covered.missed : Agrees(shown[r], disk[r])

\* The same of every lasting root that was watched when the scan began and is
\* watched now: an event of it is not lost when the scan finds another root
\* (docs/service-protocol.md: the stream stays attached to unchanged roots).
WatchedStaysFresh ==
  Clean => \A r \in (Lasting \cap stream \cap covered.stream) \ covered.missed :
             Agrees(shown[r], disk[r])

=============================================================================
