---------------------------- MODULE StagedRemoval ---------------------------
(***************************************************************************)
(* The removal of one skill from some agents and not from others           *)
(* (crates/commands/src/skill_manager.rs, apply_remove_with_manager without *)
(* full_uninstall).  An agent finds the skill in slots, one per install     *)
(* root: a copied directory, or a link to another slot.  The service stages *)
(* the selected slots into private backups, scans, verifies, and commits or *)
(* rolls back, while the user, another service process or a kill may come   *)
(* between any two system calls.                                            *)
(***************************************************************************)
EXTENDS Integers, FiniteSets, Sequences, SequencesExt, FiniteSetsExt

CONSTANTS
  Procs,      \* service processes, one removal each
  Agents,
  Order,      \* Order[a]: the slots where a looks, in the order of its scan
  Slots,      \* numbered in the order of their paths
  Source,     \* the slot of .agents/skills, the shared source
  FirstOnly,  \* agents of which the scan keeps the first skill of a name
  Unreadable, \* agents with roots that a scan may fail to walk
  InitialFs,  \* the file systems to start from
  MaxEdits,   \* bound: changes made from outside
  NoPlan

ASSUME RemovalAssumption ==
  /\ Slots \subseteq Nat \ {0}
  /\ Order \in [Agents -> Seq(Slots)]
  /\ Source \in Slots /\ {FirstOnly, Unreadable} \subseteq SUBSET Agents
  /\ MaxEdits \in Nat

VARIABLES
  fs,        \* what is at each slot
  backup,    \* what each process has in its private backups
  rows,      \* the catalog: rows[a][c], the instance of a whose canonical slot is c
  pc, asked, reviewed, plan,
  todo,      \* the slots or agents a loop has still to handle
  staged, failed,
  cause,     \* why a process rolls back
  result,
  edits,     \* changes from outside so far
  alive,     \* ghost: the directories that nobody meant to delete
  before,    \* ghost: the file system when the removal was applied
  quiet      \* ghost: nobody else has changed it since

removalVars == <<fs, backup, rows, pc, asked, reviewed, plan, todo, staged,
                 failed, cause, result, edits, alive, before, quiet>>

Nothing == [kind |-> "none", to |-> 0, rev |-> 0]
DirEntry(rev) == [kind |-> "dir", to |-> 0, rev |-> rev]
LinkEntry(s, rev) == [kind |-> "link", to |-> s, rev |-> rev]

Revs    == 0 .. Max(Slots) + MaxEdits
Stamp   == Max(Slots) + edits + 1   \* of an entry made from outside
Entries == [kind : {"none", "dir", "link"}, to : Slots \cup {0}, rev : Revs]

\* One slot is the last.
ASSUME InitialAssumption ==
  /\ \E last \in Slots : \A s \in Slots : s <= last
  /\ InitialFs \subseteq [Slots -> Entries]

RowsOfAgent == [Slots -> [state : {"none", "loaded", "missing"},
                          at : Slots \cup {0}]]

-----------------------------------------------------------------------------
(* Links.                                                                  *)

\* Where s leads in the file system f: a chain of links has at most as many
\* of them as there are slots; 0 if it dangles.
Final(f, s) ==
  LET Follow[n \in 0 .. Cardinality(Slots)] ==
        IF n = 0 THEN s
        ELSE LET t == Follow[n - 1]
             IN  IF t # 0 /\ f[t].kind = "link" THEN f[t].to ELSE t
      last == Follow[Cardinality(Slots)]
  IN  IF last # 0 /\ f[last].kind = "dir" THEN last ELSE 0

Resolves(f, s) == Final(f, s) # 0

-----------------------------------------------------------------------------
(* The scan of one agent and the sweep of its missing rows.                *)

\* The instances found in the walked slots: one per canonical slot, shown at
\* the first slot that leads there.
Seen(a, walked) ==
  LET found == SelectSeq(Order[a], LAMBDA s : s \in walked /\ Resolves(fs, s))
      first == {i \in DOMAIN found : \A j \in 1 .. i - 1 :
                  /\ Final(fs, found[j]) # Final(fs, found[i])
                  /\ a \notin FirstOnly}
  IN  {<<Final(fs, found[i]), found[i]>> : i \in first}

\* The row of a skill that was found.
RowOf(a, c, walked) ==
  [state |-> "loaded", at |-> CHOOSE s \in Slots : <<c, s>> \in Seen(a, walked)]

\* upsert_skill_instances, then the sweep: of every row after an exact scan,
\* else of the rows whose canonical path is below a completely walked root.
ScannedRows(a, walked) ==
  [c \in Slots |->
     IF \E s \in Slots : <<c, s>> \in Seen(a, walked)
     THEN RowOf(a, c, walked)
     ELSE IF rows[a][c].state = "loaded" /\ (walked = Range(Order[a]) \/ c \in walked)
     THEN [rows[a][c] EXCEPT !.state = "missing"]
     ELSE rows[a][c]]

ScanAgent(a) ==
  \E walked \in SUBSET Range(Order[a]) :
    /\ walked # Range(Order[a]) => a \in Unreadable
    /\ rows' = [rows EXCEPT ![a] = ScannedRows(a, walked)]

-----------------------------------------------------------------------------
(* The preview, which apply builds once more.                              *)

Loaded == {id \in Agents \X Slots : rows[id[1]][id[2]].state = "loaded"}
EntryOf(id) == rows[id[1]][id[2]].at
Selected(request) == {id \in request.ids : id[1] \in request.agents}

\* Slots where a finds the skill apart from the targets, and not through the
\* directory of one.
Independent(a, targets) ==
  {s \in Range(Order[a]) \ DOMAIN targets :
     /\ Resolves(fs, s)
     /\ \A t \in DOMAIN targets : targets[t].kind = "dir" => Final(fs, s) # t}

\* independent_preserved_skill_path: the row's own paths before the others.
KeptPath(id, targets) ==
  LET free == Independent(id[1], targets)
  IN  IF EntryOf(id) \in free THEN EntryOf(id)
      ELSE IF id[2] \in free THEN id[2] ELSE Min(free)

TargetsOf(request) == [s \in {EntryOf(id) : id \in Selected(request)} |-> fs[s]]

\* The identities are complete, each selected agent has a target and loses
\* the skill with it, some row is preserved and each of those keeps a path.
Acceptable(request) ==
  LET chosen  == Selected(request)
      targets == TargetsOf(request)
  IN  /\ {id \in Loaded : EntryOf(id) \in Range(Order[id[1]])} \subseteq request.ids
      /\ request.agents \subseteq {id[1] : id \in chosen}
      /\ request.ids # chosen
      /\ \A s \in DOMAIN targets : Resolves(fs, s)
      /\ \A id \in chosen : Independent(id[1], targets) = {}
      /\ Source \in DOMAIN targets => targets[Source].kind # "dir"
      /\ \A id \in request.ids \ chosen : Independent(id[1], targets) # {}

PlanFor(request) ==
  [targets |-> TargetsOf(request),
   keep |-> {KeptPath(id, TargetsOf(request)) : id \in request.ids \ Selected(request)},
   ids |-> Selected(request)]

Undisturbed == UNCHANGED <<edits, alive, before, quiet>>
FilesUnchanged == UNCHANGED <<fs, backup>> /\ Undisturbed
Goto(p, from, to) == pc[p] = from /\ pc' = [pc EXCEPT ![p] = to]

End(p, outcome) == result' = [result EXCEPT ![p] = outcome]

\* The app asks about all rows it shows; a caller may skip the preview.
Preview(p) ==
  /\ Goto(p, "idle", "asked")
  /\ \E chosen \in SUBSET Agents :
       LET request == [agents |-> chosen, ids |-> Loaded]
       IN  /\ chosen # {} /\ Acceptable(request)
           /\ asked' = [asked EXCEPT ![p] = request]
           /\ reviewed' \in {[reviewed EXCEPT ![p] = PlanFor(request)], reviewed}
  /\ FilesUnchanged /\ UNCHANGED <<rows, plan, todo, staged, failed, cause, result>>

\* build_remove_preview again, and ensure_confirmed with the token, if given.
Apply(p) ==
  /\ pc[p] = "asked"
  /\ LET valid == /\ Acceptable(asked[p])
                  /\ reviewed[p] # NoPlan =>
                       /\ reviewed[p].targets = PlanFor(asked[p]).targets
                       /\ reviewed[p].keep = PlanFor(asked[p]).keep
     IN  \/ /\ valid
            /\ pc' = [pc EXCEPT ![p] = "recheck"]
            /\ plan' = [plan EXCEPT ![p] = PlanFor(asked[p])]
            /\ UNCHANGED result
         \/ /\ ~valid
            /\ pc' = [pc EXCEPT ![p] = "done"]
            /\ End(p, "refused")
            /\ UNCHANGED plan
  /\ before' = [before EXCEPT ![p] = fs]
  /\ quiet' = [quiet EXCEPT ![p] = TRUE]
  /\ UNCHANGED <<fs, backup, rows, asked, reviewed, todo, staged, failed, cause, edits, alive>>

-----------------------------------------------------------------------------
(* Staging.                                                                *)

Targets(p) == DOMAIN plan[p].targets
Refuse(p)  == pc' = [pc EXCEPT ![p] = "done"] /\ End(p, "refused")

\* apply_physical_remove looks at every target once more before it starts.
Recheck(p) ==
  /\ pc[p] = "recheck"
  /\ \/ /\ \A s \in Targets(p) : fs[s] = plan[p].targets[s] /\ Resolves(fs, s)
        /\ pc' = [pc EXCEPT ![p] = "stage"]
        /\ todo' = [todo EXCEPT ![p] = Targets(p)]
        /\ UNCHANGED result
     \/ /\ \E s \in Targets(p) : fs[s] # plan[p].targets[s] \/ ~Resolves(fs, s)
        /\ Refuse(p)
        /\ UNCHANGED todo
  /\ FilesUnchanged
  /\ UNCHANGED <<rows, asked, reviewed, plan, staged, failed, cause>>

\* Mutant of StartRollback: it goes through all targets.
StartRollbackAll(p, why) ==
  /\ pc' = [pc EXCEPT ![p] = "rollback"]
  /\ todo' = [todo EXCEPT ![p] = Targets(p)]
  /\ cause' = [cause EXCEPT ![p] = why]

StartRollback(p, why) ==
  /\ pc' = [pc EXCEPT ![p] = "rollback"]
  /\ todo' = [todo EXCEPT ![p] = staged[p]]
  /\ cause' = [cause EXCEPT ![p] = why]

\* Every other removal under way sees its quiet time end.
Disturb(p) == quiet' = [q \in Procs |-> q = p /\ quiet[q]]

\* rename of the next target, in the order of paths, into a new private
\* directory: whatever is there now.
StageMove(p) ==
  /\ Goto(p, "stage", "check") /\ todo[p] # {}
  /\ LET s == Min(todo[p])
     IN  /\ fs[s] # Nothing
         /\ backup' = [backup EXCEPT ![p][s] = fs[s]]
         /\ fs' = [fs EXCEPT ![s] = Nothing]
         /\ staged' = [staged EXCEPT ![p] = @ \cup {s}]
  /\ Disturb(p)
  /\ UNCHANGED <<rows, asked, reviewed, plan, todo, failed, cause, result, edits, alive, before>>

\* The private directory cannot be made, or the rename fails: on any error,
\* and always when nothing is there.
StageFails(p) ==
  /\ pc[p] = "stage" /\ todo[p] # {}
  /\ StartRollback(p, "stage")
  /\ FilesUnchanged /\ UNCHANGED <<rows, asked, reviewed, plan, staged, failed, result>>

\* A staged link is followed from its backup, in the file system as it is now.
StagedAsPlanned(p, s) ==
  /\ backup[p][s] = plan[p].targets[s]
  /\ backup[p][s].kind = "link" => Resolves(fs, backup[p][s].to)

\* Mutant of CheckStaged: what was moved is not looked at again.
CheckStagedSkipped(p) ==
  /\ Goto(p, "check", "stage")
  /\ todo' = [todo EXCEPT ![p] = @ \ {Min(@)}]
  /\ FilesUnchanged
  /\ UNCHANGED <<rows, asked, reviewed, plan, staged, failed, cause, result>>

CheckStaged(p) ==
  /\ pc[p] = "check"
  /\ \/ /\ StagedAsPlanned(p, Min(todo[p]))
        /\ pc' = [pc EXCEPT ![p] = "stage"]
        /\ todo' = [todo EXCEPT ![p] = @ \ {Min(@)}]
        /\ UNCHANGED cause
     \/ ~StagedAsPlanned(p, Min(todo[p])) /\ StartRollback(p, "stage")
  /\ FilesUnchanged
  /\ UNCHANGED <<rows, asked, reviewed, plan, staged, failed, result>>

AllStaged(p) ==
  /\ Goto(p, "stage", "scan") /\ todo[p] = {}
  /\ todo' = [todo EXCEPT ![p] = Agents]
  /\ FilesUnchanged
  /\ UNCHANGED <<rows, asked, reviewed, plan, staged, failed, cause, result>>

-----------------------------------------------------------------------------
(* Verification, then rollback or commit.                                  *)

NextAgent(p) == CHOOSE a \in todo[p] : TRUE   \* the adapters have a fixed order

Scan(p) ==
  /\ pc[p] = "scan" /\ todo[p] # {}
  /\ ScanAgent(NextAgent(p))
  /\ todo' = [todo EXCEPT ![p] = @ \ {NextAgent(p)}]
  /\ FilesUnchanged
  /\ UNCHANGED <<pc, asked, reviewed, plan, staged, failed, cause, result>>

ScanFails(p) ==
  /\ pc[p] = "scan" /\ todo[p] # {}
  /\ StartRollback(p, "scan")
  /\ FilesUnchanged /\ UNCHANGED <<rows, asked, reviewed, plan, staged, failed, result>>

\* Mutant of Verified: the preserved paths are not looked at.
VerifiedTargets(p) ==
  /\ \A s \in Targets(p) : fs[s] = Nothing
  /\ \A id \in plan[p].ids : rows[id[1]][id[2]].state = "missing"

\* verify_physical_remove_postcondition.
Verified(p) ==
  /\ \A s \in Targets(p) : fs[s] = Nothing
  /\ \A s \in plan[p].keep : Resolves(fs, s)
  /\ \A id \in plan[p].ids : rows[id[1]][id[2]].state = "missing"

Verify(p) ==
  /\ pc[p] = "scan" /\ todo[p] = {}
  /\ \/ /\ Verified(p)
        /\ pc' = [pc EXCEPT ![p] = "commit"]
        /\ todo' = [todo EXCEPT ![p] = staged[p]]
        /\ UNCHANGED cause
     \/ ~Verified(p) /\ StartRollback(p, "verify")
  /\ FilesUnchanged
  /\ UNCHANGED <<rows, asked, reviewed, plan, staged, failed, result>>

\* Mutant of RollbackCheck: a slot that is taken again counts as restored.
RollbackForgets(p) ==
  /\ pc[p] = "rollback" /\ todo[p] # {}
  /\ \/ /\ fs[Max(todo[p])] = Nothing
        /\ pc' = [pc EXCEPT ![p] = "restore"]
        /\ UNCHANGED todo
     \/ /\ fs[Max(todo[p])] # Nothing
        /\ todo' = [todo EXCEPT ![p] = @ \ {Max(@)}]
        /\ UNCHANGED pc
  /\ FilesUnchanged
  /\ UNCHANGED <<rows, asked, reviewed, plan, staged, failed, cause, result>>

\* rollback_staged_removals, the last target first: a slot that is taken
\* again keeps its new entry, and the backup stays where it is.
RollbackCheck(p) ==
  /\ pc[p] = "rollback" /\ todo[p] # {}
  /\ \/ /\ fs[Max(todo[p])] = Nothing
        /\ pc' = [pc EXCEPT ![p] = "restore"]
        /\ UNCHANGED <<todo, failed>>
     \/ /\ fs[Max(todo[p])] # Nothing
        /\ todo' = [todo EXCEPT ![p] = @ \ {Max(@)}]
        /\ failed' = [failed EXCEPT ![p] = TRUE]
        /\ UNCHANGED pc
  /\ FilesUnchanged
  /\ UNCHANGED <<rows, asked, reviewed, plan, staged, cause, result>>

\* The rename back.  A link replaces a link that came in between; nothing
\* replaces a directory.
Restore(p) ==
  /\ Goto(p, "restore", "rollback")
  /\ LET s == Max(todo[p])
     IN  /\ \/ fs[s] = Nothing
            \/ fs[s].kind = "link" /\ backup[p][s].kind = "link"
         /\ fs' = [fs EXCEPT ![s] = backup[p][s]]
         /\ backup' = [backup EXCEPT ![p][s] = Nothing]
  /\ todo' = [todo EXCEPT ![p] = @ \ {Max(@)}]
  /\ Disturb(p)
  /\ UNCHANGED <<rows, asked, reviewed, plan, staged, failed, cause, result, edits, alive, before>>

RestoreFails(p) ==
  /\ Goto(p, "restore", "rollback")
  /\ todo' = [todo EXCEPT ![p] = @ \ {Max(@)}]
  /\ failed' = [failed EXCEPT ![p] = TRUE]
  /\ FilesUnchanged
  /\ UNCHANGED <<rows, asked, reviewed, plan, staged, cause, result>>

\* After a failed verification the catalog is scanned once more.
RolledBack(p) ==
  /\ pc[p] = "rollback" /\ todo[p] = {}
  /\ End(p, IF failed[p] \/ cause[p] = "verify" THEN "incomplete" ELSE "refused")
  /\ \/ cause[p] = "stage" /\ pc' = [pc EXCEPT ![p] = "done"] /\ UNCHANGED todo
     \/ /\ cause[p] # "stage"
        /\ pc' = [pc EXCEPT ![p] = "rescan"]
        /\ todo' = [todo EXCEPT ![p] = Agents]
  /\ FilesUnchanged /\ UNCHANGED <<rows, asked, reviewed, plan, staged, failed, cause>>

Rescan(p) ==
  /\ pc[p] = "rescan" /\ todo[p] # {}
  /\ ScanAgent(NextAgent(p))
  /\ todo' = [todo EXCEPT ![p] = @ \ {NextAgent(p)}]
  /\ FilesUnchanged
  /\ UNCHANGED <<pc, asked, reviewed, plan, staged, failed, cause, result>>

\* It is over, or it failed, which is ignored.
RescanEnds(p) ==
  /\ Goto(p, "rescan", "done")
  /\ FilesUnchanged
  /\ UNCHANGED <<rows, asked, reviewed, plan, todo, staged, failed, cause, result>>

Approved(p) == IF reviewed[p] = NoPlan THEN plan[p] ELSE reviewed[p]

\* commit_staged_removals deletes the backup of one target after the other
\* and goes on when one cannot be deleted.
Commit(p) ==
  /\ pc[p] = "commit" /\ todo[p] # {}
  /\ LET s == Min(todo[p])
     IN  /\ backup' = [backup EXCEPT ![p][s] = Nothing]
         /\ alive' = alive \ {Approved(p).targets[s].rev}
  /\ todo' = [todo EXCEPT ![p] = @ \ {Min(@)}]
  /\ UNCHANGED <<fs, rows, pc, asked, reviewed, plan, staged, failed, cause,
                 result, edits, before, quiet>>

CommitFails(p) ==
  /\ pc[p] = "commit" /\ todo[p] # {}
  /\ todo' = [todo EXCEPT ![p] = @ \ {Min(@)}]
  /\ failed' = [failed EXCEPT ![p] = TRUE]
  /\ FilesUnchanged
  /\ UNCHANGED <<rows, pc, asked, reviewed, plan, staged, cause, result>>

Committed(p) ==
  /\ Goto(p, "commit", "done") /\ todo[p] = {}
  /\ End(p, IF failed[p] THEN "incomplete" ELSE "ok")
  /\ FilesUnchanged
  /\ UNCHANGED <<rows, asked, reviewed, plan, todo, staged, failed, cause>>

\* The timeout of the app, or the end of the system, kills the process.
Kill(p) ==
  /\ pc[p] \notin {"idle", "done", "dead"}
  /\ pc' = [pc EXCEPT ![p] = "dead"]
  /\ FilesUnchanged
  /\ UNCHANGED <<rows, asked, reviewed, plan, todo, staged, failed, cause, result>>

-----------------------------------------------------------------------------
(* Everybody else.                                                         *)

OutsideOnly ==
  UNCHANGED <<backup, pc, asked, reviewed, plan, todo, staged, failed, cause,
              result, before>>

\* The user, an agent or a package manager takes an entry away or makes one;
\* a change inside a directory is the one and the other.
Edit(s, entry) ==
  /\ edits < MaxEdits /\ edits' = edits + 1
  /\ entry # Nothing => fs[s].kind \in {"none", entry.kind}
  /\ entry # fs[s] /\ fs' = [fs EXCEPT ![s] = entry]
  /\ alive' = (IF fs[s].kind = "dir" THEN alive \ {fs[s].rev} ELSE alive)
              \cup (IF entry.kind = "dir" THEN {entry.rev} ELSE {})
  /\ quiet' = [p \in Procs |-> FALSE]
  /\ OutsideOnly /\ UNCHANGED rows

\* Another request of the service scans.
OtherScan(a) ==
  /\ ScanAgent(a)
  /\ OutsideOnly /\ UNCHANGED <<fs, edits, alive, quiet>>

NoRow == [state |-> "none", at |-> 0]

\* The app has scanned what is there.
RemovalInit ==
  /\ fs \in InitialFs
  /\ backup = [p \in Procs |-> [s \in Slots |-> Nothing]]
  /\ rows = [a \in Agents |-> [c \in Slots |->
       IF \E s \in Slots : <<c, s>> \in Seen(a, Range(Order[a]))
       THEN RowOf(a, c, Range(Order[a])) ELSE NoRow]]
  /\ pc = [p \in Procs |-> "idle"]
  /\ asked = [p \in Procs |-> [agents |-> {}, ids |-> {}]]
  /\ reviewed = [p \in Procs |-> NoPlan] /\ plan = [p \in Procs |-> NoPlan]
  /\ todo = [p \in Procs |-> {}] /\ staged = [p \in Procs |-> {}]
  /\ failed = [p \in Procs |-> FALSE]
  /\ cause = [p \in Procs |-> "none"] /\ result = [p \in Procs |-> "none"]
  /\ edits = 0 /\ alive = {fs[s].rev : s \in {t \in Slots : fs[t].kind = "dir"}}
  /\ before = [p \in Procs |-> fs] /\ quiet = [p \in Procs |-> FALSE]

RemovalStep(p) ==
  \/ Preview(p) \/ Apply(p) \/ Recheck(p)
  \/ StageMove(p) \/ StageFails(p) \/ CheckStaged(p) \/ AllStaged(p)
  \/ Scan(p) \/ ScanFails(p) \/ Verify(p)
  \/ RollbackCheck(p) \/ Restore(p) \/ RestoreFails(p) \/ RolledBack(p)
  \/ Rescan(p) \/ RescanEnds(p)
  \/ Commit(p) \/ CommitFails(p) \/ Committed(p) \/ Kill(p)

RemovalNext ==
  \/ \E p \in Procs : RemovalStep(p)
  \/ \E s \in Slots : Edit(s, Nothing)
  \/ \E s \in Slots : Edit(s, DirEntry(Stamp))
  \/ \E s \in Slots, t \in Slots : s # t /\ Edit(s, LinkEntry(t, Stamp))
  \/ \E a \in Agents : OtherScan(a)

RemovalSpec == RemovalInit /\ [][RemovalNext]_removalVars

-----------------------------------------------------------------------------
(* Properties.                                                             *)

PlanOK(r) == /\ DOMAIN r.targets \subseteq Slots
             /\ \A s \in DOMAIN r.targets : r.targets[s] \in Entries
             /\ r.keep \subseteq Slots /\ r.ids \subseteq Agents \X Slots

\* Every variable keeps to its values, what is in a backup was staged, and a
\* process in a loop over targets handles its own (stage_physical_removals,
\* rollback_staged_removals, commit_staged_removals).
RemovalTypeOK ==
  /\ fs \in [Slots -> Entries]
  /\ backup \in [Procs -> [Slots -> Entries]]
  /\ rows \in [Agents -> RowsOfAgent]
  /\ asked \in [Procs -> [agents : SUBSET Agents, ids : SUBSET (Agents \X Slots)]]
  /\ \A p \in Procs : reviewed[p] # NoPlan => PlanOK(reviewed[p])
  /\ \A p \in Procs : plan[p] # NoPlan => PlanOK(plan[p])
  /\ \A p \in Procs : plan[p] # NoPlan => staged[p] \subseteq Targets(p)
  /\ \A p \in Procs, s \in Slots : backup[p][s] # Nothing => s \in staged[p]
  /\ \A p \in Procs : pc[p] \in {"rollback", "restore", "commit"} => todo[p] \subseteq staged[p]
  /\ failed \in [Procs -> BOOLEAN] /\ quiet \in [Procs -> BOOLEAN]
  /\ result \in [Procs -> {"none", "ok", "refused", "incomplete"}]
  /\ edits \in 0 .. MaxEdits /\ alive \subseteq Revs

Holds(f, rev) == \E s \in Slots : f[s].kind = "dir" /\ f[s].rev = rev

\* A directory of the user that nobody meant to delete is at a slot or in a
\* backup, whatever is edited, renamed or killed in between: only what the
\* preview showed is ever deleted (stage_physical_removals checks the moved
\* entry once more, rollback_staged_removals keeps what it cannot restore).
NothingLost ==
  \A rev \in alive : Holds(fs, rev) \/ \E p \in Procs : Holds(backup[p], rev)

\* An answer other than "incomplete" leaves no backup behind, and a removal
\* nobody disturbed has taken all its targets or, with every failure rolled
\* back, none (apply_physical_remove).
AllOrNothing ==
  \A p \in Procs : pc[p] = "done" =>
    /\ result[p] # "incomplete" => \A s \in Slots : backup[p][s] = Nothing
    /\ quiet[p] /\ result[p] = "ok" =>
         fs = [s \in Slots |-> IF s \in Targets(p) THEN Nothing ELSE before[p][s]]
    /\ quiet[p] /\ result[p] # "ok" /\ ~failed[p] => fs = before[p]

\* When an undisturbed removal succeeds, the selected agents find the skill
\* nowhere and the others still find it (validate_selected_targets_are_effective,
\* validate_and_collect_preserved_paths and the final verification).
OnlySelectedLoseIt ==
  \A p \in Procs : pc[p] = "done" /\ quiet[p] /\ result[p] = "ok" =>
    /\ \A a \in asked[p].agents : \A s \in Range(Order[a]) : ~Resolves(fs, s)
    /\ \A id \in asked[p].ids : id[1] \notin asked[p].agents =>
         \E s \in Range(Order[id[1]]) : Resolves(fs, s)
=============================================================================
