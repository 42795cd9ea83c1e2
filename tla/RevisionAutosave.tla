-------------------------- MODULE RevisionAutosave --------------------------
(***************************************************************************)
(* RevisionAutosaveCoordinator (RevisionAutosaveCoordinator.swift): edits  *)
(* are debounced, saved one at a time, and an edit that arrives during a   *)
(* save waits for its end.  All code runs on the main actor; an action is  *)
(* the code between two suspensions.  The save itself is the caller's: a   *)
(* worker may end at any time after its start, with any outcome.           *)
(***************************************************************************)
EXTENDS Naturals

CONSTANTS Values,       \* what is saved
          NoValue,
          Flushers,     \* tasks that call flush()
          MaxRevision   \* bound: revisions submitted
ASSUME MaxRevisionAssumption == MaxRevision \in Nat

VARIABLES
  nextRevision,
  pending,    \* the submitted value that no worker has taken
  timer,      \* the revision of debounceTask, 0 for nil
  active,     \* what the worker saves; its revision is activeRevision
  phase,
  flushing,   \* the worker each flush awaits, 0 outside flush
  finished    \* ghost: the last revision whose worker ended

autosaveVars == <<nextRevision, pending, timer, active, phase, flushing,
                  finished>>

Nothing == [rev |-> 0, value |-> NoValue]
Drafts  == [rev : Nat \ {0}, value : Values] \cup {Nothing}

Outcomes == {"succeeded", "failed", "cancelled"}
Idle         == [kind |-> "idle", rev |-> 0]
Debouncing(r) == [kind |-> "debouncing", rev |-> r]
Saving(r)     == [kind |-> "saving", rev |-> r]
AfterSave(r)  == [kind |-> "pendingAfterSave", rev |-> r]
Failed(r)     == [kind |-> "failed", rev |-> r]
Phases == [kind : {"idle", "debouncing", "saving", "pendingAfterSave",
                   "failed"}, rev : Nat]

\* Every variable keeps to the values the coordinator can give it.
AutosaveTypeOK ==
  /\ nextRevision \in Nat
  /\ pending \in Drafts
  /\ timer \in Nat
  /\ active \in Drafts
  /\ phase \in Phases
  /\ flushing \in [Flushers -> Nat]
  /\ finished \in Nat

AutosaveInit ==
  /\ nextRevision = 0
  /\ pending = Nothing
  /\ timer = 0
  /\ active = Nothing
  /\ phase = Idle
  /\ flushing = [f \in Flushers |-> 0]
  /\ finished = 0

HasActiveSave == active.rev # 0
HasPending    == pending.rev # 0

\* publishPhaseWithoutPending
WithoutPending == IF HasActiveSave THEN Saving(active.rev) ELSE Idle

\* Mutant of SubmitValid: during a save the new revision gets a timer too.
SubmitAlwaysDebounces(v) ==
  /\ nextRevision < MaxRevision
  /\ nextRevision' = nextRevision + 1
  /\ pending' = [rev |-> nextRevision', value |-> v]
  /\ timer' = nextRevision'
  /\ phase' = Debouncing(nextRevision')
  /\ UNCHANGED <<active, flushing, finished>>

\* submit of a valid value replaces the pending one and its timer.
SubmitValid(v) ==
  /\ nextRevision < MaxRevision
  /\ nextRevision' = nextRevision + 1
  /\ pending' = [rev |-> nextRevision', value |-> v]
  /\ \/ /\ HasActiveSave
        /\ timer' = 0
        /\ phase' = AfterSave(nextRevision')
     \/ /\ ~HasActiveSave
        /\ timer' = nextRevision'
        /\ phase' = Debouncing(nextRevision')
  /\ UNCHANGED <<active, flushing, finished>>

\* submit of an invalid value: the older value is not saved either.
SubmitInvalid ==
  /\ nextRevision < MaxRevision
  /\ nextRevision' = nextRevision + 1
  /\ timer' = 0
  /\ pending' = Nothing
  /\ phase' = WithoutPending
  /\ UNCHANGED <<active, flushing, finished>>

CancelPendingDebounce ==
  /\ timer' = 0
  /\ pending' = Nothing
  /\ phase' = WithoutPending
  /\ UNCHANGED <<nextRevision, active, flushing, finished>>

\* startWorker, on what was pending.
StartWorker ==
  /\ active' = pending
  /\ pending' = Nothing
  /\ phase' = Saving(pending.rev)

\* The sleep is over and its task was not cancelled.  (A timer never runs
\* while a save is active: see Served.)
DebounceElapsed ==
  /\ timer # 0 /\ pending.rev = timer
  /\ ~HasActiveSave
  /\ timer' = 0
  /\ StartWorker
  /\ UNCHANGED <<nextRevision, flushing, finished>>

\* Mutant of UpdatePendingValue: the check for a pending value is missing.
UpdateUnguarded(v) == [pending EXCEPT !.value = v]

\* updatePendingValue: its result when it rewrites a pending value to v.
UpdatePendingValue(v) ==
  IF HasPending THEN [pending EXCEPT !.value = v] ELSE pending

\* Mutants of WorkerFinished: what was submitted meanwhile gets no timer; the
\* active revision is not reset.
FinishedWithoutTimer(outcome, v) ==
  /\ HasActiveSave
  /\ active' = Nothing
  /\ finished' = active.rev
  /\ pending' = UpdatePendingValue(v)
  /\ phase' = IF outcome # "failed" THEN Idle ELSE Failed(active.rev)
  /\ UNCHANGED <<nextRevision, timer, flushing>>
FinishedStaysActive(outcome, v) ==
  /\ HasActiveSave
  /\ finished' = active.rev
  /\ phase' = WithoutPending
  /\ UNCHANGED <<nextRevision, pending, timer, active, flushing>>

\* The worker ends.  The owner's completion may rewrite the pending value;
\* what is pending is debounced from now on.
WorkerFinished(outcome, v) ==
  /\ HasActiveSave
  /\ active' = Nothing
  /\ finished' = active.rev
  /\ pending' = UpdatePendingValue(v)
  /\ \/ /\ HasPending
        /\ timer' = pending.rev
        /\ phase' = Debouncing(pending.rev)
     \/ /\ ~HasPending
        /\ phase' = IF outcome # "failed" THEN Idle ELSE Failed(active.rev)
        /\ UNCHANGED timer
  /\ UNCHANGED <<nextRevision, flushing>>

\* One turn of the loop in flush(): stop the timer, start what is pending if
\* nothing runs, then await the running worker, or return if there is none.
FlushLoop(f) ==
  /\ timer' = 0
  /\ \/ /\ ~HasActiveSave /\ HasPending
        /\ StartWorker
        /\ flushing' = [flushing EXCEPT ![f] = pending.rev]
     \/ /\ HasActiveSave
        /\ flushing' = [flushing EXCEPT ![f] = active.rev]
        /\ UNCHANGED <<pending, active, phase>>
     \/ /\ ~HasActiveSave /\ ~HasPending
        /\ flushing' = [flushing EXCEPT ![f] = 0]
        /\ UNCHANGED <<pending, active, phase>>
  /\ UNCHANGED <<nextRevision, finished>>

Flush(f) == flushing[f] = 0 /\ FlushLoop(f)

\* The awaited worker has ended.
FlushResumes(f) ==
  /\ flushing[f] # 0 /\ flushing[f] # active.rev
  /\ FlushLoop(f)

AutosaveNext ==
  \/ \E v \in Values : SubmitValid(v)
  \/ SubmitInvalid \/ CancelPendingDebounce
  \/ DebounceElapsed
  \/ \E o \in Outcomes, v \in Values : WorkerFinished(o, v)
  \/ \E f \in Flushers : Flush(f) \/ FlushResumes(f)

AutosaveSpec == AutosaveInit /\ [][AutosaveNext]_autosaveVars

\* A sleep ends, a save ends (its service calls have timeouts), and what the
\* end of a worker resumes is run.
AutosaveFairSpec ==
  /\ AutosaveSpec
  /\ WF_autosaveVars(DebounceElapsed)
  /\ WF_autosaveVars(\E o \in Outcomes, v \in Values : WorkerFinished(o, v))
  /\ \A f \in Flushers : WF_autosaveVars(FlushResumes(f))
-----------------------------------------------------------------------------
(* Properties.                                                             *)

\* What is pending is the newest revision and somebody will take it: the
\* running worker's end or the timer, and never both.  After any order of
\* edits, cancellations, flushes and ends no draft is left without either.
Served ==
  /\ HasPending => /\ pending.rev = nextRevision
                   /\ HasActiveSave \/ timer = pending.rev
  /\ timer # 0 => timer = pending.rev /\ ~HasActiveSave

\* The published phase, which the editor shows, tells what is going on: it is
\* never "idle" or "saved" while a draft is waiting, and names the revision.
PhaseTruth ==
  /\ HasPending /\ HasActiveSave => phase = AfterSave(pending.rev)
  /\ HasPending /\ ~HasActiveSave => phase = Debouncing(pending.rev)
  /\ ~HasPending /\ HasActiveSave => phase = Saving(active.rev)
  /\ ~HasPending /\ ~HasActiveSave => phase \in {Idle, Failed(finished)}

\* Every revision in the coordinator is newer than those already saved, and
\* the pending one is newer than the one being saved.
RevisionsInOrder ==
  /\ HasActiveSave => finished < active.rev /\ active.rev <= nextRevision
  /\ HasPending => finished < pending.rev
  /\ HasPending /\ HasActiveSave => active.rev < pending.rev
  /\ finished <= nextRevision

\* No draft is stranded or saved out of order, and the editor is told the truth.
AutosaveSafe == Served /\ PhaseTruth /\ RevisionsInOrder

\* A worker is started only when none runs, and only on the newest revision:
\* a superseded draft is never saved, and no revision is saved twice.
SavesNewest ==
  [][active' # active /\ active'.rev # 0
     => active.rev = 0 /\ active'.rev = nextRevision
        /\ finished < active'.rev]_autosaveVars

\* A flush returns, however its waits interleave with edits, timers and other
\* flushes, once the edits cease.
FlushReturns == \A f \in Flushers : flushing[f] # 0 ~> flushing[f] = 0

\* The coordinator implements the slot of LatestSlot, and takes what is in it.
Slot == INSTANCE LatestSlot WITH slot <- pending.rev, saving <- active.rev,
          latest <- nextRevision, saved <- finished
SlotSafe == Slot!Safe
SlotSpec == Slot!Spec
=============================================================================
