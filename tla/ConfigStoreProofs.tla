-------------------------- MODULE ConfigStoreProofs --------------------------
(***************************************************************************)
(* Proofs about ConfigStore, for every set of processes, skills and texts. *)
(* The argument: the lock is held by exactly the process between           *)
(* lock_config and unlock (LockInv), so between its locked read and its    *)
(* rename no other process renames; hence the file is what it read, unless *)
(* another program, which takes no lock, has written last (WindowInv).     *)
(***************************************************************************)
EXTENDS ConfigStore, TLAPS

IInv == TypeOK /\ LockInv /\ WindowInv

\* What the text helpers return is again a text; what is stored in a file is
\* a file (config_revision, redact_snapshot_content, patch_enabled).
LEMMA TextFacts ==
  /\ EmptyText \in Texts
  /\ Missing \in Files
  /\ \A t \in Texts : /\ Written(t) \in Files
                      /\ Redact(t) \in Texts
                      /\ \A S \in SUBSET Skills, b \in BOOLEAN :
                           Patch(t, S, b) \in Texts
  /\ \A f \in Files : f.text \in Texts /\ Overrides(f) \subseteq Skills
  /\ SaveTexts \subseteq Texts /\ EditTexts \subseteq Texts
<1>1. EmptyText \in Texts
  BY DEF EmptyText, Texts
<1>2. Missing \in Files /\ \A t \in Texts : Written(t) \in Files
  BY DEF Files
<1>3. ASSUME NEW t \in Texts PROVE Redact(t) \in Texts
  BY DEF Redact, Texts
<1>4. ASSUME NEW t \in Texts, NEW S \in SUBSET Skills, NEW b \in BOOLEAN
      PROVE  Patch(t, S, b) \in Texts
  BY BodiesAssumption DEF Patch, Texts, EmptyBody
<1>5. ASSUME NEW f \in Files PROVE f.text \in Texts
  BY <1>1 DEF Files, Missing, Written
<1>6. ASSUME NEW f \in Files PROVE Overrides(f) \subseteq Skills
  BY <1>5 DEF Overrides, Texts
<1>7. SaveTexts \subseteq Texts /\ EditTexts \subseteq Texts
  BY TextsAssumption
<1> QED
  BY <1>1, <1>2, <1>3, <1>4, <1>5, <1>6, <1>7

\* The end of a request keeps its local values typed.
LEMMA LeaveKeepsType ==
  ASSUME LocalOK, issued' = issued, NEW p \in Procs, Leave(p)
  PROVE  LocalOK'
BY TextFacts DEF LocalOK, Leave, Goto, Labels, Resting, Kinds

\* An error return or a kill keeps every value typed.
LEMMA FailKeepsType ==
  ASSUME TypeOK, NEW p \in Procs, Fail(p)
  PROVE  TypeOK'
<1>1. LocalOK'
  BY LeaveKeepsType DEF Fail, TypeOK
<1>2. SharedOK'
  BY DEF Fail, Release, TypeOK, SharedOK
<1> QED
  BY <1>1, <1>2 DEF TypeOK

\* The initial states are typed: a first start finds a file or none.
THEOREM TypeInitially == Init => TypeOK
<1> SUFFICES ASSUME Init PROVE TypeOK
  OBVIOUS
<1>1. SharedOK
  BY TextFacts DEF Init, SharedOK
<1>2. LocalOK
  BY TextFacts DEF Init, LocalOK, Labels, Resting, Kinds
<1> QED
  BY <1>1, <1>2 DEF TypeOK

\* What a client does keeps every value typed.
LEMMA SubmitKeepsType ==
  ASSUME TypeOK, NEW p \in Procs, Submit(p)
  PROVE  TypeOK'
<1> USE DEF TypeOK, SharedOK, LocalOK, shared, Start, Goto, Labels, Resting,
            Kinds, Revision
<1>1. CASE ReviewConfig(p)
  BY <1>1 DEF ReviewConfig
<1>2. CASE PreviewRollback(p)
  BY <1>2 DEF PreviewRollback
<1>3. CASE SubmitSave(p)
  BY <1>3, TextFacts DEF SubmitSave
<1>4. CASE SubmitRollback(p)
  BY <1>4 DEF SubmitRollback, locals
<1>5. CASE SubmitToggle(p)
  BY <1>5 DEF SubmitToggle
<1>6. CASE SubmitScan(p)
  BY <1>6 DEF SubmitScan
<1> QED
  BY <1>1, <1>2, <1>3, <1>4, <1>5, <1>6 DEF Submit

\* Each step of a request keeps every value typed.
LEMMA StepKeepsType ==
  ASSUME TypeOK, NEW p \in Procs, Step(p)
  PROVE  TypeOK'
<1>1. CASE Preflight(p)
  <2>1. CASE Fail(p)
    BY <2>1, FailKeepsType
  <2>2. CASE Goto(p, "lock") /\ UNCHANGED <<shared, issued, locals>>
    BY <2>2 DEF TypeOK, SharedOK, LocalOK, shared, locals, Goto, Labels
  <2> QED
    BY <1>1, <2>1, <2>2 DEF Preflight
<1>2. CASE AcquireLock(p)
  BY <1>2 DEF AcquireLock, TypeOK, SharedOK, LocalOK, locals, Goto, Labels,
              Holding
<1>3. CASE LockedRead(p)
  <2>1. CASE Fail(p)
    BY <2>1, FailKeepsType
  <2>2. CASE ~Fail(p)
    BY <1>3, <2>2 DEF LockedRead, TypeOK, SharedOK, LocalOK, shared, Goto,
                      Labels, Holding
  <2> QED
    BY <2>1, <2>2
<1>4. CASE TakeSnapshot(p)
  <2>1. cur[p].text \in Texts /\ Redact(cur[p].text) \in Texts
    BY TextFacts DEF TypeOK, LocalOK
  <2>2. SharedOK'
    BY <1>4, <2>1 DEF TakeSnapshot, Release, TypeOK, SharedOK
  <2>3. CASE Leave(p)
    BY <1>4, <2>2, <2>3, LeaveKeepsType DEF TakeSnapshot, TypeOK
  <2>4. CASE ~Leave(p)
    <3>1. NewText(p) \in Texts
      BY <2>1, TextFacts DEF NewText, TypeOK, LocalOK
    <3>2. LocalOK'
      BY <1>4, <2>4, <3>1 DEF TakeSnapshot, TypeOK, LocalOK, Goto, Labels,
                              Holding
    <3> QED
      BY <2>2, <3>2 DEF TypeOK
  <2> QED
    BY <2>3, <2>4
<1>5. CASE SnapshotFails(p) \/ WriteFails(p) \/ VerifyGone(p) \/ RestoreFails(p)
  BY <1>5, FailKeepsType DEF SnapshotFails, WriteFails, VerifyGone, RestoreFails
<1>6. CASE RenameIntoPlace(p)
  <2>1. Written(want[p]) \in Files
    BY TextFacts DEF TypeOK, LocalOK
  <2> QED
    BY <1>6, <2>1 DEF RenameIntoPlace, Replace, TypeOK, SharedOK, LocalOK,
                      locals, Goto, Labels, Holding
<1>7. CASE Verify(p)
  BY <1>7 DEF Verify, Release, TypeOK, SharedOK, LocalOK, Goto, Labels
<1>8. CASE VerifyFails(p)
  BY <1>8 DEF VerifyFails, TypeOK, SharedOK, LocalOK, shared, locals, Goto,
              Labels, Holding
<1>9. CASE Restore(p)
  <2>1. Written(cur[p].text) \in Files
    BY TextFacts DEF TypeOK, LocalOK
  <2>2. LocalOK'
    BY <1>9, LeaveKeepsType DEF Restore, TypeOK
  <2>3. SharedOK'
    BY <1>9, <2>1 DEF Restore, Replace, Release, TypeOK, SharedOK
  <2> QED
    BY <2>2, <2>3 DEF TypeOK
<1>10. CASE UpdateCatalog(p)
  <2>1. SharedOK'
    BY <1>10 DEF UpdateCatalog, TypeOK, SharedOK, LocalOK
  <2>2. CASE Leave(p)
    BY <1>10, <2>1, <2>2, LeaveKeepsType DEF UpdateCatalog, TypeOK
  <2>3. CASE ~Leave(p)
    BY <1>10, <2>1, <2>3 DEF UpdateCatalog, TypeOK, LocalOK
  <2> QED
    BY <2>2, <2>3
<1>11. CASE ScanRead(p)
  BY <1>11, TextFacts DEF ScanRead, TypeOK, SharedOK, LocalOK, shared, Goto,
                          Labels
<1>12. CASE ScanUpsert(p)
  <2>1. SharedOK'
    BY <1>12 DEF ScanUpsert, TypeOK, SharedOK
  <2>2. CASE Leave(p)
    BY <1>12, <2>1, <2>2, LeaveKeepsType DEF ScanUpsert, TypeOK
  <2>3. CASE ~Leave(p)
    BY <1>12, <2>1, <2>3 DEF ScanUpsert, TypeOK, LocalOK, Goto, Labels
  <2> QED
    BY <2>2, <2>3
<1>13. CASE SaveReply(p)
  BY <1>13, TextFacts DEF SaveReply, TypeOK, SharedOK, LocalOK, shared, Goto,
                          Labels, Resting, Revision
<1> QED
  BY <1>1, <1>2, <1>3, <1>4, <1>5, <1>6, <1>7, <1>8, <1>9, <1>10, <1>11, <1>12,
     <1>13 DEF Step

\* Every step, an outside edit included, keeps every value typed.
LEMMA NextKeepsType ==
  ASSUME TypeOK, [Next]_vars
  PROVE  TypeOK'
<1>1. ASSUME NEW p \in Procs, Submit(p) PROVE TypeOK'
  BY <1>1, SubmitKeepsType
<1>2. ASSUME NEW p \in Procs, Step(p) PROVE TypeOK'
  BY <1>2, StepKeepsType
<1>3. ASSUME NEW p \in Procs, Kill(p) PROVE TypeOK'
  BY <1>3, FailKeepsType DEF Kill
<1>4. CASE ForeignEdit
  BY <1>4, TextFacts DEF ForeignEdit, TypeOK, SharedOK, LocalOK, locals
<1>5. CASE UNCHANGED vars
  BY <1>5 DEF TypeOK, SharedOK, LocalOK, vars, shared, locals
<1> QED
  BY <1>1, <1>2, <1>3, <1>4, <1>5 DEF Next

\* Every reachable state is well typed: no sequence of requests, kills and
\* outside edits leaves a file that has a text but does not exist.
THEOREM TypeCorrect == Spec => []TypeOK
BY TypeInitially, NextKeepsType, PTL DEF Spec

-----------------------------------------------------------------------------
(* What one step of p does to the lock, the file and the other processes.  *)

OthersKept(p) == \A q \in Procs \ {p} : /\ pc'[q] = pc[q]
                                        /\ cur'[q] = cur[q]
                                        /\ want'[q] = want[q]

LockMoves(p) == /\ pc'[p] \in Holding <=> lock' = p
                /\ \A q \in Procs \ {p} : lock' = q <=> lock = q

FileKept(p) == pc[p] \notin Holding => UNCHANGED <<file, writer>>

Effect(p) == OthersKept(p) /\ LockMoves(p) /\ FileKept(p) /\ WindowOf(p)'

\* The end of a request touches only the process's own entries.
LEMMA LeaveEffect ==
  ASSUME TypeOK, LockInv, NEW p \in Procs, Leave(p), Release(p)
  PROVE  /\ OthersKept(p) /\ LockMoves(p) /\ WindowOf(p)'
         /\ pc'[p] = "idle"
<1>1. pc'[p] = "idle"
  BY DEF TypeOK, LocalOK, Leave, Goto
<1>2. OthersKept(p)
  BY DEF TypeOK, LocalOK, Leave, Goto, OthersKept
<1>3. LockMoves(p)
  BY <1>1, ProcsAssumption DEF Release, LockMoves, LockInv, Holding
<1>4. WindowOf(p)'
  BY <1>1 DEF WindowOf
<1> QED
  BY <1>1, <1>2, <1>3, <1>4

\* An error return has an effect of the allowed form: it gives the lock back
\* and leaves the file alone.
LEMMA FailEffect ==
  ASSUME TypeOK, LockInv, NEW p \in Procs, Fail(p)
  PROVE  Effect(p)
<1>1. Leave(p) /\ Release(p) /\ UNCHANGED <<file, writer>>
  BY DEF Fail
<1>2. FileKept(p)
  BY <1>1 DEF FileKept
<1> QED
  BY <1>1, <1>2, LeaveEffect DEF Effect

\* What a client does has an effect of the allowed form.
LEMMA SubmitEffect ==
  ASSUME IInv, NEW p \in Procs, Submit(p)
  PROVE  Effect(p)
<1> USE DEF Effect, OthersKept, LockMoves, FileKept, WindowOf, IInv, TypeOK,
            LocalOK, LockInv, Goto, Holding, shared
<1>1. CASE ReviewConfig(p)
  BY <1>1 DEF ReviewConfig
<1>2. CASE PreviewRollback(p)
  BY <1>2 DEF PreviewRollback
<1>3. CASE SubmitSave(p)
  BY <1>3 DEF SubmitSave
<1>4. CASE SubmitRollback(p)
  BY <1>4 DEF SubmitRollback, locals
<1>5. CASE SubmitToggle(p)
  BY <1>5 DEF SubmitToggle
<1>6. CASE SubmitScan(p)
  BY <1>6 DEF SubmitScan
<1> QED
  BY <1>1, <1>2, <1>3, <1>4, <1>5, <1>6 DEF Submit

\* Each step of a request has an effect of the allowed form: it changes the
\* file only under the lock, and the lock only as its own program counter does.
LEMMA StepEffect ==
  ASSUME IInv, NEW p \in Procs, Step(p)
  PROVE  Effect(p)
<1>a. TypeOK /\ LockInv /\ WindowOf(p)
  BY DEF IInv, WindowInv
<1>1. CASE Preflight(p)
  <2>1. CASE Fail(p)
    BY <1>a, <2>1, FailEffect
  <2>2. CASE ~Fail(p)
    BY <1>1, <1>a, <2>2 DEF Preflight, Effect, OthersKept, LockMoves, FileKept,
       WindowOf, TypeOK, LocalOK, LockInv, Goto, Holding, shared, locals
  <2> QED
    BY <2>1, <2>2
<1>2. CASE AcquireLock(p)
  BY <1>2, <1>a, ProcsAssumption DEF AcquireLock, Effect, OthersKept, LockMoves,
     FileKept, WindowOf, TypeOK, LocalOK, LockInv, Goto, Holding, locals
<1>3. CASE LockedRead(p)
  <2>1. CASE Fail(p)
    BY <1>a, <2>1, FailEffect
  <2>2. CASE ~Fail(p)
    BY <1>3, <1>a, <2>2 DEF LockedRead, Effect, OthersKept, LockMoves, FileKept,
       WindowOf, TypeOK, LocalOK, LockInv, Goto, Holding, shared
  <2> QED
    BY <2>1, <2>2
<1>4. CASE TakeSnapshot(p)
  <2>1. CASE Leave(p) /\ Release(p)
    BY <1>4, <1>a, <2>1, LeaveEffect DEF TakeSnapshot, Effect, FileKept
  <2>2. CASE ~(Leave(p) /\ Release(p))
    BY <1>4, <1>a, <2>2 DEF TakeSnapshot, Effect, OthersKept, LockMoves,
       FileKept, WindowOf, TypeOK, LocalOK, LockInv, Goto, Holding
  <2> QED
    BY <2>1, <2>2
<1>5. CASE SnapshotFails(p) \/ WriteFails(p) \/ VerifyGone(p) \/ RestoreFails(p)
  BY <1>5, <1>a, FailEffect
     DEF SnapshotFails, WriteFails, VerifyGone, RestoreFails
<1>6. CASE RenameIntoPlace(p)
  BY <1>6, <1>a DEF RenameIntoPlace, Replace, Effect, OthersKept, LockMoves,
     FileKept, WindowOf, TypeOK, LocalOK, LockInv, Goto, Holding, locals
<1>7. CASE Verify(p)
  BY <1>7, <1>a, ProcsAssumption DEF Verify, Release, Effect, OthersKept,
     LockMoves, FileKept, WindowOf, TypeOK, LocalOK, LockInv, Goto, Holding
<1>8. CASE VerifyFails(p)
  <2>1. file # Written(want[p])
    BY <1>8 DEF VerifyFails, Written
  <2> QED
    BY <1>8, <1>a, <2>1 DEF VerifyFails, Effect, OthersKept, LockMoves,
       FileKept, WindowOf, TypeOK, LocalOK, LockInv, Goto, Holding, shared,
       locals
<1>9. CASE Restore(p)
  <2>1. Leave(p) /\ Release(p) /\ pc[p] \in Holding
    BY <1>9 DEF Restore, Holding
  <2> QED
    BY <1>a, <2>1, LeaveEffect DEF Effect, FileKept
<1>10. CASE UpdateCatalog(p)
  <2>1. UNCHANGED <<file, writer, lock>> /\ pc[p] \notin Holding
    BY <1>10 DEF UpdateCatalog, Holding
  <2>2. CASE Leave(p)
    <3>1. Release(p)
      BY <1>a, <2>1 DEF Release, LockInv
    <3> QED
      BY <1>a, <2>1, <2>2, <3>1, LeaveEffect DEF Effect, FileKept
  <2>3. CASE ~Leave(p)
    BY <1>10, <1>a, <2>1, <2>3 DEF UpdateCatalog, Effect, OthersKept,
       LockMoves, FileKept, WindowOf, TypeOK, LocalOK, LockInv
  <2> QED
    BY <2>2, <2>3
<1>11. CASE ScanRead(p)
  BY <1>11, <1>a DEF ScanRead, Effect, OthersKept, LockMoves, FileKept,
     WindowOf, TypeOK, LocalOK, LockInv, Goto, Holding, shared
<1>12. CASE ScanUpsert(p)
  <2>1. UNCHANGED <<file, writer, lock>> /\ pc[p] \notin Holding
    BY <1>12 DEF ScanUpsert, Holding
  <2>2. CASE Leave(p)
    <3>1. Release(p)
      BY <1>a, <2>1 DEF Release, LockInv
    <3> QED
      BY <1>a, <2>1, <2>2, <3>1, LeaveEffect DEF Effect, FileKept
  <2>3. CASE ~Leave(p)
    <3>1. \E l \in {"reply", "upsert"} : Goto(p, l)
      BY <1>12, <2>3 DEF ScanUpsert
    <3>2. UNCHANGED <<cur, want>>
      BY <1>12, <2>3 DEF ScanUpsert
    <3> QED
      BY <1>a, <2>1, <3>1, <3>2 DEF Effect, OthersKept, LockMoves, FileKept,
         WindowOf, TypeOK, LocalOK, LockInv, Goto, Holding
  <2> QED
    BY <2>2, <2>3
<1>13. CASE SaveReply(p)
  BY <1>13, <1>a DEF SaveReply, Effect, OthersKept, LockMoves, FileKept,
     WindowOf, TypeOK, LocalOK, LockInv, Goto, Holding, shared
<1> QED
  BY <1>1, <1>2, <1>3, <1>4, <1>5, <1>6, <1>7, <1>8, <1>9, <1>10, <1>11, <1>12,
     <1>13 DEF Step

\* An effect of the allowed form keeps the lock and window invariants, for the
\* process that moves and for all others.
LEMMA EffectKeepsInv ==
  ASSUME IInv, NEW p \in Procs, Effect(p)
  PROVE  LockInv' /\ WindowInv'
<1>1. LockInv'
  BY DEF IInv, Effect, OthersKept, LockMoves, LockInv
<1>2. ASSUME NEW q \in Procs PROVE WindowOf(q)'
  <2>1. CASE q = p
    BY <2>1 DEF Effect
  <2>2. CASE q # p /\ pc[q] \notin Holding
    BY <2>2 DEF Effect, OthersKept, WindowOf, Holding
  <2>3. CASE q # p /\ pc[q] \in Holding
    <3>1. pc[p] \notin Holding
      BY <2>3 DEF IInv, LockInv
    <3>2. UNCHANGED <<file, writer>> /\ WindowOf(q)
      BY <3>1 DEF Effect, FileKept, IInv, WindowInv
    <3> QED
      BY <2>3, <3>2 DEF Effect, OthersKept, WindowOf
  <2> QED
    BY <2>1, <2>2, <2>3
<1> QED
  BY <1>1, <1>2 DEF WindowInv

\* The invariant is inductive.
LEMMA NextKeepsInv ==
  ASSUME IInv, [Next]_vars
  PROVE  IInv'
<1>1. TypeOK'
  BY NextKeepsType DEF IInv
<1>2. ASSUME NEW p \in Procs, Submit(p) \/ Step(p) \/ Kill(p)
      PROVE  LockInv' /\ WindowInv'
  <2>1. Effect(p)
    BY <1>2, SubmitEffect, StepEffect, FailEffect DEF Kill, IInv
  <2> QED
    BY <2>1, EffectKeepsInv
<1>3. CASE ForeignEdit
  BY <1>1, <1>3 DEF ForeignEdit, IInv, LockInv, WindowInv, WindowOf, locals
<1>4. CASE UNCHANGED vars
  BY <1>1, <1>4 DEF IInv, LockInv, WindowInv, WindowOf, vars, shared, locals
<1> QED
  BY <1>1, <1>2, <1>3, <1>4 DEF Next, IInv

\* It holds when no request has started.
LEMMA InvInitially == Init => IInv
<1> SUFFICES ASSUME Init PROVE IInv
  OBVIOUS
<1>1. TypeOK
  BY TypeInitially
<1>2. LockInv /\ WindowInv
  BY ProcsAssumption DEF Init, LockInv, WindowInv, WindowOf, Holding
<1> QED
  BY <1>1, <1>2 DEF IInv

\* The config lock is held by exactly the process between lock_config and
\* unlock, whatever fails or is killed.
THEOREM LockHeldExactly == Spec => []LockInv
<1>1. IInv => LockInv
  BY DEF IInv
<1> QED
  BY <1>1, InvInitially, NextKeepsInv, PTL DEF Spec

\* Between its locked read and its rename, a process works on the present
\* file unless a program outside Agent Copilot has written last.
THEOREM WindowHolds == Spec => []WindowInv
<1>1. IInv => WindowInv
  BY DEF IInv
<1> QED
  BY <1>1, InvInitially, NextKeepsInv, PTL DEF Spec

\* No request's write is lost to another request that has not seen it.
THEOREM NoUpdateLost == Spec => NoLostUpdate
<1>1. ASSUME IInv, [Next]_vars
      PROVE  [\A p \in Procs : Replaces(p) => file = cur[p] \/ writer = NoProc]_vars
  BY <1>1 DEF IInv, WindowInv, WindowOf, Replaces
<1> QED
  BY <1>1, InvInitially, NextKeepsInv, PTL DEF Spec, NoLostUpdate

-----------------------------------------------------------------------------
(* The commands implement ConfigRegister: the locked read is its Load, the  *)
(* rename and the restore are its Store, every other end of the locked      *)
(* section is its Drop.                                                     *)

\* The mark of "no valid observation" is not a file.
LEMMA UnseenIsNoFile == Unseen \notin Files
BY DEF Unseen, Files, Missing, Written, EmptyText

\* A step of one process changes only its own observation.
LEMMA ObservedMoves ==
  ASSUME TypeOK, TypeOK', NEW p \in Procs, OthersKept(p)
  PROVE  Observed' = [Observed EXCEPT ![p] = IF pc'[p] \in Window THEN cur'[p]
                                             ELSE Unseen]
BY DEF Observed, OthersKept, TypeOK, LocalOK

\* Leaving the critical section without a write is a Drop of the register.
LEMMA ForgetIsDrop ==
  ASSUME TypeOK, TypeOK', NEW p \in Procs, OthersKept(p),
         UNCHANGED <<file, writer>>, pc'[p] \notin Window
  PROVE  Register!Drop(p)
BY ObservedMoves DEF Register!Drop

\* A step outside the window is a stutter of the register.
LEMMA StayIsStutter ==
  ASSUME TypeOK, TypeOK', NEW p \in Procs, OthersKept(p),
         UNCHANGED <<file, writer>>, cur'[p] = cur[p],
         pc'[p] \in Window <=> pc[p] \in Window
  PROVE  UNCHANGED Register!rvars
BY ObservedMoves DEF Register!rvars, Observed

\* Each step of a request is a step of the register or a stutter.
LEMMA StepImplements ==
  ASSUME IInv, IInv', NEW p \in Procs, Step(p)
  PROVE  Register!Next \/ UNCHANGED Register!rvars
<1>a. TypeOK /\ TypeOK' /\ WindowOf(p) /\ OthersKept(p)
  BY StepEffect DEF IInv, WindowInv, Effect
<1>b. ASSUME UNCHANGED <<file, writer>>, pc'[p] \notin Window
      PROVE  Register!Next
  BY <1>a, <1>b, ForgetIsDrop DEF Register!Next
<1>c. ASSUME Fail(p) PROVE Register!Next
  BY <1>a, <1>b, <1>c DEF Fail, Leave, Goto, TypeOK, LocalOK, Window, Holding
<1>1. CASE Preflight(p) \/ AcquireLock(p) \/ Verify(p) \/ ScanRead(p)
           \/ SaveReply(p)
  <2>1. CASE Fail(p)
    BY <2>1, <1>c
  <2>2. CASE ~Fail(p)
    <3>1. UNCHANGED <<file, writer>> /\ pc'[p] \notin Window
      BY <1>1, <1>a, <2>2 DEF Preflight, AcquireLock, Verify, ScanRead,
         SaveReply, Goto, TypeOK, LocalOK, Window, Holding, shared
    <3> QED
      BY <3>1, <1>b
  <2> QED
    BY <2>1, <2>2
<1>2. CASE SnapshotFails(p) \/ WriteFails(p) \/ VerifyGone(p) \/ RestoreFails(p)
  BY <1>2, <1>c DEF SnapshotFails, WriteFails, VerifyGone, RestoreFails
<1>3. CASE UpdateCatalog(p) \/ ScanUpsert(p)
  <2>1. UNCHANGED <<file, writer>>
    BY <1>3 DEF UpdateCatalog, ScanUpsert
  <2>2. \/ Leave(p)
        \/ pc' = pc /\ pc[p] = "catalog"
        \/ \E l \in {"reply", "upsert"} : Goto(p, l)
    BY <1>3 DEF UpdateCatalog, ScanUpsert
  <2>3. pc'[p] \notin Window
    BY <1>a, <2>2 DEF Leave, Goto, TypeOK, LocalOK, Window, Holding
  <2> QED
    BY <2>1, <2>3, <1>b
<1>4. CASE LockedRead(p)
  <2>1. CASE Fail(p)
    BY <2>1, <1>c
  <2>2. CASE ~Fail(p)
    <3>1. UNCHANGED <<file, writer>> /\ cur'[p] = file /\ pc'[p] \in Window
      BY <1>4, <1>a, <2>2 DEF LockedRead, Goto, TypeOK, LocalOK, Window,
         Holding, shared
    <3>2. Register!Load(p)
      BY <1>a, <3>1, ObservedMoves DEF Register!Load
    <3> QED
      BY <3>2 DEF Register!Next
  <2> QED
    BY <2>1, <2>2
<1>5. CASE TakeSnapshot(p)
  <2>1. UNCHANGED <<file, writer>> /\ pc[p] \in Window
    BY <1>5 DEF TakeSnapshot, Window, Holding
  <2>2. CASE Leave(p)
    BY <1>a, <1>b, <2>1, <2>2 DEF Leave, Goto, TypeOK, LocalOK, Window, Holding
  <2>3. CASE ~Leave(p)
    <3>1. cur' = cur /\ Goto(p, "write")
      BY <1>5, <2>3 DEF TakeSnapshot
    <3>2. pc'[p] \in Window
      BY <1>a, <3>1 DEF Goto, TypeOK, LocalOK, Window, Holding
    <3> QED
      BY <1>a, <2>1, <3>1, <3>2, StayIsStutter
  <2> QED
    BY <2>2, <2>3
<1>6. CASE VerifyFails(p)
  <2>1. /\ UNCHANGED <<file, writer, cur>>
        /\ pc[p] \in Window /\ pc'[p] \in Window
    BY <1>6, <1>a DEF VerifyFails, Goto, TypeOK, LocalOK, Window, Holding,
       shared, locals
  <2> QED
    BY <1>a, <2>1, StayIsStutter
<1>7. CASE RenameIntoPlace(p)
  <2>1. /\ pc[p] \in Window /\ pc'[p] \in Window /\ cur' = cur
        /\ file = cur[p] \/ writer = NoProc
        /\ file' \in Files /\ writer' = p
    BY <1>7, <1>a DEF RenameIntoPlace, Replace, WindowOf, Goto, TypeOK, LocalOK,
       SharedOK, Window, Holding, locals
  <2>2. Observed[p] = cur[p] /\ cur[p] # Unseen
    BY <1>a, <2>1, UnseenIsNoFile DEF Observed, TypeOK, LocalOK
  <2>3. Observed' = Observed
    BY <1>a, <2>1, ObservedMoves DEF Observed
  <2>4. Register!Store(p)
    BY <2>1, <2>2, <2>3, ProcsAssumption DEF Register!Store
  <2> QED
    BY <2>4 DEF Register!Next
<1>8. CASE Restore(p)
  <2>1. /\ pc[p] \in Window /\ pc'[p] \notin Window
        /\ writer = NoProc
        /\ file' \in Files /\ writer' = p
    BY <1>8, <1>a DEF Restore, Replace, WindowOf, Leave, Goto, TypeOK, LocalOK,
       SharedOK, Window, Holding
  <2>2. Observed[p] = cur[p] /\ cur[p] # Unseen
    BY <1>a, <2>1, UnseenIsNoFile DEF Observed, TypeOK, LocalOK
  <2>3. Observed' = [Observed EXCEPT ![p] = Unseen]
    BY <1>a, <2>1, ObservedMoves
  <2>4. Register!Store(p)
    BY <2>1, <2>2, <2>3, ProcsAssumption DEF Register!Store
  <2> QED
    BY <2>4 DEF Register!Next
<1> QED
  BY <1>1, <1>2, <1>3, <1>4, <1>5, <1>6, <1>7, <1>8 DEF Step

\* Every step, an outside edit included, is one of the register or a stutter.
LEMMA NextImplements ==
  ASSUME IInv, IInv', [Next]_vars
  PROVE  [Register!Next]_(Register!rvars)
<1>1. ASSUME NEW p \in Procs, Submit(p)
      PROVE  UNCHANGED Register!rvars
  <2>1. TypeOK /\ TypeOK' /\ OthersKept(p)
    BY <1>1, SubmitEffect DEF IInv, Effect
  <2>2. /\ UNCHANGED <<file, writer, cur>>
        /\ pc[p] \notin Window /\ pc'[p] \notin Window
    BY <1>1, <2>1 DEF Submit, ReviewConfig, PreviewRollback, SubmitSave,
       SubmitRollback, SubmitToggle, SubmitScan, Goto, TypeOK, LocalOK, Window,
       Holding, shared, locals
  <2> QED
    BY <2>1, <2>2, StayIsStutter
<1>2. ASSUME NEW p \in Procs, Kill(p)
      PROVE  Register!Next
  <2>1. TypeOK /\ TypeOK' /\ OthersKept(p)
    BY <1>2, FailEffect DEF IInv, Effect, Kill
  <2>2. UNCHANGED <<file, writer>> /\ pc'[p] \notin Window
    BY <1>2, <2>1 DEF Kill, Fail, Leave, Goto, TypeOK, LocalOK, Window, Holding
  <2> QED
    BY <2>1, <2>2, ForgetIsDrop DEF Register!Next
<1>3. CASE ForeignEdit
  <2>1. file' \in Files /\ writer' = NoProc /\ Observed' = Observed
    BY <1>3 DEF ForeignEdit, Observed, locals, IInv, TypeOK, SharedOK
  <2>2. Register!ForeignWrite
    BY <2>1 DEF Register!ForeignWrite
  <2> QED
    BY <2>2 DEF Register!Next
<1>4. CASE UNCHANGED vars
  BY <1>4 DEF vars, shared, locals, Register!rvars, Observed
<1> QED
  BY <1>1, <1>2, <1>3, <1>4, StepImplements DEF Next

\* The config commands, with their locks, snapshots, failures and kills,
\* implement the register of ConfigRegister.
THEOREM Refinement == Spec => RegisterSpec
<1>1. Init => Register!Init
  BY TypeInitially DEF Init, Register!Init, TypeOK, SharedOK, Observed, Window,
     Holding
<1>2. IInv /\ IInv' /\ [Next]_vars => [Register!Next]_(Register!rvars)
  BY NextImplements
<1> QED
  BY <1>1, <1>2, InvInitially, NextKeepsInv, PTL
     DEF Spec, RegisterSpec, Register!Spec

-----------------------------------------------------------------------------
(* What is written: the plan of a request, from its locked read to its      *)
(* rename, is the reviewed file and an unmasked text; and there is a        *)
(* snapshot of what was read, until the last write of the request.          *)

PlanOf(p) ==
  /\ pc[p] = "idle" => kind[p] = "none"
  /\ pc[p] = "snapshot" => kind[p] # "rollback"
  /\ ~cur[p].text.masked
  /\ kind[p] # "rollback" \/ pc[p] = "write" => ~want[p].masked
  /\ pc[p] \in {"snapshot", "write"} /\ kind[p] \in {"save", "rollback"}
       => cur[p] = expect[p]
  /\ pc[p] \in {"write", "verify", "restore"} /\ kind[p] \in {"save", "toggle"}
       => Redact(cur[p].text) \in snapshots

PlanInv == NeverMasked /\ \A p \in Procs : PlanOf(p)

\* No client can name, and no patch can make, a masked text.
LEMMA UnmaskedFacts ==
  /\ ~EmptyText.masked /\ Missing.text = EmptyText
  /\ \A t \in Texts : Written(t).text = t
  /\ \A t \in SaveTexts \cup EditTexts : t \in Texts /\ ~t.masked
  /\ \A t \in Texts, S \in SUBSET Skills, b \in BOOLEAN :
       ~t.masked => ~Patch(t, S, b).masked
BY TextsAssumption DEF EmptyText, Missing, Written, Patch, Texts

\* A step that leaves a process alone, and drops no snapshot, keeps its plan.
LEMMA OthersPlan ==
  ASSUME NEW q \in Procs, PlanOf(q), snapshots \subseteq snapshots',
         pc'[q] = pc[q], kind'[q] = kind[q], cur'[q] = cur[q],
         want'[q] = want[q], expect'[q] = expect[q]
  PROVE  PlanOf(q)'
BY DEF PlanOf

\* The end of a request leaves no plan behind.
LEMMA LeavePlan ==
  ASSUME TypeOK, PlanInv, NEW p \in Procs, Leave(p),
         snapshots \subseteq snapshots'
  PROVE  \A q \in Procs : PlanOf(q)'
<1>1. PlanOf(p)'
  BY UnmaskedFacts DEF Leave, Goto, TypeOK, LocalOK, PlanOf
<1>2. ASSUME NEW q \in Procs, q # p PROVE PlanOf(q)'
  BY <1>2, OthersPlan DEF Leave, Goto, TypeOK, LocalOK, PlanInv
<1> QED
  BY <1>1, <1>2

\* An error return or a kill keeps all plans, and the file.
LEMMA FailPlan ==
  ASSUME TypeOK, PlanInv, NEW p \in Procs, Fail(p)
  PROVE  PlanInv'
<1>1. \A q \in Procs : PlanOf(q)'
  BY LeavePlan DEF Fail
<1> QED
  BY <1>1 DEF Fail, PlanInv, NeverMasked

\* What a client does keeps all plans: it may pick a masked snapshot, but only
\* for a rollback, which has yet to check it.
LEMMA SubmitPlan ==
  ASSUME TypeOK, PlanInv, NEW p \in Procs, Submit(p)
  PROVE  PlanInv'
<1>a. PlanOf(p) /\ UNCHANGED <<file, snapshots>>
  BY DEF PlanInv, Submit, ReviewConfig, PreviewRollback, SubmitSave,
         SubmitRollback, SubmitToggle, SubmitScan, shared
<1>1. PlanOf(p)'
  BY <1>a, UnmaskedFacts DEF Submit, ReviewConfig, PreviewRollback, SubmitSave,
     SubmitRollback, SubmitToggle, SubmitScan, locals, Goto, TypeOK, LocalOK,
     PlanOf
<1>2. ASSUME NEW q \in Procs, q # p PROVE PlanOf(q)'
  <2>1. /\ pc'[q] = pc[q] /\ kind'[q] = kind[q] /\ cur'[q] = cur[q]
        /\ want'[q] = want[q] /\ expect'[q] = expect[q]
    BY <1>2 DEF Submit, ReviewConfig, PreviewRollback, SubmitSave,
       SubmitRollback, SubmitToggle, SubmitScan, locals, Goto, TypeOK, LocalOK
  <2> QED
    BY <1>a, <2>1, OthersPlan DEF PlanInv
<1> QED
  BY <1>a, <1>1, <1>2 DEF PlanInv, NeverMasked

\* Each step of a request keeps its plan true, and the file unmasked.
LEMMA StepPlan ==
  ASSUME TypeOK, PlanInv, NEW p \in Procs, Step(p)
  PROVE  PlanInv'
<1>a. PlanOf(p) /\ ~file.text.masked
  BY DEF PlanInv, NeverMasked
<1>b. ASSUME snapshots \subseteq snapshots', ~file'.text.masked, PlanOf(p)',
             \A q \in Procs \ {p} : /\ pc'[q] = pc[q] /\ kind'[q] = kind[q]
                                    /\ cur'[q] = cur[q] /\ want'[q] = want[q]
                                    /\ expect'[q] = expect[q]
      PROVE  PlanInv'
  <2>1. ASSUME NEW q \in Procs, q # p PROVE PlanOf(q)'
    BY <1>b, <2>1, OthersPlan DEF PlanInv
  <2> QED
    BY <1>b, <2>1 DEF PlanInv, NeverMasked
<1>c. ASSUME Leave(p), snapshots \subseteq snapshots', ~file'.text.masked
      PROVE  PlanInv'
  BY <1>c, LeavePlan DEF PlanInv, NeverMasked
<1>1. CASE Fail(p)
  BY <1>1, FailPlan
<1>2. CASE Preflight(p) /\ ~Fail(p)
  BY <1>2, <1>a, <1>b DEF Preflight, Goto, shared, locals, TypeOK, LocalOK,
     PlanOf
<1>3. CASE AcquireLock(p)
  BY <1>3, <1>a, <1>b DEF AcquireLock, Goto, locals, TypeOK, LocalOK, PlanOf
<1>4. CASE LockedRead(p) /\ ~Fail(p)
  BY <1>4, <1>a, <1>b DEF LockedRead, Admits, Revision, Goto, shared, TypeOK,
     LocalOK, PlanOf
<1>5. CASE TakeSnapshot(p)
  <2>1. CASE Leave(p)
    BY <1>5, <2>1, <1>a, <1>c DEF TakeSnapshot
  <2>2. CASE ~Leave(p)
    <3>1. ~NewText(p).masked
      <4>1. /\ pc[p] = "snapshot" /\ ~cur[p].text.masked
            /\ kind[p] # "rollback" /\ ~want[p].masked
        BY <1>5, <1>a DEF TakeSnapshot, PlanOf
      <4>2. cur[p].text \in Texts /\ flips[p] \in SUBSET Skills /\ on[p] \in BOOLEAN
        BY TextFacts DEF TypeOK, LocalOK
      <4>3. ~Patch(cur[p].text, flips[p], on[p]).masked
        BY <4>1, <4>2, UnmaskedFacts
      <4> QED
        BY <4>1, <4>3 DEF NewText
    <3>2. /\ snapshots' = snapshots \cup {Redact(cur[p].text)}
          /\ want' = [want EXCEPT ![p] = NewText(p)]
          /\ Goto(p, "write") /\ pc[p] = "snapshot"
          /\ UNCHANGED <<file, kind, expect, cur>>
      BY <1>5, <2>2 DEF TakeSnapshot
    <3>3. PlanOf(p)'
      BY <1>a, <3>1, <3>2 DEF Goto, TypeOK, LocalOK, PlanOf, Redact
    <3> QED
      BY <1>a, <1>b, <3>2, <3>3 DEF Goto, TypeOK, LocalOK
  <2> QED
    BY <2>1, <2>2
<1>6. CASE RenameIntoPlace(p)
  <2>1. file'.text = want[p] /\ ~want[p].masked
    BY <1>6, <1>a DEF RenameIntoPlace, Replace, Written, PlanOf
  <2> QED
    BY <1>6, <1>a, <1>b, <2>1 DEF RenameIntoPlace, Goto, locals, TypeOK,
       LocalOK, PlanOf
<1>7. CASE Verify(p)
  BY <1>7, <1>a, <1>b DEF Verify, Goto, TypeOK, LocalOK, PlanOf
<1>8. CASE VerifyFails(p)
  BY <1>8, <1>a, <1>b DEF VerifyFails, Goto, shared, locals, TypeOK, LocalOK,
     PlanOf
<1>9. CASE Restore(p)
  <2>1. file'.text = cur[p].text
    BY <1>9 DEF Restore, Replace, Written
  <2> QED
    BY <1>9, <1>a, <1>c, <2>1 DEF Restore, PlanOf
<1>10. CASE UpdateCatalog(p)
  <2>1. UNCHANGED <<file, snapshots>>
    BY <1>10 DEF UpdateCatalog
  <2>2. CASE Leave(p)
    BY <1>a, <1>c, <2>1, <2>2
  <2>3. CASE ~Leave(p)
    <3>1. UNCHANGED <<pc, kind, expect, cur, want>>
      BY <1>10, <2>3 DEF UpdateCatalog
    <3> QED
      BY <1>a, <1>b, <2>1, <3>1 DEF PlanOf
  <2> QED
    BY <2>2, <2>3
<1>11. CASE ScanRead(p)
  BY <1>11, <1>a, <1>b DEF ScanRead, Goto, shared, TypeOK, LocalOK, PlanOf
<1>12. CASE ScanUpsert(p)
  <2>1. UNCHANGED <<file, snapshots>>
    BY <1>12 DEF ScanUpsert
  <2>2. CASE Leave(p)
    BY <1>a, <1>c, <2>1, <2>2
  <2>3. CASE ~Leave(p)
    <3>1. /\ \E l \in {"reply", "upsert"} : Goto(p, l)
          /\ UNCHANGED <<kind, expect, cur, want>>
      BY <1>12, <2>3 DEF ScanUpsert
    <3> QED
      BY <1>a, <1>b, <2>1, <3>1 DEF Goto, TypeOK, LocalOK, PlanOf
  <2> QED
    BY <2>2, <2>3
<1>13. CASE SaveReply(p)
  BY <1>13, <1>a, <1>b, UnmaskedFacts DEF SaveReply, Goto, shared, TypeOK,
     LocalOK, PlanOf
<1> QED
  BY <1>1, <1>2, <1>3, <1>4, <1>5, <1>6, <1>7, <1>8, <1>9, <1>10, <1>11, <1>12,
     <1>13 DEF Step, SnapshotFails, WriteFails, VerifyGone, RestoreFails

\* The plans hold when no request has started, and every step keeps them.
LEMMA PlanInductive ==
  /\ Init => PlanInv
  /\ IInv /\ PlanInv /\ [Next]_vars => PlanInv'
<1>1. Init => PlanInv
  BY UnmaskedFacts DEF Init, PlanInv, PlanOf, NeverMasked
<1>2. ASSUME IInv, PlanInv, [Next]_vars PROVE PlanInv'
  <2>1. TypeOK
    BY <1>2 DEF IInv
  <2>2. ASSUME NEW p \in Procs, Submit(p) \/ Step(p) \/ Kill(p) PROVE PlanInv'
    BY <1>2, <2>1, <2>2, SubmitPlan, StepPlan, FailPlan DEF Kill
  <2>3. CASE ForeignEdit
    <3>1. ~file'.text.masked
      BY <2>3, UnmaskedFacts DEF ForeignEdit
    <3>2. \A q \in Procs : PlanOf(q)'
      BY <1>2, <2>3 DEF ForeignEdit, locals, PlanInv, PlanOf
    <3> QED
      BY <3>1, <3>2 DEF PlanInv, NeverMasked
  <2>4. CASE UNCHANGED vars
    BY <1>2, <2>4 DEF vars, shared, locals, PlanInv, PlanOf, NeverMasked
  <2> QED
    BY <1>2, <2>2, <2>3, <2>4 DEF Next
<1> QED
  BY <1>1, <1>2

\* A masked text never reaches the config file: not by a rollback to a masked
\* snapshot, not by a restore, not through a patch of what was read.
THEOREM MaskedNeverWritten == Spec => []NeverMasked
<1>1. PlanInv => NeverMasked
  BY DEF PlanInv
<1> QED
  BY <1>1, PlanInductive, InvInitially, NextKeepsInv, PTL DEF Spec

\* What a save or a rollback replaces is the file its client reviewed.
THEOREM WritesAreConditional == Spec => ConditionalWrite
<1>1. ASSUME IInv, PlanInv, [Next]_vars
      PROVE  [\A p \in Procs :
                Replaces(p) /\ pc[p] = "write" /\ kind[p] \in {"save", "rollback"}
                => Revision(file) = expect[p] \/ ChangedUnseen(p)]_vars
  BY <1>1 DEF IInv, WindowInv, WindowOf, PlanInv, PlanOf, Replaces, Revision, ChangedUnseen
<1> QED
  BY <1>1, PlanInductive, InvInitially, NextKeepsInv, PTL
     DEF Spec, ConditionalWrite

\* What a save or a toggle replaces is in a snapshot, whoever wrote it, but for
\* what was written after the locked read.
THEOREM SnapshotComesFirst == Spec => SnapshotBeforeOverwrite
<1>1. ASSUME IInv, PlanInv, [Next]_vars
      PROVE  [\A p \in Procs :
                Replaces(p) /\ kind[p] \in {"save", "toggle"}
                => Redact(file.text) \in snapshots \/ ChangedUnseen(p)]_vars
  BY <1>1 DEF IInv, WindowInv, WindowOf, PlanInv, PlanOf, Replaces, ChangedUnseen
<1> QED
  BY <1>1, PlanInductive, InvInitially, NextKeepsInv, PTL
     DEF Spec, SnapshotBeforeOverwrite

=============================================================================
