------------------------ MODULE ConfigAutosaveProofs ------------------------
(***************************************************************************)
(* Proofs about ConfigAutosave, for any documents, any number of edits and *)
(* any number of outside writes.  First the composition: what the store    *)
(* does to its coordinator is what RevisionAutosave allows, so everything  *)
(* proved of the coordinator holds in the store.  Then the draft, the      *)
(* reports, the versions and the bases, each an invariant that rests on    *)
(* those before it.                                                        *)
(***************************************************************************)
EXTENDS ConfigAutosave, AutosaveProofs

USE TextsAssumption, ForeignAssumption

Good == Texts \cup Foreign

\* A value is a document and the revision it is based on.
LEMMA ValueParts ==
  /\ \A v \in Values : v.content \in Good /\ v.expected \in Good
  /\ \A c, e \in Good : [content |-> c, expected |-> e] \in Values
  /\ \A v \in Values, e \in Good : /\ [v EXCEPT !.expected = e] \in Values
                                   /\ [v EXCEPT !.expected = e].content = v.content
                                   /\ [v EXCEPT !.expected = e].expected = e
  /\ Bad \notin Good /\ None \notin Good /\ Bad # None
BY DEF Good

\* What is pending or being saved is a value.
LEMMA HeldValues ==
  ASSUME AutosaveTypeOK
  PROVE  /\ HasPending => pending \in [rev : Nat \ {0}, value : Values]
         /\ HasActiveSave => active \in [rev : Nat \ {0}, value : Values]
         /\ pending.rev \in Nat /\ active.rev \in Nat
BY DraftShape, DraftRevision DEF AutosaveTypeOK, HasPending, HasActiveSave

-----------------------------------------------------------------------------
(* The store's use of its coordinator.                                     *)

\* What ends a save; its outcome is one of the three.
Ends == \/ ReturnCancelled \/ EnterRefused \/ CallFails \/ Conflict
        \/ CollectFails \/ Succeed

\* What starts a save, if there is anything to save.
Starts == TimerFires \/ Quitting \/ \E f \in Flushers : Quit(f)

\* Steps of the save or of a load that leave the coordinator and draft alone.
Inner == \/ EnterSends \/ ServiceStores \/ ServiceRefuses \/ ServiceRereads
         \/ Answer \/ Collect \/ PublishSaved
         \/ StartView \/ \E l \in Loaders : ServiceReads(l)

Edits == \/ \E t \in Texts \cup {settings.text, Bad} : Type(t)
         \/ Hide \/ PressReload

Outside == \/ \E x \in Foreign : ForeignEdit(x) \/ OwnWrite(x)
           \/ \E v \in late : LateWrite(v)

\* The steps, by what they do to the coordinator.
LEMMA StepKinds ==
  ASSUME ConfigNext
  PROVE  \/ Ends \/ Starts \/ Inner \/ Edits \/ Outside \/ StartReload \/ Reveal
         \/ \E l \in Loaders : EndLoad(l)
BY DEF ConfigNext, Save, Load, Ends, Starts, Inner, Edits, Outside

\* The revised base of the pending value is a document.
LEMMA ReboundTyped ==
  ASSUME ConfigTypeOK, HasPending, NEW o
  PROVE  /\ Rebound(o) \in Values
         /\ Rebound(o).content = pending.value.content
<1>1. pending.value \in Values /\ committed \in Good \cup {None}
  BY HeldValues DEF ConfigTypeOK, Good
<1>2. CASE committed = None
  BY <1>1, <1>2 DEF Rebound
<1>3. CASE committed # None
  BY <1>1, <1>3, ValueParts DEF Rebound
<1> QED BY <1>2, <1>3

\* The end of a save is the end of a worker with some outcome and value.
LEMMA EndIsFinish ==
  ASSUME ConfigTypeOK, NEW o \in Outcomes, EndSave(o)
  PROVE  \E v \in Values : WorkerFinished(o, v)
<1>1. CASE HasPending
  BY <1>1, ReboundTyped DEF EndSave
<1>2. CASE ~HasPending
  <2>1. active.value \in Values
    BY HeldValues DEF EndSave, WorkerFinished, ConfigTypeOK
  <2>2. WorkerFinished(o, active.value)
    BY <1>2 DEF EndSave, WorkerFinished, UpdatePendingValue
  <2> QED BY <2>1, <2>2
<1> QED BY <1>1, <1>2

\* A save that ends, ends with one of the outcomes.
LEMMA EndsAre ==
  ASSUME Ends
  PROVE  \E o \in Outcomes : EndSave(o)
BY DEF Ends, ReturnCancelled, EnterRefused, CallFails, Conflict, CollectFails,
       Succeed, Outcomes

\* Dropping the draft cancels what is debounced.
LEMMA DropIsCancel ==
  ASSUME DropDraft
  PROVE  CancelPendingDebounce
BY DEF DropDraft

\* Every step of the store is a step of the coordinator, or leaves it alone.
LEMMA StoreStepIsCoordinators ==
  ASSUME ConfigTypeOK, [ConfigNext]_allVars
  PROVE  [AutosaveNext]_autosaveVars
<1>1. CASE Ends
  <2>1. PICK o \in Outcomes : EndSave(o)
    BY <1>1, EndsAre
  <2> QED BY <2>1, EndIsFinish DEF AutosaveNext
<1>2. CASE Starts
  BY <1>2 DEF Starts, TimerFires, Quitting, Quit, StartsSave, AutosaveNext
<1>3. CASE Inner
  BY <1>3 DEF Inner, EnterSends, ServiceStores, ServiceRefuses, ServiceRereads,
     Answer, Collect, PublishSaved, StartView, ServiceReads, ServiceOnly
<1>4. CASE Edits
  <2>1. CASE Hide \/ PressReload
    BY <2>1, DropIsCancel DEF Hide, PressReload, AutosaveNext
  <2>2. ASSUME NEW t \in Texts \cup {settings.text, Bad}, Type(t)
        PROVE  AutosaveNext
    <3>1. CASE DropDraft
      BY <3>1, DropIsCancel DEF AutosaveNext
    <3>2. CASE Submit(t) /\ t = Bad
      BY <3>2, ValueParts DEF Submit, AutosaveNext
    <3>3. CASE Submit(t) /\ t # Bad
      <4>1. t \in Good /\ settings.text \in Good
        BY <2>2, <3>3 DEF ConfigTypeOK, Docs, Good
      <4>2. [content |-> t, expected |-> settings.text] \in Values
        BY <4>1, ValueParts
      <4> QED BY <3>3, <4>2 DEF Submit, AutosaveNext
    <3> QED BY <2>2, <3>1, <3>2, <3>3 DEF Type
  <2> QED BY <1>4, <2>1, <2>2 DEF Edits
<1>5. CASE Outside
  BY <1>5 DEF Outside, ForeignEdit, OwnWrite, OtherWrite,
     LateWrite
<1>6. CASE StartReload
  BY <1>6, DropIsCancel DEF StartReload, AutosaveNext
<1>7. ASSUME NEW l \in Loaders, EndLoad(l)
      PROVE  [AutosaveNext]_autosaveVars
  BY <1>7, DropIsCancel DEF EndLoad, AutosaveNext
<1>8. CASE UNCHANGED allVars \/ Reveal
  BY <1>8 DEF allVars, Reveal
<1> QED
  BY <1>1, <1>2, <1>3, <1>4, <1>5, <1>6, <1>7, <1>8, StepKinds

\* The store implements the coordinator's specification, so what is proved of
\* AutosaveSpec holds of every draft the store submits.
LEMMA CoordinatorKept ==
  ASSUME AutosaveInv, ConfigTypeOK, [ConfigNext]_allVars
  PROVE  AutosaveInv'
BY StoreStepIsCoordinators, AutosaveStep

-----------------------------------------------------------------------------
(* The types, and the versions of the documents that are read.             *)

\* What a reply or a load carries is a document that was in the file, and it
\* is not older than what a reply has told, unless it will not be accepted.
ReadInv ==
  /\ acked <= file.ver /\ acked <= settings.ver
  /\ step \in {"replied", "reread"}
       => reply \in Docs /\ acked <= reply.ver /\ reply.ver <= file.ver
  /\ \A l \in Loaders : loads[l].at = "read"
       => loads[l].doc \in Docs /\ (loads[l].current => acked <= loads[l].doc.ver)
  /\ loads["own"].at # "idle" => step = "load"

LoadType == [at : {"idle", "asked", "sent", "read"}, current : BOOLEAN,
             doc : Docs \cup {NoDoc}]

\* The types of the store's own variables, in the form the steps use.
OwnTypes ==
  /\ draft \in Good \cup {Bad, None}
  /\ latest \in Nat /\ latest <= nextRevision
  /\ mutation \in {"idle", "saving", "conflict", "failed"}
  /\ step \in Steps
  /\ reply \in Docs \cup {NoDoc}
  /\ committed \in Good \cup {None}
  /\ settings \in Docs /\ file \in Docs
  /\ loads \in [Loaders -> LoadType]
  /\ edits \in 0..MaxForeign
  /\ late \subseteq Values
  /\ lost \in BOOLEAN /\ acked \in Nat
StoreTypes == OwnTypes /\ known \subseteq Foreign

\* The two forms of the types are one.
LEMMA TypesAre == ConfigTypeOK <=> AutosaveTypeOK /\ StoreTypes
BY DEF ConfigTypeOK, StoreTypes, OwnTypes, AutosaveTypeOK, LoadType, Good

\* The parts of a document.
LEMMA DocParts ==
  /\ \A d \in Docs : d.text \in Good /\ d.ver \in Nat
  /\ \A t \in Good, n \in Nat : [text |-> t, ver |-> n] \in Docs
BY DEF Docs, Good

\* A load that is not under way.
LEMMA LoadFacts ==
  /\ NoLoad \in LoadType /\ {"reload", "view", "own"} = Loaders
  /\ NoLoad.at = "idle" /\ ~NoLoad.current
BY DEF NoLoad, LoadType, Loaders

\* What all ends of a save do to the store.
LEMMA EndsEffect ==
  ASSUME Ends
  PROVE  /\ \E o \in Outcomes : EndSave(o)
         /\ step' = "none" /\ reply' = NoDoc /\ committed' = None
         /\ \/ latest' = 0 /\ draft' = None
            \/ UNCHANGED <<latest, draft>>
         /\ UNCHANGED <<loads, file, edits, acked>>
         /\ settings' = settings \/ (step = "reread" /\ settings' = reply)
         /\ mutation' \in {mutation, "failed", "conflict"}
         /\ lost' \in {lost, TRUE}
         /\ late' \in {late, late \cup {active.value}}
         /\ step # "load" /\ nextRevision' = nextRevision
<1>1. \E o \in Outcomes : EndSave(o)
  BY EndsAre
<1>2. /\ step' = "none" /\ reply' = NoDoc /\ committed' = None
      /\ nextRevision' = nextRevision
      /\ \/ latest' = 0 /\ draft' = None
         \/ UNCHANGED <<latest, draft>>
  BY <1>1 DEF EndSave, Settle, WorkerFinished
<1>3. UNCHANGED <<loads, file, edits, acked>> /\ step # "load"
  BY DEF Ends, ReturnCancelled, EnterRefused, CallFails, Conflict, CollectFails,
     Succeed
<1>4. /\ settings' = settings \/ (step = "reread" /\ settings' = reply)
      /\ mutation' \in {mutation, "failed", "conflict"}
      /\ lost' \in {lost, TRUE}
      /\ late' \in {late, late \cup {active.value}}
  BY DEF Ends, ReturnCancelled, EnterRefused, CallFails, Conflict, CollectFails,
     Succeed, Publish
<1> QED BY <1>1, <1>2, <1>3, <1>4

\* What a start does: at most it queues a save.
LEMMA StartsEffect ==
  ASSUME Starts
  PROVE  /\ step' = IF active'.rev # active.rev THEN "queued" ELSE step
         /\ UNCHANGED <<draft, latest, mutation, reply, committed, settings,
                        loads, file, edits, lost, acked, late, nextRevision>>
BY DEF Starts, TimerFires, Quitting, Quit, StartsSave, DebounceElapsed,
       Flush, FlushResumes, FlushLoop

\* What dropping the draft does.
LEMMA DropEffect ==
  ASSUME DropDraft
  PROVE  /\ step' = IF step = "queued" THEN "cancelled" ELSE step
         /\ draft' = None /\ latest' = 0 /\ pending' = Nothing
         /\ UNCHANGED <<active, nextRevision>>
BY DEF DropDraft, CancelQueuedSave, CancelPendingDebounce

\* What an edit does: it drops the draft or makes another one.
LEMMA TypeEffect ==
  ASSUME OwnTypes, AutosaveTypeOK,
         NEW t \in Texts \cup {settings.text, Bad}, Type(t)
  PROVE  /\ UNCHANGED <<reply, committed, settings, loads, file, edits, lost,
                        acked, late, active>>
         /\ t \in Good \cup {Bad}
         /\ mutation' \in {mutation, "idle"}
         /\ \/ DropDraft
            \/ /\ t = Bad /\ pending' = Nothing
               /\ step' = IF step = "queued" THEN "cancelled" ELSE step
               /\ draft' = t /\ latest' = nextRevision + 1
               /\ nextRevision' = nextRevision + 1
            \/ /\ t \in Good /\ step' = step
               /\ pending' = [rev |-> nextRevision + 1,
                     value |-> [content |-> t, expected |-> settings.text]]
               /\ draft' = t /\ latest' = nextRevision + 1
               /\ nextRevision' = nextRevision + 1
<1>1. t \in Good \cup {Bad}
  BY DocParts DEF OwnTypes, Good
<1>2. /\ UNCHANGED <<reply, committed, settings, loads, file, edits, lost,
                     acked, late>>
      /\ mutation' \in {mutation, "idle"}
      /\ DropDraft \/ Submit(t)
  BY DEF Type, ClearFeedback
<1>3. UNCHANGED active
  BY <1>2, DropEffect DEF Submit, SubmitValid, SubmitInvalid
<1>4. CASE Submit(t) /\ t = Bad
  BY <1>1, <1>2, <1>3, <1>4 DEF Submit, SubmitInvalid, CancelQueuedSave
<1>5. CASE Submit(t) /\ t # Bad
  BY <1>1, <1>2, <1>3, <1>5 DEF Submit, SubmitValid
<1> QED BY <1>1, <1>2, <1>3, <1>4, <1>5

\* Starting a load makes it the current one, and no other.
LEMMA StartEffect ==
  ASSUME OwnTypes, NEW l \in Loaders, Start(l)
  PROVE  /\ loads' \in [Loaders -> LoadType]
         /\ loads'[l].at = "sent"
         /\ \A k \in Loaders \ {l} : /\ loads'[k].at = loads[k].at
                                     /\ loads'[k].doc = loads[k].doc
                                     /\ ~loads'[k].current
BY DEF Start, OwnTypes, LoadType

\* Every step keeps the store's variables typed.
LEMMA OwnTypesKept ==
  ASSUME AutosaveTypeOK, OwnTypes, DraftMatches, ReadInv, ConfigNext
  PROVE  OwnTypes'
<1>0. nextRevision \in Nat
  BY DEF OwnTypes, AutosaveTypeOK
<1>1. CASE Ends
  <2>1. HasActiveSave => active.value \in Values
    BY HeldValues
  <2>2. HasActiveSave
    BY <1>1, EndsEffect DEF EndSave, WorkerFinished
  <2>3. /\ step' = "none" /\ reply' = NoDoc /\ committed' = None
        /\ (latest' = 0 /\ draft' = None) \/ UNCHANGED <<latest, draft>>
        /\ UNCHANGED <<loads, file, edits, acked, nextRevision>>
        /\ mutation' \in {mutation, "failed", "conflict"}
        /\ lost' \in {lost, TRUE}
    BY <1>1, EndsEffect
  <2>4. settings' \in Docs
    BY <1>1, EndsEffect DEF OwnTypes, ReadInv
  <2>5. late' \subseteq Values
    BY <1>1, <2>1, <2>2, EndsEffect DEF OwnTypes
  <2>6. draft' \in Good \cup {Bad, None} /\ latest' \in Nat /\ latest' <= nextRevision'
    BY <1>0, <2>3 DEF OwnTypes
  <2>7. lost' \in BOOLEAN /\ mutation' \in {"idle", "saving", "conflict", "failed"}
    BY <2>3 DEF OwnTypes
  <2> QED BY <2>3, <2>4, <2>5, <2>6, <2>7 DEF OwnTypes, Steps
<1>2. CASE Starts
  BY <1>0, <1>2, StartsEffect DEF OwnTypes, Steps
<1>3. CASE Inner
  <2>1. CASE StartView
    BY <2>1, StartEffect, LoadFacts DEF OwnTypes, StartView, LoadVarsOnly,
       autosaveVars
  <2>2. CASE Collect
    BY <2>2, StartEffect, LoadFacts DEF OwnTypes, Collect, autosaveVars, Steps
  <2>3. ASSUME NEW l \in Loaders, ServiceReads(l) PROVE OwnTypes'
    BY <2>3 DEF OwnTypes, ServiceReads, LoadVarsOnly, autosaveVars, LoadType
  <2>4. CASE ServiceStores
    <3>1. active.value.content \in Good
      BY <2>4, HeldValues, ValueParts DEF ServiceStores, DraftMatches
    <3> QED BY <2>4, <3>1, DocParts DEF OwnTypes, ServiceStores, ServiceOnly,
            autosaveVars, Steps
  <2>5. CASE Answer
    <3>1. reply \in Docs
      BY <2>5 DEF Answer, ReadInv
    <3>2. [l \in Loaders |-> [loads[l] EXCEPT !.current = FALSE]]
            \in [Loaders -> LoadType]
      BY DEF OwnTypes, LoadType
    <3> QED BY <2>5, <3>1, <3>2, DocParts DEF OwnTypes, Answer, autosaveVars, Steps
  <2>6. CASE EnterSends \/ ServiceRefuses \/ ServiceRereads \/ PublishSaved
    BY <2>6 DEF OwnTypes, EnterSends, ServiceRefuses, ServiceRereads, PublishSaved,
       Publish, ServiceOnly, autosaveVars, Steps
  <2> QED BY <1>3, <2>1, <2>2, <2>3, <2>4, <2>5, <2>6 DEF Inner
<1>4. CASE Edits
  <2>1. CASE Hide
    BY <1>0, <2>1, DropEffect DEF OwnTypes, Hide, Steps
  <2>2. CASE PressReload
    BY <1>0, <2>2, DropEffect, LoadFacts DEF OwnTypes, PressReload, LoadVarsOnly,
       Steps, LoadType
  <2>3. ASSUME NEW t \in Texts \cup {settings.text, Bad}, Type(t)
        PROVE  OwnTypes'
    BY <1>0, <2>3, TypeEffect, DropEffect DEF OwnTypes, Steps
  <2> QED BY <1>4, <2>1, <2>2, <2>3 DEF Edits
<1>5. CASE Outside
  <2>1. ASSUME NEW x \in Foreign, OtherWrite(x) PROVE OwnTypes'
    BY <2>1, DocParts DEF OwnTypes, OtherWrite, autosaveVars, Good
  <2>2. ASSUME NEW v \in late, LateWrite(v) PROVE OwnTypes'
    BY <2>2, DocParts, ValueParts DEF OwnTypes, LateWrite, autosaveVars
  <2> QED BY <1>5, <2>1, <2>2 DEF Outside, ForeignEdit, OwnWrite
<1>6. CASE StartReload
  BY <1>0, <1>6, DropEffect, StartEffect, LoadFacts DEF OwnTypes, StartReload,
     LoadVarsOnly, autosaveVars, Steps
<1>7. ASSUME NEW l \in Loaders, EndLoad(l) PROVE OwnTypes'
  <2>1. settings' \in Docs /\ loads' \in [Loaders -> LoadType]
    BY <1>7, LoadFacts DEF OwnTypes, EndLoad, Accepts, ReadInv
  <2> QED BY <1>0, <1>7, <2>1, DropEffect DEF OwnTypes, EndLoad, LoadVarsOnly,
          autosaveVars, Steps
<1>8. CASE Reveal
  BY <1>8 DEF OwnTypes, Reveal, ClearFeedback, autosaveVars
<1> QED
  BY <1>1, <1>2, <1>3, <1>4, <1>5, <1>6, <1>7, <1>8, StepKinds

\* What the user has seen is typed as well.
LEMMA StoreTypesKept ==
  ASSUME AutosaveTypeOK, StoreTypes, DraftMatches, ReadInv, ConfigNext
  PROVE  StoreTypes'
<1>1. OwnTypes'
  BY OwnTypesKept DEF StoreTypes
<1> QED BY <1>1 DEF StoreTypes, ConfigNext, Observe

-----------------------------------------------------------------------------
(* The draft.                                                              *)

\* The end of a save leaves nothing active and keeps what is pending, perhaps
\* on another base.
LEMMA EndEffect ==
  ASSUME ConfigTypeOK, NEW o \in Outcomes, EndSave(o)
  PROVE  /\ active' = Nothing /\ HasActiveSave
         /\ pending'.rev = pending.rev
         /\ HasPending => /\ pending'.value = Rebound(o)
                          /\ pending'.value.content = pending.value.content
         /\ \/ /\ active.rev = latest /\ o = "succeeded"
               /\ latest' = 0 /\ draft' = None
            \/ /\ ~(active.rev = latest /\ o = "succeeded")
               /\ UNCHANGED <<latest, draft>>
<1>1. /\ active' = Nothing /\ HasActiveSave
      /\ pending' = UpdatePendingValue(Rebound(o))
      /\ \/ /\ active.rev = latest /\ o = "succeeded"
            /\ latest' = 0 /\ draft' = None
         \/ /\ ~(active.rev = latest /\ o = "succeeded")
            /\ UNCHANGED <<latest, draft>>
  BY DEF EndSave, Settle, WorkerFinished
<1>2. CASE HasPending
  <2>1. pending \in [rev : Nat \ {0}, value : Values]
    BY <1>2, HeldValues DEF ConfigTypeOK
  <2>2. pending' = [pending EXCEPT !.value = Rebound(o)]
    BY <1>1, <1>2 DEF UpdatePendingValue
  <2> QED BY <1>1, <1>2, <2>1, <2>2, ReboundTyped
<1>3. CASE ~HasPending
  BY <1>1, <1>3 DEF UpdatePendingValue
<1> QED BY <1>2, <1>3

\* A start takes what is pending, if nothing is active.
LEMMA StartTakes ==
  ASSUME Starts
  PROVE  \/ UNCHANGED <<active, pending>>
         \/ ~HasActiveSave /\ HasPending /\ active' = pending /\ pending' = Nothing
BY DEF Starts, TimerFires, Quitting, Quit, StartsSave, DebounceElapsed,
       Flush, FlushResumes, FlushLoop, StartWorker, HasPending

\* The inner steps of a save move it on; they never queue or end it.
LEMMA InnerEffect ==
  ASSUME Inner
  PROVE  /\ UNCHANGED <<nextRevision, pending, active, draft, latest>>
         /\ \/ step' = step
            \/ step \notin {"none", "cancelled"}
               /\ step' \notin {"none", "queued", "cancelled"}
         /\ \/ mutation' = mutation
            \/ step \in {"queued", "caches"} /\ mutation' \in {"saving", "idle"}
BY DEF Inner, EnterSends, ServiceStores, ServiceRefuses, ServiceRereads, Answer,
       Collect, PublishSaved, Publish, StartView, ServiceReads, ServiceOnly,
       LoadVarsOnly, autosaveVars

\* The end of a load drops the draft, moves the save on, or does neither.
LEMMA EndLoadEffect ==
  ASSUME ReadInv, NEW l \in Loaders, EndLoad(l)
  PROVE  \/ DropDraft
         \/ /\ UNCHANGED <<nextRevision, pending, active, draft, latest>>
            /\ step' = step \/ (step = "load" /\ step' = "caches")
BY DEF EndLoad, ReadInv, autosaveVars

\* A step that drops the draft: the buttons, and the reload.
Drops == \/ Hide \/ PressReload \/ StartReload
         \/ \E l \in Loaders : EndLoad(l)

\* Such a step publishes nothing.
LEMMA DropsEffect ==
  ASSUME ReadInv, Drops
  PROVE  /\ UNCHANGED mutation
         /\ \/ DropDraft
            \/ /\ UNCHANGED <<nextRevision, pending, active, draft, latest>>
               /\ step' = step \/ (step = "load" /\ step' = "caches")
<1>1. CASE Hide \/ PressReload \/ StartReload
  BY <1>1 DEF Hide, PressReload, StartReload, LoadVarsOnly, autosaveVars
<1>2. ASSUME NEW l \in Loaders, EndLoad(l)
      PROVE  /\ UNCHANGED mutation
             /\ \/ DropDraft
                \/ /\ UNCHANGED <<nextRevision, pending, active, draft, latest>>
                   /\ step' = step \/ (step = "load" /\ step' = "caches")
  BY <1>2, EndLoadEffect DEF EndLoad, LoadVarsOnly
<1> QED BY <1>1, <1>2 DEF Drops

\* The steps, by what they do to the draft.
LEMMA StepsOnDraft ==
  ASSUME ConfigNext
  PROVE  \/ Ends \/ Starts \/ Inner \/ Drops \/ Outside \/ Reveal
         \/ \E t \in Texts \cup {settings.text, Bad} : Type(t)
BY StepKinds DEF Edits, Drops

\* Outside writes touch neither the draft nor the save.
LEMMA OutsideEffect ==
  ASSUME Outside
  PROVE  UNCHANGED <<nextRevision, pending, active, draft, latest, step, mutation,
                     settings, loads, reply, committed, acked>>
BY DEF Outside, ForeignEdit, OwnWrite, OtherWrite,
     LateWrite, autosaveVars

\* Revealing the values clears the report, and nothing else.
LEMMA RevealEffect ==
  ASSUME Reveal
  PROVE  /\ UNCHANGED <<nextRevision, pending, active, draft, latest, step, reply,
                        committed, settings, loads, file, edits, lost, acked, late>>
         /\ mutation' \in {mutation, "idle"}
BY DEF Reveal, ClearFeedback, autosaveVars

\* The newest revision stays the text in the editor.
LEMMA DraftKept ==
  ASSUME AutosaveInv, ConfigTypeOK, ReadInv, DraftMatches, ConfigNext
  PROVE  DraftMatches'
<1>0. /\ AutosaveTypeOK /\ OwnTypes /\ Served /\ RevisionsInOrder
      /\ nextRevision \in Nat /\ active.rev \in Nat /\ pending.rev \in Nat
      /\ Nothing.rev = 0
  BY TypesAre, HeldValues DEF AutosaveInv, AutosaveTypeOK, StoreTypes, Nothing
<1>1. CASE Ends
  <2>1. PICK o \in Outcomes : EndSave(o)
    BY <1>1, EndsAre
  <2>2. step' = "none"
    BY <1>1, EndsEffect
  <2>3. HasPending => latest = pending.rev /\ active.rev # latest
    BY <1>0, <2>1, EndEffect DEF DraftMatches, RevisionsInOrder
  <2> QED BY <1>0, <2>1, <2>2, <2>3, EndEffect DEF DraftMatches, HasPending,
          HasActiveSave
<1>2. CASE Starts
  <2>1. CASE UNCHANGED <<active, pending>>
    BY <1>2, <2>1, StartsEffect DEF DraftMatches, HasPending, HasActiveSave
  <2>2. CASE ~HasActiveSave /\ HasPending /\ active' = pending /\ pending' = Nothing
    <3>1. pending.value.content \in Good
      BY <1>0, <2>2, HeldValues, ValueParts
    <3>2. step' = "queued" /\ UNCHANGED <<draft, latest>>
      BY <1>2, <2>2, StartsEffect DEF HasPending, HasActiveSave
    <3> QED BY <1>0, <2>2, <3>1, <3>2, ValueParts DEF DraftMatches, HasPending,
            HasActiveSave
  <2> QED BY <1>2, <2>1, <2>2, StartTakes
<1>3. CASE Inner
  BY <1>3, InnerEffect DEF DraftMatches, HasPending, HasActiveSave
<1>4. CASE Outside
  BY <1>4, OutsideEffect DEF DraftMatches, HasPending, HasActiveSave
<1>5. CASE DropDraft
  BY <1>0, <1>5, DropEffect DEF DraftMatches, HasPending, HasActiveSave
<1>6. CASE Drops
  BY <1>5, <1>6, DropsEffect DEF DraftMatches, HasPending, HasActiveSave
<1>7. ASSUME NEW t \in Texts \cup {settings.text, Bad}, Type(t)
      PROVE  DraftMatches'
  <2>0. active' = active /\ active.rev <= nextRevision
    BY <1>0, <1>7, TypeEffect DEF RevisionsInOrder, HasActiveSave
  <2>1. CASE /\ t = Bad /\ pending' = Nothing
             /\ step' = IF step = "queued" THEN "cancelled" ELSE step
             /\ draft' = t /\ latest' = nextRevision + 1
    BY <1>0, <2>0, <2>1, ValueParts DEF DraftMatches, HasPending, HasActiveSave
  <2>2. CASE /\ t \in Good /\ step' = step
             /\ pending' = [rev |-> nextRevision + 1,
                   value |-> [content |-> t, expected |-> settings.text]]
             /\ draft' = t /\ latest' = nextRevision + 1
    BY <1>0, <2>0, <2>2, ValueParts DEF DraftMatches, HasPending, HasActiveSave
  <2> QED BY <1>0, <1>5, <1>7, <2>1, <2>2, TypeEffect
<1>8. CASE Reveal
  BY <1>8, RevealEffect DEF DraftMatches, HasPending, HasActiveSave
<1> QED BY <1>1, <1>2, <1>3, <1>4, <1>6, <1>7, <1>8, StepsOnDraft

-----------------------------------------------------------------------------
(* The reports.                                                            *)

\* A valid draft that is not pending is the one being saved, if any is; and a
\* save is revoked only for another draft.
ReportInv ==
  /\ step = "cancelled" /\ draft \in Good => HasPending
  /\ draft \in Good /\ HasActiveSave /\ ~HasPending => active.rev = latest

\* A save that ends without saving the draft says so.
LEMMA EndReports ==
  ASSUME ConfigTypeOK, DraftMatches, ReportInv, Ends, draft' \in Good, ~HasPending
  PROVE  mutation' \in {"conflict", "failed"}
<1>1. PICK o \in Outcomes : EndSave(o)
  BY EndsAre
<1>2. draft' = draft /\ HasActiveSave
  BY <1>1, EndEffect, ValueParts
<1>3. active.rev = latest /\ step # "cancelled"
  BY <1>2 DEF ReportInv
<1>4. ~EndSave("succeeded")
  BY <1>3, EndEffect, ValueParts DEF Outcomes
<1> QED BY <1>3, <1>4 DEF Ends, ReturnCancelled, EnterRefused, CallFails,
        Conflict, CollectFails, Succeed, Publish

\* Who will save the draft stays what ReportInv says.
LEMMA ReportsKept ==
  ASSUME AutosaveInv, ConfigTypeOK, ReadInv, DraftMatches, ReportInv, ConfigNext
  PROVE  ReportInv'
<1>0. /\ AutosaveTypeOK /\ OwnTypes
      /\ nextRevision \in Nat /\ Nothing.rev = 0
  BY TypesAre DEF AutosaveInv, AutosaveTypeOK, StoreTypes, Nothing
<1>1. CASE Ends
  <2>1. PICK o \in Outcomes : EndSave(o)
    BY <1>1, EndsAre
  <2>2. step' = "none" /\ ~HasActiveSave' /\ (HasPending' <=> HasPending)
    BY <1>0, <1>1, <2>1, EndsEffect, EndEffect DEF HasActiveSave, HasPending
  <2> QED BY <2>2 DEF ReportInv
<1>2. CASE Starts
  <2>1. CASE UNCHANGED <<active, pending>>
    BY <1>2, <2>1, StartsEffect DEF ReportInv, HasPending, HasActiveSave
  <2>2. CASE ~HasActiveSave /\ HasPending /\ active' = pending /\ pending' = Nothing
    <3>1. step' = "queued" /\ UNCHANGED <<draft, latest>>
      BY <1>2, <2>2, StartsEffect DEF HasPending, HasActiveSave
    <3> QED BY <1>0, <2>2, <3>1 DEF ReportInv, DraftMatches, HasPending,
            HasActiveSave
  <2> QED BY <1>2, <2>1, <2>2, StartTakes
<1>3. CASE Inner
  <2>1. step \in {"queued", "caches"} => HasActiveSave
    BY DEF DraftMatches
  <2> QED BY <1>3, <2>1, InnerEffect DEF ReportInv, HasPending, HasActiveSave
<1>4. CASE Outside
  BY <1>4, OutsideEffect DEF ReportInv, HasPending, HasActiveSave
<1>5. CASE DropDraft
  BY <1>5, DropEffect, ValueParts DEF ReportInv
<1>6. CASE Drops
  BY <1>5, <1>6, DropsEffect DEF ReportInv, HasPending, HasActiveSave
<1>7. ASSUME NEW t \in Texts \cup {settings.text, Bad}, Type(t)
      PROVE  ReportInv'
  <2>1. CASE t = Bad /\ draft' = t
    BY <2>1, ValueParts DEF ReportInv
  <2>2. CASE /\ pending' = [rev |-> nextRevision + 1,
                   value |-> [content |-> t, expected |-> settings.text]]
    <3>1. HasPending'
      BY <1>0, <2>2 DEF HasPending
    <3> QED BY <3>1 DEF ReportInv
  <2> QED BY <1>0, <1>5, <1>7, <2>1, <2>2, TypeEffect
<1>8. CASE Reveal
  BY <1>8, RevealEffect DEF ReportInv, HasPending, HasActiveSave
<1> QED BY <1>1, <1>2, <1>3, <1>4, <1>6, <1>7, <1>8, StepsOnDraft

\* A step after which a valid draft has nobody who will save it, and no report,
\* found it so, or it is the user's who reveals the values.
LEMMA NoSilentStep ==
  ASSUME AutosaveInv, ConfigTypeOK, ReadInv, DraftMatches, ReportInv, ConfigNext,
         Unsaved', ~Reported'
  PROVE  Unsaved /\ draft' = draft /\ (Reported => Reveal)
<1>0. /\ AutosaveTypeOK /\ OwnTypes /\ Nothing.rev = 0 /\ nextRevision \in Nat
      /\ draft' \in Good
  <2>1. AutosaveTypeOK /\ OwnTypes
    BY TypesAre DEF AutosaveInv, StoreTypes
  <2>2. OwnTypes'
    BY <2>1, OwnTypesKept
  <2> QED BY <2>1, <2>2 DEF OwnTypes, Unsaved, Nothing, AutosaveTypeOK
<1>1. ~Ends
  <2> SUFFICES ASSUME Ends PROVE FALSE
    OBVIOUS
  <2>1. PICK o \in Outcomes : EndSave(o)
    BY EndsAre
  <2>2. ~HasPending
    BY <2>1, EndEffect DEF Unsaved, HasPending
  <2> QED BY <1>0, <2>2, EndReports DEF Reported
<1>2. CASE Starts
  BY <1>2, StartTakes, StartsEffect DEF Unsaved, Reported, HasPending, HasActiveSave
<1>3. CASE Inner
  <2>1. step \in {"queued", "caches"} => HasActiveSave
    BY DEF DraftMatches
  <2> QED BY <1>3, <2>1, InnerEffect DEF Unsaved, Reported, HasPending, HasActiveSave
<1>4. CASE Outside
  BY <1>4, OutsideEffect DEF Unsaved, Reported, HasPending, HasActiveSave
<1>5. ~DropDraft
  BY DropEffect DEF Unsaved
<1>6. CASE Drops
  BY <1>5, <1>6, DropsEffect DEF Unsaved, Reported, HasPending, HasActiveSave
<1>7. ASSUME NEW t \in Texts \cup {settings.text, Bad}, Type(t)
      PROVE  FALSE
  <2>1. CASE draft' = Bad
    BY <2>1 DEF Unsaved
  <2>2. CASE pending' = [rev |-> nextRevision + 1,
               value |-> [content |-> t, expected |-> settings.text]]
    BY <1>0, <2>2 DEF Unsaved, HasPending
  <2> QED BY <1>0, <1>5, <1>7, <2>1, <2>2, TypeEffect
<1>8. CASE Reveal
  BY <1>8, RevealEffect DEF Unsaved, HasPending, HasActiveSave
<1> QED BY <1>1, <1>2, <1>3, <1>4, <1>6, <1>7, <1>8, StepsOnDraft

-----------------------------------------------------------------------------
(* The versions.                                                           *)

\* Nothing that is read becomes older than what a reply has told.
LEMMA ReadsKept ==
  ASSUME AutosaveInv, ConfigTypeOK, ReadInv, DraftMatches, ConfigNext
  PROVE  ReadInv'
<1>0. /\ OwnTypes /\ acked \in Nat /\ file \in Docs /\ settings \in Docs
      /\ file.ver \in Nat /\ settings.ver \in Nat
      /\ loads \in [Loaders -> LoadType]
      /\ acked <= file.ver /\ acked <= settings.ver
  BY TypesAre, DocParts DEF StoreTypes, OwnTypes, ReadInv
<1>1. CASE Ends
  <2>1. /\ step' = "none" /\ UNCHANGED <<loads, file, acked>> /\ step # "load"
        /\ settings' = settings \/ (step = "reread" /\ settings' = reply)
    BY <1>1, EndsEffect
  <2> QED BY <2>1 DEF ReadInv
<1>2. CASE Starts
  <2>1. step' = step \/ (step' = "queued" /\ step = "none")
    BY <1>2, StartsEffect, StartTakes DEF DraftMatches, HasActiveSave
  <2> QED BY <1>2, <2>1, StartsEffect DEF ReadInv
<1>3. CASE Inner
  <2>1. CASE StartView
    <3>1. Start("view") /\ UNCHANGED <<file, settings, acked, reply, step>>
      BY <2>1 DEF StartView, LoadVarsOnly
    <3> QED BY <1>0, <3>1, StartEffect, LoadFacts DEF ReadInv
  <2>2. CASE Collect
    <3>1. /\ UNCHANGED <<file, settings, acked, reply>>
          /\ step = "collect" /\ step' \in {"load", "caches"}
          /\ \/ Start("own") /\ step' = "load"
             \/ loads' = loads
      BY <2>2 DEF Collect
    <3> QED BY <1>0, <3>1, StartEffect, LoadFacts DEF ReadInv
  <2>3. ASSUME NEW l \in Loaders, ServiceReads(l) PROVE ReadInv'
    <3>1. /\ UNCHANGED <<file, settings, acked, reply, step>>
          /\ loads' = [loads EXCEPT ![l] = [@ EXCEPT !.at = "read", !.doc = file]]
          /\ loads[l].at = "sent"
      BY <1>0, <2>3 DEF ServiceReads, LoadVarsOnly, LoadType
    <3>2. /\ loads'[l].at = "read" /\ loads'[l].doc = file
          /\ \A k \in Loaders \ {l} : loads'[k] = loads[k]
      BY <1>0, <3>1 DEF LoadType
    <3> QED BY <1>0, <3>1, <3>2, LoadFacts DEF ReadInv
  <2>4. CASE ServiceStores
    BY <1>0, <2>4 DEF ServiceStores, ServiceOnly, ReadInv
  <2>5. CASE ServiceRereads
    BY <1>0, <2>5 DEF ServiceRereads, ServiceOnly, ReadInv
  <2>6. CASE Answer
    <3>1. /\ reply \in Docs /\ reply.ver \in Nat /\ reply.ver <= file.ver
          /\ settings' = reply /\ acked' = reply.ver /\ file' = file
          /\ step = "replied" /\ step' = "collect"
      BY <2>6, DocParts DEF Answer, ReadInv
    <3>2. \A l \in Loaders : /\ loads'[l].at = loads[l].at
                             /\ loads'[l].doc = loads[l].doc
                             /\ ~loads'[l].current
      BY <1>0, <2>6 DEF Answer, LoadType
    <3> QED BY <1>0, <3>1, <3>2, LoadFacts DEF ReadInv
  <2>7. CASE EnterSends \/ ServiceRefuses \/ PublishSaved
    BY <1>0, <2>7 DEF EnterSends, ServiceRefuses, PublishSaved, ServiceOnly,
       ReadInv
  <2> QED BY <1>3, <2>1, <2>2, <2>3, <2>4, <2>5, <2>6, <2>7 DEF Inner
<1>4. CASE Drops
  <2>1. CASE Hide
    BY <2>1, DropEffect DEF Hide, ReadInv
  <2>2. CASE PressReload
    <3>1. /\ UNCHANGED <<file, settings, acked, reply>>
          /\ loads' = [loads EXCEPT !["reload"] = [@ EXCEPT !.at = "asked"]]
          /\ step' = IF step = "queued" THEN "cancelled" ELSE step
      BY <1>0, <2>2, DropEffect DEF PressReload, LoadVarsOnly
    <3>2. /\ loads'["reload"].at = "asked"
          /\ \A k \in Loaders \ {"reload"} : loads'[k] = loads[k]
      BY <1>0, <3>1, LoadFacts DEF LoadType
    <3> QED BY <3>1, <3>2, LoadFacts DEF ReadInv
  <2>3. CASE StartReload
    <3>1. /\ UNCHANGED <<file, settings, acked, reply>>
          /\ step' = step \/ (step = "queued" /\ step' = "cancelled")
          /\ \/ Start("reload")
             \/ loads' = [loads EXCEPT !["reload"] = NoLoad]
      BY <2>3, DropEffect DEF StartReload, LoadVarsOnly
    <3> QED BY <1>0, <3>1, StartEffect, LoadFacts DEF ReadInv
  <2>4. ASSUME NEW l \in Loaders, EndLoad(l) PROVE ReadInv'
    <3>1. /\ UNCHANGED <<file, acked, reply>>
          /\ loads' = [loads EXCEPT ![l] = NoLoad]
          /\ settings' = settings
             \/ (loads[l].current /\ settings' = loads[l].doc)
          /\ loads[l].at = "read"
          /\ l = "own" => step' = "caches"
          /\ l # "own" => \/ step' = step
                          \/ (step = "queued" /\ step' = "cancelled")
      BY <2>4, DropEffect DEF EndLoad, Accepts, LoadVarsOnly
    <3>2. acked' <= settings'.ver
      BY <1>0, <3>1 DEF ReadInv
    <3>3. l = "own" => step = "load"
      BY <3>1 DEF ReadInv
    <3> QED BY <1>0, <3>1, <3>2, <3>3, LoadFacts DEF ReadInv
  <2> QED BY <1>4, <2>1, <2>2, <2>3, <2>4 DEF Drops
<1>5. CASE Outside
  <2>1. /\ UNCHANGED <<step, settings, loads, reply, acked>>
        /\ file'.ver = file.ver + 1
    BY <1>5, OutsideEffect DEF Outside, ForeignEdit, OwnWrite, OtherWrite,
     LateWrite
  <2>2. \A d \in Docs : d.ver <= file.ver => d.ver <= file'.ver
    BY <1>0, <2>1, DocParts
  <2> QED BY <1>0, <2>1, <2>2 DEF ReadInv
<1>6. ASSUME NEW t \in Texts \cup {settings.text, Bad}, Type(t)
      PROVE  ReadInv'
  <2>1. /\ UNCHANGED <<file, settings, acked, reply, loads>>
        /\ step' = step \/ (step = "queued" /\ step' = "cancelled")
    BY <1>0, <1>6, TypeEffect, DropEffect, TypesAre
  <2> QED BY <2>1 DEF ReadInv
<1>7. CASE Reveal
  BY <1>7, RevealEffect DEF ReadInv
<1> QED BY <1>1, <1>2, <1>3, <1>4, <1>5, <1>6, <1>7, StepsOnDraft

-----------------------------------------------------------------------------
(* The bases.                                                              *)

\* What a queued draft may be based on: during the service's write and until
\* the completion, on the document before or after it.
Base == IF step \in {"stored", "replied", "collect", "load", "caches", "detail"}
        THEN {active.value.expected, active.value.content}
        ELSE {settings.text}

\* As long as nobody else writes and no save is lost, the file, the loaded
\* document, what loads bring and the bases of the drafts are one document,
\* or, around a write, the one before and the one after it.
BaseInv ==
  /\ mutation # "conflict" /\ step \notin {"refused", "reread"}
  /\ HasPending => pending.value.expected \in Base
  /\ step \in {"queued", "sent"} => active.value.expected = settings.text
  /\ step \in {"stored", "replied"} => file.text = active.value.content
  /\ step = "replied" => reply.text = active.value.content
  /\ step \in {"collect", "load", "caches", "detail"}
       => committed = active.value.content /\ settings.text = committed
  /\ step \notin {"stored", "replied"} => file.text = settings.text
  /\ settings.text \in Base
  /\ \A l \in Loaders : loads[l].at = "read" /\ loads[l].current
       => IF step \in {"stored", "replied"} THEN loads[l].doc.text \in Base
          ELSE loads[l].doc.text = settings.text

Quiet == edits = 0 /\ ~lost
QuietInv == Quiet => BaseInv

\* Quiet does not come back, and it excludes the writes and failures that move
\* the file or the loaded document away from the bases.
LEMMA QuietBefore ==
  ASSUME OwnTypes, QuietInv, ConfigNext, Quiet'
  PROVE  /\ Quiet /\ BaseInv /\ ~Outside /\ ~CollectFails
         /\ CallFails => step = "sent"
<1>0. edits \in Nat /\ lost \in BOOLEAN
  BY DEF OwnTypes
<1>1. ~Outside
  BY <1>0 DEF Outside, ForeignEdit, OwnWrite, OtherWrite, LateWrite, Quiet
<1>2. edits' = edits /\ lost' \in {lost, TRUE}
  BY <1>1, StepKinds, EndsEffect, StartsEffect DEF Inner, EnterSends,
     ServiceStores, ServiceRefuses, ServiceRereads, Answer, Collect,
     PublishSaved, ServiceOnly, StartView, ServiceReads, LoadVarsOnly, Edits,
     Type, Hide, PressReload, StartReload, EndLoad, Reveal
<1>3. ~CollectFails /\ (CallFails => step = "sent")
  BY DEF CallFails, CollectFails, Quiet
<1>4. Quiet
  <2>1. edits' = 0 /\ ~lost'
    BY DEF Quiet
  <2>2. lost' = lost \/ lost' = TRUE
    BY <1>2
  <2> QED BY <1>2, <2>1, <2>2 DEF Quiet
<1> QED BY <1>1, <1>3, <1>4 DEF QuietInv

\* A load that ends brings a document of the base.
LEMMA EndLoadBrings ==
  ASSUME BaseInv, ReadInv, NEW l \in Loaders, EndLoad(l), OwnTypes
  PROVE  /\ UNCHANGED <<late, mutation, file, reply, committed, active>>
         /\ step \in {"stored", "replied"} => settings'.text \in Base
         /\ step \notin {"stored", "replied"} => settings'.text = settings.text
         /\ \A k \in Loaders : loads'[k].at = "read" => loads'[k] = loads[k]
         /\ \/ UNCHANGED <<pending, step>>
            \/ pending' = pending /\ step = "load" /\ step' = "caches"
            \/ /\ pending' = Nothing
               /\ step' = IF step = "queued" THEN "cancelled" ELSE step
<1>1. settings' = settings \/ (loads[l].current /\ settings' = loads[l].doc)
  BY DEF EndLoad, Accepts
<1>2. \A k \in Loaders : loads'[k].at = "read" => loads'[k] = loads[k]
  BY LoadFacts DEF EndLoad, OwnTypes
<1>3. /\ \/ UNCHANGED <<pending, step>>
         \/ pending' = pending /\ step = "load" /\ step' = "caches"
         \/ /\ pending' = Nothing
            /\ step' = IF step = "queued" THEN "cancelled" ELSE step
      /\ active' = active
  BY EndLoadEffect, DropEffect
<1>4. UNCHANGED <<late, mutation, file, reply, committed>> /\ loads[l].at = "read"
  BY DEF EndLoad, LoadVarsOnly
<1>5. /\ step \in {"stored", "replied"} => settings'.text \in Base
      /\ step \notin {"stored", "replied"} => settings'.text = settings.text
  BY <1>1, <1>4 DEF BaseInv
<1> QED BY <1>2, <1>3, <1>4, <1>5

\* The bases stay right, and no conflict is published.
LEMMA QuietKept ==
  ASSUME AutosaveInv, ConfigTypeOK, ReadInv, DraftMatches, QuietInv, ConfigNext
  PROVE  QuietInv'
<1> SUFFICES ASSUME Quiet' PROVE BaseInv'
  BY DEF QuietInv
<1>0. /\ AutosaveTypeOK /\ OwnTypes /\ Nothing.rev = 0
      /\ nextRevision \in Nat /\ loads \in [Loaders -> LoadType]
  BY TypesAre DEF AutosaveInv, AutosaveTypeOK, StoreTypes, OwnTypes, Nothing
<1>q. BaseInv /\ ~Outside /\ ~CollectFails /\ (CallFails => step = "sent")
  BY <1>0, QuietBefore
<1>1. CASE Ends
  <2>1. /\ step' = "none" /\ UNCHANGED <<loads, file>> /\ step # "reread"
        /\ settings' = settings /\ committed' = None
        /\ active' = Nothing /\ (HasPending' <=> HasPending)
    <3>1. PICK o \in Outcomes : EndSave(o)
      BY <1>1, EndsAre
    <3>2. active' = Nothing /\ (HasPending' <=> HasPending)
      BY <3>1, EndEffect DEF HasPending
    <3> QED BY <1>1, <1>q, <3>2, EndsEffect DEF BaseInv
  <2>2. step \in {"cancelled", "queued", "sent", "detail"} /\ mutation' # "conflict"
    BY <1>1, <1>q DEF Ends, ReturnCancelled, EnterRefused, CallFails, Conflict,
       Succeed, Publish, BaseInv
  <2>3. HasPending => pending'.value.expected = settings.text
    <3>1. CASE step = "detail"
      <4>1. EndSave("succeeded") /\ "succeeded" \in Outcomes
        BY <1>1, <1>q, <3>1 DEF Ends, ReturnCancelled, EnterRefused, CallFails,
           Conflict, Succeed, Outcomes
      <4>2. /\ committed = settings.text /\ committed # None
            /\ committed = active.value.content /\ committed \in Good
        BY <1>0, <1>q, <3>1, DocParts, ValueParts DEF BaseInv, OwnTypes
      <4>3. HasPending => pending'.value = Rebound("succeeded")
        BY <4>1, EndEffect
      <4>4. HasPending => /\ pending.value \in Values
                          /\ pending.value.expected
                               \in {active.value.expected, settings.text}
        BY <1>0, <1>q, <3>1, <4>2, HeldValues DEF BaseInv, Base
      <4> QED BY <4>2, <4>3, <4>4, ValueParts DEF Rebound
    <3>2. CASE step \in {"cancelled", "queued", "sent"}
      <4>1. PICK o \in {"failed", "cancelled"} : EndSave(o)
        BY <1>1, <1>q, <3>2 DEF Ends, ReturnCancelled, EnterRefused, CallFails,
           Conflict, Succeed
      <4>2. HasPending => pending'.value = pending.value
        BY <4>1, EndEffect DEF Rebound, Outcomes
      <4> QED BY <1>q, <3>2, <4>2 DEF BaseInv, Base
    <3> QED BY <2>2, <3>1, <3>2
  <2> QED BY <1>q, <2>1, <2>2, <2>3 DEF BaseInv, Base
<1>2. CASE Starts
  <2>1. UNCHANGED <<mutation, reply, committed, settings, loads, file, late>>
    BY <1>2, StartsEffect
  <2>2. CASE UNCHANGED <<active, pending>>
    <3>1. step' = step
      BY <1>2, <2>2, StartsEffect
    <3> QED BY <1>q, <2>1, <2>2, <3>1 DEF BaseInv, Base, HasPending
  <2>3. CASE ~HasActiveSave /\ HasPending /\ active' = pending /\ pending' = Nothing
    <3>1. step = "none" /\ step' = "queued"
      BY <1>2, <2>3, StartsEffect DEF HasPending, HasActiveSave, DraftMatches
    <3> QED BY <1>0, <1>q, <2>1, <2>3, <3>1 DEF BaseInv, Base, HasPending
  <2> QED BY <1>2, <2>2, <2>3, StartTakes
<1>3. CASE Inner
  <2>0. UNCHANGED <<pending, active>> /\ (HasPending' <=> HasPending)
    BY <1>3, InnerEffect DEF HasPending
  <2>1. CASE StartView
    <3>1. /\ Start("view")
          /\ UNCHANGED <<file, settings, reply, step, mutation, committed, late>>
      BY <2>1 DEF StartView, LoadVarsOnly
    <3>2. \A k \in Loaders : ~(loads'[k].at = "read" /\ loads'[k].current)
      BY <1>0, <3>1, StartEffect, LoadFacts
    <3> QED BY <1>q, <2>0, <3>1, <3>2 DEF BaseInv, Base
  <2>2. CASE Collect
    <3>1. /\ UNCHANGED <<file, settings, reply, mutation, committed, late>>
          /\ step = "collect" /\ step' \in {"load", "caches"}
          /\ Start("own") \/ loads' = loads
      BY <2>2 DEF Collect
    <3>2. \A k \in Loaders : loads'[k].at = "read" /\ loads'[k].current
            => loads'[k] = loads[k]
      BY <1>0, <3>1, StartEffect, LoadFacts
    <3> QED BY <1>q, <2>0, <3>1, <3>2 DEF BaseInv, Base
  <2>3. ASSUME NEW l \in Loaders, ServiceReads(l) PROVE BaseInv'
    <3>1. /\ UNCHANGED <<file, settings, reply, step, mutation, committed, late>>
          /\ loads' = [loads EXCEPT ![l] = [@ EXCEPT !.at = "read", !.doc = file]]
      BY <1>0, <2>3 DEF ServiceReads, LoadVarsOnly, LoadType
    <3>2. /\ loads'[l].doc = file
          /\ \A k \in Loaders \ {l} : loads'[k] = loads[k]
      BY <1>0, <3>1 DEF LoadType
    <3>3. IF step \in {"stored", "replied"} THEN file.text \in Base
          ELSE file.text = settings.text
      BY <1>q DEF BaseInv, Base
    <3> QED BY <1>q, <2>0, <3>1, <3>2, <3>3 DEF BaseInv, Base
  <2>4. CASE ServiceStores
    <3>1. /\ UNCHANGED <<settings, loads, reply, mutation, committed, late>>
          /\ step = "sent" /\ step' = "stored"
          /\ file'.text = active.value.content
      BY <2>4 DEF ServiceStores, ServiceOnly
    <3>2. /\ active.value.expected = settings.text /\ Base = {settings.text}
          /\ Base' = {active.value.expected, active.value.content}
      BY <1>q, <2>0, <3>1 DEF BaseInv, Base
    <3> QED BY <1>q, <2>0, <3>1, <3>2 DEF BaseInv
  <2>5. CASE ServiceRereads
    <3>1. /\ UNCHANGED <<settings, loads, file, mutation, committed, late>>
          /\ step = "stored" /\ step' = "replied" /\ reply' = file
      BY <1>q, <2>5 DEF ServiceRereads, ServiceOnly, BaseInv
    <3> QED BY <1>q, <2>0, <3>1 DEF BaseInv, Base
  <2>6. CASE Answer
    <3>1. /\ UNCHANGED <<file, mutation, late>>
          /\ settings' = reply /\ committed' = reply.text
          /\ step = "replied" /\ step' = "collect"
      BY <2>6 DEF Answer
    <3>2. \A l \in Loaders : ~loads'[l].current
      BY <1>0, <2>6 DEF Answer, LoadType
    <3> QED BY <1>q, <2>0, <3>1, <3>2 DEF BaseInv, Base
  <2>7. CASE EnterSends
    <3>1. /\ UNCHANGED <<file, settings, loads, reply, committed, late>>
          /\ step = "queued" /\ step' = "sent"
          /\ mutation' \in {mutation, "saving"}
      BY <2>7 DEF EnterSends, Publish
    <3> QED BY <1>q, <2>0, <3>1 DEF BaseInv, Base
  <2>8. CASE ServiceRefuses
    BY <1>q, <2>8 DEF ServiceRefuses, BaseInv
  <2>9. CASE PublishSaved
    <3>1. /\ UNCHANGED <<file, settings, loads, reply, committed, late>>
          /\ step = "caches" /\ step' = "detail"
          /\ mutation' \in {mutation, "idle"}
      BY <2>9 DEF PublishSaved, Publish
    <3> QED BY <1>q, <2>0, <3>1 DEF BaseInv, Base
  <2> QED BY <1>3, <2>1, <2>2, <2>3, <2>4, <2>5, <2>6, <2>7, <2>8, <2>9 DEF Inner
<1>4. CASE Drops
  <2>1. ASSUME UNCHANGED <<late, mutation, file, reply, committed, settings>>,
               DropDraft \/ UNCHANGED <<pending, active, step>>,
               \A k \in Loaders : loads'[k].at = "read" /\ loads'[k].current
                 => loads'[k] = loads[k]
        PROVE  BaseInv'
    <3>1. /\ active' = active
          /\ HasPending' => pending' = pending
          /\ step' = step \/ (step = "queued" /\ step' = "cancelled")
      BY <1>0, <2>1, DropEffect DEF HasPending
    <3>2. Base' = Base
      BY <2>1, <3>1 DEF Base
    <3> QED BY <1>q, <2>1, <3>1, <3>2 DEF BaseInv, HasPending
  <2>2. CASE Hide
    BY <2>1, <2>2 DEF Hide
  <2>3. CASE PressReload
    <3>1. \A k \in Loaders : loads'[k].at = "read" => loads'[k] = loads[k]
      BY <1>0, <2>3 DEF PressReload, LoadType
    <3> QED BY <2>1, <2>3, <3>1 DEF PressReload, LoadVarsOnly
  <2>4. CASE StartReload
    <3>1. Start("reload") \/ loads' = [loads EXCEPT !["reload"] = NoLoad]
      BY <2>4 DEF StartReload
    <3>2. \A k \in Loaders : loads'[k].at = "read" /\ loads'[k].current
            => loads'[k] = loads[k]
      BY <1>0, <3>1, StartEffect, LoadFacts
    <3>3. /\ UNCHANGED <<late, mutation, file, reply, committed, settings>>
          /\ DropDraft \/ UNCHANGED <<pending, active, step>>
      BY <2>4 DEF StartReload, LoadVarsOnly, autosaveVars
    <3> QED BY <2>1, <3>2, <3>3
  <2>5. ASSUME NEW l \in Loaders, EndLoad(l) PROVE BaseInv'
    <3>1. /\ UNCHANGED <<late, mutation, file, reply, committed, active>>
          /\ step \in {"stored", "replied"} => settings'.text \in Base
          /\ step \notin {"stored", "replied"} => settings'.text = settings.text
          /\ \A k \in Loaders : loads'[k].at = "read" => loads'[k] = loads[k]
      BY <1>0, <1>q, <2>5, EndLoadBrings
    <3>2. /\ HasPending' => pending' = pending
          /\ \/ step' = step
             \/ step = "queued" /\ step' = "cancelled"
             \/ step = "load" /\ step' = "caches"
      BY <1>0, <1>q, <2>5, EndLoadBrings DEF HasPending
    <3>3. Base' = Base
      BY <3>1, <3>2 DEF Base
    <3> QED BY <1>q, <3>1, <3>2, <3>3 DEF BaseInv, HasPending, Base
  <2> QED BY <1>4, <2>2, <2>3, <2>4, <2>5 DEF Drops
<1>5. ASSUME NEW t \in Texts \cup {settings.text, Bad}, Type(t)
      PROVE  BaseInv'
  <2>1. /\ UNCHANGED <<reply, committed, settings, loads, file, late, active>>
        /\ mutation' \in {mutation, "idle"}
    BY <1>0, <1>5, TypeEffect
  <2>2. /\ step' = step \/ (step = "queued" /\ step' = "cancelled")
        /\ HasPending' => pending'.value.expected = settings.text
    BY <1>0, <1>5, TypeEffect, DropEffect DEF HasPending
  <2>3. Base' = Base
    BY <2>1, <2>2 DEF Base
  <2> QED BY <1>q, <2>1, <2>2, <2>3 DEF BaseInv
<1>6. CASE Reveal
  BY <1>6, <1>q, RevealEffect DEF BaseInv, Base, HasPending
<1> QED BY <1>1, <1>2, <1>3, <1>4, <1>5, <1>6, <1>q, StepsOnDraft

-----------------------------------------------------------------------------
(* The invariant.                                                          *)

ConfigInv == /\ AutosaveInv /\ ConfigTypeOK /\ DraftMatches
             /\ ReadInv /\ ReportInv /\ QuietInv

\* The initial states satisfy all of it.
LEMMA ConfigInitial == ConfigInit => ConfigInv
<1> SUFFICES ASSUME ConfigInit PROVE ConfigInv
  OBVIOUS
<1>1. AutosaveInv
  BY AutosaveInitial DEF ConfigInit
<1>2. ~HasPending /\ ~HasActiveSave
  BY DEF ConfigInit, AutosaveInit, HasPending, HasActiveSave, Nothing
<1>3. file \in Docs /\ file.ver = 0 /\ file.text \in Good
  BY DocParts DEF ConfigInit, Good
<1>4. \A l \in Loaders : loads[l] = NoLoad
  BY DEF ConfigInit
<1>5. ConfigTypeOK
  <2>1. OwnTypes
    <3>1. loads \in [Loaders -> LoadType]
      BY LoadFacts DEF ConfigInit
    <3>2. /\ settings \in Docs /\ edits \in 0..MaxForeign /\ latest <= nextRevision
      BY <1>3 DEF ConfigInit, AutosaveInit
    <3> QED BY <1>3, <3>1, <3>2 DEF ConfigInit, OwnTypes, Steps
  <2>2. known \subseteq Foreign
    BY DEF ConfigInit
  <2> QED BY <1>1, <2>1, <2>2, TypesAre DEF StoreTypes, AutosaveInv
<1>6. DraftMatches
  BY <1>2 DEF ConfigInit, DraftMatches
<1>7. ReadInv
  BY <1>3, <1>4, LoadFacts DEF ConfigInit, ReadInv
<1>8. ReportInv
  BY <1>2, ValueParts DEF ConfigInit, ReportInv
<1>9. QuietInv
  BY <1>2, <1>4, LoadFacts DEF ConfigInit, QuietInv, BaseInv, Base
<1> QED BY <1>1, <1>5, <1>6, <1>7, <1>8, <1>9 DEF ConfigInv

\* Every step keeps all of it.
LEMMA ConfigStep == ConfigInv /\ [ConfigNext]_allVars => ConfigInv'
<1> SUFFICES ASSUME ConfigInv, [ConfigNext]_allVars PROVE ConfigInv'
  OBVIOUS
<1>1. AutosaveInv'
  BY CoordinatorKept DEF ConfigInv
<1>2. CASE ConfigNext
  <2>1. ConfigTypeOK'
    <3>1. StoreTypes'
      BY <1>2, TypesAre, StoreTypesKept DEF ConfigInv
    <3>2. AutosaveTypeOK'
      BY <1>1 DEF AutosaveInv
    <3> QED BY <3>1, <3>2 DEF ConfigTypeOK, StoreTypes, OwnTypes, LoadType, Good,
            AutosaveTypeOK
  <2> QED BY <1>1, <1>2, <2>1, DraftKept, ReadsKept, ReportsKept, QuietKept
          DEF ConfigInv
<1>3. CASE UNCHANGED allVars
  BY <1>1, <1>3 DEF allVars, autosaveVars, configVars, ConfigInv, ConfigTypeOK,
     AutosaveTypeOK, DraftMatches, ReadInv, ReportInv, QuietInv, BaseInv, Base,
     Quiet, HasPending, HasActiveSave
<1> QED BY <1>2, <1>3

\* In every state the coordinator, the draft, the reports, the versions and
\* the bases fit together.
THEOREM ConfigInvariant == ConfigSpec => []ConfigInv
BY ConfigInitial, ConfigStep, PTL DEF ConfigSpec

\* The store uses its coordinator as RevisionAutosave allows, whatever is
\* typed, loaded, refused or given up: all that is proved of AutosaveSpec
\* (no draft stranded, none saved out of order) holds in the store.
THEOREM CoordinatorImplemented == ConfigSpec => AutosaveSpec
<1>1. ConfigInit => AutosaveInit
  BY DEF ConfigInit
<1>2. ConfigInv /\ [ConfigNext]_allVars => [AutosaveNext]_autosaveVars
  BY StoreStepIsCoordinators DEF ConfigInv
<1> QED BY <1>1, <1>2, ConfigInvariant, PTL DEF ConfigSpec, AutosaveSpec

\* So the store saves its revisions in increasing order, none of them twice,
\* and each the newest there is when its save starts.
THEOREM StoreKeepsSlot == ConfigSpec => SlotSafe
BY CoordinatorImplemented, SlotRefinement, PTL

\* And none of its drafts is stranded: what is pending will be saved by a timer,
\* a save or a flush, and the phase it shows is true.
THEOREM StoreStrandsNoDraft == ConfigSpec => []AutosaveSafe
BY CoordinatorImplemented, AutosaveIsSafe, PTL

\* The store is well typed.
THEOREM ConfigTypes == ConfigSpec => []ConfigTypeOK
<1>1. ConfigInv => ConfigTypeOK
  BY DEF ConfigInv
<1> QED BY <1>1, ConfigInvariant, PTL

\* The newest revision is the text in the editor, and a save that waits in the
\* lane is one the user wants.
THEOREM DraftIsNewest == ConfigSpec => []DraftMatches
<1>1. ConfigInv => DraftMatches
  BY DEF ConfigInv
<1> QED BY <1>1, ConfigInvariant, PTL

\* A valid draft is never given up in silence, with any number of edits, loads,
\* failures and outside writes; only the user, who reveals the values again,
\* takes its report back.
THEOREM UnsavedReported == ConfigSpec => UnsavedIsReported
<1>1. ConfigInv /\ [ConfigNext]_allVars
        => [Unsaved' /\ ~Reported'
              => Unsaved /\ draft' = draft /\ (Reported => Reveal)]_allVars
  BY NoSilentStep DEF ConfigInv
<1> QED BY <1>1, ConfigInvariant, PTL DEF ConfigSpec, UnsavedIsReported

\* What the store holds is never older than what a reply has told.
THEOREM AckedKept == ConfigSpec => []AckedNotForgotten
<1>1. ConfigInv => AckedNotForgotten
  <2>1. ConfigTypeOK => acked \in Nat /\ settings.ver \in Nat
    BY TypesAre, DocParts DEF StoreTypes, OwnTypes
  <2> QED BY <2>1 DEF ConfigInv, ReadInv, AckedNotForgotten
<1> QED BY <1>1, ConfigInvariant, PTL

\* As long as nobody else writes the file and no save that has written is taken
\* for failed, the store reports no conflict, with any number of edits, saves,
\* loads and calls that fail before they write.
THEOREM SavesAgreeAlways == ConfigSpec => []SavesAgree
<1>1. ConfigInv => SavesAgree
  <2>1. ConfigTypeOK => edits \in Nat
    BY TypesAre DEF StoreTypes, OwnTypes
  <2> QED BY <2>1 DEF ConfigInv, QuietInv, Quiet, BaseInv, SavesAgree
<1> QED BY <1>1, ConfigInvariant, PTL

=============================================================================
