--------------------------- MODULE ConfigAutosave ---------------------------
(***************************************************************************)
(* The autosave of the Claude settings, from the editor to the file:       *)
(* SkillStore.swift (submit, cancel, save, completion, loads) around the   *)
(* coordinator of RevisionAutosave, and AgentConfigWorkspacePanel.swift.   *)
(* The lane is what AutosaveLane shows of it: a queued save is let in at   *)
(* some time, alone, unless it is cancelled first.  The service is one     *)
(* conditional write and a later read for the reply: ConfigStore has its   *)
(* inside.  A revision is a digest of the document, so it stands for it.   *)
(***************************************************************************)
EXTENDS RevisionAutosave

CONSTANTS Texts,       \* valid documents the user types
          Foreign,     \* documents that are in the file, or that others write
          Bad,         \* an invalid document
          None,
          MaxForeign   \* bound: writes of the file that are no save's
ASSUME TextsAssumption ==
  /\ Values = [content : Texts \cup Foreign, expected : Texts \cup Foreign]
  /\ Bad \notin Texts \cup Foreign /\ None \notin Texts \cup {Bad} \cup Foreign
ASSUME ForeignAssumption == MaxForeign \in Nat

VARIABLES
  draft,     \* configAutosaveDraft: what is typed and not known to be saved
  latest,    \* latestConfigAutosaveRevision, 0 for nil
  mutation,  \* configMutationState
  step,      \* where the active save is
  reply,     \* the document a service call of the save has read
  committed, \* configAutosaveCommittedRevisionByRevision of the active save
  settings,  \* claudeSettings
  loads,     \* the calls of loadClaudeSettings in progress
  file,      \* the file
  edits,     \* number of writes of the file that are no save's
  late,      \* saves given up whose process may yet write
  lost,      \* ghost: a save that has written counts as failed
  acked,     \* ghost: the newest version of the file a reply has told
  known      \* ghost: others' documents the editor has shown

configVars == <<draft, latest, mutation, step, reply, committed, settings,
                loads, file, edits, late, lost, acked, known>>
allVars == <<autosaveVars, configVars>>

\* A document; ver, a ghost, counts the writes of the file.
Docs  == [text : Texts \cup Foreign, ver : Nat]
NoDoc == [text |-> None, ver |-> 0]

\* The reload button also drops the draft; the sidebar's refresh and view
\* updates do not; "own" is the load at the end of a save.
Loaders == {"reload", "view", "own"}
NoLoad  == [at |-> "idle", current |-> FALSE, doc |-> NoDoc]

Steps == {"none",      \* no save
          "queued",    \* registered or waiting in the lane
          "cancelled", \* cancelQueued was in time
          "sent",      \* the save call is under way
          "stored",    \* the service has written the file ...
          "replied",   \* ... and has read it again for its reply
          "refused",   \* config_conflict
          "reread",    \* the file has been read after the refusal
          "collect", "load", "caches", "detail"} \* awaits after the reply

\* Every variable keeps to the values the store can give it.
ConfigTypeOK ==
  /\ AutosaveTypeOK
  /\ draft \in Texts \cup Foreign \cup {Bad, None}
  /\ latest \in 0..nextRevision
  /\ mutation \in {"idle", "saving", "conflict", "failed"}
  /\ step \in Steps
  /\ reply \in Docs \cup {NoDoc}
  /\ committed \in Texts \cup Foreign \cup {None}
  /\ settings \in Docs /\ file \in Docs
  /\ loads \in [Loaders -> [at : {"idle", "asked", "sent", "read"},
                            current : BOOLEAN, doc : Docs \cup {NoDoc}]]
  /\ edits \in 0..MaxForeign
  /\ late \subseteq Values
  /\ lost \in BOOLEAN /\ acked \in Nat
  /\ known \subseteq Foreign

ConfigInit ==
  /\ AutosaveInit
  /\ draft = None /\ latest = 0 /\ mutation = "idle"
  /\ step = "none" /\ reply = NoDoc /\ committed = None
  /\ \E x \in Foreign : file = [text |-> x, ver |-> 0]
  /\ settings = file
  /\ loads = [l \in Loaders |-> NoLoad]
  /\ edits = 0 /\ late = {} /\ lost = FALSE /\ acked = 0
  /\ known = {settings.text}

\* What the editor shows (ConfigAutosaveDraftReducer, hydrate).
Shown == IF draft = None THEN settings.text ELSE draft

\* activeClaudeSettingsRequestKey is set: a load of the present generation.
IsLoading == \E l \in Loaders : loads[l].current
IsSaving  == step \notin {"none", "queued", "cancelled"}

-----------------------------------------------------------------------------
(* The editor.                                                             *)

\* cancelQueued of the active save's token.
CancelQueuedSave == step' = IF step = "queued" THEN "cancelled" ELSE step

\* cancelPendingConfigAutosave
DropDraft ==
  /\ CancelQueuedSave
  /\ CancelPendingDebounce
  /\ draft' = None /\ latest' = 0

\* submitConfigAutosave, bound to the revision that is loaded now.
Submit(t) ==
  /\ draft' = t
  /\ \/ /\ t = Bad
        /\ CancelQueuedSave
        /\ SubmitInvalid
     \/ /\ t # Bad
        /\ SubmitValid([content |-> t, expected |-> settings.text])
        /\ UNCHANGED step
  /\ latest' = nextRevision'

\* clearSettingsFeedback
ClearFeedback == mutation' = IF IsSaving THEN mutation ELSE "idle"

\* A keystroke, and the reducer's decision.
Type(t) ==
  /\ t # Shown
  /\ ClearFeedback
  /\ \/ /\ t # settings.text \/ HasActiveSave
        /\ Submit(t)
     \/ /\ t = settings.text /\ ~HasActiveSave
        /\ DropDraft
  /\ UNCHANGED <<reply, committed, settings, loads, file, edits, lost,
                 acked, late>>

\* The eye button shows the values, once the dialog is confirmed.  A draft may
\* have been kept: another agent or document hides the values without it.
Reveal ==
  /\ ClearFeedback
  /\ UNCHANGED <<autosaveVars, draft, latest, step, reply, committed, settings,
                 loads, file, edits, lost, acked, late>>

\* The eye button hides the values and drops the draft.
Hide ==
  /\ draft # None
  /\ DropDraft
  /\ UNCHANGED <<mutation, reply, committed, settings, loads, file, edits,
                 lost, acked, late>>

-----------------------------------------------------------------------------
(* Loads.                                                                  *)

LoadVarsOnly == UNCHANGED <<mutation, reply, committed, file, edits, lost,
                            acked, late>>

\* The reload button drops the draft; other lists are loaded before.
PressReload ==
  /\ loads["reload"].at = "idle" /\ ~IsLoading /\ ~IsSaving
  /\ DropDraft
  /\ loads' = [loads EXCEPT !["reload"].at = "asked"]
  /\ UNCHANGED settings
  /\ LoadVarsOnly

Start(l) == loads' = [k \in Loaders |->
              IF k = l THEN [at |-> "sent", current |-> TRUE, doc |-> NoDoc]
              ELSE [loads[k] EXCEPT !.current = FALSE]]

\* A load gives up when one is already under way.
StartReload ==
  /\ loads["reload"].at = "asked"
  /\ \/ /\ ~IsLoading
        /\ Start("reload")
        /\ UNCHANGED <<autosaveVars, draft, latest, step>>
     \/ /\ IsLoading
        /\ loads' = [loads EXCEPT !["reload"] = NoLoad]
        /\ DropDraft
  /\ UNCHANGED settings
  /\ LoadVarsOnly

StartView ==
  /\ loads["view"].at = "idle" /\ ~IsLoading
  /\ Start("view")
  /\ UNCHANGED <<autosaveVars, draft, latest, step, settings>>
  /\ LoadVarsOnly

ServiceReads(l) ==
  /\ loads[l].at = "sent"
  /\ loads' = [loads EXCEPT ![l].at = "read", ![l].doc = file]
  /\ UNCHANGED <<autosaveVars, draft, latest, step, settings>>
  /\ LoadVarsOnly

\* Mutant of Accepts: the generation is not compared.
AcceptsAny(l) == settings' = loads[l].doc

\* A result of an older generation is dropped.
Accepts(l) == settings' = IF loads[l].current THEN loads[l].doc ELSE settings

\* The load ends; an error leaves what is loaded.
EndLoad(l) ==
  /\ loads[l].at = "read"
  /\ Accepts(l) \/ UNCHANGED settings
  /\ loads' = [loads EXCEPT ![l] = NoLoad]
  /\ \/ l = "reload" /\ DropDraft
     \/ l = "view"   /\ UNCHANGED <<autosaveVars, draft, latest, step>>
     \/ l = "own"    /\ step' = "caches"
                     /\ UNCHANGED <<autosaveVars, draft, latest>>
  /\ LoadVarsOnly

-----------------------------------------------------------------------------
(* The save.                                                               *)

\* What starts a worker registers its token with the lane.
StartsSave(A) ==
  /\ A
  /\ step' = IF active'.rev # active.rev THEN "queued" ELSE step
  /\ UNCHANGED <<draft, latest, mutation, reply, committed, settings, loads,
                 file, edits, lost, acked, late>>

TimerFires == StartsSave(DebounceElapsed)
Quit(f)    == StartsSave(Flush(f))
Quitting   == \E f \in Flushers : StartsSave(FlushResumes(f))

\* publishConfigSaveFeedback: only for the newest edit.
Publish(m) == mutation' = IF active.rev = latest THEN m ELSE mutation

\* Mutants of Rebound: the pending binding keeps its base; it takes what the
\* save has committed without asking whether it has.
ReboundNever(outcome) == pending.value
ReboundUnchecked(outcome) ==
  IF HasPending THEN [pending.value EXCEPT !.expected = committed]
  ELSE pending.value

\* The pending binding after the active save: it advances to the revision
\* the save committed if both had the same base.
Rebound(outcome) ==
  IF /\ HasPending
     /\ outcome = "succeeded" /\ committed # None
     /\ pending.value.expected = active.value.expected
  THEN [pending.value EXCEPT !.expected = committed]
  ELSE pending.value

\* Mutant of Settle: any success clears the draft.
SettleAny(outcome) ==
  IF outcome = "succeeded" THEN latest' = 0 /\ draft' = None
  ELSE UNCHANGED <<latest, draft>>

\* The completion clears the draft if it was the newest edit that was saved.
Settle(outcome) ==
  \/ /\ active.rev = latest /\ outcome = "succeeded"
     /\ latest' = 0 /\ draft' = None
  \/ /\ ~(active.rev = latest /\ outcome = "succeeded")
     /\ UNCHANGED <<latest, draft>>

\* The save returns: the lane is released and handleConfigAutosaveCompletion
\* runs in the same turn.
EndSave(outcome) ==
  /\ WorkerFinished(outcome, Rebound(outcome))
  /\ Settle(outcome)
  /\ step' = "none" /\ reply' = NoDoc /\ committed' = None

ReturnCancelled ==
  /\ step = "cancelled"
  /\ EndSave("cancelled")
  /\ UNCHANGED <<mutation, settings, loads, file, edits, lost, acked, late>>

\* The lane is ours: the local checks (isRefreshBusy, the loaded revision),
\* and the call.
EnterRefused ==
  /\ step = "queued"
  /\ \/ Publish("failed")
     \/ /\ settings.text # active.value.expected
        /\ Publish("conflict")
  /\ EndSave("failed")
  /\ UNCHANGED <<settings, loads, file, edits, lost, acked, late>>

EnterSends ==
  /\ step = "queued"
  /\ settings.text = active.value.expected
  /\ Publish("saving")
  /\ step' = "sent"
  /\ UNCHANGED <<autosaveVars, draft, latest, reply, committed, settings,
                 loads, file, edits, lost, acked, late>>

ServiceOnly == UNCHANGED <<autosaveVars, draft, latest, mutation, committed,
                           settings, loads, edits, lost, acked, late>>

\* The service writes the file if it is what is expected.
ServiceStores ==
  /\ step = "sent"
  /\ file.text = active.value.expected
  /\ file' = [text |-> active.value.content, ver |-> file.ver + 1]
  /\ step' = "stored"
  /\ UNCHANGED reply
  /\ ServiceOnly

ServiceRefuses ==
  /\ step = "sent"
  /\ file.text # active.value.expected
  /\ step' = "refused"
  /\ UNCHANGED <<file, reply>>
  /\ ServiceOnly

\* The document for the reply, or for the read after a refusal.
ServiceRereads ==
  /\ \/ step = "stored"  /\ step' = "replied"
     \/ step = "refused" /\ step' = "reread"
  /\ reply' = file
  /\ UNCHANGED file
  /\ ServiceOnly

\* The call fails, before or after the write; after a timeout before it, the
\* process may live for a while and do the write.
CallFails ==
  /\ step \in {"sent", "stored"}
  /\ late' \in {late} \cup (IF step = "sent" THEN {late \cup {active.value}}
                            ELSE {})
  /\ Publish("failed")
  /\ lost' = IF step = "stored" THEN TRUE ELSE lost
  /\ EndSave("failed")
  /\ UNCHANGED <<settings, loads, file, edits, acked>>

\* The reply arrives: invalidateConfigReadGenerations, and what the reply
\* says is both the loaded document and the committed revision.
Answer ==
  /\ step = "replied"
  /\ committed' = reply.text
  /\ loads' = [l \in Loaders |-> [loads[l] EXCEPT !.current = FALSE]]
  /\ settings' = reply
  /\ acked' = reply.ver
  /\ step' = "collect"
  /\ reply' = NoDoc
  /\ UNCHANGED <<autosaveVars, draft, latest, mutation, file, edits, lost, late>>

\* Mutant of Conflict: it is not published.
ConflictQuietly ==
  /\ step = "reread"
  /\ settings' \in {settings, reply}
  /\ EndSave("failed")
  /\ UNCHANGED <<mutation, loads, file, edits, lost, acked, late>>

\* After a refusal the latest document is loaded, if it could be read.
Conflict ==
  /\ step = "reread"
  /\ Publish("conflict")
  /\ settings' \in {settings, reply}
  /\ EndSave("failed")
  /\ UNCHANGED <<loads, file, edits, lost, acked, late>>

\* Mutant of CollectFails: it is not published.
CollectFailsQuietly ==
  /\ step = "collect"
  /\ lost' = TRUE
  /\ EndSave("failed")
  /\ UNCHANGED <<mutation, settings, loads, file, edits, acked, late>>

\* refreshCollections throws: the save counts as failed.
CollectFails ==
  /\ step = "collect"
  /\ Publish("failed")
  /\ lost' = TRUE
  /\ EndSave("failed")
  /\ UNCHANGED <<settings, loads, file, edits, acked, late>>

\* refreshConfigCachesAfterSave
Collect ==
  /\ step = "collect"
  /\ \/ ~IsLoading /\ Start("own") /\ step' = "load"
     \/ IsLoading /\ step' = "caches" /\ UNCHANGED loads
  /\ UNCHANGED <<autosaveVars, draft, latest, mutation, reply, committed,
                 settings, file, edits, lost, acked, late>>

PublishSaved ==
  /\ step = "caches"
  /\ Publish("idle")
  /\ step' = "detail"
  /\ UNCHANGED <<autosaveVars, draft, latest, reply, committed, settings,
                 loads, file, edits, lost, acked, late>>

\* loadSelectedDetail has returned.
Succeed ==
  /\ step = "detail"
  /\ EndSave("succeeded")
  /\ UNCHANGED <<mutation, settings, loads, file, edits, lost, acked, late>>

\* The file is written, and the store is not told.
OtherWrite(x) ==
  /\ edits < MaxForeign
  /\ edits' = edits + 1
  /\ file' = [text |-> x, ver |-> file.ver + 1]
  /\ UNCHANGED <<autosaveVars, draft, latest, mutation, step, reply,
                 committed, settings, loads, lost, acked, late>>

\* Another program writes the file.
ForeignEdit(x) == OtherWrite(x)

\* A toggle, a batch or a rollback of the app writes it; none of them loads the
\* settings.  They do not start during a save, nor a save during them, but
\* one that was given up at its timeout may write at any time.
OwnWrite(x) == OtherWrite(x)

\* The process of a save that was given up writes after all.
LateWrite(v) ==
  /\ v \in late /\ late' = late \ {v}
  /\ lost' = TRUE
  /\ file.text = v.expected
  /\ file' = [text |-> v.content, ver |-> file.ver + 1]
  /\ UNCHANGED <<autosaveVars, draft, latest, mutation, step, reply,
                 committed, settings, loads, edits, acked>>

-----------------------------------------------------------------------------
Save == \/ ReturnCancelled \/ EnterRefused \/ EnterSends
        \/ ServiceStores \/ ServiceRefuses \/ ServiceRereads \/ CallFails
        \/ Answer \/ Conflict \/ CollectFails \/ Collect
        \/ PublishSaved \/ Succeed

\* A load takes its next step.
Load(l) == \/ ServiceReads(l) \/ EndLoad(l)
           \/ l = "reload" /\ StartReload

\* The ghost known: what the editor shows of what others wrote.
Observe == known' = known \cup ({Shown'} \cap Foreign)

ConfigNext ==
  /\ \/ Save \/ TimerFires \/ Quitting
     \/ \E l \in Loaders : Load(l)
     \/ \E t \in Texts \cup {settings.text, Bad} : Type(t)
     \/ Reveal \/ Hide \/ PressReload \/ StartView
     \/ \E f \in Flushers : Quit(f)
     \/ \E x \in Foreign : ForeignEdit(x) \/ OwnWrite(x)
     \/ \E v \in late : LateWrite(v)
  /\ Observe

ConfigSpec == ConfigInit /\ [][ConfigNext]_allVars

\* Timers and service calls end, and the lane serves everyone.
ConfigFairSpec == /\ ConfigSpec
                  /\ WF_allVars(Save /\ Observe)
                  /\ WF_allVars(TimerFires /\ Observe)
                  /\ \A l \in Loaders : WF_allVars(Load(l) /\ Observe)
-----------------------------------------------------------------------------
(* Properties.                                                             *)

\* The newest revision is always the text in the editor: what is pending or
\* being saved under the newest number is what the user sees, so "saved" is
\* never published for, and a completion never clears, another text; and a
\* save that waits in the lane is one the user wants: hiding, reloading and an
\* invalid edit each revoke it before it is sent.
DraftMatches ==
  /\ draft = None <=> latest = 0
  /\ HasPending => latest = pending.rev /\ draft = pending.value.content
  /\ HasActiveSave /\ active.rev = latest => draft = active.value.content
  /\ HasActiveSave <=> step # "none"
  /\ step = "queued" => draft \notin {None, Bad}

\* A valid draft that nobody is going to save, and whether it is said so.
Unsaved  == draft \notin {None, Bad} /\ ~HasPending /\ ~HasActiveSave
Reported == mutation \in {"conflict", "failed"}

\* A valid draft is never given up in silence, through every order of edits,
\* loads, failures and late ends: when the last who would have saved it is
\* gone, it is reported as failed or in conflict, and nothing takes the report
\* back while the draft is there but the user, who reveals the values again.
UnsavedIsReported ==
  [][Unsaved' /\ ~Reported'
       => Unsaved /\ draft' = draft /\ (Reported => Reveal)]_allVars

\* What the store holds is never older than what a reply has told: a load
\* that began before a save cannot bring the old document back.
AckedNotForgotten == settings.ver >= acked

\* The saves are never in conflict with one another: a conflict is reported
\* only after something else has written the file (another program, or one of
\* the app's own toggles, batches and rollbacks), or a save that the store took
\* for failed.  Otherwise every queued draft finds the base its predecessor
\* left, whatever loads, refusals, failures and completions come in between.
SavesAgree == mutation = "conflict" => edits > 0 \/ lost

\* A draft that is to be saved ends saved, dropped, or reported.
DraftSettles ==
  draft \notin {None, Bad} /\ (HasPending \/ HasActiveSave)
  ~> draft \in {None, Bad} \/ Reported

-----------------------------------------------------------------------------
(* What the tests of the app say, and the code does not keep.              *)

\* "Draft A must never be rebound to revision B." (the tests): a save never
\* replaces a document of others that the user has not been shown.
ReplacesKnown ==
  [][step = "sent" /\ step' = "stored" /\ file.text \in Foreign
       => file.text \in known]_allVars

=============================================================================
