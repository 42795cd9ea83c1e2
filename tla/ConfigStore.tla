----------------------------- MODULE ConfigStore -----------------------------
(***************************************************************************)
(* The config commands of crates/commands on one agent config file: save,  *)
(* snapshot rollback, toggle of one skill or of a batch group, and the     *)
(* catalog scan that follows them or runs alone.  The service answers each *)
(* request in a process of its own, so requests interleave at every file   *)
(* and catalog access.  They share the file, its lock file and the SQLite  *)
(* catalog.  Other programs (the agents, text editors) write the same file *)
(* and take no lock.  A request's process can be killed at any step.       *)
(***************************************************************************)
EXTENDS Naturals, FiniteSets

CONSTANTS Procs,         \* request processes
          Skills,        \* skills whose enablement the file holds
          Bodies,        \* the rest of a well-formed document
          SecretBodies,  \* those that hold a secret, masked in snapshots
          SaveTexts,     \* documents a client may ask to save
          EditTexts,     \* texts other programs may put into the file
          MaxRequests,   \* bound: requests started
          NoProc

NoBody     == ""          \* an empty (or absent) file's text
BrokenBody == "<broken>"  \* a text that is not a JSON document
EmptyBody  == "{}"        \* the document without any key

Texts == [body : Bodies \cup {NoBody, BrokenBody}, off : SUBSET Skills,
          masked : BOOLEAN]
ASSUME ProcsAssumption == NoProc \notin Procs
ASSUME BodiesAssumption == /\ EmptyBody \in Bodies
                           /\ {NoBody, BrokenBody} \cap Bodies = {}
                           /\ SecretBodies \subseteq Bodies
ASSUME TextsAssumption ==
  /\ SaveTexts \subseteq {t \in Texts : t.body \in Bodies /\ ~t.masked}
  /\ EditTexts \subseteq {t \in Texts : ~t.masked}
ASSUME MaxRequestsAssumption == MaxRequests \in Nat

EmptyText == [body |-> NoBody, off |-> {}, masked |-> FALSE]
Missing   == [exists |-> FALSE, text |-> EmptyText]
Written(t) == [exists |-> TRUE, text |-> t]
Files == {Missing} \cup {Written(t) : t \in Texts}

\* A revision digests the existence and the bytes: it stands for the file.
Revision(f) == f

IsDocument(t) == t.body \in Bodies /\ ~t.masked

\* The snapshot of a document that holds a secret is masked for good.
Redact(t) == IF t.body \in SecretBodies THEN [t EXCEPT !.masked = TRUE] ELSE t

\* patch_enabled: an empty text is patched as the document without keys.
Patch(t, S, on) ==
  [t EXCEPT !.body = IF t.body = NoBody THEN EmptyBody ELSE t.body,
            !.off = IF on THEN t.off \ S ELSE t.off \cup S]

\* What a scan reads as switched off; a text it cannot parse has no override.
Overrides(f) == IF f.exists /\ IsDocument(f.text) THEN f.text.off ELSE {}

VARIABLES
  file,       \* the config file
  writer,     \* ghost: the process that last wrote it, NoProc if outside
  lock,       \* holder of the exclusive lock on the .lock file
  snapshots,  \* contents of the catalog's snapshot rows
  catalog,    \* the catalog's `enabled` flag of each skill
  issued,     \* number of requests started (bounded by MaxRequests)
  pc,         \* what each process does next
  kind,       \* its command
  expect,     \* the revision the client reviewed
  cur,        \* the file as read under the lock
  want,       \* the text to write
  flips, on,  \* the skills to toggle, and to which state
  seen, todo  \* overrides a scan has read; catalog rows still to update

shared == <<file, writer, lock, snapshots, catalog>>
locals == <<kind, expect, cur, want, flips, on, seen, todo>>
vars   == <<shared, issued, pc, locals>>

Kinds   == {"none", "save", "rollback", "toggle", "scan"}
Resting == {"idle", "reviewed"}
Holding == {"locked", "snapshot", "write", "verify", "restore"}
Labels  == Resting \cup Holding \cup
           {"preflight", "lock", "catalog", "scan", "upsert", "reply"}

SharedOK ==
  /\ file \in Files
  /\ writer \in Procs \cup {NoProc}
  /\ lock \in Procs \cup {NoProc}
  /\ snapshots \subseteq Texts
  /\ catalog \in [Skills -> BOOLEAN]

LocalOK ==
  /\ issued \in Nat
  /\ pc \in [Procs -> Labels]
  /\ kind \in [Procs -> Kinds]
  /\ expect \in [Procs -> Files]
  /\ cur \in [Procs -> Files]
  /\ want \in [Procs -> Texts]
  /\ flips \in [Procs -> SUBSET Skills]
  /\ on \in [Procs -> BOOLEAN]
  /\ seen \in [Procs -> SUBSET Skills]
  /\ todo \in [Procs -> SUBSET Skills]

\* Every variable keeps to the values the program can give it; in particular
\* an absent file has no text.
TypeOK == SharedOK /\ LocalOK

Init ==
  /\ file \in {Missing} \cup {Written(t) : t \in EditTexts}
  /\ writer = NoProc
  /\ lock = NoProc
  /\ snapshots = {}
  /\ catalog = [s \in Skills |-> s \notin Overrides(file)]
  /\ issued = 0
  /\ pc = [p \in Procs |-> "idle"]
  /\ kind = [p \in Procs |-> "none"]
  /\ expect = [p \in Procs |-> Missing]
  /\ cur = [p \in Procs |-> Missing]
  /\ want = [p \in Procs |-> EmptyText]
  /\ flips = [p \in Procs |-> {}]
  /\ on = [p \in Procs |-> FALSE]
  /\ seen = [p \in Procs |-> {}]
  /\ todo = [p \in Procs |-> {}]

-----------------------------------------------------------------------------
(* Moving a process.                                                       *)

Goto(p, label) == pc' = [pc EXCEPT ![p] = label]

\* The end of a request.  A process keeps nothing; values it would never
\* read again are reset so that equal situations are one state.
Leave(p) ==
  /\ Goto(p, "idle")
  /\ kind' = [kind EXCEPT ![p] = "none"]
  /\ expect' = [expect EXCEPT ![p] = Missing]
  /\ cur' = [cur EXCEPT ![p] = Missing]
  /\ want' = [want EXCEPT ![p] = EmptyText]
  /\ flips' = [flips EXCEPT ![p] = {}]
  /\ on' = [on EXCEPT ![p] = FALSE]
  /\ seen' = [seen EXCEPT ![p] = {}]
  /\ todo' = [todo EXCEPT ![p] = {}]

\* Mutant of Release: the lock file is not unlocked.
NoRelease(p) == UNCHANGED lock

\* unlock(), or the close of the lock file by an early return or a kill.
Release(p) == lock' = IF lock = p THEN NoProc ELSE lock

\* An error reply, from any point of a request.
Fail(p) == /\ Leave(p)
           /\ Release(p)
           /\ UNCHANGED <<file, writer, snapshots, catalog, issued>>

\* Mutant of Replace: the target is unlinked and the rename lost.
Unlink(p, t) == /\ file' = [exists |-> FALSE, text |-> t]
                /\ writer' = p

\* write_config_atomic after its temporary file is complete: the rename.
Replace(p, t) == /\ file' = Written(t)
                 /\ writer' = p

-----------------------------------------------------------------------------
(* Clients.                                                                *)

Start(p) == /\ issued < MaxRequests
            /\ issued' = issued + 1

\* config.readClaudeSettings: the client keeps the revision it was shown.
ReviewConfig(p) ==
  /\ pc[p] = "idle"
  /\ Goto(p, "reviewed")
  /\ kind' = [kind EXCEPT ![p] = "save"]
  /\ expect' = [expect EXCEPT ![p] = Revision(file)]
  /\ UNCHANGED <<shared, issued, cur, want, flips, on, seen, todo>>

\* snapshot.previewRollback: the token binds the snapshot and the revision.
PreviewRollback(p) ==
  /\ pc[p] = "idle"
  /\ Goto(p, "reviewed")
  /\ kind' = [kind EXCEPT ![p] = "rollback"]
  /\ expect' = [expect EXCEPT ![p] = Revision(file)]
  /\ \E t \in snapshots : want' = [want EXCEPT ![p] = t]
  /\ UNCHANGED <<shared, issued, cur, flips, on, seen, todo>>

\* config.saveClaudeSettings is sent with the reviewed revision.
SubmitSave(p) ==
  /\ pc[p] = "reviewed" /\ kind[p] = "save"
  /\ Start(p)
  /\ Goto(p, "preflight")
  /\ \E t \in SaveTexts : want' = [want EXCEPT ![p] = t]
  /\ UNCHANGED <<shared, kind, expect, cur, flips, on, seen, todo>>

\* snapshot.rollback is sent with the preview token.
SubmitRollback(p) ==
  /\ pc[p] = "reviewed" /\ kind[p] = "rollback"
  /\ Start(p)
  /\ Goto(p, "preflight")
  /\ UNCHANGED <<shared, locals>>

\* skill.toggle for one skill, or one group of a batch apply for several.
SubmitToggle(p) ==
  /\ pc[p] = "idle"
  /\ Start(p)
  /\ Goto(p, "lock")
  /\ kind' = [kind EXCEPT ![p] = "toggle"]
  /\ \E S \in SUBSET Skills \ {{}} : flips' = [flips EXCEPT ![p] = S]
  /\ \E b \in BOOLEAN : on' = [on EXCEPT ![p] = b]
  /\ UNCHANGED <<shared, expect, cur, want, seen, todo>>

SubmitScan(p) ==
  /\ pc[p] = "idle"
  /\ Start(p)
  /\ Goto(p, "scan")
  /\ kind' = [kind EXCEPT ![p] = "scan"]
  /\ UNCHANGED <<shared, expect, cur, want, flips, on, seen, todo>>

-----------------------------------------------------------------------------
(* The steps of a request.                                                 *)

\* The check before any directory or lock file is created.
Preflight(p) ==
  /\ pc[p] = "preflight"
  /\ \/ /\ Revision(file) = expect[p]
        /\ Goto(p, "lock")
        /\ UNCHANGED <<shared, issued, locals>>
     \/ Revision(file) # expect[p] /\ Fail(p)

\* lock_config: blocks until the exclusive file lock is granted.
AcquireLock(p) ==
  /\ pc[p] = "lock"
  /\ lock = NoProc
  /\ lock' = p
  /\ Goto(p, "locked")
  /\ UNCHANGED <<file, writer, snapshots, catalog, issued, locals>>

\* Mutants of Admits: only the preflight compares revisions; a masked
\* snapshot is accepted.
AdmitsAnyRevision(p) == kind[p] = "rollback" => ~want[p].masked
AdmitsMasked(p) ==
  kind[p] \in {"save", "rollback"} => Revision(file) = expect[p]

\* What the locked read must confirm before the request goes on: a save or a
\* rollback its revision, and a rollback that its snapshot is not masked.
Admits(p) ==
  /\ kind[p] \in {"save", "rollback"} => Revision(file) = expect[p]
  /\ kind[p] = "rollback" => ~want[p].masked

\* Mutant of LockedRead: the request works on what it knew before the lock.
LockedReadSkipped(p) ==
  /\ pc[p] = "locked" /\ Admits(p)
  /\ cur' = [cur EXCEPT ![p] = expect[p]]
  /\ Goto(p, IF kind[p] = "rollback" THEN "write" ELSE "snapshot")
  /\ UNCHANGED <<shared, issued, kind, expect, want, flips, on, seen, todo>>

\* The authoritative read.  A rollback writes without taking a snapshot.
LockedRead(p) ==
  /\ pc[p] = "locked"
  /\ \/ /\ Admits(p)
        /\ cur' = [cur EXCEPT ![p] = file]
        /\ Goto(p, IF kind[p] = "rollback" THEN "write" ELSE "snapshot")
        /\ UNCHANGED <<shared, issued, kind, expect, want, flips, on, seen,
                       todo>>
     \/ ~Admits(p) /\ Fail(p)

\* The text a save or a toggle is about to write; a toggle patches what it
\* has read under the lock.
NewText(p) == IF kind[p] = "toggle" THEN Patch(cur[p].text, flips[p], on[p])
              ELSE want[p]

Patchable(p) == kind[p] = "toggle" => \/ cur[p].text.body = NoBody
                                      \/ IsDocument(cur[p].text)

\* Mutant of TakeSnapshot: the row holds the new text, not the old one.
SnapshotOfNewText(p) ==
  /\ pc[p] = "snapshot" /\ Patchable(p)
  /\ snapshots' = snapshots \cup {Redact(NewText(p))}
  /\ Goto(p, "write")
  /\ want' = [want EXCEPT ![p] = NewText(p)]
  /\ UNCHANGED <<file, writer, lock, catalog, issued, kind, expect, cur, flips,
                 on, seen, todo>>

\* create_config_snapshot; the row stays when the patch then fails.
TakeSnapshot(p) ==
  /\ pc[p] = "snapshot"
  /\ snapshots' = snapshots \cup {Redact(cur[p].text)}
  /\ \/ /\ Patchable(p)
        /\ Goto(p, "write")
        /\ want' = [want EXCEPT ![p] = NewText(p)]
        /\ UNCHANGED <<lock, kind, expect, cur, flips, on, seen, todo>>
     \/ /\ ~Patchable(p)
        /\ Leave(p)
        /\ Release(p)
  /\ UNCHANGED <<file, writer, catalog, issued>>

\* The catalog cannot be opened or written; the file is as it was.
SnapshotFails(p) == pc[p] = "snapshot" /\ Fail(p)

\* An error up to and including the rename; the target is as it was.
WriteFails(p) == pc[p] = "write" /\ Fail(p)

RenameIntoPlace(p) ==
  /\ pc[p] = "write"
  /\ Replace(p, want[p])
  /\ Goto(p, "verify")
  /\ UNCHANGED <<lock, snapshots, catalog, issued, locals>>

\* The readback equals the text written: unlock, then bring the catalog up to
\* date, by the toggled rows or by a scan.
Verify(p) ==
  /\ pc[p] = "verify"
  /\ file.text = want[p]
  /\ kind[p] = "toggle" => file.exists
  /\ Release(p)
  /\ Goto(p, IF kind[p] = "toggle" THEN "catalog" ELSE "scan")
  /\ todo' = [todo EXCEPT ![p] = flips[p]]
  /\ UNCHANGED <<file, writer, snapshots, catalog, issued, kind, expect, cur,
                 want, flips, on, seen>>

\* The readback differs: another program has written in between.
VerifyFails(p) ==
  /\ pc[p] = "verify"
  /\ file.text # want[p]
  /\ kind[p] = "toggle" => file.exists
  /\ Goto(p, "restore")
  /\ UNCHANGED <<shared, issued, locals>>

\* The file is gone when its permissions are set or when it is read back:
\* an error reply without any attempt to restore.
VerifyGone(p) == pc[p] = "verify" /\ ~file.exists /\ Fail(p)

\* Best-effort rollback of a failed verification, then the error reply.  A
\* file that was missing comes back as an empty one.
Restore(p) ==
  /\ pc[p] = "restore"
  /\ Replace(p, cur[p].text)
  /\ Leave(p)
  /\ Release(p)
  /\ UNCHANGED <<snapshots, catalog, issued>>

RestoreFails(p) == pc[p] = "restore" /\ Fail(p)

\* set_skill_toggle for each toggled skill, after the unlock.
UpdateCatalog(p) ==
  /\ pc[p] = "catalog"
  /\ \E s \in todo[p] :
       /\ catalog' = [catalog EXCEPT ![s] = on[p]]
       /\ IF todo[p] = {s}
          THEN Leave(p)
          ELSE /\ todo' = [todo EXCEPT ![p] = @ \ {s}]
               /\ UNCHANGED <<pc, kind, expect, cur, want, flips, on, seen>>
  /\ UNCHANGED <<file, writer, lock, snapshots, issued>>

\* The scan reads the overrides once ...
ScanRead(p) ==
  /\ pc[p] = "scan"
  /\ seen' = [seen EXCEPT ![p] = Overrides(file)]
  /\ todo' = [todo EXCEPT ![p] = Skills]
  /\ Goto(p, "upsert")
  /\ UNCHANGED <<shared, issued, kind, expect, cur, want, flips, on>>

\* ... and then upserts the catalog row by row, each row on its own.
ScanUpsert(p) ==
  /\ pc[p] = "upsert"
  /\ \E s \in todo[p] :
       /\ catalog' = [catalog EXCEPT ![s] = s \notin seen[p]]
       /\ IF todo[p] = {s} /\ kind[p] # "save"
          THEN Leave(p)
          ELSE /\ todo' = [todo EXCEPT ![p] = @ \ {s}]
               /\ Goto(p, IF todo[p] = {s} THEN "reply" ELSE "upsert")
               /\ UNCHANGED <<kind, expect, cur, want, flips, on, seen>>
  /\ UNCHANGED <<file, writer, lock, snapshots, issued>>

\* A save answers with the document read once more: the client's next save
\* carries the revision of that reading.
SaveReply(p) ==
  /\ pc[p] = "reply"
  /\ Goto(p, "reviewed")
  /\ expect' = [expect EXCEPT ![p] = Revision(file)]
  /\ cur' = [cur EXCEPT ![p] = Missing]
  /\ want' = [want EXCEPT ![p] = EmptyText]
  /\ seen' = [seen EXCEPT ![p] = {}]
  /\ UNCHANGED <<shared, issued, kind, flips, on, todo>>

-----------------------------------------------------------------------------
(* What the requests do not control.                                       *)

\* Another program writes or deletes the file; it takes no lock.
ForeignEdit ==
  /\ file' \in {Missing} \cup {Written(t) : t \in EditTexts}
  /\ file' # file
  /\ writer' = NoProc
  /\ UNCHANGED <<lock, snapshots, catalog, issued, pc, locals>>

\* A client drops its review, or a request's process is killed; the kernel
\* then releases its lock.
Kill(p) == pc[p] # "idle" /\ Fail(p)

Submit(p) == \/ ReviewConfig(p) \/ PreviewRollback(p) \/ SubmitSave(p)
             \/ SubmitRollback(p) \/ SubmitToggle(p) \/ SubmitScan(p)

Step(p) == \/ Preflight(p) \/ AcquireLock(p) \/ LockedRead(p)
           \/ TakeSnapshot(p) \/ SnapshotFails(p)
           \/ WriteFails(p) \/ RenameIntoPlace(p)
           \/ Verify(p) \/ VerifyFails(p) \/ VerifyGone(p)
           \/ Restore(p) \/ RestoreFails(p)
           \/ UpdateCatalog(p) \/ ScanRead(p) \/ ScanUpsert(p) \/ SaveReply(p)

Next == \/ \E p \in Procs : Submit(p) \/ Step(p) \/ Kill(p)
        \/ ForeignEdit

Spec == Init /\ [][Next]_vars

\* A started process keeps running; clients, other programs and kills are
\* under no obligation.
FairSpec == Spec /\ \A p \in Procs : WF_vars(Step(p))
-----------------------------------------------------------------------------
(* Properties.                                                             *)

\* The lock is held by exactly the process between lock_config and unlock;
\* no error path, no kill and no early return leaves it behind.
LockInv == \A p \in Procs : pc[p] \in Holding <=> lock = p

\* While a process has read the file under the lock and not yet replaced it,
\* the file is what it read; after the rename, what it wrote; and when it
\* rolls back a failed readback, the file is not Agent Copilot's.  Or else
\* another program has written last.  (save, toggle, batch and rollback.)
WindowOf(p) ==
  /\ pc[p] \in {"snapshot", "write"} => file = cur[p] \/ writer = NoProc
  /\ pc[p] = "verify" => file = Written(want[p]) \/ writer = NoProc
  /\ pc[p] = "restore" => writer = NoProc
WindowInv == \A p \in Procs : WindowOf(p)

\* Process p replaces the file in this step.
Replaces(p) == \/ pc[p] = "write" /\ pc'[p] = "verify"
               \/ pc[p] = "restore" /\ writer' = p

\* No write of an Agent Copilot request is lost to another request: what a
\* request replaces is what it read under the lock, or was put there by
\* another program.  (lock_config .. unlock of every config command.)
NoLostUpdate ==
  [][\A p \in Procs : Replaces(p) => file = cur[p] \/ writer = NoProc]_vars

\* Another program has changed the file since p read it under the lock; it
\* takes no lock, and p does not look again before the rename.
ChangedUnseen(p) == writer = NoProc /\ file # cur[p]

\* A save or a rollback replaces the very state its client reviewed, however
\* many requests ran since the review, and whoever wrote that state.
ConditionalWrite ==
  [][\A p \in Procs :
       Replaces(p) /\ pc[p] = "write" /\ kind[p] \in {"save", "rollback"}
       => Revision(file) = expect[p] \/ ChangedUnseen(p)]_vars

\* A save or a toggle never destroys a text without a snapshot of it in the
\* catalog (masked when it holds a secret): not the user's own text from before
\* the first request, nor one that another program wrote; only what was put
\* there after the locked read.
SnapshotBeforeOverwrite ==
  [][\A p \in Procs :
       Replaces(p) /\ kind[p] \in {"save", "toggle"}
       => Redact(file.text) \in snapshots \/ ChangedUnseen(p)]_vars

\* The masked text of a snapshot never reaches the config file, whatever
\* sequence of previews, rollbacks and restores is requested.
NeverMasked == ~file.text.masked

\* Every request comes to an end: with finitely many requests no process waits
\* for the config lock forever, whoever fails or is killed meanwhile.
RequestsEnd ==
  \A p \in Procs : pc[p] \notin Resting ~> pc[p] \in Resting

\* The commands implement the register of ConfigRegister.
Unseen == [exists |-> FALSE, text |-> [EmptyText EXCEPT !.masked = TRUE]]
Window == Holding \ {"locked"}
Observed == [p \in Procs |-> IF pc[p] \in Window THEN cur[p] ELSE Unseen]
Register == INSTANCE ConfigRegister WITH
              Values <- Files, value <- file, foreign <- writer = NoProc,
              seen <- Observed
RegisterSpec == Register!Spec
=============================================================================
