# Agent Copilot: formal models, model checking and proofs

This directory holds TLA+ models of Agent Copilot, the TLC instances that check
them, and TLAPS proofs about them. Paths such as `crates/…` and `apps/…` are
relative to the repository root.

Agent Copilot is a macOS app that lists, inspects and configures the "skills" of
local coding agents (Claude Code, Codex, opencode, Pi, OpenClaw, Hermes). The
Swift app starts a Rust process for each request (JSON-RPC over stdin/stdout);
the process reads and writes the agents' own config files, and keeps a SQLite
catalog. So state lives in three places, none of which the others lock as a
whole: agent config files (shared with the agents themselves), the catalog
(shared by all request processes), and the app's stores on the main actor
(shared by all of its tasks).

## 1. Inventory

| part | state | operations | what is hard | what makes it correct |
|---|---|---|---|---|
| **Config commands** `crates/commands/src/lib.rs`, `config_consistency.rs`, `snapshot_redaction.rs` | config file, `.lock` file, snapshot rows, catalog rows | read, save, preview and apply rollback, toggle one or a batch, rescan | requests in parallel processes, edits by other programs without the lock, kill at any point, errors after the rename | no lost update, writes conditional on the review, snapshot before overwrite, the lock is always given back, masked text never written |
| **Catalog** `crates/catalog` | skill rows, definitions, findings, conflicts, snapshots, events (SQLite) | upsert, sweep of missing rows, toggle, snapshot, refresh of rule outputs | several writers, several transactions per command | rows agree with the last scan; history is kept |
| **Scanner** `crates/scanner` | none between scans | bounded traversal, parsing, fingerprint | budgets, partial and skipped roots | a skipped root never makes a row "missing" |
| **Adapters** `crates/adapters` | none | config paths, `patch_enabled` per agent | foreign formats | a patch changes one skill only |
| **Analysis, history, search** `crates/commands/src/{analysis,history,config_support}.rs`, `service_app_search.rs` | none | read-only projections | – | – |
| **Skill manager** `crates/commands/src/skill_manager*` | install roots of the agents, private backups | install, import, update, remove from some agents or all | several renames per operation, errors and kills in the middle, links from one agent's root to another's | only what was reviewed is deleted, all or nothing, the other agents keep the skill |
| **Service host** `crates/service` | project-context file | request dispatch, project selection, list pages, sessions, provider activity, LLM prompts | one process per request, cursors over changing lists | a page cursor is refused when its list changed |
| **Process runner** `apps/macos/…/Services/ServiceProcessRunner.swift` | one continuation per request | start, exit, timeout, cancellation | three racing ways to end | one answer per request, no process left |
| **Config autosave** `…/Models/RevisionAutosaveCoordinator.swift`, `…/Stores/SkillStore.swift` | one FIFO lane, one coordinator per draft | debounce, save, flush, cancel, shutdown | every `await` is an interleaving point; a result may be late | one mutation at a time, no draft lost, a stale result never applied |
| **File watcher** `…/Services/AuthorizedFileWatcher.swift`, `…/Stores/SkillStore+FileWatching.swift` | FSEvents stream, generation | update, reconcile, invalidate | late callbacks of an old stream | events of an old stream are ignored, a real change is seen |
| **Session and list caches** `…/Models/LocalSessionCache.swift`, `ListCompleteness.swift`, `…/SkillStore+ProviderActivity.swift` | summaries, details, page accumulators | begin, publish, cancel, evict | late answers for an old source | an answer for another source is dropped, lists have no duplicates or gaps |
| **Views, support, scripts** | presentation | – | – | – |

Interaction: the app's stores call the process runner; each run executes one
command of the service host; the commands call adapters, scanner and catalog.
The results come back to the store, which must decide whether they still answer
the question it now has.

`PROJECT.json` lists every part with its status, and every hazard we know of
with the line where it bites and the properties that would catch it.

## 2. Modules

| module | what it is |
|---|---|
| `ConfigRegister` | abstract: a config file is a register that a request observes and may replace only while it holds what was observed |
| `ConfigStore` | the config commands on one file, with lock, snapshots, catalog, failures, kills and outside edits |
| `MCConfigStore` | texts for TLC |
| `ConfigStoreProofs` | theorems about `ConfigStore` |
| `AutosaveLane` | the FIFO lane through which the app's config and provider mutations pass one at a time |
| `LatestSlot` | abstract: a slot for the newest unsaved revision, and one save at a time |
| `RevisionAutosave` | the debouncing coordinator of one draft; implements `LatestSlot` |
| `AutosaveProofs` | theorems about `AutosaveLane` and `RevisionAutosave` |
| `ConfigAutosave` | extends `RevisionAutosave` by the store around it: editor, save, completion, loads, file |
| `MCConfigAutosave` | the bindings of `ConfigAutosave` for TLC |
| `ConfigAutosaveProofs` | the composition theorem and the invariants of `ConfigAutosave` |
| `ServiceProcessRun` | one request of the process runner: operation, timeout, cancellation, process |
| `ServiceProcessRunProofs` | theorems about `ServiceProcessRun` |
| `StagedRemoval` | the removal of a skill from some agents: plan, staging by rename, verification, commit or rollback |
| `MCStagedRemoval` | agents, scan orders and file systems for TLC |
| `StagedRemovalProofs` | theorems about `StagedRemoval` |
| `SessionPages` | the session list: stateless keyset pages of the service, the loads that chain them, snapshots per source |
| `MCSessionPages`, `SessionPagesProofs` | its instance and its theorems |
| `SessionDetails` | the messages of single sessions: a small LRU cache filled page by page |
| `MCSessionDetails`, `SessionDetailsProofs` | its instances and its theorems |
| `CatalogRefresh` | scan, rows, sweep, watcher and app of one agent |
| `CatalogRefreshProofs` | theorems about `CatalogRefresh` |

How they fit: `ServiceProcessRun` is one arrow from the app to a `Procs` member of
`ConfigStore` or `StagedRemoval` (whose `Kill` is what a timeout there does here), to
the service behind `SessionPages` and `SessionDetails` (where it is a call that fails),
and to a scan of `CatalogRefresh` (`OpFails`). `ConfigAutosave` EXTENDS the coordinator
and uses it action by action; of the lane it uses what `AutosaveLane` shows (a queued
save is let in alone, or cancelled before), and of the commands what `ConfigStore`
shows (one conditional write, then a separate read for the reply). `StagedRemoval` and
`CatalogRefresh` both have the sweep of missing rows: the first needs what it says of
links and incomplete walks, the second what it says of time.

### ConfigStore

One `Procs` member is one request process (or, between a read and the save that
follows, the client that remembers the revision). `pc` names the next step; the
labels `locked`, `snapshot`, `write`, `verify`, `restore` are the region between
`lock_config` and `unlock`.

| action | code |
|---|---|
| `ReviewConfig`, `PreviewRollback` | `read_claude_settings`, `preview_snapshot_rollback_for_record`: the client keeps the revision (or a token that binds it) |
| `SubmitSave`, `SubmitRollback`, `SubmitToggle`, `SubmitScan` | the requests; a toggle names a set of skills, which covers one group of a batch |
| `Preflight` | the check before any directory or lock file is made |
| `AcquireLock` | `lock_config` (blocking `flock`) |
| `LockedRead` | the read under the lock, and every refusal there (`Admits`) |
| `TakeSnapshot`, `SnapshotFails` | `create_config_snapshot`; the patch of a toggle follows in the same step and its failure leaves the row |
| `WriteFails`, `RenameIntoPlace` | `write_config_atomic` before and at the rename |
| `Verify`, `VerifyFails`, `VerifyGone`, `Restore`, `RestoreFails` | the readback and the compensating write |
| `UpdateCatalog` | `set_skill_toggle` per row, after the unlock |
| `ScanRead`, `ScanUpsert`, `SaveReply` | the rescan, row by row, and the document a save answers with |
| `ForeignEdit` | any other program; takes no lock |
| `Kill` | the app kills a request's process (timeout, cancellation), or a client drops its review |

Data: a text is a body (`""`, broken, or a document), the skills it switches off,
and whether it is a masked snapshot. A revision digests existence and bytes, so
`Revision` is taken to be injective and stands for the file itself. The scan's
traversal is left out; only what it reads of the config matters here. The ghost
`writer` is the last writer of the file, and tells Agent Copilot's writes from
outside ones.

### AutosaveLane

All code of `AutosaveMutationLane` runs on the main actor, so an action is the code
between two suspensions. `state[t]` says where operation `t` is; `granted` and
`refused` are the gap between `continuation.resume` and the moment the resumed task
runs, in which anything else may run.

| action | code |
|---|---|
| `Register` | `register`, before the task of an operation exists |
| `GiveUp`, `Enter`, `Enqueue` | `perform` and `acquire` |
| `Begin`, `Return` | the resumed continuation, as owner or refused |
| `Finish` (`Release`) | the end of the operation and the deferred `release` |
| `Cancel` | `cancelQueued` |
| `StopTask`, `RunHook` | the task of a waiter is cancelled; its `onCancel` handler only schedules the call of `cancelQueued` |
| `Shutdown` | `shutdown` |

A `Tracked` operation has a token (itself; the code makes a new one for each). The
others are manual mutations; `perform` without a token may not be refused, and the
store cannot be released while one of them waits, so `Shutdown` has that guard.
The ghost `promised` records the answers "true" of `cancelQueued`.

### RevisionAutosave

One `RevisionAutosaveCoordinator`. `timer` is the revision of `debounceTask`,
`active` the draft of `activeTask` with `activeRevision`. `SubmitValid`,
`SubmitInvalid`, `CancelPendingDebounce`, `DebounceElapsed`, `WorkerFinished`,
`Flush` and `FlushResumes` are the methods of these names; `flush` is a loop with an
`await` in it, hence two actions. The save is the caller's: a worker may end at any
time with any outcome, and the completion may rewrite the pending value
(`updatePendingValue`, used to rebase a draft). A task that was cancelled between the
end of its sleep and its turn on the main actor does nothing in the code, as in the
model, where the timer is simply gone.

`LatestSlot` says what this is for: `Put`, `Cancel`, `Take`, `End`. The refinement
mapping is `slot <- pending.rev, saving <- active.rev, latest <- nextRevision,
saved <- finished`.

### ConfigAutosave

From a keystroke in the config panel to the file and back.

| action | code |
|---|---|
| `Type` (`ClearFeedback`, `Submit`, `DropDraft`) | `clearSettingsFeedback`, `ConfigAutosaveDraftReducer.reduce`, `submitConfigAutosave`, `cancelPendingConfigAutosave` |
| `Reveal`, `Hide`, `PressReload` | the eye and reload buttons of `AgentConfigWorkspacePanel`: confirming the reveal clears the feedback (`ClearFeedback`) and keeps the draft, hiding and reloading drop it |
| `TimerFires`, `Quit`, `Quitting` | what starts a worker: the debounce, and `flushPendingAutosaves` at termination |
| `ReturnCancelled`, `EnterRefused`, `EnterSends` | the save once the lane lets it in: cancelled, refused by the local checks (`isRefreshBusy`, loaded revision), or sent |
| `ServiceStores`, `ServiceRefuses`, `ServiceRereads` | the conditional write, and the read for the reply after it |
| `Answer`, `Collect`, `PublishSaved`, `Succeed` | the code after the reply, between its awaits |
| `CallFails`, `Conflict`, `CollectFails` | the catch blocks |
| `LateWrite` | the process of a call that timed out does the write before it dies |
| `StartReload`, `StartView`, `ServiceReads`, `EndLoad` | `loadClaudeSettings` with its generation check |
| `ForeignEdit` | any other program writes the file |
| `OwnWrite` | a toggle, a batch or a rollback of the app writes the same file; none of them loads `claudeSettings` again |

`EndSave` is the release of the lane and `handleConfigAutosaveCompletion` together,
since nothing can run between them. A document stands for its revision (a digest of
it). `edits` counts, and bounds, the writes that are no save's. Ghosts: `ver` counts all
writes of the file, `acked` is the newest version a reply has told, `known` holds what
the editor has shown of others' documents, and `lost` says that a save which has
written the file counts as failed (its reply was lost, a step after it failed, or its
process wrote after the timeout). `Type` and `Reveal` are possible in every state, which
is more than the panel allows: it takes keystrokes only while the values are shown, and
offers the reveal only while they are hidden. Both can meet a kept draft, because
another agent or document hides the values without dropping it.

### ServiceProcessRun

Three threads (`op`, `user` for the cancellation of the calling task, `timeout`), two
locks, one process. A step is a section under a lock, or what lies between two.
`Start`, `Finish`, `StopOperation`, `TimerFires` are the run coordinator;
`MarkCancelled`/`Signal` are the two halves of `cancel` (fields are taken under the
lock; handles closed and SIGTERM sent after it), called by all three threads, and
`MarkFailed` the first half of `terminateForFailure`; `Begin` to `Caught` are `run`.
`Exit` and `ForceKill` are the process. A process may do anything: end well without
reading its input, ignore SIGTERM, never end. Its output is `cut` only if the readers
were closed before the drains reached the end. Sizes and encodings are abstracted
to "the reply may be refused" (`Status`).

### StagedRemoval

`apply_remove_with_manager` without `full_uninstall`. A slot is a path where some agent
looks for the skill, and holds nothing, a directory or a link to another slot; the
entry's `rev` stands for the digest that the plan takes of it. `rows[a][c]` is the
catalog row of agent `a` whose canonical path is `c`, shown at slot `at`.

| action | code |
|---|---|
| `Preview`, `Apply` | `build_physical_remove_preview` with its refusals (`Acceptable`), and once more with `ensure_confirmed` |
| `Recheck` | the comparison of all targets before anything is moved |
| `StageMove`, `StageFails`, `CheckStaged`, `AllStaged` | `stage_physical_removals`: rename into a private backup, then look again at what was moved |
| `Scan`, `ScanFails`, `Verify` | the scan after the staging and `verify_physical_remove_postcondition` |
| `RollbackCheck`, `Restore`, `RestoreFails`, `RolledBack` | `rollback_staged_removals`, the last target first |
| `Rescan`, `RescanEnds` | the scan after a rollback, whose failure is ignored |
| `Commit`, `CommitFails`, `Committed` | `commit_staged_removals` |
| `Kill` | the process ends anywhere; nothing restores its backups later |
| `Edit`, `OtherScan` | the user, an agent or a package manager; another request |

`Final` follows links (in the file system of the moment: a link may lead over one that
was just staged). `Seen` and `ScannedRows` are the scan of one agent, with the agents
of which only the first skill of a name counts (`FirstOnly`) and those with a root
that may fail to be walked (`Unreadable`). Ghosts: `alive` are the directories nobody
meant to delete, `before` and `quiet` the file system at the start and whether
somebody else has touched it since.

### SessionPages

The service keeps nothing between two pages: the cursor has the revision of the
inventory (here the set of the candidates), the processed prefix, the position and
the count; `CursorHolds` is the check of all of them. A page reads the candidates in
the canonical order (`Before`: newest first, then row id) up to `Limit`, or until a
budget is spent. The app chains pages: `Refresh`/`RefreshIfNeeded` (prewarm), `LoadMore`,
`LoadAll` (a task of its own, which may refresh first), `Cancel`, `Switch` of the source.
`Late`, `Refused`, `Accept`, `Fail` and `Return` are what `refreshLocalSessionSnapshot` and
`continueLocalSessionPages` do with a reply: the checks of source, generation and
cancellation, the merge, the footer, the `defer`. A page is read in the step that
delivers it, since a client uses nothing of the service but its reply; what matters
is that files (`Change`) and the view change between two of them.

What cannot be read takes two ways. A candidate whose file cannot be read gives a gap
note and no row, and counts as processed (`unread` in `PageOf`, kept in `gaps`); a
directory or an entry that cannot be read keeps its candidates out of the inventory
(`Inventories`), and so out of its revision. Neither limits the page; only a spent
budget and a root that cannot be opened (`Unreadable`) do. `Fragile` names the
candidates to which the first two may happen.

### SessionDetails

`Enter`, `PublishProgress`, `FailDetail`, `CancelDetail`, `Without` are the methods of
`LocalSessionCache` (with touch and trim); `Begin`, `Sample`, `Page`, `Caught` the code of
`loadLocalSessionDetailIfNeeded` between its awaits; `Select`, `Retry`, `CancelButton`,
`Switch` what the user does. The messages of a page are abstracted to the revision of
the session file they were read at, which is what the accumulator compares. The ghost
`newest` is the latest generation shown of each session.

### CatalogRefresh

Each root stands for one skill.

| action | code |
|---|---|
| `Declare` | `adapter.roots`, asked once when a scan of the agent begins |
| `Visit` | the walk of one root (`visit_root`): complete, partial, skipped or absent |
| `Upsert` | `upsert_skill_instances`, row by row; a kill leaves some of them |
| `Sweep` | `mark_missing_except_with_project_context`: after an exact scan (`Exact`) on all rows of the agent, otherwise on the roots that were walked to their end (`Swept`) |
| `Refresh`, `Reload`, `Transition` | `refresh`, `reload`, `setProject`/`clearProject` |
| `Collect`, `Apply` | `refreshCollections`: the rows and the watch plan, then the store and `updateAuthorizedFileWatcher` |
| `Reconcile` | `reconcileAuthorizedFileWatcherAfterDeepScan` with the change generation |
| `Deliver` | an event of the stream, dropped if its session is over |
| `OpFails` | a failing call |
| `Change`, `Redeclare` | whoever edits the skills; whoever changes what the agent declares (a plugin installed or enabled, a link that is resolved to a root) |

A root holds no skill, a skill, or a link that the scanner refuses because its target is
gone or outside the declared roots; such a link gives no skill and leaves the walk
complete (`Linked` are the roots where that may happen). `Configured` are the roots that
the agent declares at some times only: `declared` is read when a scan begins and again
when the watch plan is made, and a change of it may or may not reach the watcher (for
one, `plugins/installed_plugins.json` is not in the watch plan). The events carry the session of their stream; `absent`, `covered` and `begun` are ghosts
that say what was gone during the scan, and which stream was there when the last
successful one began.

## 3. Runs

| run | bounds | shows |
|---|---|---|
| `config_store` | 2 processes, 1 skill, 3 requests, 2 bodies (one with a secret), one outside text | conditional writes, snapshot before overwrite, masked text never written, with kills and outside edits everywhere; every request ends; `ConfigStore` implements `ConfigRegister` |
| `autosave_lane` | 3 operations with tokens, 1 manual | exclusion, no lost waiter, final cancellation, first come first served, everybody served |
| `revision_autosave` | 5 revisions, 2 values, 2 flushes | no draft stranded or saved out of order, truthful phase, flush returns, implements `LatestSlot` with its liveness |
| `config_autosave` | 2 edits of 2 texts or an invalid one, 1 write by another program or by a toggle or rollback of the app, 1 flush at quit, all reveals, loads and failures without bound | editor, coordinator and feedback agree; stale loads lose; the saves agree with one another; every valid draft is saved, dropped or reported, and stays reported until the user reveals the values |
| `config_rebind` (violation) | 2 edits, 1 outside edit | a kept draft can replace a document the user was not shown |
| `service_process_run` | none: one request is finite | one answer, always; only a whole reply counts; no process left, none fed after the answer |
| `staged_removal` | 1 removal, 3 agents, 4 slots in 3 layouts of links and copies, 1 outside change, any number of other scans | nothing lost, all or nothing, only the selected agents lose the skill |
| `session_pages` | 3 files (one without a session, one that may not be readable) at 2 times, pages of 1, 2 sources, 2 loads, 1 change | a complete list is whole but for its gap notes, accepted rows stay, late pages are ignored, every wait ends |
| `session_details` | 2 sessions of 2 pages, a cache of 1, 3 loads, 1 change | a complete detail is of one revision, a loading footer has a load, no old page is shown after a newer one |
| `session_stuck` (violation) | the same with 2 loads, a cache of 2 | a load cancelled before its first page blocks its session |
| `catalog_refresh` | 2 roots (1 of a project, where a link may be refused; 1 that is declared at times), 2 changes, 2 operations | with nothing pending the app is up to date; only what was gone, refused or not declared is retired |
| `catalog_new_root` (violation) | 2 roots, 2 changes, 2 operations | a new root can cost an event of an unchanged one |

Bounds. Two processes suffice for every pairwise race on one file and one lock;
three requests let a process save on the revision of its own earlier reply while
the other has a toggle in between. Bodies: with and without a secret is all that
redaction tells apart. The file starts missing or as the outside text, a document
with a secret; the compensating write can leave it empty. A file that is not a JSON document
is covered by the proofs, and by no run.

Fairness. `FairSpec` has weak fairness of `Step(p)`: a started process is run by
the operating system. Nothing is assumed of clients, other programs, kills, or of
which outcome a step has. The blocking `flock` needs no more than weak fairness
here because the number of requests is bounded.

In the lane: three tracked operations give a waiter a predecessor and a successor, so
a cancellation can hit the head, the middle and the tail of the queue. In the
coordinator: a save, a pending draft and its replacement need three revisions; five
let each happen again after a completion. In `ConfigAutosave`: two edits give an active
save and a queued draft; one write that is no save's, or one of the failures that are
never bounded, is enough to move the base of a draft under it. The safety of longer
histories is proved, not checked.

In `StagedRemoval` the three layouts have a copied directory, a link to it, a link to
a link, a shared source with links from both kinds of agents: every way in which the
loss of one slot touches another. More processes and changes are a matter of the
proofs. In `SessionPages` a page of one out of three files puts a cursor between any
two of them, and two times let a file jump over it in either direction; in
`SessionDetails` a cache of one evicts at every second begin. `MaxChanges = 3` of the
catalog counts the initial state: two changes are one on each side of a scan or two
of the same root, or one of what is declared, and two operations are a scan and what follows it.

No run uses symmetry.

`LaneFairSpec`: a resumed task is run, and an operation ends (its service calls have
timeouts: `EveryRunEnds` of `ServiceProcessRun`). Nobody is assumed to call anything.
`AutosaveFairSpec`: a sleep ends, a save ends, a resumed flush runs.
`ConfigFairSpec`: weak fairness of the save, the timer and each load by itself; one
condition on all of them would let view updates that load again and again starve
the save on paper, which the main actor does not do. `PagesFairSpec`: every request of
the list is answered or its process is ended by the runner, and the main actor runs
what is ready; nothing is assumed of the user. `RunFairSpec`: threads run, the
timeout's sleep ends and SIGKILL kills; nothing of the process, nor of the drains,
since a grandchild may keep a pipe open. Writing the request is taken to end: the
service reads its input first.

`CHECK_DEADLOCK FALSE` is set where the system may really stop: all operations done,
the store shut down, no edits, loads or changes left within the bound, the request or
the removal over.

## 4. Findings

* `config_rebind`: "Draft A must never be rebound to revision B."
  (`SkillStoreTests.swift:2584`). That holds for the draft as queued; but the editor
  keeps showing it after a load or a conflict has replaced `claudeSettings`, and the
  next keystroke binds the continued text to the new revision.
* `session_stuck`: "Cancellation and page failure retain already accepted items and
  expose retry." (`docs/service-protocol.md:646`). `cancelDetailLoad` does nothing to a
  detail that shows no page yet: it stays `.loading`, `beginDetailLoad` refuses every
  further load of it, and the panel offers no button.
* `catalog_new_root`: "The active stream stays attached to unchanged authorized roots so
  an event already queued for main-thread delivery cannot be discarded at the scan
  boundary" (`docs/service-protocol.md:71-74`). When a scan finds another root, the
  session ends as a whole, and the events queued for the unchanged roots with it.

Other disagreements met while modelling, of which no run is kept:

* `docs/service-protocol.md:82-83` promises that saves and rollbacks "are conditional on
  the exact local state that the client reviewed". The code closes the race among its
  own requests (proved: `NoUpdateLost`, `WritesAreConditional`) but not with the agents and
  editors that write the same file: between the locked read and the rename
  (`crates/commands/src/lib.rs:2136`) their edit is replaced unseen. `ConditionalWrite` and
  `SnapshotBeforeOverwrite` except exactly that, a text another program wrote after the
  locked read; every other text of the user or of an agent is snapshotted first.
* The comment at `crates/commands/src/lib.rs:2985` says the catalog is updated "to reflect
  the new effective state"; the update follows the unlock, so two toggles may record
  their results in the other order than they wrote the file, until the next scan.
* A draft "must never inherit mutable external revision RX" (`SkillStoreTests.swift:1726`),
  but the reply of a save is made from a second read after the unlock
  (`crates/commands/src/lib.rs:2163`), which may find another program's text, and the
  queued draft is rebased on it.
* A save that was committed but failed afterwards (lost reply, failed refresh) leaves the
  next draft on the old base: the user reads "Settings changed outside Agent Copilot."
  though nothing else wrote (`SkillStore.swift:3750`). The same follows a toggle, a batch
  or a rollback by the app itself: they write the file and leave `claudeSettings` as it
  was (`SkillStore.swift:1189`, `1281`, `3127`). `SavesAgree` says what is left: saves do not
  disturb one another.
* Confirming the reveal clears the report of a draft that failed or is in conflict, and
  keeps the draft (`AgentConfigWorkspacePanel.swift:271`, `SkillStore.swift:3290`), so that
  the user sees an unsaved text and nothing that says so. `UnsavedIsReported` excepts
  this step.
* A Load All that goes on after its source was switched away and back can leave the
  footer of the list loading without a load (`SkillStore.swift:2642`, `2659`).
* A session root whose directories cannot all be read yields gap notes, but the page
  counts as enumerable, though the protocol calls such a page limited
  (`docs/service-protocol.md:683-688`); an entry whose `stat` fails is not even noted
  (`crates/service/src/service_local_session_io.rs:1211`), and a candidate that cannot be
  read is noted and counts as processed (`service_local_sessions/paging.rs:260`). So a
  list that says it is complete may lack what its notes name, and such an entry;
  `ListIsWhole` says that of its inventory it lacks nothing but what is noted.
* A row is not retired only because its skill is gone: an exact scan also retires the
  rows of roots that are not declared any more, as the comment at
  `crates/catalog/src/lib.rs:477` says, and a link that the scanner refuses leaves its root
  complete (`crates/scanner/src/lib.rs:659`). If a root stops being declared and is
  declared again without an event, and the refresh in between fails after its sweep, a
  reload shows its skill as missing with nothing pending; `CleanIsFresh` excepts that
  root until the next scan.

## 5. Proofs

`ConfigStoreProofs` proves, for every set of processes, skills and texts and
every bound (assumptions: the named `ASSUME`s of `ConfigStore`, which only say
that the sentinels are distinct and that the given texts are texts):

* `TypeCorrect`: `Spec => []TypeOK`;
* `LockHeldExactly`: `Spec => []LockInv`;
* `WindowHolds`: `Spec => []WindowInv`;
* `NoUpdateLost`: `Spec => NoLostUpdate`;
* `Refinement`: `Spec => RegisterSpec`;
* `MaskedNeverWritten`, `WritesAreConditional`, `SnapshotComesFirst`: the three properties
  `NeverMasked`, `ConditionalWrite` and `SnapshotBeforeOverwrite`.

The inductive invariant is `IInv == TypeOK /\ LockInv /\ WindowInv`. Neither of the
last two is inductive alone: that the file is still what a process read needs
that nobody else is in the section (`LockInv`), and `LockInv` needs typing. Rather
than treat each pair of processes and actions, the proof shows that every step of
`p` has an *effect* of one form (`Effect(p)`: others' entries kept, the lock
changes only as `p`'s own label does, the file changes only under the lock), and
that an effect of this form keeps `IInv` for `p` and for all others. The refinement
maps `seen` to `cur` inside the window and to `Unseen` outside; each step then is
a `Load`, `Store`, `Drop`, `ForeignWrite` or a stutter.

About what is written there is a second invariant, `PlanInv`: from the locked read to
the rename the plan of each request is the reviewed file and an unmasked text, and there
is a snapshot of the text that was read, whoever wrote it. It is inductive relative to `IInv` and gives
`MaskedNeverWritten`, `WritesAreConditional` and `SnapshotComesFirst`.

`AutosaveProofs` proves of the lane, for every set of operations (assumption: a token is
not the nil token), `LaneTypes` and `LaneIsSafe`, that is `OneInside`, `NoLostWaiter`, `NoLeftToken`
and `CancelIsFinal`. They are inductive only together (`LaneInv`): that a hand-over wakes
a waiter that is suspended needs that the queue and `state` agree; that `CancelIsFinal`
survives `GiveUp` and `Begin` needs that a cancelled operation is in neither. The queue
lemmas (`AppendWaiter`, `RemoveWaiter`, `TailWaiter`) say what the sequence operations do
to the set of waiters and that none occurs twice. `FirstComeFirstServed` (`NoOvertaking`)
rests on the same invariant: whoever gets in found the lane free, and then nobody waits,
or was the first of the queue (`FirstGetsIn`), and no step changes the order of the queue.

It proves of the coordinator, for every set of values, flushers and any `MaxRevision`,
`AutosaveTypes`, `AutosaveIsSafe` (`Served`, `PhaseTruth`, `RevisionsInOrder`), `SavesOnlyNewest`
and `SlotRefinement` (`AutosaveSpec => Slot!Safe`). The inductive invariant is their
conjunction: that a worker starts only on the newest revision needs that a timer
belongs to the pending draft and runs only without a worker (`Served`), which the end
of a worker restores because revisions are ordered.

`ConfigAutosaveProofs` first proves the composition, `CoordinatorImplemented`:
`ConfigSpec => AutosaveSpec`. Every step of the store is a step of the coordinator or
leaves it alone; the case to see is the end of a save, which may rewrite the pending
value and so has to be a `WorkerFinished` with that value. With that, all that is proved
of the coordinator holds in the store: `StoreKeepsSlot` (`ConfigSpec => Slot!Safe`) and
`StoreStrandsNoDraft` (`ConfigSpec => []AutosaveSafe`) follow in a line each. `ConfigInv` adds, each resting on those before:
the types, `DraftMatches`, `ReadInv` (a reply or a load in flight that may still be
accepted is not older than what was acknowledged), `ReportInv` (who will save the
draft: if it is not pending, the active save is of it and not revoked) and `QuietInv`
(while nothing but the saves writes and no save that wrote counts as failed, the base of
everything queued is the text of the file, or the one that is being stored). That a
valid draft is reported when the last who would save it is gone, and stays so, is then a
fact about each step (`NoSilentStep`). They give `ConfigTypes`, `DraftIsNewest`,
`UnsavedReported`, `AckedKept`, `SavesAgreeAlways`, for any texts and any number of edits,
loads and other writes.

`StagedRemovalProofs` proves `RemovalTypes`, `NothingIsLost`, `RemovesAllOrNothing` and
`SelectedLoseIt` for any slots, agents, layouts, any number of removals at once and of
outside changes. `ProcInv` says of
each process what is in its backups (only what it staged; from the check on only what
the plan, and so the preview, showed) and what its loop has still to handle; `CalmInv`
says, as long as nobody else interferes, that the file system is the one at the start
but for the backups. A step of a process leaves another's part of the invariant alone
unless it moves files, and then the other is no longer undisturbed (`OthersKeep`); for
the rest each action is looked at once. That the target a loop takes next is one of
its own (`MinIn`) is the well-foundedness of the naturals.

`SelectedLoseIt` (`OnlySelectedLoseIt`) is about where links lead, a recursive function of
the file system. No induction theorem of the library can be used (each takes an operator
as its parameter), so that there is a function with its defining equation, and what that
function does, is shown by a least counterexample: the steps at which it fails would have
a least one (`LeastFails`, from `MinIn`). With it `FewerResolve`: what still resolves after
some slots were cleared ends where it did before, and not at a cleared slot. So the
removal leads no link to another directory. `EffectInv` carries what the plan was
checked for at the locked validation (nothing but targets for the selected, a kept path
for the others) through the loops to the end; `RemovalAssumption` says only what slots and
agents are, `InitialAssumption` that one slot is the last, so that a chain without a
repetition ends.

`SessionPagesProofs` proves `ListTypes`, `CompleteListIsWhole`, `AcceptedRowsKept` and
`NewestListStays` for any number of files, sources, loads and any page size. `WholeInv` is
the core: the rows of a snapshot, or of the pages a load holds, are the candidates
with a session of exactly the prefix their cursor has processed, but for the gaps. No gap is ahead of the
cursor, so none gets a row from a later page. A page keeps it since
the service compares that prefix; `GenInv` orders the loads, so that a load that may
still publish continues what is published.

`SessionDetailsProofs` proves `CompleteDetailIsWhole`, `FooterIsTrue` and `NewestShownStays` for
any number of sessions, pages, loads and changes. `DetailInv` relates the generations
of loads, cache entries and what is shown; it needs nothing of the recency list. The list
comes second, in `ListInv` for `DetailTypes`: it has every stored detail once, so its length
is their number (`DistinctCounted`), and a new entry that makes it too long drops one of
them (`EnterRecency`). What `removeAll` leaves is a recursive function again (`RemoveAllIs`,
`RemoveAllDistinct`): the provers cannot look into the library's `SelectSeq`.

`CatalogRefreshProofs` proves `RefreshTypes`, `OnlyGoneRetired` and `CleanMeansFresh` for any
set of roots. The core of the second is `UnreadAbsent`: a root which was walked to its end,
or passed over, without its skill had none that the scanner accepts at some time of the
scan; a retired root that was not asked for was not declared, and the scan was exact. For
the third
(`CleanIsFresh`) `FreshInv` follows a row from the disk to the app: what the scan has read
is true (`ReadsTrue`), written before the sweep (`ReadsWritten`), right after it
(`SweptTrue`), handed to the app as it is (`RowsAreCatalog`) and right there as long as the
session lasts, unless a sweep has retired it as not declared (`CoveredTrue`) - each of them unless a change since is known, or its event
is on its way. It is inductive because a change raises an event if its root is watched,
because an event delivered during a scan outlives the scan as `pending`, and because a
new session ends what was promised of the old one.

`ServiceProcessRunProofs` proves `RunTypes`, `AnsweredOnce` and `DataIsTheReply`. The module has
no parameters but its `resumes` is a counter, and the proof is an explanation of the
run's result: `RunInv` says at each place of the operation what is known of the result, the
process and the output, and what a timeout or a cancellation may still do to them. After
the last check for a cancellation the process is gone and the output whole, and the only
thing a late cancellation can still change is the answer.

Every safety property that a passing run checks is stated by a theorem. Only
model-checked is liveness (`RequestsEnd`, `EveryoneServed`, `FlushReturns`, the fairness of
`SlotSpec`, `DraftSettles`, `EveryRunEnds`, `ListSettles`), which is outside what the prover
handles, as is `ENABLED`.

## 6. Plan

Order: what loses data or blocks the app first.

1. *Done:* the config file and its commands (`ConfigStore`), the app's write path
   (`AutosaveLane`, `RevisionAutosave`, `ConfigAutosave`), one request
   (`ServiceProcessRun`), with proofs of all safety.
2. *Done:* the skill manager's renames with an error, a change or a kill between any
   two (`StagedRemoval`).
3. *Done:* pages and caches of local sessions (`SessionPages`, `SessionDetails`).
4. *Done:* scan, sweep, watcher and app (`CatalogRefresh`).

Left, in this order:

5. `ProviderAutosave` and changes of agent or project during a save, composed with
   `AutosaveLane` proper instead of its abstraction.
6. `BatchToggle`: a batch over several config files with a failure in the middle; its
   preview token against the catalog.
7. Installation, import and update of skills: staging directory, rename and archive.
8. The keyset cursors of the other lists, whose rows are in the catalog.
9. The scanner's bounds (depth, entries, time), checked against a reference definition.

Proofs left: those of the modules to come.

## 7. Not modelled

Path validation and symlink checks (pure guards on paths), installation and script
previews, parsers of session files, prompts and provider calls, analysis and
search (pure functions of the catalog), view state, build and verification
scripts. `PROJECT.json` gives the reason per part. Of the modelled parts:

* a batch toggle over several config files, applied one after another without a
  rollback of the earlier ones (`crates/commands/src/lib.rs:3165`), and the comparison of
  its preview token before any lock (`3130`);
* the temporary file that an error or a kill before the rename leaves behind
  (`crates/commands/src/lib.rs:4567`): nothing reads it;
* skills of one name in several roots of an agent that keeps only the first: the
  shadowed one leaves the report, so `CatalogRefresh` assumes distinct names
  (`StagedRemoval` has `FirstOnly` for it);
* a skill whose file cannot be read or parsed: its row says that it is broken, and counts
  as loaded in `CatalogRefresh`;
* projects that differ only in their current directory;
* a project transition whose scan fails is modelled without the later details of the
  status line.
