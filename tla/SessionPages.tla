---------------------------- MODULE SessionPages ----------------------------
(***************************************************************************)
(* The list of local sessions: the stateless keyset pages of the service   *)
(* (service_local_sessions/paging.rs) over files the agents go on writing, *)
(* and the loads of the app that chain them (Stores/SkillStore.swift) into *)
(* the snapshots of LocalSessionCache.  A page is read when its reply is   *)
(* delivered: a client uses nothing of the service but the reply.  What    *)
(* the states of a summary are called is left out, no view asks for it.    *)
(***************************************************************************)
EXTENDS Naturals, FiniteSets

CONSTANTS
  Sources,      \* the keys of snapshots; all list the same files
  Unreadable,   \* the sources with a root that cannot be opened
  Ids,          \* row ids of candidate files, in their order
  Empty,        \* the candidates without a session to accept
  Fragile,      \* the candidates that a read or their directory may fail to give
  Limit,        \* localSessionPageLimit
  PrewarmLimit, \* localSessionPrewarmLimit
  Loads,        \* tasks, in the order of their creation; bounds their number
  MaxTime,      \* bound of the modification times
  MaxChanges,   \* bound: how often a file changes
  Gone, NoLoad

ASSUME PagesAssumption ==
  /\ Ids \subseteq Nat \ {0} /\ IsFiniteSet(Ids)
  /\ Empty \subseteq Ids /\ Fragile \subseteq Ids /\ Unreadable \subseteq Sources
  /\ Limit \in Nat \ {0} /\ PrewarmLimit \in Nat \ {0}
  /\ MaxTime \in Nat /\ Gone \notin 0 .. MaxTime
  /\ Loads \subseteq Nat \ {0} /\ NoLoad \notin Loads

VARIABLES
  mtime,      \* the modification time of each file, or Gone
  changes,    \* how often a file has changed
  active,     \* activeLocalSessionSnapshotKey
  snap,       \* successfulSnapshot of each source
  generation, \* summaryGenerations, 0 for none
  nextGeneration,
  activeGen,  \* activeLocalSessionRefreshGeneration, 0 for nil
  previewing, \* isPreviewingLocalSessions
  footer,     \* localSessionCompleteness: the buttons it offers, or its phase
  allTask,    \* localSessionLoadAllTask
  load        \* the tasks

disk      == <<mtime, changes>>
view      == <<active, activeGen, previewing, footer>>
pagesVars == <<disk, snap, generation, nextGeneration, view, allTask, load>>

\* Nil for a cursor and for a snapshot.
NoCursor == [rev |-> {}, prefix |-> {}, time |-> 0, id |-> 0, accepted |-> 0]
NoSnap   == [gen |-> 0, rows |-> {}, gaps |-> {}, rev |-> {}, cursor |-> NoCursor,
             limited |-> FALSE, complete |-> FALSE]

PagesInit ==
  /\ mtime \in [Ids -> {Gone} \cup 0 .. MaxTime] /\ changes = 0
  /\ active \in Sources
  /\ snap = [s \in Sources |-> NoSnap] /\ generation = [s \in Sources |-> 0]
  /\ nextGeneration = 0 /\ activeGen = 0 /\ previewing = FALSE
  /\ footer = "idle" /\ allTask = NoLoad
  /\ load = [t \in Loads |-> [pc |-> "unborn", kind |-> "none", source |-> active,
                              gen |-> 0, cancelled |-> FALSE, base |-> NoSnap]]

-----------------------------------------------------------------------------
(* The service: preview_local_sessions_keyset.                             *)

Alive == {i \in Ids : mtime[i] # Gone}

\* The canonical order: the newest first, then by row id.
Before(t, i, u, j) == t > u \/ (t = u /\ i < j)

\* What is not after the cursor.
Processed(seen, c) ==
  IF c = NoCursor THEN {} ELSE {i \in seen : ~Before(c.time, c.id, mtime[i], i)}

\* Mutant of CursorHolds: the processed prefix is not compared.
PrefixUnchecked(seen, c) ==
  c # NoCursor => c.rev = seen /\ c.accepted <= Cardinality(Processed(seen, c))

\* The revision, that is the set of the identities, the processed prefix and
\* the count of a cursor.
CursorHolds(seen, c) ==
  c # NoCursor => /\ c.rev = seen
                  /\ c.prefix = Processed(seen, c)
                  /\ c.accepted <= Cardinality(Processed(seen, c))

\* A page reads the candidates w of rest, in their order and last at the end:
\* Limit of them, or all, or fewer when the read budget is spent.
Window(w, last, rest, spent) ==
  /\ \A i \in w, j \in rest \ w : Before(mtime[i], i, mtime[j], j)
  /\ \A i \in w \ {last} : Before(mtime[i], i, mtime[last], last)
  /\ IF spent THEN Cardinality(w) \in 1 .. Limit
     ELSE Cardinality(w) = Limit \/ (Cardinality(w) < Limit /\ w = rest)

\* The reply; when a budget cut the page short it has no continuation.  A
\* candidate of unread could not be read: it counts as processed, gives no row,
\* and a gap note names it, but the page is not limited by that.
PageOf(c, source, seen, w, last, unread, cut) ==
  LET done     == Processed(seen, c)
      rows     == w \ (Empty \cup unread)
      accepted == c.accepted + Cardinality(rows)
      left     == Cardinality((seen \ done) \ w)
      more     == ~cut /\ left > 0
  IN  [rows    |-> rows, gaps |-> unread, rev |-> seen,
       limited |-> cut \/ source \in Unreadable,
       total   |-> IF more THEN accepted + left ELSE accepted,
       cursor  |-> IF more
                   THEN [rev |-> seen, prefix |-> done \cup w, time |-> mtime[last],
                         id |-> last, accepted |-> accepted]
                   ELSE NoCursor]

-----------------------------------------------------------------------------
(* The snapshots and the footer of the list.                               *)

\* localSessionCompletenessState of a snapshot nobody loads more of.
FooterOf(s) == IF s.cursor # NoCursor /\ ~s.limited THEN "open" ELSE "idle"

\* localSessionCompletenessAfterFailure
FailedFooter(s, sourceChanged) ==
  IF s = NoSnap THEN "retry"
  ELSE IF s.cursor # NoCursor /\ ~sourceChanged THEN "open" ELSE "idle"

\* beginSummaryRefresh
BeginSummary ==
  /\ nextGeneration' = nextGeneration + 1
  /\ generation' = [generation EXCEPT ![active] = nextGeneration + 1]

\* Mutant of CancelSummary: the generation is given out and not remembered.
CancelSummaryForgets ==
  generation' = [generation EXCEPT ![active] = nextGeneration + 1] /\ UNCHANGED nextGeneration

\* cancelSummaryLoad of the load that is active, if one is.
CancelSummary ==
  IF activeGen # 0 /\ generation[active] = activeGen
  THEN /\ nextGeneration' = nextGeneration + 1
       /\ generation' = [generation EXCEPT ![active] = nextGeneration + 1]
  ELSE UNCHANGED <<nextGeneration, generation>>

\* Rows are summed up by their id, and so are the gap notes.
Merged(base, page, gen, isWhole) ==
  [gen |-> gen, rows |-> base.rows \cup page.rows,
   gaps |-> base.gaps \cup page.gaps, rev |-> page.rev,
   cursor |-> page.cursor, limited |-> page.limited,
   complete |-> page.cursor = NoCursor /\ ~page.limited /\ isWhole]

-----------------------------------------------------------------------------
(* The user, and the tasks of the views.                                   *)

\* A load-all task that has refreshed goes on before anything else runs.
Quiet == \A t \in Loads : load[t].pc # "then"

New(t) == /\ Quiet /\ load[t].pc = "unborn"
          /\ \A u \in Loads : u < t => load[u].pc # "unborn"

\* refreshLocalSessionSnapshot up to its first request.
BeginRefresh(t, kind) ==
  /\ BeginSummary
  /\ activeGen' = nextGeneration + 1 /\ previewing' = TRUE
  /\ load' = [load EXCEPT ![t].pc = "prewarm", ![t].kind = kind, ![t].source = active,
                          ![t].gen = nextGeneration + 1, ![t].base = NoSnap]
  /\ UNCHANGED <<disk, snap, active, footer>>

\* continueLocalSessionPages up to its first request; a task that is cancelled
\* gets no further than that.
BeginContinue(t, kind) ==
  /\ BeginSummary
  /\ previewing' = ~load[t].cancelled
  /\ activeGen'  = IF load[t].cancelled THEN 0 ELSE nextGeneration + 1
  /\ footer' = kind
  /\ load' = [load EXCEPT ![t].pc = IF load[t].cancelled THEN "ended" ELSE "continue",
                          ![t].kind = kind, ![t].source = active,
                          ![t].gen = nextGeneration + 1, ![t].base = snap[active]]
  /\ UNCHANGED <<disk, snap, active>>

\* The refresh button, which is disabled while a load runs.
Refresh(t) == New(t) /\ ~previewing /\ BeginRefresh(t, "refresh") /\ UNCHANGED allTask

\* refreshSelectedAgentLocalSessionsIfNeeded, from the views and at the start.
RefreshIfNeeded(t) ==
  New(t) /\ snap[active] = NoSnap /\ BeginRefresh(t, "refresh") /\ UNCHANGED allTask

\* The same when there is a snapshot: it is shown, whatever loads.
ShowAgain ==
  /\ Quiet /\ snap[active] # NoSnap
  /\ footer' = FooterOf(snap[active])
  /\ UNCHANGED <<disk, snap, generation, nextGeneration, active, activeGen,
                 previewing, allTask, load>>

LoadMore(t) ==
  /\ New(t) /\ footer = "open" /\ ~previewing /\ snap[active].cursor # NoCursor
  /\ BeginContinue(t, "more") /\ UNCHANGED allTask

\* loadAllLocalSessions: the task is made, and runs later.
LoadAll(t) ==
  /\ New(t) /\ footer \in {"open", "retry"} /\ allTask = NoLoad
  /\ load' = [load EXCEPT ![t].pc = "queued", ![t].kind = "all"]
  /\ allTask' = t
  /\ UNCHANGED <<disk, snap, generation, nextGeneration, view>>

Continues == snap[active].cursor # NoCursor /\ ~previewing

\* The task of Load All refreshes first when there is no snapshot, unless the
\* app is busy, and continues the snapshot of the source that is active then.
LoadAllStep(t) ==
  /\ \/ load[t].pc = "queued" /\ Quiet /\ snap[active] = NoSnap /\ BeginRefresh(t, "all")
     \/ /\ load[t].pc = "then" \/ (load[t].pc = "queued" /\ Quiet)
        /\ Continues /\ BeginContinue(t, "all")
     \/ /\ load[t].pc = "then" \/ (load[t].pc = "queued" /\ Quiet)
        /\ ~Continues
        /\ load' = [load EXCEPT ![t].pc = "ended"]
        /\ UNCHANGED <<disk, snap, generation, nextGeneration, view>>
  /\ UNCHANGED allTask

LoadAllEnds(t) ==
  /\ Quiet /\ load[t].pc = "ended"
  /\ load' = [load EXCEPT ![t].pc = "done"]
  /\ allTask' = IF allTask = t THEN NoLoad ELSE allTask
  /\ UNCHANGED <<disk, snap, generation, nextGeneration, view>>

CancelledAll == IF allTask = NoLoad THEN load ELSE [load EXCEPT ![allTask].cancelled = TRUE]

\* cancelLocalSessionLoadAll
Cancel ==
  /\ Quiet /\ footer = "all"
  /\ load' = CancelledAll /\ allTask' = NoLoad
  /\ CancelSummary
  /\ IF activeGen # 0
     THEN /\ activeGen' = 0 /\ previewing' = FALSE
          /\ footer' = IF snap[active] = NoSnap THEN footer ELSE FooterOf(snap[active])
     ELSE UNCHANGED <<activeGen, previewing, footer>>
  /\ UNCHANGED <<disk, snap, active>>

\* activateLocalSessionSourceCache
Switch(s) ==
  /\ Quiet /\ s # active
  /\ load' = CancelledAll /\ allTask' = NoLoad
  /\ CancelSummary
  /\ active' = s /\ activeGen' = 0 /\ previewing' = FALSE
  /\ footer' = FooterOf(snap[s])
  /\ UNCHANGED <<disk, snap>>

-----------------------------------------------------------------------------
(* What the loads do with a reply.                                         *)

Waiting(t) == load[t].pc \in {"prewarm", "continue"}

\* Mutant of Late: nobody compares the generations.
LateIgnored(t) == load[t].cancelled

\* The source is not the active one, or another load has begun, or this one
\* is cancelled.
Late(t) == \/ active # load[t].source \/ activeGen # load[t].gen
           \/ generation[load[t].source] # load[t].gen
           \/ load[t].pc = "continue" /\ load[t].cancelled

Returned(t) == CASE load[t].kind # "all"     -> "done"
                 [] load[t].pc = "prewarm"   -> "then"
                 [] OTHER                    -> "ended"

\* Mutant of Return: the view goes on waiting.
ReturnBusy(t) ==
  /\ load' = [load EXCEPT ![t].pc = Returned(t)]
  /\ UNCHANGED <<previewing, activeGen>>

\* The task is done with the load: the defer.
Return(t) ==
  /\ load' = [load EXCEPT ![t].pc = Returned(t)]
  /\ IF active = load[t].source /\ activeGen = load[t].gen
     THEN previewing' = FALSE /\ activeGen' = 0
     ELSE UNCHANGED <<previewing, activeGen>>

Ignore(t) == Late(t) /\ Return(t) /\ UNCHANGED <<snap, footer>>

\* An error, of the service or about its page: what is accepted stays.
Fail(t, sourceChanged) ==
  /\ ~Late(t) /\ Return(t)
  /\ footer' = FailedFooter(snap[load[t].source], sourceChanged)
  /\ UNCHANGED snap

\* Mutant of Accept: a page replaces what was loaded before.
AcceptAlone(t, page) ==
  /\ ~Late(t) /\ Return(t)
  /\ snap' = [snap EXCEPT ![active] = Merged(NoSnap, page, load[t].gen, TRUE)]
  /\ footer' = FooterOf(snap'[active])

\* A page of a refresh, and of a continuation, is published; the next one is
\* asked for by a refresh until it has prewarmed the list and by Load All to
\* the end.
Accept(t, page) ==
  LET base  == load[t].base
      count == Cardinality(base.rows \cup page.rows)
      new   == Merged(base, page, load[t].gen, count >= page.total)
      goOn  == /\ page.cursor # NoCursor
               /\ IF load[t].pc = "prewarm" THEN count < PrewarmLimit
                  ELSE load[t].kind = "all"
  IN  /\ ~Late(t)
      /\ snap' = [snap EXCEPT ![load[t].source] = new]
      /\ footer' = FooterOf(new)
      /\ IF goOn THEN load' = [load EXCEPT ![t].base = new] /\ UNCHANGED <<previewing, activeGen>>
         ELSE Return(t)

\* A continuation refuses a page without progress and a last page that does not
\* add up.
Refused(t, page) ==
  /\ load[t].pc = "continue"
  /\ \/ page.cursor = load[t].base.cursor
     \/ /\ page.cursor = NoCursor /\ ~page.limited
        /\ Cardinality(load[t].base.rows \cup page.rows) # page.total

Deliver(t, page) == IF Refused(t, page) THEN Fail(t, FALSE) ELSE Accept(t, page)

Request(t) == load[t].base.cursor

\* The files an inventory may see: what its budget, or a directory or an entry
\* that could not be read, keeps from it is not there.  Only the budget limits
\* the page, the others leave a gap note or nothing.
Inventories(truncated) ==
  {seen \in SUBSET Alive : truncated \/ Alive \ seen \subseteq Fragile}

Reply(t) ==
  /\ Quiet /\ Waiting(t)
  /\ \/ Ignore(t)
     \/ Fail(t, FALSE)
     \/ \E seen \in Inventories(TRUE) : ~CursorHolds(seen, Request(t)) /\ Fail(t, TRUE)
     \/ \E spent, truncated \in BOOLEAN : \E seen \in Inventories(truncated) :
          /\ CursorHolds(seen, Request(t))
          /\ \E w \in SUBSET (seen \ Processed(seen, Request(t))) :
             \E last \in IF w = {} THEN {0} ELSE w, unread \in SUBSET (w \cap Fragile) :
               /\ Window(w, last, seen \ Processed(seen, Request(t)), spent)
               /\ Deliver(t, PageOf(Request(t), load[t].source, seen, w, last, unread,
                                    spent \/ truncated))
  /\ UNCHANGED <<disk, generation, nextGeneration, active, allTask>>

\* A session is written, made, removed, or restored with an older time.
Change(i, time) ==
  /\ Quiet /\ changes < MaxChanges /\ mtime[i] # time
  /\ mtime' = [mtime EXCEPT ![i] = time] /\ changes' = changes + 1
  /\ UNCHANGED <<snap, generation, nextGeneration, view, allTask, load>>

-----------------------------------------------------------------------------
LoadStep(t) == Reply(t) \/ LoadAllStep(t) \/ LoadAllEnds(t)

PagesNext ==
  \/ \E t \in Loads : Refresh(t) \/ RefreshIfNeeded(t) \/ LoadMore(t) \/ LoadAll(t) \/ LoadStep(t)
  \/ ShowAgain \/ Cancel
  \/ \E s \in Sources : Switch(s)
  \/ \E i \in Ids, time \in {Gone} \cup 0 .. MaxTime : Change(i, time)

PagesSpec == PagesInit /\ [][PagesNext]_pagesVars

\* The service answers every request or its process is ended by the runner, and
\* the main actor runs what is ready.
PagesFairSpec == PagesSpec /\ \A t \in Loads : WF_pagesVars(LoadStep(t))

-----------------------------------------------------------------------------
(* Properties.                                                             *)

CursorType ==
  [rev : SUBSET Ids, prefix : SUBSET Ids, time : 0 .. MaxTime, id : Ids \cup {0},
   accepted : Nat]
SnapType ==
  [gen : Nat, rows : SUBSET Ids, gaps : SUBSET Ids, rev : SUBSET Ids,
   cursor : CursorType, limited : BOOLEAN, complete : BOOLEAN]

LoadType ==
  [pc : {"unborn", "queued", "prewarm", "then", "continue", "ended", "done"},
   kind : {"none", "refresh", "more", "all"}, source : Sources, gen : Nat,
   cancelled : BOOLEAN, base : SnapType]

FileTypes == mtime \in [Ids -> {Gone} \cup 0 .. MaxTime] /\ changes \in Nat
ViewTypes ==
  /\ active \in Sources /\ activeGen \in Nat /\ previewing \in BOOLEAN
  /\ footer \in {"idle", "open", "retry", "more", "all"}
  /\ allTask \in Loads \cup {NoLoad}
  /\ activeGen # 0 => generation[active] = activeGen
SnapTypes ==
  /\ snap \in [Sources -> SnapType]
  /\ nextGeneration \in Nat /\ generation \in [Sources -> 0 .. nextGeneration]
LoadTypes ==
  load \in [Loads -> LoadType] /\ \A t \in Loads : load[t].gen <= nextGeneration

\* The variables have their types; a generation in use has been given out, and
\* the load that the view waits for is the newest of its source.
ListTypeOK == FileTypes /\ ViewTypes /\ SnapTypes /\ LoadTypes

\* A list that says it is complete has every session of the inventory it was
\* paged from but those that a gap note names as unreadable, although files were
\* written, made, removed and unreadable between its pages: no candidate was
\* skipped, and none is listed that was noted as a gap.  (What an inventory did
\* not see is not in it: see README.md.)
ListIsWhole ==
  \A s \in Sources :
    snap[s].complete => snap[s].rows = snap[s].rev \ (Empty \cup snap[s].gaps)

\* Only the first page of a refresh may take rows away: a failure, the
\* cancellation and the pages of Load More and Load All keep what is accepted.
RowsKept ==
  [][\A s \in Sources : snap[s].rows \subseteq snap'[s].rows
       \/ \E t \in Loads : load[t].pc = "prewarm" /\ load[t].base = NoSnap /\ load'[t] # load[t]]_pagesVars

\* A late page of an old load never replaces a newer list, whatever source is
\* active when it comes.
NewestListWins ==
  [][\A s \in Sources : snap'[s] # snap[s] =>
       s = active /\ snap'[s].gen >= snap[s].gen]_pagesVars

\* Every wait of the list ends.
ListSettles == previewing ~> ~previewing

=============================================================================
