-------------------------- MODULE SessionPagesProofs --------------------------
(***************************************************************************)
(* The list of sessions for every number of files, sources and loads: what *)
(* says it is complete is the whole inventory but for the gaps that a note *)
(* names, nothing accepted is lost but to a refresh, and no late page      *)
(* replaces a newer list.                                                  *)
(***************************************************************************)
EXTENDS SessionPages, FiniteSetTheorems, TLAPS

\* The rows of a snapshot are those of the prefix its cursor has passed, or of
\* the whole inventory, but for its gaps; no gap is ahead of the cursor, where a
\* later page would give it a row.
Whole(s) ==
  /\ s.cursor # NoCursor => /\ s.rows = s.cursor.prefix \ (Empty \cup s.gaps)
                            /\ s.gaps \subseteq s.cursor.prefix
  /\ s.complete => s.rows = s.rev \ (Empty \cup s.gaps)

\* What a load has accumulated: nothing, or pages that end in a cursor.
BaseOpen(l) ==
  /\ l.base = NoSnap \/ l.base.cursor # NoCursor
  /\ l.pc = "continue" => l.base # NoSnap

WholeInv ==
  /\ \A s \in Sources : Whole(snap[s])
  /\ \A t \in Loads : Whole(load[t].base) /\ BaseOpen(load[t])

\* The generations order the loads: no two that wait have the same, a snapshot is
\* not ahead of its source, and the newest load continues what is published.
Newest(t) == Waiting(t) /\ generation[load[t].source] = load[t].gen
GenInv ==
  /\ \A s \in Sources : snap[s].gen <= generation[s]
  /\ \A t, u \in Loads : t # u /\ Waiting(t) /\ Waiting(u) => load[t].gen # load[u].gen
  /\ \A t \in Loads : Newest(t) /\ load[t].base # NoSnap => load[t].base = snap[load[t].source]

PagesInv == ListTypeOK /\ WholeInv /\ GenInv

USE PagesAssumption

\* The snapshot of nothing.
LEMMA NoSnapType == NoCursor \in CursorType /\ NoSnap \in SnapType /\ Whole(NoSnap)
BY DEF NoCursor, NoSnap, CursorType, SnapType, Whole

\* The initial state.
LEMMA PagesInitial == PagesInit => PagesInv
<1> SUFFICES ASSUME PagesInit PROVE PagesInv
  OBVIOUS
<1> USE DEF PagesInit
<1>1. FileTypes /\ ViewTypes
  BY DEF FileTypes, ViewTypes
<1>2. SnapTypes
  BY NoSnapType DEF SnapTypes
<1>3. LoadTypes
  BY NoSnapType DEF LoadTypes, LoadType
<1>4. WholeInv
  BY NoSnapType DEF WholeInv, BaseOpen
<1>5. \A s \in Sources : snap[s].gen <= generation[s]
  BY DEF NoSnap
<1>6. GenInv
  BY <1>5 DEF GenInv, Newest, Waiting
<1> QED BY <1>1, <1>2, <1>3, <1>4, <1>6 DEF PagesInv, ListTypeOK

-----------------------------------------------------------------------------
(* Loads begin.                                                            *)

\* A load that begins under a new generation, from nothing or from the snapshot.
Begun(t, to, kind, base) ==
  /\ BeginSummary
  /\ load' = [load EXCEPT ![t].pc = to, ![t].kind = kind, ![t].source = active,
                          ![t].gen = nextGeneration + 1, ![t].base = base]
  /\ UNCHANGED <<disk, snap, active>>

LEMMA BegunKeeps ==
  ASSUME PagesInv, NEW t \in Loads, NEW to \in {"prewarm", "continue", "ended"},
         NEW kind \in {"refresh", "more", "all"}, NEW base \in SnapType,
         Begun(t, to, kind, base),
         base = NoSnap \/ (base = snap[active] /\ base.cursor # NoCursor),
         to = "continue" => base # NoSnap
  PROVE  /\ FileTypes' /\ SnapTypes' /\ LoadTypes' /\ WholeInv' /\ GenInv'
         /\ generation'[active] = nextGeneration + 1
<1> USE DEF PagesInv, ListTypeOK, Begun
<1>0. active \in Sources /\ nextGeneration \in Nat /\ nextGeneration + 1 \in Nat
  BY DEF ViewTypes, SnapTypes
<1>1. /\ nextGeneration' = nextGeneration + 1
      /\ generation' \in [Sources -> 0 .. nextGeneration']
      /\ generation'[active] = nextGeneration + 1
      /\ \A s \in Sources : s # active => generation'[s] = generation[s]
  BY <1>0 DEF BeginSummary, SnapTypes
<1>2. FileTypes' /\ SnapTypes'
  BY <1>0, <1>1 DEF FileTypes, SnapTypes, disk
<1>3. /\ load' \in [Loads -> LoadType]
      /\ \A u \in Loads : u # t => load'[u] = load[u]
      /\ load'[t].pc = to /\ load'[t].source = active /\ load'[t].gen = nextGeneration + 1
      /\ load'[t].base = base
  BY <1>0 DEF LoadTypes, LoadType
<1>4. \A u \in Loads : load[u].gen \in Nat /\ load[u].gen <= nextGeneration
                       /\ load[u].source \in Sources
  BY DEF LoadTypes, LoadType
<1>5. LoadTypes'
  BY <1>0, <1>1, <1>3, <1>4 DEF LoadTypes
<1>6. WholeInv'
  <2>1. Whole(base)
    BY <1>0, NoSnapType DEF WholeInv
  <2>2. BaseOpen(load'[t])
    BY <1>3 DEF BaseOpen
  <2> QED BY <1>3, <2>1, <2>2 DEF WholeInv
<1>7. GenInv'
  <2>1. \A s \in Sources : snap'[s].gen <= generation'[s]
    <3>1. \A s \in Sources : snap[s].gen \in Nat /\ generation[s] \in Nat /\ generation[s] <= nextGeneration
      BY DEF SnapTypes, SnapType
    <3> QED BY <1>0, <1>1, <3>1 DEF GenInv
  <2>2. \A u, v \in Loads : u # v /\ Waiting(u)' /\ Waiting(v)' => load'[u].gen # load'[v].gen
    BY <1>0, <1>3, <1>4 DEF GenInv, Waiting
  <2>3. \A u \in Loads : Newest(u)' /\ load'[u].base # NoSnap => load'[u].base = snap'[load'[u].source]
    BY <1>0, <1>1, <1>3, <1>4 DEF GenInv, Newest, Waiting
  <2> QED BY <2>1, <2>2, <2>3 DEF GenInv
<1> QED BY <1>1, <1>2, <1>5, <1>6, <1>7

\* A refresh begins from nothing.
LEMMA BeginRefreshKeeps ==
  ASSUME PagesInv, NEW t \in Loads, NEW kind \in {"refresh", "all"}, BeginRefresh(t, kind),
         UNCHANGED allTask
  PROVE  PagesInv'
<1>1. Begun(t, "prewarm", kind, NoSnap)
  BY DEF BeginRefresh, Begun
<1>2. /\ FileTypes' /\ SnapTypes' /\ LoadTypes' /\ WholeInv' /\ GenInv'
      /\ generation'[active] = nextGeneration + 1
  BY <1>1, BegunKeeps, NoSnapType
<1>3. ViewTypes'
  BY <1>2 DEF BeginRefresh, PagesInv, ListTypeOK, ViewTypes, SnapTypes
<1> QED BY <1>2, <1>3 DEF PagesInv, ListTypeOK

\* A continuation begins from the snapshot.
LEMMA BeginContinueKeeps ==
  ASSUME PagesInv, NEW t \in Loads, NEW kind \in {"more", "all"}, BeginContinue(t, kind),
         snap[active].cursor # NoCursor, UNCHANGED allTask
  PROVE  PagesInv'
<1> DEFINE to == IF load[t].cancelled THEN "ended" ELSE "continue"
<1>1. Begun(t, to, kind, snap[active])
  BY DEF BeginContinue, Begun
<1>2. snap[active] \in SnapType /\ snap[active] # NoSnap
  BY DEF PagesInv, ListTypeOK, ViewTypes, SnapTypes, NoSnap
<1>3. to \in {"prewarm", "continue", "ended"}
  OBVIOUS
<1> HIDE DEF to
<1>4. /\ FileTypes' /\ SnapTypes' /\ LoadTypes' /\ WholeInv' /\ GenInv'
      /\ generation'[active] = nextGeneration + 1
  BY <1>1, <1>2, <1>3, BegunKeeps
<1>5. load[t].cancelled \in BOOLEAN
  BY DEF PagesInv, ListTypeOK, LoadTypes, LoadType
<1>6. ViewTypes'
  <2>1. active' = active /\ footer' = kind /\ allTask' = allTask
    BY DEF BeginContinue
  <2>2. previewing' \in BOOLEAN
    BY <1>5 DEF BeginContinue
  <2>3. activeGen' = 0 \/ activeGen' = nextGeneration + 1
    BY DEF BeginContinue
  <2> QED BY <1>4, <2>1, <2>2, <2>3 DEF PagesInv, ListTypeOK, ViewTypes, SnapTypes
<1> QED BY <1>4, <1>6 DEF PagesInv, ListTypeOK

-----------------------------------------------------------------------------
(* Steps of the user and the tasks that publish nothing.                   *)

\* Tasks move without a load that waits for a reply.
LEMMA MovedKeeps ==
  ASSUME PagesInv, UNCHANGED <<disk, snap>>,
         load' \in [Loads -> LoadType],
         \A u \in Loads : /\ load'[u].gen = load[u].gen /\ load'[u].base = load[u].base
                          /\ load'[u].source = load[u].source
                          /\ Waiting(u)' => load'[u].pc = load[u].pc,
         nextGeneration' \in Nat, nextGeneration' >= nextGeneration,
         generation' \in [Sources -> 0 .. nextGeneration'],
         \A s \in Sources : generation'[s] = generation[s] \/ generation'[s] = nextGeneration + 1
  PROVE  FileTypes' /\ SnapTypes' /\ LoadTypes' /\ WholeInv' /\ GenInv'
<1> USE DEF PagesInv, ListTypeOK
<1>1. FileTypes' /\ SnapTypes'
  BY DEF FileTypes, SnapTypes, disk
<1>2. \A u \in Loads : load[u].gen \in Nat /\ load[u].gen <= nextGeneration
                       /\ load[u].source \in Sources
  BY DEF LoadTypes, LoadType
<1>0. nextGeneration \in Nat
  BY DEF SnapTypes
<1>3. LoadTypes'
  BY <1>0, <1>2 DEF LoadTypes
<1>4. WholeInv'
  BY DEF WholeInv, BaseOpen, Waiting
<1>5. GenInv'
  <2>1. \A s \in Sources : snap'[s].gen <= generation'[s]
    <3>1. \A s \in Sources : snap[s].gen \in Nat /\ generation[s] \in Nat /\ generation[s] <= nextGeneration
      BY DEF SnapTypes, SnapType
    <3> QED BY <1>0, <3>1 DEF GenInv
  <2>2. \A u, v \in Loads : u # v /\ Waiting(u)' /\ Waiting(v)' => load'[u].gen # load'[v].gen
    BY DEF GenInv, Waiting
  <2>3. \A u \in Loads : Newest(u)' /\ load'[u].base # NoSnap => load'[u].base = snap'[load'[u].source]
    <3> SUFFICES ASSUME NEW u \in Loads, Newest(u)', load'[u].base # NoSnap
                 PROVE  load'[u].base = snap'[load'[u].source]
      OBVIOUS
    <3>1. Waiting(u) /\ generation'[load[u].source] = load[u].gen
      BY DEF Newest, Waiting
    <3>2. generation'[load[u].source] # nextGeneration + 1
      BY <1>0, <1>2, <3>1
    <3>3. Newest(u)
      BY <1>2, <3>1, <3>2 DEF Newest
    <3> QED BY <3>3 DEF GenInv
  <2> QED BY <2>1, <2>2, <2>3 DEF GenInv
<1> QED BY <1>1, <1>3, <1>4, <1>5

\* cancelSummaryLoad gives a new generation to the active source, or nothing.
LEMMA CancelSummaryEffect ==
  ASSUME PagesInv, CancelSummary
  PROVE  /\ nextGeneration' \in Nat /\ nextGeneration' >= nextGeneration
         /\ generation' \in [Sources -> 0 .. nextGeneration']
         /\ \A s \in Sources : generation'[s] = generation[s] \/ generation'[s] = nextGeneration + 1
<1> USE DEF PagesInv, ListTypeOK, SnapTypes
<1>1. CASE /\ nextGeneration' = nextGeneration + 1
           /\ generation' = [generation EXCEPT ![active] = nextGeneration + 1]
  BY <1>1 DEF ViewTypes
<1>2. CASE UNCHANGED <<nextGeneration, generation>>
  BY <1>2
<1> QED BY <1>1, <1>2 DEF CancelSummary

\* A task is told that it is cancelled.
LEMMA CancelledAllEffect ==
  ASSUME PagesInv, load' = CancelledAll
  PROVE  /\ load' \in [Loads -> LoadType]
         /\ \A u \in Loads : /\ load'[u].gen = load[u].gen /\ load'[u].base = load[u].base
                             /\ load'[u].source = load[u].source /\ load'[u].pc = load[u].pc
<1>1. load \in [Loads -> LoadType] /\ allTask \in Loads \cup {NoLoad}
  BY DEF PagesInv, ListTypeOK, LoadTypes, ViewTypes
<1>2. CASE allTask = NoLoad
  BY <1>1, <1>2 DEF CancelledAll
<1>3. CASE allTask # NoLoad
  <2>1. allTask \in Loads /\ load' = [load EXCEPT ![allTask].cancelled = TRUE]
    BY <1>1, <1>3 DEF CancelledAll
  <2> QED BY ONLY <1>1, <2>1 DEF LoadType
<1> QED BY <1>2, <1>3

LEMMA FooterTypes == \A s : FooterOf(s) \in {"idle", "open"}
BY DEF FooterOf

\* Cancel and the switch to another source.
LEMMA CancelKeeps == PagesInv /\ Cancel => PagesInv'
<1> SUFFICES ASSUME PagesInv, Cancel PROVE PagesInv'
  OBVIOUS
<1>1. FileTypes' /\ SnapTypes' /\ LoadTypes' /\ WholeInv' /\ GenInv'
  BY MovedKeeps, CancelSummaryEffect, CancelledAllEffect DEF Cancel
<1>2. ViewTypes'
  <2> USE DEF PagesInv, ListTypeOK, ViewTypes
  <2>1. active' = active /\ allTask' = NoLoad
    BY DEF Cancel
  <2>2. CASE activeGen # 0
    <3>1. activeGen' = 0 /\ previewing' = FALSE
      BY <2>2 DEF Cancel
    <3>2. footer' = footer \/ footer' = FooterOf(snap[active])
      BY <2>2 DEF Cancel
    <3> QED BY <2>1, <3>1, <3>2, FooterTypes
  <2>3. CASE activeGen = 0
    BY <2>1, <2>3 DEF Cancel
  <2> QED BY <2>2, <2>3
<1> QED BY <1>1, <1>2 DEF PagesInv, ListTypeOK

LEMMA SwitchKeeps == ASSUME PagesInv, NEW s \in Sources, Switch(s) PROVE PagesInv'
<1>1. FileTypes' /\ SnapTypes' /\ LoadTypes' /\ WholeInv' /\ GenInv'
  BY MovedKeeps, CancelSummaryEffect, CancelledAllEffect DEF Switch
<1>2. ViewTypes'
  BY FooterTypes DEF Switch, ViewTypes
<1> QED BY <1>1, <1>2 DEF PagesInv, ListTypeOK

\* A task is made for Load All, moves on or ends, and a snapshot is shown again.
LEMMA TaskMoves ==
  ASSUME PagesInv, NEW t \in Loads, NEW to \in {"queued", "ended", "done"},
         load' = [load EXCEPT ![t].pc = to] \/ load' = [load EXCEPT ![t].pc = to, ![t].kind = "all"],
         UNCHANGED <<disk, snap, generation, nextGeneration, view>>,
         allTask' \in Loads \cup {NoLoad}
  PROVE  PagesInv'
<1>1. /\ load' \in [Loads -> LoadType]
      /\ \A u \in Loads : /\ load'[u].gen = load[u].gen /\ load'[u].base = load[u].base
                          /\ load'[u].source = load[u].source
                          /\ Waiting(u)' => load'[u].pc = load[u].pc
  BY DEF PagesInv, ListTypeOK, LoadTypes, LoadType, Waiting
<1>2. /\ nextGeneration' \in Nat /\ nextGeneration' >= nextGeneration
      /\ generation' \in [Sources -> 0 .. nextGeneration']
      /\ \A s \in Sources : generation'[s] = generation[s]
  BY DEF PagesInv, ListTypeOK, SnapTypes
<1>3. FileTypes' /\ SnapTypes' /\ LoadTypes' /\ WholeInv' /\ GenInv'
  BY <1>1, <1>2, MovedKeeps
<1>4. ViewTypes'
  BY DEF PagesInv, ListTypeOK, ViewTypes, view
<1> QED BY <1>3, <1>4 DEF PagesInv, ListTypeOK

LEMMA LoadAllKeeps == ASSUME PagesInv, NEW t \in Loads, LoadAll(t) PROVE PagesInv'
BY TaskMoves DEF LoadAll

LEMMA LoadAllEndsKeeps == ASSUME PagesInv, NEW t \in Loads, LoadAllEnds(t) PROVE PagesInv'
<1>1. allTask' \in Loads \cup {NoLoad}
  BY DEF LoadAllEnds, PagesInv, ListTypeOK, ViewTypes
<1> QED BY <1>1, TaskMoves DEF LoadAllEnds

LEMMA LoadAllStepKeeps == ASSUME PagesInv, NEW t \in Loads, LoadAllStep(t) PROVE PagesInv'
<1>1. CASE BeginRefresh(t, "all")
  BY <1>1, BeginRefreshKeeps DEF LoadAllStep
<1>2. CASE Continues /\ BeginContinue(t, "all")
  BY <1>2, BeginContinueKeeps DEF LoadAllStep, Continues
<1>3. CASE /\ load' = [load EXCEPT ![t].pc = "ended"]
           /\ UNCHANGED <<disk, snap, generation, nextGeneration, view>>
  <2>1. allTask' \in Loads \cup {NoLoad}
    BY DEF LoadAllStep, PagesInv, ListTypeOK, ViewTypes
  <2> QED BY <1>3, <2>1, TaskMoves
<1> QED BY <1>1, <1>2, <1>3 DEF LoadAllStep

LEMMA ShowAgainKeeps == PagesInv /\ ShowAgain => PagesInv'
BY FooterTypes
   DEF ShowAgain, PagesInv, ListTypeOK, FileTypes, ViewTypes, SnapTypes, LoadTypes, WholeInv,
       GenInv, Newest, Waiting, disk

LEMMA ChangeKeeps ==
  ASSUME PagesInv, NEW i \in Ids, NEW time \in {Gone} \cup 0 .. MaxTime, Change(i, time)
  PROVE  PagesInv'
<1>1. FileTypes'
  BY DEF Change, PagesInv, ListTypeOK, FileTypes
<1> QED BY <1>1 DEF Change, view, PagesInv, ListTypeOK, ViewTypes, SnapTypes, LoadTypes,
                    WholeInv, GenInv, Newest, Waiting

-----------------------------------------------------------------------------
(* Replies.                                                                *)

\* A load is done: its view waits no longer, and it waits for no reply.
LEMMA ReturnEffect ==
  ASSUME PagesInv, NEW t \in Loads, Return(t), UNCHANGED <<generation, active>>
  PROVE  /\ load' \in [Loads -> LoadType]
         /\ \A u \in Loads : /\ load'[u].gen = load[u].gen /\ load'[u].base = load[u].base
                             /\ load'[u].source = load[u].source
                             /\ Waiting(u)' => u # t /\ load'[u].pc = load[u].pc
         /\ activeGen' \in {0, activeGen} /\ previewing' \in BOOLEAN
<1> USE DEF PagesInv, ListTypeOK
<1>1. Returned(t) \in {"then", "ended", "done"}
  BY DEF Returned
<1>2. load' = [load EXCEPT ![t].pc = Returned(t)]
  BY DEF Return
<1>3. activeGen' \in {0, activeGen} /\ previewing' \in BOOLEAN
  BY DEF Return, ViewTypes
<1> QED BY <1>1, <1>2, <1>3 DEF LoadTypes, LoadType, Waiting

\* Nothing of a late reply is used, and an error keeps what is published.
LEMMA UnpublishedKeeps ==
  ASSUME PagesInv, NEW t \in Loads, Return(t),
         UNCHANGED <<disk, snap, generation, nextGeneration, active, allTask>>,
         footer' \in {"idle", "open", "retry", "more", "all"}
  PROVE  PagesInv'
<1>1. /\ load' \in [Loads -> LoadType]
      /\ \A u \in Loads : /\ load'[u].gen = load[u].gen /\ load'[u].base = load[u].base
                          /\ load'[u].source = load[u].source
                          /\ Waiting(u)' => load'[u].pc = load[u].pc
      /\ activeGen' \in {0, activeGen} /\ previewing' \in BOOLEAN
  BY ReturnEffect
<1>2. /\ nextGeneration' \in Nat /\ nextGeneration' >= nextGeneration
      /\ generation' \in [Sources -> 0 .. nextGeneration']
      /\ \A s \in Sources : generation'[s] = generation[s]
  BY DEF PagesInv, ListTypeOK, SnapTypes
<1>3. FileTypes' /\ SnapTypes' /\ LoadTypes' /\ WholeInv' /\ GenInv'
  BY <1>1, <1>2, MovedKeeps
<1>4. ViewTypes'
  BY <1>1 DEF PagesInv, ListTypeOK, ViewTypes
<1> QED BY <1>3, <1>4 DEF PagesInv, ListTypeOK

\* What a page is worth: its cursor has passed what was processed and its own
\* candidates, and without a cursor or a gap it is the rest of the inventory.
PageWorth(c, seen, w, page) ==
  /\ page.rows = w \ (Empty \cup page.gaps) /\ page.gaps \subseteq w
  /\ w \cap Processed(seen, c) = {}
  /\ page.rev = seen /\ page.limited \in BOOLEAN
  /\ page.cursor \in CursorType
  /\ page.cursor # NoCursor => page.cursor.prefix = Processed(seen, c) \cup w
  /\ page.cursor = NoCursor /\ ~page.limited => seen = Processed(seen, c) \cup w

\* A page with a continuation has a last candidate; one without has none left.
LEMMA PagesAreWorth ==
  ASSUME FileTypes, NEW c \in CursorType, NEW source \in Sources, NEW seen \in SUBSET Alive,
         NEW w \in SUBSET (seen \ Processed(seen, c)), NEW last \in IF w = {} THEN {0} ELSE w,
         NEW spent \in BOOLEAN, NEW cut \in BOOLEAN, spent => cut, NEW unread \in SUBSET w,
         Window(w, last, seen \ Processed(seen, c), spent)
  PROVE  PageWorth(c, seen, w, PageOf(c, source, seen, w, last, unread, cut))
<1> DEFINE done == Processed(seen, c)
           left == Cardinality((seen \ done) \ w)
           more == ~cut /\ left > 0
           rows == w \ (Empty \cup unread)
           accepted == c.accepted + Cardinality(rows)
           page == PageOf(c, source, seen, w, last, unread, cut)
<1>1. seen \subseteq Ids /\ w \subseteq Ids /\ done \subseteq seen
  BY DEF Alive, Processed
<1>2. /\ IsFiniteSet(w) /\ IsFiniteSet(rows) /\ IsFiniteSet((seen \ done) \ w)
      /\ Cardinality(w) \in Nat /\ Cardinality(rows) \in Nat /\ left \in Nat
  BY <1>1, FS_Subset, FS_CardinalityType
<1>3. left = 0 <=> (seen \ done) \ w = {}
  BY <1>2, FS_EmptySet
<1>4. more => w # {}
  <2> SUFFICES ASSUME more, w = {} PROVE FALSE
    OBVIOUS
  <2>1. Cardinality(w) = 0
    BY FS_EmptySet
  <2>2. ~spent /\ w = seen \ done
    BY <2>1 DEF Window
  <2> QED BY <1>3, <2>2
<1>5. /\ page.rows = rows /\ page.gaps = unread /\ page.rev = seen
      /\ page.limited = (cut \/ source \in Unreadable)
      /\ page.cursor = IF more THEN [rev |-> seen, prefix |-> done \cup w, time |-> mtime[last],
                                     id |-> last, accepted |-> accepted]
                       ELSE NoCursor
  BY DEF PageOf
<1>6. CASE more
  <2>1. last \in w /\ last \in Ids /\ last # 0 /\ mtime[last] \in 0 .. MaxTime
    BY <1>1, <1>4, <1>6 DEF FileTypes, Alive
  <2>2. page.cursor \in CursorType
    BY <1>1, <1>2, <1>5, <1>6, <2>1 DEF CursorType
  <2>3. page.cursor # NoCursor
    BY <1>5, <1>6, <2>1 DEF NoCursor
  <2> QED BY <1>5, <1>6, <2>2, <2>3 DEF PageWorth
<1>7. CASE ~more
  <2>1. page.cursor = NoCursor
    BY <1>5, <1>7
  <2>2. ~page.limited => (seen \ done) \ w = {}
    <3>1. ~page.limited => ~cut
      BY <1>5
    <3>2. ~page.limited => ~(left > 0)
      BY <1>7, <3>1
    <3> QED BY <1>2, <1>3, <3>2
  <2>3. ~page.limited => seen = done \cup w
    BY <1>1, <2>2
  <2> QED BY <1>5, <2>1, <2>3, NoSnapType DEF PageWorth
<1> QED BY <1>6, <1>7

\* What is published of a page, on top of what the load had.
OnTop(base, page, gen, new) ==
  /\ new = [gen |-> gen, rows |-> base.rows \cup page.rows,
            gaps |-> base.gaps \cup page.gaps, rev |-> page.rev,
            cursor |-> page.cursor, limited |-> page.limited, complete |-> new.complete]
  /\ new.complete \in BOOLEAN
  /\ new.complete => page.cursor = NoCursor /\ ~page.limited

LEMMA MergedIsWhole ==
  ASSUME PagesInv, NEW t \in Loads, NEW seen \in SUBSET Ids, NEW w \in SUBSET seen, NEW page,
         CursorHolds(seen, Request(t)), PageWorth(Request(t), seen, w, page),
         NEW new, OnTop(load[t].base, page, load[t].gen, new)
  PROVE  /\ new \in SnapType /\ Whole(new) /\ new.gen = load[t].gen
         /\ new.cursor = page.cursor
<1> DEFINE base == load[t].base
           done == Processed(seen, base.cursor)
<1>1. load[t] \in LoadType /\ base \in SnapType
  BY DEF PagesInv, ListTypeOK, LoadTypes, LoadType
<1>2. /\ page.rows = w \ (Empty \cup page.gaps) /\ page.gaps \subseteq w
      /\ w \cap done = {} /\ page.rev = seen /\ page.limited \in BOOLEAN
      /\ page.cursor \in CursorType
      /\ page.cursor # NoCursor => page.cursor.prefix = done \cup w
      /\ page.cursor = NoCursor /\ ~page.limited => seen = done \cup w
  BY DEF PageWorth, Request
<1>3. base.rows = done \ (Empty \cup base.gaps) /\ base.gaps \subseteq done
  <2>1. CASE base.cursor # NoCursor
    BY <2>1 DEF PagesInv, WholeInv, Whole, CursorHolds, Request
  <2>2. CASE base.cursor = NoCursor
    <3>1. base = NoSnap
      BY <2>2 DEF PagesInv, WholeInv, BaseOpen
    <3>2. base.rows = {} /\ base.gaps = {} /\ done = {}
      BY <2>2, <3>1 DEF NoSnap, Processed
    <3> QED BY <3>2
  <2> QED BY <2>1, <2>2
<1>4. /\ new.gen = load[t].gen /\ new.rows = base.rows \cup page.rows
      /\ new.gaps = base.gaps \cup page.gaps /\ new.rev = page.rev
      /\ new.cursor = page.cursor /\ new.limited = page.limited /\ new.complete \in BOOLEAN
      /\ new.complete => page.cursor = NoCursor /\ ~page.limited
      /\ new = [gen |-> new.gen, rows |-> new.rows, gaps |-> new.gaps, rev |-> new.rev,
                cursor |-> new.cursor, limited |-> new.limited, complete |-> new.complete]
  BY DEF OnTop
<1>5. new.gen \in Nat /\ base.rows \subseteq Ids /\ base.gaps \subseteq Ids
  BY <1>1, <1>4 DEF LoadType, SnapType
<1> HIDE DEF base, done
<1>6. new \in SnapType
  BY <1>2, <1>4, <1>5 DEF SnapType
<1>7. Whole(new)
  BY <1>2, <1>3, <1>4 DEF Whole
<1> QED BY <1>4, <1>6, <1>7

\* A page is published.
LEMMA AcceptKeeps ==
  ASSUME PagesInv, NEW t \in Loads, Waiting(t), NEW seen \in SUBSET Ids, NEW w \in SUBSET seen,
         NEW page, CursorHolds(seen, Request(t)), PageWorth(Request(t), seen, w, page),
         Accept(t, page), UNCHANGED <<disk, generation, nextGeneration, active, allTask>>
  PROVE  PagesInv'
<1> DEFINE isWhole == Cardinality(load[t].base.rows \cup page.rows) >= page.total
           new     == Merged(load[t].base, page, load[t].gen, isWhole)
           source  == load[t].source
<1>0. isWhole \in BOOLEAN
  OBVIOUS
<1>1. /\ new \in SnapType /\ Whole(new) /\ new.gen = load[t].gen /\ new.cursor = page.cursor
  <2>1. OnTop(load[t].base, page, load[t].gen, new)
    BY <1>0 DEF OnTop, Merged
  <2> HIDE DEF new
  <2>2. /\ PagesInv /\ t \in Loads /\ seen \in SUBSET Ids /\ w \in SUBSET seen
        /\ CursorHolds(seen, Request(t)) /\ PageWorth(Request(t), seen, w, page)
    OBVIOUS
  <2> QED BY ONLY <2>1, <2>2, MergedIsWhole, Zenon
<1> USE DEF PagesInv, ListTypeOK
<1>2. source \in Sources /\ load[t].gen \in Nat
  BY DEF LoadTypes, LoadType
<1>3. snap' = [snap EXCEPT ![source] = new] /\ footer' = FooterOf(new) /\ ~Late(t)
  BY DEF Accept
<1>4. generation[source] = load[t].gen
  BY <1>3 DEF Late
<1>5. \/ load' = [load EXCEPT ![t].base = new] /\ page.cursor # NoCursor
         /\ UNCHANGED <<previewing, activeGen>>
      \/ Return(t)
  BY DEF Accept
<1> HIDE DEF new, isWhole
<1>6. /\ snap' \in [Sources -> SnapType] /\ snap'[source] = new
      /\ \A s \in Sources : s # source => snap'[s] = snap[s]
  BY <1>1, <1>2, <1>3 DEF SnapTypes
<1>7. /\ load' \in [Loads -> LoadType]
      /\ \A u \in Loads : /\ load'[u].gen = load[u].gen /\ load'[u].source = load[u].source
                          /\ u # t => load'[u].base = load[u].base
                          /\ Waiting(u)' => load'[u].pc = load[u].pc
      /\ load'[t].base = load[t].base \/ (load'[t].base = new /\ page.cursor # NoCursor)
      /\ Waiting(t)' => load'[t].base = new
      /\ activeGen' \in {0, activeGen} /\ previewing' \in BOOLEAN
  <2>1. CASE Return(t)
    BY <2>1, ReturnEffect
  <2>2. CASE load' = [load EXCEPT ![t].base = new] /\ UNCHANGED <<previewing, activeGen>>
             /\ page.cursor # NoCursor
    BY <1>1, <2>2 DEF LoadTypes, LoadType, ViewTypes, Waiting
  <2> QED BY <1>5, <2>1, <2>2
<1>8. FileTypes' /\ SnapTypes' /\ LoadTypes'
  BY <1>6, <1>7 DEF FileTypes, SnapTypes, LoadTypes, disk
<1>9. ViewTypes'
  BY <1>3, <1>7, FooterTypes DEF ViewTypes
<1>10. WholeInv'
  <2>1. Whole(new) /\ \A s \in Sources : Whole(snap'[s])
    BY <1>1, <1>6 DEF WholeInv
  <2>2. \A u \in Loads : Whole(load'[u].base)
    BY <1>7, <2>1 DEF WholeInv
  <2>3. page.cursor # NoCursor => new # NoSnap
    BY <1>1 DEF NoSnap
  <2>4. \A u \in Loads : BaseOpen(load'[u])
    <3>1. \A u \in Loads : load'[u].pc = "continue" => load[u].pc = "continue"
      BY <1>7 DEF Waiting
    <3> QED BY <1>1, <1>7, <2>3, <3>1 DEF WholeInv, BaseOpen
  <2> QED BY <2>1, <2>2, <2>4 DEF WholeInv
<1>11. GenInv'
  <2>1. \A s \in Sources : snap'[s].gen <= generation'[s]
    BY <1>1, <1>2, <1>4, <1>6 DEF GenInv
  <2>2. \A u \in Loads : Waiting(u)' => Waiting(u)
    BY <1>7 DEF Waiting
  <2>3. \A u, v \in Loads : u # v /\ Waiting(u)' /\ Waiting(v)' => load'[u].gen # load'[v].gen
    <3>1. \A u \in Loads : load'[u].gen = load[u].gen
      BY <1>7
    <3> QED BY <2>2, <3>1 DEF GenInv
  <2>4. \A u \in Loads : Newest(u)' /\ load'[u].base # NoSnap => load'[u].base = snap'[load'[u].source]
    <3> SUFFICES ASSUME NEW u \in Loads, Newest(u)', load'[u].base # NoSnap
                 PROVE  load'[u].base = snap'[load'[u].source]
      OBVIOUS
    <3>1. CASE u = t
      BY <1>6, <1>7, <3>1 DEF Newest
    <3>2. CASE u # t
      <4>1. Newest(u) /\ load'[u].base = load[u].base /\ load'[u].source = load[u].source
        BY <1>7, <2>2, <3>2 DEF Newest
      <4>2. load[u].source # source
        BY <1>4, <3>2, <4>1 DEF GenInv, Newest
      <4>3. load[u].source \in Sources
        BY DEF LoadTypes, LoadType
      <4> QED BY <1>6, <4>1, <4>2, <4>3 DEF GenInv
    <3> QED BY <3>1, <3>2
  <2> QED BY <2>1, <2>3, <2>4 DEF GenInv
<1> QED BY <1>8, <1>9, <1>10, <1>11

\* A request before a reply, and what it asks for.
LEMMA RequestType == ASSUME PagesInv, NEW t \in Loads PROVE Request(t) \in CursorType
BY DEF PagesInv, ListTypeOK, LoadTypes, LoadType, SnapType, Request

\* A reply: it is ignored, fails, or is delivered.
LEMMA ReplyKeeps == ASSUME PagesInv, NEW t \in Loads, Reply(t) PROVE PagesInv'
<1>0. /\ UNCHANGED <<disk, generation, nextGeneration, active, allTask>> /\ Waiting(t)
  BY DEF Reply
<1>1. CASE Ignore(t)
  <2>1. footer' \in {"idle", "open", "retry", "more", "all"}
    BY <1>1 DEF Ignore, PagesInv, ListTypeOK, ViewTypes
  <2> QED BY <1>0, <1>1, <2>1, UnpublishedKeeps DEF Ignore
<1>2. ASSUME NEW changed \in BOOLEAN, Fail(t, changed) PROVE PagesInv'
  <2>1. footer' \in {"idle", "open", "retry", "more", "all"}
    BY <1>2 DEF Fail, FailedFooter
  <2> QED BY <1>0, <1>2, <2>1, UnpublishedKeeps DEF Fail
<1>3. ASSUME NEW spent \in BOOLEAN, NEW truncated \in BOOLEAN, NEW seen \in Inventories(truncated),
             CursorHolds(seen, Request(t)),
             NEW w \in SUBSET (seen \ Processed(seen, Request(t))),
             NEW last \in IF w = {} THEN {0} ELSE w, NEW unread \in SUBSET (w \cap Fragile),
             Window(w, last, seen \ Processed(seen, Request(t)), spent),
             Deliver(t, PageOf(Request(t), load[t].source, seen, w, last, unread,
                               spent \/ truncated))
      PROVE  PagesInv'
  <2> DEFINE cut  == spent \/ truncated
             page == PageOf(Request(t), load[t].source, seen, w, last, unread, cut)
  <2>0. seen \in SUBSET Alive /\ unread \in SUBSET w
    BY DEF Inventories
  <2>1. FileTypes /\ load[t].source \in Sources
    BY DEF PagesInv, ListTypeOK, LoadTypes, LoadType
  <2>2. cut \in BOOLEAN /\ (spent => cut)
    OBVIOUS
  <2>3. PageWorth(Request(t), seen, w, page)
    <3> HIDE DEF cut
    <3> QED BY <1>3, <2>0, <2>1, <2>2, RequestType, PagesAreWorth
  <2>4. seen \in SUBSET Ids /\ w \in SUBSET seen
    BY <2>0 DEF Alive
  <2> HIDE DEF page
  <2>5. CASE Accept(t, page)
    BY <1>0, <1>3, <2>3, <2>4, <2>5, AcceptKeeps
  <2>6. CASE Fail(t, FALSE)
    BY <1>2, <2>6
  <2> QED BY <1>3, <2>5, <2>6 DEF Deliver, page, cut
<1>4. CASE \E spent, truncated \in BOOLEAN : \E seen \in Inventories(truncated) :
          /\ CursorHolds(seen, Request(t))
          /\ \E w \in SUBSET (seen \ Processed(seen, Request(t))) :
             \E last \in IF w = {} THEN {0} ELSE w, unread \in SUBSET (w \cap Fragile) :
               /\ Window(w, last, seen \ Processed(seen, Request(t)), spent)
               /\ Deliver(t, PageOf(Request(t), load[t].source, seen, w, last, unread,
                                    spent \/ truncated))
  <2>1. PICK spent \in BOOLEAN, truncated \in BOOLEAN : \E seen \in Inventories(truncated) :
          /\ CursorHolds(seen, Request(t))
          /\ \E w \in SUBSET (seen \ Processed(seen, Request(t))) :
             \E last \in IF w = {} THEN {0} ELSE w, unread \in SUBSET (w \cap Fragile) :
               /\ Window(w, last, seen \ Processed(seen, Request(t)), spent)
               /\ Deliver(t, PageOf(Request(t), load[t].source, seen, w, last, unread,
                                    spent \/ truncated))
    BY <1>4
  <2>2. PICK seen \in Inventories(truncated) :
          /\ CursorHolds(seen, Request(t))
          /\ \E w \in SUBSET (seen \ Processed(seen, Request(t))) :
             \E last \in IF w = {} THEN {0} ELSE w, unread \in SUBSET (w \cap Fragile) :
               /\ Window(w, last, seen \ Processed(seen, Request(t)), spent)
               /\ Deliver(t, PageOf(Request(t), load[t].source, seen, w, last, unread,
                                    spent \/ truncated))
    BY <2>1
  <2> QED BY <1>3, <2>2
<1>5. CASE Fail(t, FALSE) \/ \E seen \in Inventories(TRUE) :
                               ~CursorHolds(seen, Request(t)) /\ Fail(t, TRUE)
  BY <1>2, <1>5
<1> QED BY <1>1, <1>4, <1>5 DEF Reply

\* The invariant is inductive.
LEMMA PagesStepKeeps == PagesInv /\ [PagesNext]_pagesVars => PagesInv'
<1> SUFFICES ASSUME PagesInv, [PagesNext]_pagesVars PROVE PagesInv'
  OBVIOUS
<1>1. CASE UNCHANGED pagesVars
  BY <1>1 DEF pagesVars, disk, view, PagesInv, ListTypeOK, FileTypes, ViewTypes, SnapTypes,
              LoadTypes, WholeInv, GenInv, Newest, Waiting
<1>2. ASSUME NEW t \in Loads, Refresh(t) \/ RefreshIfNeeded(t) PROVE PagesInv'
  BY <1>2, BeginRefreshKeeps DEF Refresh, RefreshIfNeeded
<1>3. ASSUME NEW t \in Loads, LoadMore(t) PROVE PagesInv'
  BY <1>3, BeginContinueKeeps DEF LoadMore
<1>4. ASSUME NEW t \in Loads, LoadStep(t) PROVE PagesInv'
  BY <1>4, ReplyKeeps, LoadAllStepKeeps, LoadAllEndsKeeps DEF LoadStep
<1>5. ASSUME NEW i \in Ids, NEW time \in {Gone} \cup 0 .. MaxTime, Change(i, time) PROVE PagesInv'
  BY <1>5, ChangeKeeps
<1> QED
  BY <1>1, <1>2, <1>3, <1>4, <1>5, LoadAllKeeps, ShowAgainKeeps, CancelKeeps, SwitchKeeps
     DEF PagesNext

\* In every state: the types, what is accepted, and the order of the loads.
THEOREM PagesInvariant == PagesSpec => []PagesInv
BY PagesInitial, PagesStepKeeps, PTL DEF PagesSpec

\* The variables of the list keep their types, and the view waits for the newest load.
THEOREM ListTypes == PagesSpec => []ListTypeOK
<1>1. PagesInv => ListTypeOK
  BY DEF PagesInv
<1> QED BY <1>1, PagesInvariant, PTL

\* A list that says it is complete has every session of its inventory but those a
\* gap note names, whichever reads fail.
THEOREM CompleteListIsWhole == PagesSpec => []ListIsWhole
<1>1. PagesInv => ListIsWhole
  BY DEF PagesInv, WholeInv, Whole, ListIsWhole
<1> QED BY <1>1, PagesInvariant, PTL

\* A reply publishes only into the source that is active, under the newest
\* generation of it, and on top of what is published unless a refresh begins.
LEMMA ReplyPublishes ==
  ASSUME PagesInv, NEW t \in Loads, Reply(t), NEW s \in Sources, snap'[s] # snap[s]
  PROVE  /\ s = active /\ snap'[s].gen >= snap[s].gen
         /\ \/ snap[s].rows \subseteq snap'[s].rows
            \/ load[t].pc = "prewarm" /\ load[t].base = NoSnap /\ load'[t] # load[t]
<1>1. PICK page : Accept(t, page)
  <2>1. ASSUME NEW changed \in BOOLEAN, Ignore(t) \/ Fail(t, changed) PROVE FALSE
    BY <2>1 DEF Ignore, Fail
  <2>2. ASSUME NEW page, Deliver(t, page) PROVE Accept(t, page)
    BY <2>1, <2>2 DEF Deliver
  <2>3. \E page : Deliver(t, page)
    BY <2>1, Zenon DEF Reply
  <2> QED BY <2>2, <2>3
<1> DEFINE isWhole == Cardinality(load[t].base.rows \cup page.rows) >= page.total
           new     == Merged(load[t].base, page, load[t].gen, isWhole)
<1>2. snap' = [snap EXCEPT ![load[t].source] = new] /\ ~Late(t)
  BY <1>1 DEF Accept
<1>3. /\ s = load[t].source /\ s = active /\ generation[s] = load[t].gen
      /\ snap'[s] = new
  BY <1>2 DEF Late, PagesInv, ListTypeOK, SnapTypes
<1>4. new.gen = load[t].gen /\ load[t].base.rows \subseteq new.rows
  BY DEF Merged
<1>5. snap'[s].gen >= snap[s].gen
  BY <1>3, <1>4 DEF PagesInv, GenInv, ListTypeOK, SnapTypes, SnapType
<1>6. CASE load[t].base # NoSnap
  <2>1. load[t].base = snap[s]
    BY <1>3, <1>6 DEF PagesInv, GenInv, Newest, Reply
  <2> QED BY <1>3, <1>4, <1>5, <2>1
<1>7. CASE load[t].base = NoSnap
  <2>1. load[t].pc = "prewarm"
    BY <1>7 DEF PagesInv, WholeInv, BaseOpen, Reply, Waiting
  <2>2. load'[t] # load[t]
    <3>1. load \in [Loads -> LoadType]
      BY DEF PagesInv, ListTypeOK, LoadTypes
    <3>2. CASE Return(t)
      <4>1. load'[t].pc # "prewarm"
        BY <3>1, <3>2 DEF Return, Returned, LoadType
      <4> QED BY <2>1, <4>1
    <3>3. CASE load' = [load EXCEPT ![t].base = new] /\ page.cursor # NoCursor
      <4>1. load'[t].base.cursor # NoCursor
        BY <3>1, <3>3 DEF Merged, LoadType
      <4> QED BY <1>7, <4>1 DEF NoSnap
    <3> QED BY <1>1, <3>2, <3>3 DEF Accept
  <2> QED BY <1>3, <1>5, <1>7, <2>1, <2>2
<1> QED BY <1>6, <1>7

\* Nothing else publishes.
LEMMA OnlyRepliesPublish ==
  ASSUME PagesNext, snap' # snap
  PROVE  \E t \in Loads : Reply(t)
<1>1. ASSUME NEW t \in Loads, LoadAllStep(t) \/ LoadAllEnds(t) PROVE FALSE
  BY <1>1 DEF LoadAllStep, LoadAllEnds, BeginRefresh, BeginContinue
<1>2. ASSUME NEW t \in Loads, Refresh(t) \/ RefreshIfNeeded(t) \/ LoadMore(t) \/ LoadAll(t)
      PROVE  FALSE
  BY <1>2 DEF Refresh, RefreshIfNeeded, LoadMore, LoadAll, BeginRefresh, BeginContinue
<1>3. ~ShowAgain /\ ~Cancel
  BY DEF ShowAgain, Cancel
<1>4. ASSUME NEW s \in Sources, Switch(s) PROVE FALSE
  BY <1>4 DEF Switch
<1>5. ASSUME NEW i \in Ids, NEW time \in {Gone} \cup 0 .. MaxTime, Change(i, time) PROVE FALSE
  BY <1>5 DEF Change
<1> QED BY <1>1, <1>2, <1>3, <1>4, <1>5 DEF PagesNext, LoadStep

\* Only the first page of a refresh takes rows away.
THEOREM AcceptedRowsKept == PagesSpec => RowsKept
<1> DEFINE Kept == \A s \in Sources : snap[s].rows \subseteq snap'[s].rows
       \/ \E t \in Loads : load[t].pc = "prewarm" /\ load[t].base = NoSnap /\ load'[t] # load[t]
<1>1. PagesInv /\ [PagesNext]_pagesVars => [Kept]_pagesVars
  BY ReplyPublishes, OnlyRepliesPublish
<1> QED BY <1>1, PagesInvariant, PTL DEF PagesSpec, RowsKept

\* No late page replaces a newer list.
THEOREM NewestListStays == PagesSpec => NewestListWins
<1> DEFINE Newer == \A s \in Sources : snap'[s] # snap[s] => s = active /\ snap'[s].gen >= snap[s].gen
<1>1. PagesInv /\ [PagesNext]_pagesVars => [Newer]_pagesVars
  BY ReplyPublishes, OnlyRepliesPublish
<1> QED BY <1>1, PagesInvariant, PTL DEF PagesSpec, NewestListWins
=============================================================================
