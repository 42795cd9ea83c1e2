--------------------------- MODULE SessionDetails ---------------------------
(***************************************************************************)
(* The details of local sessions: the cache of at most MaxDetails of them  *)
(* (Models/LocalSessionCache.swift) and the tasks that fill it page by     *)
(* page (Stores/SkillStore+LocalSessionDetail.swift).  All of it runs on   *)
(* the main actor, but every await lets the user select another session,   *)
(* cancel, retry or switch to another source, and the service answer late. *)
(***************************************************************************)
EXTENDS Naturals, FiniteSets, Sequences, SequencesExt

CONSTANTS
  Sources,    \* agents and projects, each with a snapshot of its sessions
  Keys, SourceOf,
  Pages,      \* pages of messages in a session
  MaxDetails, \* maximumDetailEntries
  Loads,      \* tasks, in the order of their creation; bounds their number
  MaxChanges, \* bound: how often one session changes on disk
  NoKey, NoLoad

ASSUME DetailAssumption ==
  /\ SourceOf \in [Keys -> Sources]
  /\ Pages \in Nat \ {0} /\ MaxDetails \in Nat \ {0}
  /\ NoKey \notin Keys
  /\ Loads = 1 .. Cardinality(Loads) /\ NoLoad \notin Loads

VARIABLES
  active,    \* activeLocalSessionSnapshotKey
  selected,  \* selectedLocalSessionID
  managed,   \* localSessionDetailTask
  detail,    \* detailStates
  shown,     \* the messages of a loaded detail: of each page, the revision
  comp,      \* detailCompleteness
  gen,       \* detailGenerations, 0 for no entry
  nextGeneration,
  recency,   \* detailRecency
  load,      \* the tasks
  disk,      \* the revision of each session file
  newest     \* ghost: the latest load whose page was shown

cacheVars  == <<detail, shown, comp, gen, nextGeneration, recency>>
detailVars == <<active, selected, managed, cacheVars, load, disk, newest>>

DetailInit ==
  /\ active \in Sources /\ selected = NoKey /\ managed = NoLoad
  /\ detail = [k \in Keys |-> "none"] /\ shown = [k \in Keys |-> <<>>]
  /\ comp = [k \in Keys |-> "none"] /\ gen = [k \in Keys |-> 0]
  /\ nextGeneration = 0 /\ recency = <<>>
  /\ load = [t \in Loads |-> [pc |-> "unborn", key |-> NoKey, gen |-> 0,
                              cancelled |-> FALSE, items |-> <<>>]]
  /\ disk = [k \in Keys |-> 0] /\ newest = [k \in Keys |-> 0]

-----------------------------------------------------------------------------
(* The cache.                                                              *)

\* removeAll: what is left of the sequence s.
RemoveAll(s, gone) ==
  LET Left[n \in 0 .. Len(s)] ==
        IF n = 0 THEN <<>>
        ELSE IF s[n] \in gone THEN Left[n - 1] ELSE Append(Left[n - 1], s[n])
  IN  Left[Len(s)]

Touched(k) == Append(RemoveAll(recency, {k}), k)

Without(gone) ==
  /\ recency' = RemoveAll(recency, gone)
  /\ detail' = [k \in Keys |-> IF k \in gone THEN "none" ELSE detail[k]]
  /\ shown' = [k \in Keys |-> IF k \in gone THEN <<>> ELSE shown[k]]
  /\ comp' = [k \in Keys |-> IF k \in gone THEN "none" ELSE comp[k]]
  /\ gen' = [k \in Keys |-> IF k \in gone THEN 0 ELSE gen[k]]

\* beginDetailLoad goes ahead unless a load runs or nothing is missing; a
\* loaded but incomplete detail is shown while it is loaded again.
NeedsLoad(k) == detail[k] # "loading" /\ comp[k] # "complete"

\* Mutant of Enter: the least recently used entry is not removed.
EnterUntrimmed(k) ==
  /\ recency' = Touched(k)
  /\ nextGeneration' = nextGeneration + 1
  /\ gen' = [gen EXCEPT ![k] = nextGeneration + 1]
  /\ detail' = [detail EXCEPT ![k] = IF @ = "loaded" THEN @ ELSE "loading"]
  /\ comp' = [comp EXCEPT ![k] = "loading"]
  /\ UNCHANGED shown

\* beginDetailLoad with touchDetail and trimDetails.
Enter(k) ==
  LET dropped == IF Len(Touched(k)) > MaxDetails THEN {Head(Touched(k))} ELSE {}
      Kept(f, none) == [j \in Keys |-> IF j \in dropped THEN none ELSE f[j]]
  IN  /\ recency' = RemoveAll(Touched(k), dropped)
      /\ nextGeneration' = nextGeneration + 1
      /\ gen' = Kept([gen EXCEPT ![k] = nextGeneration + 1], 0)
      /\ detail' = Kept([detail EXCEPT ![k] = IF @ = "loaded" THEN @ ELSE "loading"], "none")
      /\ comp' = Kept([comp EXCEPT ![k] = "loading"], "none")
      /\ shown' = Kept(shown, <<>>)

\* Mutant of PublishProgress: the generation is not compared.
PublishUnchecked(k, g, items, completeness) ==
  IF detail[k] # "none"
  THEN /\ detail' = [detail EXCEPT ![k] = "loaded"]
       /\ shown' = [shown EXCEPT ![k] = items]
       /\ comp' = [comp EXCEPT ![k] = completeness]
       /\ recency' = Touched(k)
       /\ newest' = [newest EXCEPT ![k] = g]
       /\ UNCHANGED <<gen, nextGeneration>>
  ELSE UNCHANGED <<cacheVars, newest>>

\* publishDetailProgress; an entry that is gone or loaded again stays as it is.
PublishProgress(k, g, items, completeness) ==
  IF detail[k] # "none" /\ gen[k] = g
  THEN /\ detail' = [detail EXCEPT ![k] = "loaded"]
       /\ shown' = [shown EXCEPT ![k] = items]
       /\ comp' = [comp EXCEPT ![k] = completeness]
       /\ recency' = Touched(k)
       /\ newest' = [newest EXCEPT ![k] = g]
       /\ UNCHANGED <<gen, nextGeneration>>
  ELSE UNCHANGED <<cacheVars, newest>>

\* failDetail: what is loaded stays and can be retried.
FailDetail(k, g) ==
  /\ IF detail[k] # "none" /\ gen[k] = g
     THEN /\ detail' = [detail EXCEPT ![k] = IF @ = "loaded" THEN @ ELSE "failed"]
          /\ comp' = [comp EXCEPT ![k] = IF detail[k] = "loaded" THEN "retry" ELSE "none"]
          /\ recency' = Touched(k)
     ELSE UNCHANGED <<detail, comp, recency>>
  /\ UNCHANGED <<shown, gen, nextGeneration>>

\* Mutant of CancelDetail: the generation of the cancelled load stays valid
\* and the footer goes on loading.
CancelForgotten(k) == UNCHANGED cacheVars

\* cancelDetailLoad: of whatever load of k, and only once something is shown.
CancelDetail(k) ==
  /\ IF detail[k] = "loaded"
     THEN /\ nextGeneration' = nextGeneration + 1
          /\ gen' = [gen EXCEPT ![k] = nextGeneration + 1]
          /\ comp' = [comp EXCEPT ![k] = "retry"]
     ELSE UNCHANGED <<nextGeneration, gen, comp>>
  /\ UNCHANGED <<detail, shown, recency>>

-----------------------------------------------------------------------------
(* The user.                                                               *)

Running(t) == load[t].pc \notin {"unborn", "done"}

NewLoad(t, k) ==
  /\ load[t].pc = "unborn" /\ \A u \in Loads : u < t => load[u].pc # "unborn"
  /\ load' = [u \in Loads |->
       IF u = t THEN [load[t] EXCEPT !.pc = "begin", !.key = k]
       ELSE load[u]]

Cancelled(loads, t) ==
  [u \in Loads |-> IF u = t /\ Running(t) THEN [loads[u] EXCEPT !.cancelled = TRUE]
                   ELSE loads[u]]

\* selectLocalSession cancels the previous task and starts one of its own.
Select(t, k) ==
  /\ SourceOf[k] = active
  /\ selected' = k /\ managed' = t
  /\ load[t].pc = "unborn" /\ \A u \in Loads : u < t => load[u].pc # "unborn"
  /\ load' = [Cancelled(load, managed) EXCEPT ![t].pc = "begin", ![t].key = k]
  /\ UNCHANGED <<active, cacheVars, disk, newest>>

\* The panel offers to load: a task nobody can cancel.
Retry(t) ==
  /\ selected # NoKey
  /\ detail[selected] \in {"none", "failed"} \/ comp[selected] = "retry"
  /\ NewLoad(t, selected)
  /\ UNCHANGED <<active, selected, managed, cacheVars, disk, newest>>

\* cancelLocalSessionMessageLoad, while the footer shows a load.
CancelButton ==
  /\ selected # NoKey
  /\ detail[selected] = "loaded" /\ comp[selected] = "loading"
  /\ load' = Cancelled(load, managed)
  /\ CancelDetail(selected)
  /\ UNCHANGED <<active, selected, managed, disk, newest>>

\* activateLocalSessionSourceCache: the details of other sources go.
Switch(source) ==
  /\ source # active /\ active' = source /\ selected' = NoKey
  /\ Without({k \in Keys : SourceOf[k] # source})
  /\ UNCHANGED <<managed, nextGeneration, load, disk, newest>>

-----------------------------------------------------------------------------
(* loadLocalSessionDetailIfNeeded.                                         *)

Others == UNCHANGED <<active, selected, managed, disk>>
Move(t, to) == load' = [load EXCEPT ![t].pc = to]
Finished == [pc |-> "done", key |-> NoKey, gen |-> 0, cancelled |-> FALSE, items |-> <<>>]
Return(t) == load' = [load EXCEPT ![t] = Finished]

\* It starts even when it is cancelled already.
Begin(t) ==
  LET k == load[t].key
  IN  /\ load[t].pc = "begin"
      /\ \/ /\ SourceOf[k] = active /\ NeedsLoad(k)
            /\ Enter(k)
            /\ load' = [load EXCEPT ![t].pc = "sample", ![t].gen = nextGeneration + 1]
         \/ /\ SourceOf[k] = active /\ ~NeedsLoad(k)
            /\ recency' = Touched(k)
            /\ Return(t)
            /\ UNCHANGED <<detail, shown, comp, gen, nextGeneration>>
         \/ SourceOf[k] # active /\ Return(t) /\ UNCHANGED cacheVars
      /\ Others /\ UNCHANGED newest

\* The bounded sample of the session has come.
Sample(t) ==
  /\ load[t].pc = "sample" /\ ~load[t].cancelled
  /\ \/ SourceOf[load[t].key] # active /\ Return(t) /\ UNCHANGED cacheVars
     \/ SourceOf[load[t].key] = active /\ Move(t, "page") /\ UNCHANGED cacheVars
     \/ /\ SourceOf[load[t].key] = active /\ Return(t)
        /\ FailDetail(load[t].key, load[t].gen)
  /\ Others /\ UNCHANGED newest

\* Mutant of Accepts: sourceRevision is not compared.
AcceptsAny(t) == TRUE

\* The accumulator takes the next page if it is of the same revision.  (The
\* service compares it too; here the client has to do on its own.)
Accepts(t) == \A i \in DOMAIN load[t].items : load[t].items[i] = disk[load[t].key]

\* A page has come, perhaps just before a cancellation; the last one of a
\* session may be limited.
Page(t) ==
  LET k     == load[t].key
      items == Append(load[t].items, disk[k])
      more  == Len(items) < Pages
  IN  /\ load[t].pc = "page" /\ Accepts(t)
      /\ \E completeness \in IF more THEN {"loading"} ELSE {"complete", "ended"} :
           PublishProgress(k, load[t].gen, items, completeness)
      /\ load' = [load EXCEPT ![t] = IF more /\ gen[k] = load[t].gen
                                    THEN [@ EXCEPT !.items = items] ELSE Finished]
      /\ Others

\* A call fails, a page is refused or the task is cancelled.
Caught(t) ==
  /\ load[t].pc \in {"sample", "page"}
  /\ \/ load[t].cancelled /\ CancelDetail(load[t].key)
     \/ ~load[t].cancelled /\ FailDetail(load[t].key, load[t].gen)
  /\ Return(t)
  /\ Others /\ UNCHANGED newest

\* An agent writes into its session.
Change(k) ==
  /\ disk[k] < MaxChanges /\ \A j \in Keys \ {k} : disk[j] = 0  \* bounds
  /\ \E t \in Loads : load[t].key = k                \* nobody else reads it
  /\ disk' = [disk EXCEPT ![k] = @ + 1]
  /\ UNCHANGED <<active, selected, managed, cacheVars, load, newest>>

LoadStep(t) == Begin(t) \/ Sample(t) \/ Page(t) \/ Caught(t)

DetailNext ==
  \/ \E t \in Loads : LoadStep(t) \/ Retry(t) \/ \E k \in Keys : Select(t, k)
  \/ CancelButton
  \/ \E source \in Sources : Switch(source)
  \/ \E k \in Keys : Change(k)

DetailSpec == DetailInit /\ [][DetailNext]_detailVars

-----------------------------------------------------------------------------
(* Properties.                                                             *)

Stored == {k \in Keys : detail[k] # "none"}

\* Every variable keeps to its values, the recency list names each stored
\* detail once, there are at most MaxDetails of them, all of the active source,
\* and no load is ahead of the generations (beginDetailLoad, trimDetails,
\* activateSource).
DetailTypeOK ==
  /\ active \in Sources /\ selected \in Keys \cup {NoKey}
  /\ managed \in Loads \cup {NoLoad}
  /\ detail \in [Keys -> {"none", "loading", "loaded", "failed"}]
  /\ comp \in [Keys -> {"none", "loading", "retry", "ended", "complete"}]
  /\ IsInjective(recency) /\ ToSet(recency) = Stored
  /\ Cardinality(Stored) <= MaxDetails
  /\ \A k \in Stored : SourceOf[k] = active
  /\ \A k \in Keys : gen[k] <= nextGeneration /\ (gen[k] # 0 <=> k \in Stored)
  /\ \A k \in Keys : Len(shown[k]) > 0 <=> detail[k] = "loaded"
  /\ \A t \in Loads : load[t].gen <= nextGeneration

\* What is presented as complete is every page of one revision of the session
\* file, although it may change between two pages (ListPageAccumulator.append).
CompleteIsWhole ==
  \A k \in Keys : comp[k] = "complete" =>
    \E r \in 0 .. disk[k] : shown[k] = [i \in 1 .. Pages |-> r]

\* A detail that shows messages and a load in progress has a load that can
\* still publish or fail; whoever cancels or supersedes it leaves a retry
\* behind (cancelDetailLoad, failDetail, publishDetailProgress).
FooterHasLoad ==
  \A k \in Keys : detail[k] = "loaded" /\ comp[k] = "loading" =>
    \E t \in Loads : Running(t) /\ load[t].key = k /\ load[t].gen = gen[k]

\* No page of a load is shown after one of a later load of the same session,
\* in whatever order they answer (detailGenerations).
NewestWins == [][\A k \in Keys : newest'[k] >= newest[k]]_newest

\* "Cancellation and page failure retain already accepted items and expose
\* retry" (docs/service-protocol.md:646): a detail whose panel says that it is
\* loading, and offers nothing else, is being loaded.
LoadingHasLoad ==
  \A k \in Keys : detail[k] = "loading" =>
    \E t \in Loads : Running(t) /\ load[t].key = k /\ load[t].gen = gen[k]
=============================================================================
