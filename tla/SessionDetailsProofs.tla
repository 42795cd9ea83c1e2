------------------------- MODULE SessionDetailsProofs -------------------------
(***************************************************************************)
(* The details of sessions for any number of sessions, loads, pages and    *)
(* changes: what is complete is one revision, a footer that loads has a    *)
(* load, and no old load is shown after a newer one; nothing of that       *)
(* depends on which entry goes.  Then the recency list, which has every    *)
(* stored detail once, so that it tells how many there are.                *)
(***************************************************************************)
EXTENDS SessionDetails, FiniteSetTheorems, WellFoundedInduction, TLAPS

USE DetailAssumption

LoadType ==
  [pc : {"unborn", "begin", "sample", "page", "done"}, key : Keys \cup {NoKey},
   gen : Nat, cancelled : BOOLEAN, items : Seq(Nat)]

CacheTypes ==
  /\ active \in Sources /\ selected \in Keys \cup {NoKey}
  /\ detail \in [Keys -> {"none", "loading", "loaded", "failed"}]
  /\ comp \in [Keys -> {"none", "loading", "retry", "ended", "complete"}]
  /\ shown \in [Keys -> Seq(Nat)] /\ gen \in [Keys -> Nat] /\ nextGeneration \in Nat
  /\ disk \in [Keys -> Nat] /\ newest \in [Keys -> Nat]

\* A load has a key while it runs, a generation once it has begun, and fewer
\* pages than the session has.
LoadOK(l, newestGen) ==
  /\ l.pc \notin {"unborn", "done"} => l.key \in Keys
  /\ l.gen <= newestGen
  /\ l.gen # 0 <=> l.pc \in {"sample", "page"}
  /\ Len(l.items) < Pages

LoadTypes == load \in [Loads -> LoadType] /\ \A t \in Loads : LoadOK(load[t], nextGeneration)

\* The entries of the cache have a generation that was given out, are of the
\* active source, and show nothing of a later load.
GenOK(k) ==
  /\ gen[k] <= nextGeneration /\ newest[k] <= nextGeneration
  /\ gen[k] # 0 <=> detail[k] # "none"
  /\ detail[k] # "none" => newest[k] <= gen[k] /\ SourceOf[k] = active
EntriesOK == \A k \in Keys : GenOK(k)

DetailInv == CacheTypes /\ LoadTypes /\ EntriesOK /\ CompleteIsWhole /\ FooterHasLoad

\* The initial state.
LEMMA DetailInitial == DetailInit => DetailInv
<1> SUFFICES ASSUME DetailInit PROVE DetailInv
  OBVIOUS
<1> USE DEF DetailInit
<1>1. CacheTypes
  BY DEF CacheTypes
<1>2. LoadTypes
  BY DEF LoadTypes, LoadType, LoadOK
<1>3. EntriesOK /\ CompleteIsWhole /\ FooterHasLoad
  BY DEF EntriesOK, GenOK, CompleteIsWhole, FooterHasLoad
<1> QED BY <1>1, <1>2, <1>3 DEF DetailInv

-----------------------------------------------------------------------------
(* Steps that leave the cache alone.                                       *)

\* Loads are made and cancelled, and still run.
LEMMA LoadsGoOn ==
  ASSUME DetailInv, UNCHANGED <<active, cacheVars, disk, newest>>,
         selected' \in Keys \cup {NoKey},
         load' \in [Loads -> LoadType], \A t \in Loads : LoadOK(load'[t], nextGeneration),
         \A t \in Loads : Running(t) => /\ Running(t)' /\ load'[t].key = load[t].key
                                        /\ load'[t].gen = load[t].gen
  PROVE  DetailInv'
<1>1. CacheTypes' /\ EntriesOK' /\ CompleteIsWhole'
  BY DEF DetailInv, CacheTypes, EntriesOK, GenOK, CompleteIsWhole, cacheVars
<1>2. LoadTypes'
  BY DEF LoadTypes, LoadOK, cacheVars
<1>3. FooterHasLoad'
  BY DEF DetailInv, FooterHasLoad, Running, cacheVars
<1> QED BY <1>1, <1>2, <1>3 DEF DetailInv

\* A task that is told it is cancelled is otherwise the same.
LEMMA CancelledLoads ==
  ASSUME LoadTypes, NEW t
  PROVE  /\ Cancelled(load, t) \in [Loads -> LoadType]
         /\ \A u \in Loads : /\ Cancelled(load, t)[u].pc = load[u].pc
                             /\ Cancelled(load, t)[u].key = load[u].key
                             /\ Cancelled(load, t)[u].gen = load[u].gen
                             /\ Cancelled(load, t)[u].items = load[u].items
BY DEF LoadTypes, LoadType, Cancelled

LEMMA SelectKeeps ==
  ASSUME DetailInv, NEW t \in Loads, NEW k \in Keys, Select(t, k)
  PROVE  DetailInv'
<1> DEFINE loads == Cancelled(load, managed)
<1>1. /\ loads \in [Loads -> LoadType]
      /\ \A u \in Loads : /\ loads[u].pc = load[u].pc /\ loads[u].key = load[u].key
                          /\ loads[u].gen = load[u].gen /\ loads[u].items = load[u].items
  BY CancelledLoads DEF DetailInv
<1>2. /\ UNCHANGED <<active, cacheVars, disk, newest>>
      /\ selected' = k
      /\ load[t].pc = "unborn" /\ load' = [loads EXCEPT ![t].pc = "begin", ![t].key = k]
  BY DEF Select
<1> HIDE DEF loads
<1>3. /\ load' \in [Loads -> LoadType]
      /\ \A u \in Loads : /\ load'[u].gen = load[u].gen /\ load'[u].items = load[u].items
                          /\ u # t => load'[u].pc = load[u].pc /\ load'[u].key = load[u].key
      /\ load'[t].pc = "begin" /\ load'[t].key = k
  <2> DEFINE l == [loads[t] EXCEPT !.pc = "begin", !.key = k]
  <2>1. load' = [loads EXCEPT ![t] = l]
    BY <1>1, <1>2
  <2>2. loads[t] \in LoadType /\ k \in Keys
    BY <1>1
  <2>3. l \in LoadType
    BY <2>2 DEF LoadType
  <2>4. l.pc = "begin" /\ l.key = k /\ l.gen = loads[t].gen /\ l.items = loads[t].items
    BY <2>2 DEF LoadType
  <2> HIDE DEF l
  <2> QED BY <1>1, <2>1, <2>3, <2>4
<1>4. \A u \in Loads : LoadOK(load'[u], nextGeneration)
  BY <1>2, <1>3 DEF DetailInv, LoadTypes, LoadOK
<1>5. \A u \in Loads : Running(u) => Running(u)' /\ load'[u].key = load[u].key
  BY <1>2, <1>3 DEF Running
<1> QED BY <1>2, <1>3, <1>4, <1>5, LoadsGoOn

LEMMA RetryKeeps == ASSUME DetailInv, NEW t \in Loads, Retry(t) PROVE DetailInv'
<1>1. /\ UNCHANGED <<active, selected, cacheVars, disk, newest>> /\ load[t].pc = "unborn"
      /\ load' = [u \in Loads |-> IF u = t THEN [load[t] EXCEPT !.pc = "begin", !.key = selected]
                                  ELSE load[u]]
  BY DEF Retry, NewLoad
<1>2. selected \in Keys
  BY DEF Retry, DetailInv, CacheTypes
<1>3. /\ load' \in [Loads -> LoadType]
      /\ \A u \in Loads : /\ load'[u].gen = load[u].gen /\ load'[u].items = load[u].items
                          /\ u # t => load'[u].pc = load[u].pc /\ load'[u].key = load[u].key
      /\ load'[t].pc = "begin" /\ load'[t].key = selected
  BY <1>1, <1>2 DEF DetailInv, LoadTypes, LoadType
<1>4. \A u \in Loads : LoadOK(load'[u], nextGeneration)
  BY <1>1, <1>2, <1>3 DEF DetailInv, LoadTypes, LoadOK
<1>5. \A u \in Loads : Running(u) => Running(u)' /\ load'[u].key = load[u].key
  BY <1>1, <1>3 DEF Running
<1>6. selected' \in Keys \cup {NoKey}
  BY <1>1, <1>2
<1> QED BY <1>1, <1>3, <1>4, <1>5, <1>6, LoadsGoOn

\* A session changes: what is shown stays one of its revisions.
LEMMA ChangeKeeps == ASSUME DetailInv, NEW k \in Keys, Change(k) PROVE DetailInv'
<1>1. /\ UNCHANGED <<active, selected, cacheVars, load, newest>>
      /\ disk' = [disk EXCEPT ![k] = @ + 1]
  BY DEF Change
<1>2. CacheTypes' /\ LoadTypes' /\ EntriesOK'
  BY <1>1 DEF DetailInv, CacheTypes, LoadTypes, LoadOK, EntriesOK, GenOK, cacheVars
<1>3. \A j \in Keys : disk[j] \in Nat /\ disk'[j] \in Nat /\ disk'[j] >= disk[j]
  BY <1>1 DEF DetailInv, CacheTypes
<1>4. \A j \in Keys : 0 .. disk[j] \subseteq 0 .. disk'[j]
  BY <1>3
<1>5. CompleteIsWhole'
  BY <1>1, <1>4 DEF DetailInv, CompleteIsWhole, cacheVars
<1>6. FooterHasLoad'
  BY <1>1 DEF DetailInv, FooterHasLoad, Running, cacheVars
<1> QED BY <1>2, <1>5, <1>6 DEF DetailInv

\* The details of the other sources go, and their loads with them.
LEMMA SwitchKeeps == ASSUME DetailInv, NEW source \in Sources, Switch(source) PROVE DetailInv'
<1> DEFINE gone == {k \in Keys : SourceOf[k] # source}
<1>1. /\ UNCHANGED <<nextGeneration, load, disk, newest>>
      /\ active' = source /\ selected' = NoKey
      /\ detail' = [k \in Keys |-> IF k \in gone THEN "none" ELSE detail[k]]
      /\ shown' = [k \in Keys |-> IF k \in gone THEN <<>> ELSE shown[k]]
      /\ comp' = [k \in Keys |-> IF k \in gone THEN "none" ELSE comp[k]]
      /\ gen' = [k \in Keys |-> IF k \in gone THEN 0 ELSE gen[k]]
  BY DEF Switch, Without
<1>2. CacheTypes'
  BY <1>1 DEF DetailInv, CacheTypes
<1>3. LoadTypes'
  BY <1>1 DEF DetailInv, LoadTypes, LoadOK
<1>4. EntriesOK'
  BY <1>1 DEF DetailInv, EntriesOK, GenOK, CacheTypes
<1>5. CompleteIsWhole'
  BY <1>1 DEF DetailInv, CompleteIsWhole
<1>6. FooterHasLoad'
  BY <1>1 DEF DetailInv, FooterHasLoad, Running
<1> QED BY <1>2, <1>3, <1>4, <1>5, <1>6 DEF DetailInv

-----------------------------------------------------------------------------
(* Steps on one entry.                                                     *)

\* The generations of an entry that stays as it is.
LEMMA OthersGen ==
  ASSUME DetailInv, CacheTypes', active' = active, nextGeneration' >= nextGeneration,
         NEW j \in Keys, gen'[j] = gen[j], detail'[j] = detail[j], newest'[j] = newest[j]
  PROVE  GenOK(j)'
<1>1. /\ gen[j] \in Nat /\ newest[j] \in Nat /\ nextGeneration \in Nat /\ nextGeneration' \in Nat
  BY DEF DetailInv, CacheTypes
<1>2. GenOK(j)
  BY DEF DetailInv, EntriesOK
<1> QED BY <1>1, <1>2 DEF GenOK

\* One entry changes, and the loads that run for the others go on.
LEMMA OneEntryKeeps ==
  ASSUME DetailInv, NEW k \in Keys, UNCHANGED <<active, disk>>,
         CacheTypes', LoadTypes', nextGeneration' >= nextGeneration,
         \A j \in Keys \ {k} : /\ gen'[j] = gen[j] /\ detail'[j] = detail[j] /\ comp'[j] = comp[j]
                               /\ shown'[j] = shown[j] /\ newest'[j] = newest[j],
         GenOK(k)',
         comp'[k] = "complete" => \E r \in 0 .. disk[k] : shown'[k] = [i \in 1 .. Pages |-> r],
         detail'[k] = "loaded" /\ comp'[k] = "loading" =>
           \E t \in Loads : Running(t)' /\ load'[t].key = k /\ load'[t].gen = gen'[k],
         \A t \in Loads : load[t].key # k => load'[t] = load[t]
  PROVE  DetailInv'
<1>1. EntriesOK'
  <2>1. \A j \in Keys \ {k} : GenOK(j)'
    BY OthersGen
  <2> QED BY <2>1 DEF EntriesOK
<1>2. CompleteIsWhole'
  BY DEF DetailInv, CompleteIsWhole
<1>3. FooterHasLoad'
  BY DEF DetailInv, FooterHasLoad, Running
<1> QED BY <1>1, <1>2, <1>3 DEF DetailInv

\* cancelDetailLoad.
LEMMA CancelEffect ==
  ASSUME DetailInv, NEW k \in Keys, CancelDetail(k), UNCHANGED <<active, selected, disk, newest>>
  PROVE  /\ CacheTypes' /\ nextGeneration' >= nextGeneration /\ GenOK(k)'
         /\ \A j \in Keys \ {k} : /\ gen'[j] = gen[j] /\ detail'[j] = detail[j] /\ comp'[j] = comp[j]
                                  /\ shown'[j] = shown[j] /\ newest'[j] = newest[j]
         /\ shown'[k] = shown[k] /\ comp'[k] \in {comp[k], "retry"}
         /\ ~(detail'[k] = "loaded" /\ comp'[k] = "loading")
<1> USE DEF DetailInv, CacheTypes, EntriesOK, GenOK
<1>1. UNCHANGED <<detail, shown>>
  BY DEF CancelDetail
<1>2. CASE detail[k] = "loaded"
  <2>1. /\ nextGeneration' = nextGeneration + 1 /\ comp' = [comp EXCEPT ![k] = "retry"]
        /\ gen' = [gen EXCEPT ![k] = nextGeneration + 1]
    BY <1>2 DEF CancelDetail
  <2>2. CacheTypes'
    BY <1>1, <2>1
  <2>3. GenOK(k)'
    BY <1>1, <1>2, <2>1
  <2> QED BY <1>1, <2>1, <2>2, <2>3
<1>3. CASE detail[k] # "loaded"
  <2>1. UNCHANGED <<nextGeneration, gen, comp>>
    BY <1>3 DEF CancelDetail
  <2> QED BY <1>1, <1>3, <2>1
<1> QED BY <1>2, <1>3

LEMMA CancelButtonKeeps == DetailInv /\ CancelButton => DetailInv'
<1> SUFFICES ASSUME DetailInv, CancelButton PROVE DetailInv'
  OBVIOUS
<1>1. /\ selected \in Keys /\ UNCHANGED <<active, selected, disk, newest>>
      /\ load' = Cancelled(load, managed) /\ CancelDetail(selected)
  BY DEF CancelButton, DetailInv, CacheTypes
<1>2. /\ CacheTypes' /\ nextGeneration' >= nextGeneration /\ GenOK(selected)'
      /\ \A j \in Keys \ {selected} :
           /\ gen'[j] = gen[j] /\ detail'[j] = detail[j] /\ comp'[j] = comp[j]
           /\ shown'[j] = shown[j] /\ newest'[j] = newest[j]
      /\ shown'[selected] = shown[selected] /\ comp'[selected] \in {comp[selected], "retry"}
      /\ ~(detail'[selected] = "loaded" /\ comp'[selected] = "loading")
  BY <1>1, CancelEffect
<1>3. /\ load' \in [Loads -> LoadType]
      /\ \A u \in Loads : /\ load'[u].pc = load[u].pc /\ load'[u].key = load[u].key
                          /\ load'[u].gen = load[u].gen /\ load'[u].items = load[u].items
  BY <1>1, CancelledLoads DEF DetailInv
<1>4. LoadTypes'
  <2>1. nextGeneration \in Nat /\ nextGeneration' \in Nat
    BY <1>2 DEF DetailInv, CacheTypes
  <2>2. \A u \in Loads : load[u].gen \in Nat
    BY DEF DetailInv, LoadTypes, LoadType
  <2>3. \A u \in Loads : LoadOK(load[u], nextGeneration)
    BY DEF DetailInv, LoadTypes
  <2>4. \A u \in Loads : LoadOK(load'[u], nextGeneration')
    BY <1>2, <1>3, <2>1, <2>2, <2>3 DEF LoadOK
  <2> QED BY <1>3, <2>4 DEF LoadTypes
<1>5. EntriesOK'
  <2>1. \A j \in Keys \ {selected} : GenOK(j)'
    BY <1>1, <1>2, OthersGen
  <2> QED BY <1>1, <1>2, <2>1 DEF EntriesOK
<1>6. CompleteIsWhole'
  BY <1>1, <1>2 DEF DetailInv, CompleteIsWhole
<1>7. FooterHasLoad'
  BY <1>2, <1>3 DEF DetailInv, FooterHasLoad, Running
<1> QED BY <1>2, <1>4, <1>5, <1>6, <1>7 DEF DetailInv

-----------------------------------------------------------------------------
(* The loads.                                                              *)

\* One load moves while generations grow.
LEMMA OneLoadMoves ==
  ASSUME DetailInv, NEW t \in Loads, NEW l \in LoadType, load' = [load EXCEPT ![t] = l],
         nextGeneration' \in Nat, nextGeneration' >= nextGeneration, LoadOK(l, nextGeneration')
  PROVE  LoadTypes' /\ load'[t] = l /\ \A u \in Loads \ {t} : load'[u] = load[u]
<1>1. /\ load' \in [Loads -> LoadType] /\ load'[t] = l
      /\ \A u \in Loads \ {t} : load'[u] = load[u]
  BY DEF DetailInv, LoadTypes
<1>2. nextGeneration \in Nat
  BY DEF DetailInv, CacheTypes
<1>3. \A u \in Loads \ {t} : LoadOK(load[u], nextGeneration')
  <2> SUFFICES ASSUME NEW u \in Loads \ {t} PROVE LoadOK(load[u], nextGeneration')
    OBVIOUS
  <2>1. LoadOK(load[u], nextGeneration) /\ load[u].gen \in Nat
    BY DEF DetailInv, LoadTypes, LoadType
  <2> QED BY <1>1, <1>2, <2>1 DEF LoadOK
<1> QED BY <1>1, <1>3 DEF LoadTypes

\* A load that is over.
LEMMA FinishedType == Finished \in LoadType /\ Finished.pc = "done" /\ Finished.gen = 0
                      /\ Finished.items = <<>>
BY DEF Finished, LoadType

LEMMA ReturnEffect ==
  ASSUME DetailInv, NEW t \in Loads, Return(t),
         nextGeneration' \in Nat, nextGeneration' >= nextGeneration
  PROVE  LoadTypes' /\ load'[t] = Finished /\ \A u \in Loads \ {t} : load'[u] = load[u]
<1>1. load' = [load EXCEPT ![t] = Finished]
  BY DEF Return
<1>2. LoadOK(Finished, nextGeneration')
  BY FinishedType DEF LoadOK
<1> QED BY <1>1, <1>2, FinishedType, OneLoadMoves

\* A load returns that was of no use to the entry it was for.
LEMMA UselessReturns ==
  ASSUME DetailInv, NEW t \in Loads, Return(t), load[t].key \in Keys,
         gen[load[t].key] # load[t].gen \/ detail[load[t].key] = "none",
         UNCHANGED <<active, selected, detail, shown, comp, gen, nextGeneration, disk, newest>>
  PROVE  DetailInv'
<1>1. nextGeneration' \in Nat /\ nextGeneration' >= nextGeneration
  BY DEF DetailInv, CacheTypes
<1>2. LoadTypes' /\ load'[t] = Finished /\ \A u \in Loads \ {t} : load'[u] = load[u]
  BY <1>1, ReturnEffect
<1>3. CacheTypes' /\ EntriesOK' /\ CompleteIsWhole'
  BY DEF DetailInv, CacheTypes, EntriesOK, GenOK, CompleteIsWhole
<1>4. FooterHasLoad'
  <2> SUFFICES ASSUME NEW k \in Keys, detail'[k] = "loaded", comp'[k] = "loading"
               PROVE  \E u \in Loads : Running(u)' /\ load'[u].key = k /\ load'[u].gen = gen'[k]
    BY DEF FooterHasLoad
  <2>1. PICK u \in Loads : Running(u) /\ load[u].key = k /\ load[u].gen = gen[k]
    BY DEF DetailInv, FooterHasLoad
  <2>2. u # t
    BY <2>1
  <2> QED BY <1>2, <2>1, <2>2 DEF Running
<1> QED BY <1>2, <1>3, <1>4 DEF DetailInv

\* A load begins: it enters its session, or has nothing to do.
LEMMA BeginKeeps == ASSUME DetailInv, NEW t \in Loads, Begin(t) PROVE DetailInv'
<1> DEFINE k == load[t].key
<1>1. /\ load[t] \in LoadType /\ LoadOK(load[t], nextGeneration) /\ load[t].pc = "begin" /\ k \in Keys
      /\ load[t].gen = 0
  BY DEF DetailInv, LoadTypes, LoadOK, Begin
<1>2. /\ UNCHANGED <<active, selected, disk, newest>> /\ nextGeneration \in Nat
  BY DEF Begin, Others, DetailInv, CacheTypes
<1>3. gen[k] # load[t].gen \/ detail[k] = "none"
  BY <1>1 DEF DetailInv, EntriesOK, GenOK
<1>4. CASE Return(t) /\ UNCHANGED <<detail, shown, comp, gen, nextGeneration>>
  BY <1>1, <1>2, <1>3, <1>4, UselessReturns
<1>5. CASE /\ SourceOf[k] = active /\ NeedsLoad(k) /\ Enter(k)
           /\ load' = [load EXCEPT ![t].pc = "sample", ![t].gen = nextGeneration + 1]
  <2> DEFINE l       == [load[t] EXCEPT !.pc = "sample", !.gen = nextGeneration + 1]
             dropped == IF Len(Touched(k)) > MaxDetails THEN {Head(Touched(k))} ELSE {}
  <2>1. /\ nextGeneration' = nextGeneration + 1
        /\ gen' = [j \in Keys |-> IF j \in dropped THEN 0
                                  ELSE [gen EXCEPT ![k] = nextGeneration + 1][j]]
        /\ detail' = [j \in Keys |-> IF j \in dropped THEN "none"
                        ELSE [detail EXCEPT ![k] = IF @ = "loaded" THEN @ ELSE "loading"][j]]
        /\ comp' = [j \in Keys |-> IF j \in dropped THEN "none"
                                   ELSE [comp EXCEPT ![k] = "loading"][j]]
        /\ shown' = [j \in Keys |-> IF j \in dropped THEN <<>> ELSE shown[j]]
    BY <1>5 DEF Enter
  <2> HIDE DEF dropped, k
  <2>2. CacheTypes'
    <3>1. /\ detail' \in [Keys -> {"none", "loading", "loaded", "failed"}]
          /\ comp' \in [Keys -> {"none", "loading", "retry", "ended", "complete"}]
      BY <1>1, <2>1 DEF DetailInv, CacheTypes
    <3>2. shown' \in [Keys -> Seq(Nat)] /\ gen' \in [Keys -> Nat] /\ nextGeneration' \in Nat
      BY <1>1, <1>2, <2>1 DEF DetailInv, CacheTypes
    <3> QED BY <1>2, <3>1, <3>2 DEF DetailInv, CacheTypes
  <2>3. l \in LoadType /\ l.pc = "sample" /\ l.gen = nextGeneration + 1 /\ l.key = load[t].key
        /\ l.items = load[t].items
    <3>1. nextGeneration + 1 \in Nat
      BY <1>2
    <3> QED BY <1>1, <3>1 DEF LoadType
  <2>4. LoadOK(l, nextGeneration')
    BY <1>1, <1>2, <2>1, <2>3 DEF LoadOK
  <2>5. load' = [load EXCEPT ![t] = l]
    <3>1. load \in [Loads -> LoadType]
      BY DEF DetailInv, LoadTypes
    <3> QED BY <1>5, <3>1 DEF LoadType
  <2> HIDE DEF l
  <2>6. LoadTypes' /\ load'[t] = l /\ \A u \in Loads \ {t} : load'[u] = load[u]
    <3>1. nextGeneration' \in Nat /\ nextGeneration' >= nextGeneration
      BY <1>2, <2>1
    <3> QED BY <2>3, <2>4, <2>5, <3>1, OneLoadMoves
  <2>7. EntriesOK'
    <3> SUFFICES ASSUME NEW j \in Keys PROVE GenOK(j)'
      BY DEF EntriesOK
    <3>1. GenOK(j) /\ gen[j] \in Nat /\ newest[j] \in Nat
      BY DEF DetailInv, EntriesOK, CacheTypes
    <3>2. CASE j \in dropped
      BY <1>2, <2>1, <3>1, <3>2 DEF GenOK
    <3>3. CASE j \notin dropped /\ j = k
      BY <1>1, <1>2, <1>5, <2>1, <3>1, <3>3 DEF GenOK, DetailInv, CacheTypes
    <3>4. CASE j \notin dropped /\ j # k
      BY <1>2, <2>1, <3>1, <3>4 DEF GenOK, DetailInv, CacheTypes
    <3> QED BY <3>2, <3>3, <3>4
  <2>8. CompleteIsWhole'
    BY <1>1, <1>2, <2>1 DEF DetailInv, CompleteIsWhole, CacheTypes
  <2>9. FooterHasLoad'
    <3> SUFFICES ASSUME NEW j \in Keys, detail'[j] = "loaded", comp'[j] = "loading"
                 PROVE  \E u \in Loads : Running(u)' /\ load'[u].key = j /\ load'[u].gen = gen'[j]
      BY DEF FooterHasLoad
    <3>1. j \notin dropped
      BY <2>1
    <3>2. CASE j = k
      <4>1. gen'[j] = nextGeneration + 1
        BY <1>1, <2>1, <3>1, <3>2 DEF DetailInv, CacheTypes
      <4> QED BY <2>3, <2>6, <3>2, <4>1 DEF Running, k
    <3>3. CASE j # k
      <4>1. detail[j] = "loaded" /\ comp[j] = "loading" /\ gen'[j] = gen[j]
        BY <2>1, <3>1, <3>3 DEF DetailInv, CacheTypes
      <4>2. PICK u \in Loads : Running(u) /\ load[u].key = j /\ load[u].gen = gen[j]
        BY <4>1 DEF DetailInv, FooterHasLoad
      <4>3. u # t
        BY <3>3, <4>2 DEF k
      <4> QED BY <2>6, <4>1, <4>2, <4>3 DEF Running
    <3> QED BY <3>2, <3>3
  <2> QED BY <2>2, <2>6, <2>7, <2>8, <2>9 DEF DetailInv
<1> QED BY <1>4, <1>5 DEF Begin, cacheVars

\* failDetail: an entry of this load is loaded or failed, and waits no longer.
LEMMA FailKeeps ==
  ASSUME DetailInv, NEW t \in Loads, load[t].key \in Keys, load[t].gen # 0,
         FailDetail(load[t].key, load[t].gen), Return(t),
         UNCHANGED <<active, selected, disk, newest>>
  PROVE  DetailInv'
<1> DEFINE k == load[t].key
<1>1. UNCHANGED <<shown, gen, nextGeneration>>
  BY DEF FailDetail
<1>2. CASE detail[k] # "none" /\ gen[k] = load[t].gen
  <2>1. /\ detail' = [detail EXCEPT ![k] = IF @ = "loaded" THEN @ ELSE "failed"]
        /\ comp' = [comp EXCEPT ![k] = IF detail[k] = "loaded" THEN "retry" ELSE "none"]
    BY <1>2 DEF FailDetail
  <2>2. CacheTypes'
    BY <1>1, <2>1 DEF DetailInv, CacheTypes
  <2>3. nextGeneration' \in Nat /\ nextGeneration' >= nextGeneration
    BY <1>1 DEF DetailInv, CacheTypes
  <2>4. LoadTypes' /\ load'[t] = Finished /\ \A u \in Loads \ {t} : load'[u] = load[u]
    BY <2>3, ReturnEffect
  <2>5. /\ detail'[k] \in {"loaded", "failed"} /\ comp'[k] \in {"retry", "none"}
        /\ \A j \in Keys \ {k} : /\ gen'[j] = gen[j] /\ detail'[j] = detail[j] /\ comp'[j] = comp[j]
                                 /\ shown'[j] = shown[j] /\ newest'[j] = newest[j]
    BY <1>1, <2>1 DEF DetailInv, CacheTypes
  <2>6. PICK key \in Keys : key = k
    OBVIOUS
  <2>7. GenOK(key)'
    BY <1>1, <1>2, <2>5, <2>6 DEF DetailInv, EntriesOK, GenOK
  <2>8. \A u \in Loads : load[u].key # key => load'[u] = load[u]
    BY <2>4, <2>6
  <2> QED BY <2>2, <2>3, <2>4, <2>5, <2>6, <2>7, <2>8, OneEntryKeeps
<1>3. CASE ~(detail[k] # "none" /\ gen[k] = load[t].gen)
  <2>1. UNCHANGED <<detail, comp>>
    BY <1>3 DEF FailDetail
  <2> QED BY <1>1, <1>3, <2>1, UselessReturns
<1> QED BY <1>2, <1>3

\* The sample comes, comes too late, or fails.
LEMMA SampleKeeps == ASSUME DetailInv, NEW t \in Loads, Sample(t) PROVE DetailInv'
<1>1. /\ load[t] \in LoadType /\ LoadOK(load[t], nextGeneration) /\ load[t].pc = "sample"
      /\ load[t].key \in Keys /\ load[t].gen # 0
  BY DEF DetailInv, LoadTypes, LoadOK, Sample
<1>2. UNCHANGED <<active, selected, disk, newest>>
  BY DEF Sample, Others
<1>3. CASE SourceOf[load[t].key] # active /\ Return(t) /\ UNCHANGED cacheVars
  <2>1. detail[load[t].key] = "none"
    BY <1>1, <1>3 DEF DetailInv, EntriesOK, GenOK
  <2> QED BY <1>1, <1>2, <1>3, <2>1, UselessReturns DEF cacheVars
<1>4. CASE Move(t, "page") /\ UNCHANGED cacheVars
  <2>1. load \in [Loads -> LoadType]
    BY DEF DetailInv, LoadTypes
  <2>2. /\ load' \in [Loads -> LoadType]
        /\ \A u \in Loads : /\ load'[u].gen = load[u].gen /\ load'[u].items = load[u].items
                            /\ load'[u].key = load[u].key /\ (u # t => load'[u].pc = load[u].pc)
        /\ load'[t].pc = "page"
    BY <1>4, <2>1 DEF Move, LoadType
  <2>3. \A u \in Loads : LoadOK(load'[u], nextGeneration)
    BY <1>1, <2>2 DEF DetailInv, LoadTypes, LoadOK
  <2>4. \A u \in Loads : Running(u) => Running(u)'
    BY <2>2 DEF Running
  <2>5. selected' \in Keys \cup {NoKey}
    BY <1>2 DEF DetailInv, CacheTypes
  <2> QED BY <1>2, <1>4, <2>2, <2>3, <2>4, <2>5, LoadsGoOn
<1>5. CASE Return(t) /\ FailDetail(load[t].key, load[t].gen)
  BY <1>1, <1>2, <1>5, FailKeeps
<1> QED BY <1>3, <1>4, <1>5 DEF Sample

\* A call fails, or the task finds itself cancelled.
LEMMA CaughtKeeps == ASSUME DetailInv, NEW t \in Loads, Caught(t) PROVE DetailInv'
<1>1. /\ load[t] \in LoadType /\ load[t].key \in Keys /\ load[t].gen # 0
      /\ UNCHANGED <<active, selected, disk, newest>> /\ Return(t)
  BY DEF DetailInv, LoadTypes, LoadOK, Caught, Others
<1>2. CASE FailDetail(load[t].key, load[t].gen)
  BY <1>1, <1>2, FailKeeps
<1>3. CASE CancelDetail(load[t].key)
  <2>1. PICK k \in Keys : k = load[t].key
    BY <1>1
  <2>2. /\ CacheTypes' /\ nextGeneration' >= nextGeneration /\ GenOK(k)'
        /\ \A j \in Keys \ {k} : /\ gen'[j] = gen[j] /\ detail'[j] = detail[j] /\ comp'[j] = comp[j]
                                 /\ shown'[j] = shown[j] /\ newest'[j] = newest[j]
        /\ shown'[k] = shown[k] /\ comp'[k] \in {comp[k], "retry"}
        /\ ~(detail'[k] = "loaded" /\ comp'[k] = "loading")
    BY <1>1, <1>3, <2>1, CancelEffect
  <2>3. nextGeneration' \in Nat
    BY <2>2 DEF CacheTypes
  <2>4. LoadTypes' /\ load'[t] = Finished /\ \A u \in Loads \ {t} : load'[u] = load[u]
    BY <1>1, <2>2, <2>3, ReturnEffect
  <2>5. comp'[k] = "complete" => \E r \in 0 .. disk[k] : shown'[k] = [i \in 1 .. Pages |-> r]
    BY <2>2 DEF DetailInv, CompleteIsWhole
  <2>6. \A u \in Loads : load[u].key # k => load'[u] = load[u]
    BY <2>1, <2>4
  <2> QED BY <1>1, <2>2, <2>4, <2>5, <2>6, OneEntryKeeps
<1> QED BY <1>2, <1>3 DEF Caught

\* A page of the revision of those before it: the last one makes the detail whole.
LEMMA PageItems ==
  ASSUME DetailInv, NEW t \in Loads, load[t].pc = "page", Accepts(t), load[t].key \in Keys
  PROVE  LET items == Append(load[t].items, disk[load[t].key])
         IN  /\ items \in Seq(Nat) /\ Len(items) <= Pages
             /\ Len(items) >= Pages => items = [i \in 1 .. Pages |-> disk[load[t].key]]
<1> DEFINE d == disk[load[t].key]
           old == load[t].items
           items == Append(old, d)
<1>1. d \in Nat /\ old \in Seq(Nat) /\ Len(old) < Pages /\ \A i \in 1 .. Len(old) : old[i] = d
  BY DEF DetailInv, CacheTypes, LoadTypes, LoadType, LoadOK, Accepts
<1> HIDE DEF d, old
<1>2. /\ items \in Seq(Nat) /\ Len(items) = Len(old) + 1 /\ Len(old) \in Nat
      /\ \A i \in 1 .. Len(items) : items[i] = d
  BY <1>1
<1> HIDE DEF items
<1>3. Len(items) <= Pages
  BY <1>1, <1>2
<1>4. Len(items) >= Pages => items = [i \in 1 .. Pages |-> d]
  <2> SUFFICES ASSUME Len(items) >= Pages PROVE items = [i \in 1 .. Pages |-> d]
    OBVIOUS
  <2>1. Len(items) = Pages
    BY <1>2, <1>3
  <2>2. items \in [1 .. Pages -> Nat]
    BY <1>2, <2>1
  <2> QED BY <1>2, <2>1, <2>2
<1> QED BY <1>2, <1>3, <1>4 DEF d, old, items

LEMMA PageKeeps == ASSUME DetailInv, NEW t \in Loads, Page(t) PROVE DetailInv'
<1> DEFINE items == Append(load[t].items, disk[load[t].key])
           more  == Len(items) < Pages
<1>1. /\ load[t] \in LoadType /\ load[t].key \in Keys /\ load[t].gen # 0
      /\ load[t].gen <= nextGeneration
      /\ UNCHANGED <<active, selected, disk>> /\ load[t].pc = "page" /\ Accepts(t)
  BY DEF DetailInv, LoadTypes, LoadOK, Page, Others
<1>2. PICK completeness \in IF more THEN {"loading"} ELSE {"complete", "ended"} :
        PublishProgress(load[t].key, load[t].gen, items, completeness)
  BY DEF Page
<1>3. load' = [load EXCEPT ![t] = IF more /\ gen[load[t].key] = load[t].gen
                                  THEN [@ EXCEPT !.items = items] ELSE Finished]
  BY DEF Page
<1>4. /\ items \in Seq(Nat) /\ Len(items) <= Pages
      /\ Len(items) >= Pages => items = [i \in 1 .. Pages |-> disk[load[t].key]]
  BY <1>1, PageItems
<1>5. more => completeness = "loading"
  BY <1>2
<1>6. ~more => completeness \in {"complete", "ended"}
  BY <1>2
<1>7. Len(items) \in Nat
  BY <1>4
<1>8. ~more => Len(items) >= Pages
  BY <1>7
<1> HIDE DEF items, more
<1>9. CASE ~(detail[load[t].key] # "none" /\ gen[load[t].key] = load[t].gen)
  <2>1. UNCHANGED <<cacheVars, newest>>
    BY <1>2, <1>9 DEF PublishProgress
  <2>2. gen[load[t].key] # load[t].gen
    BY <1>1, <1>9 DEF DetailInv, EntriesOK, GenOK
  <2>3. Return(t)
    BY <1>3, <2>2 DEF Return
  <2> QED BY <1>1, <2>1, <2>2, <2>3, UselessReturns DEF cacheVars
<1>10. CASE detail[load[t].key] # "none" /\ gen[load[t].key] = load[t].gen
  <2>1. PICK k \in Keys : k = load[t].key
    BY <1>1
  <2>2. /\ detail' = [detail EXCEPT ![k] = "loaded"] /\ shown' = [shown EXCEPT ![k] = items]
        /\ comp' = [comp EXCEPT ![k] = completeness] /\ newest' = [newest EXCEPT ![k] = load[t].gen]
        /\ UNCHANGED <<gen, nextGeneration>>
    BY <1>2, <1>10, <2>1 DEF PublishProgress
  <2>3. CacheTypes'
    BY <1>1, <1>4, <1>5, <1>6, <2>2 DEF DetailInv, CacheTypes, LoadType
  <2>4. /\ detail'[k] = "loaded" /\ comp'[k] = completeness /\ shown'[k] = items
        /\ newest'[k] = load[t].gen
        /\ \A j \in Keys \ {k} : /\ gen'[j] = gen[j] /\ detail'[j] = detail[j] /\ comp'[j] = comp[j]
                                 /\ shown'[j] = shown[j] /\ newest'[j] = newest[j]
    BY <2>2 DEF DetailInv, CacheTypes
  <2>5. nextGeneration' \in Nat /\ nextGeneration' >= nextGeneration
    BY <2>2 DEF DetailInv, CacheTypes
  <2>6. GenOK(k)'
    BY <1>1, <1>10, <2>1, <2>2, <2>4 DEF DetailInv, EntriesOK, GenOK, CacheTypes, LoadType
  <2>7. LoadTypes' /\ \A u \in Loads \ {t} : load'[u] = load[u]
    <3>1. CASE more
      <4> DEFINE l == [load[t] EXCEPT !.items = items]
      <4>1. l \in LoadType
        BY <1>1, <1>4 DEF LoadType
      <4>2. l.pc = "page" /\ l.key = load[t].key /\ l.gen = load[t].gen /\ l.items = items
        BY <1>1 DEF LoadType
      <4>3. LoadOK(l, nextGeneration')
        BY <1>1, <2>2, <3>1, <4>2 DEF LoadOK, more
      <4>4. load' = [load EXCEPT ![t] = l]
        BY <1>3, <1>10, <3>1 DEF DetailInv, LoadTypes
      <4> HIDE DEF l
      <4> QED BY <2>5, <4>1, <4>3, <4>4, OneLoadMoves
    <3>2. CASE ~more
      BY <1>3, <2>5, <3>2, ReturnEffect DEF Return
    <3> QED BY <3>1, <3>2
  <2>8. comp'[k] = "complete" => \E r \in 0 .. disk[k] : shown'[k] = [i \in 1 .. Pages |-> r]
    <3>1. disk[k] \in 0 .. disk[k]
      BY DEF DetailInv, CacheTypes
    <3> QED BY <1>4, <1>5, <1>8, <2>1, <2>4, <3>1
  <2>9. comp'[k] = "loading" => Running(t)' /\ load'[t].key = k /\ load'[t].gen = gen'[k]
    <3> SUFFICES ASSUME comp'[k] = "loading"
                 PROVE  Running(t)' /\ load'[t].key = k /\ load'[t].gen = gen'[k]
      OBVIOUS
    <3>1. more
      BY <1>6, <2>4
    <3>2. load'[t] = [load[t] EXCEPT !.items = items]
      BY <1>3, <1>10, <3>1 DEF DetailInv, LoadTypes
    <3> QED BY <1>1, <1>10, <2>1, <2>2, <3>2 DEF Running, LoadType
  <2>10. \A u \in Loads : load[u].key # k => load'[u] = load[u]
    BY <2>1, <2>7
  <2> QED BY <1>1, <2>3, <2>4, <2>5, <2>6, <2>7, <2>8, <2>9, <2>10, OneEntryKeeps
<1> QED BY <1>9, <1>10

-----------------------------------------------------------------------------
(* The theorems.                                                           *)

\* The invariant is inductive.
LEMMA DetailStepKeeps == DetailInv /\ [DetailNext]_detailVars => DetailInv'
<1> SUFFICES ASSUME DetailInv, [DetailNext]_detailVars PROVE DetailInv'
  OBVIOUS
<1>1. CASE UNCHANGED detailVars
  BY <1>1 DEF detailVars, cacheVars, DetailInv, CacheTypes, LoadTypes, LoadOK, EntriesOK, GenOK,
              CompleteIsWhole, FooterHasLoad, Running
<1>2. ASSUME NEW t \in Loads, LoadStep(t) PROVE DetailInv'
  BY <1>2, BeginKeeps, SampleKeeps, PageKeeps, CaughtKeeps DEF LoadStep
<1>3. ASSUME NEW t \in Loads, NEW k \in Keys, Select(t, k) PROVE DetailInv'
  BY <1>3, SelectKeeps
<1> QED
  BY <1>1, <1>2, <1>3, RetryKeeps, CancelButtonKeeps, SwitchKeeps, ChangeKeeps DEF DetailNext

\* In every state: the entries, their generations and their loads fit together.
THEOREM DetailInvariant == DetailSpec => []DetailInv
BY DetailInitial, DetailStepKeeps, PTL DEF DetailSpec

\* What is presented as complete is every page of one revision of the session.
THEOREM CompleteDetailIsWhole == DetailSpec => []CompleteIsWhole
<1>1. DetailInv => CompleteIsWhole
  BY DEF DetailInv
<1> QED BY <1>1, DetailInvariant, PTL

\* A detail that shows messages and a load in progress has that load.
THEOREM FooterIsTrue == DetailSpec => []FooterHasLoad
<1>1. DetailInv => FooterHasLoad
  BY DEF DetailInv
<1> QED BY <1>1, DetailInvariant, PTL

\* Only a page is shown, under the generation of its entry.
LEMMA NewestGrows ==
  ASSUME DetailInv, DetailNext, NEW k \in Keys
  PROVE  newest'[k] >= newest[k]
<1>0. newest[k] \in Nat /\ newest \in [Keys -> Nat]
  BY DEF DetailInv, CacheTypes
<1>1. ASSUME NEW t \in Loads, Page(t) PROVE newest'[k] >= newest[k]
  <2>1. CASE newest' = newest
    BY <1>0, <2>1
  <2>2. CASE /\ detail[load[t].key] # "none" /\ gen[load[t].key] = load[t].gen
             /\ newest' = [newest EXCEPT ![load[t].key] = load[t].gen]
    <3>1. load[t].key \in Keys
      BY <1>1 DEF DetailInv, LoadTypes, LoadOK, Page
    <3>2. newest[load[t].key] <= load[t].gen
      BY <2>2, <3>1 DEF DetailInv, EntriesOK, GenOK
    <3> QED BY <1>0, <2>2, <3>2
  <2> QED BY <1>1, <2>1, <2>2 DEF Page, PublishProgress
<1>2. ASSUME newest' = newest PROVE newest'[k] >= newest[k]
  BY <1>0, <1>2
<1>3. ASSUME NEW t \in Loads, Begin(t) \/ Sample(t) \/ Caught(t) \/ Retry(t) PROVE newest' = newest
  BY <1>3 DEF Begin, Sample, Caught, Retry
<1>4. ASSUME NEW t \in Loads, NEW j \in Keys, Select(t, j) PROVE newest' = newest
  BY <1>4 DEF Select
<1>5. CancelButton => newest' = newest
  BY DEF CancelButton
<1>6. ASSUME NEW source \in Sources, Switch(source) PROVE newest' = newest
  BY <1>6 DEF Switch
<1>7. ASSUME NEW j \in Keys, Change(j) PROVE newest' = newest
  BY <1>7 DEF Change
<1> QED BY <1>1, <1>2, <1>3, <1>4, <1>5, <1>6, <1>7 DEF DetailNext, LoadStep

\* No page of a load is shown after one of a later load of the same session.
THEOREM NewestShownStays == DetailSpec => NewestWins
<1> DEFINE Grows == \A k \in Keys : newest'[k] >= newest[k]
<1>1. DetailInv /\ [DetailNext]_detailVars => [Grows]_newest
  <2> SUFFICES ASSUME DetailInv, [DetailNext]_detailVars, newest' # newest PROVE Grows
    OBVIOUS
  <2>1. DetailNext
    BY DEF detailVars
  <2> QED BY <2>1, NewestGrows
<1> QED BY <1>1, DetailInvariant, PTL DEF DetailSpec, NewestWins

-----------------------------------------------------------------------------
(* Sequences.                                                              *)

Less == {ss \in Nat \X Nat : ss[1] < ss[2]}

\* A set of numbers that has 0 and every successor has them all.
LEMMA AllNumbers ==
  ASSUME NEW Good, 0 \in Good, \A n \in Nat : n \in Good => n + 1 \in Good
  PROVE  Nat \subseteq Good
<1> DEFINE Bad == Nat \ Good
<1> SUFFICES ASSUME Bad # {} PROVE FALSE
  OBVIOUS
<1>1. IsWellFoundedOn(Less, Nat)
  BY NatLessThanWellFounded DEF OpToRel, Less
<1>2. Bad \subseteq Nat
  OBVIOUS
<1> HIDE DEF Bad
<1>3. PICK x \in Bad : \A y \in Bad : ~(<<y, x>> \in Less)
  BY ONLY <1>1, <1>2, WFMin, Bad # {}, Zenon
<1>4. x \in Nat /\ x # 0 /\ x \notin Good
  BY DEF Bad
<1>5. x - 1 \in Nat /\ x - 1 < x /\ (x - 1) + 1 = x
  BY <1>4
<1>6. x - 1 \notin Bad
  BY <1>3, <1>4, <1>5 DEF Less
<1>7. x - 1 \in Good
  BY <1>5, <1>6 DEF Bad
<1> QED BY <1>4, <1>5, <1>7

\* One element is left out or not.
Take(q, e, gone) == IF e \in gone THEN q ELSE Append(q, e)

\* L leaves out of the first n elements of s those in gone.
Leaves(L, s, gone, n) ==
  L = [i \in 0 .. n |-> IF i = 0 THEN <<>> ELSE Take(L[i - 1], s[i], gone)]

LEMMA LeavesExists == ASSUME NEW s, NEW gone PROVE \A n \in Nat : \E L : Leaves(L, s, gone, n)
<1> DEFINE Good == {n \in Nat : \E L : Leaves(L, s, gone, n)}
<1>1. 0 \in Good
  <2>1. Leaves([i \in 0 .. 0 |-> <<>>], s, gone, 0)
    BY DEF Leaves
  <2> QED BY <2>1
<1>2. ASSUME NEW n \in Nat, n \in Good PROVE n + 1 \in Good
  <2>1. PICK L : Leaves(L, s, gone, n)
    BY <1>2
  <2> DEFINE M == [i \in 0 .. n + 1 |->
                     IF i = 0 THEN <<>> ELSE Take(L[i - 1], s[i], gone)]
  <2>2. ASSUME NEW i \in 0 .. n PROVE M[i] = L[i]
    BY <2>1 DEF Leaves
  <2>3. ASSUME NEW i \in 0 .. n + 1, i # 0 PROVE M[i - 1] = L[i - 1]
    <3>1. i - 1 \in 0 .. n
      BY <2>3
    <3> QED BY <2>2, <3>1
  <2>4. Leaves(M, s, gone, n + 1)
    BY <2>3 DEF Leaves
  <2> QED BY <2>4
<1> HIDE DEF Good
<1>3. \A n \in Nat : n \in Good => n + 1 \in Good
  BY <1>2
<1>4. Nat \subseteq Good
  BY ONLY <1>1, <1>3, AllNumbers, Zenon
<1> QED BY <1>4 DEF Good

LEMMA RemoveAllIs ==
  ASSUME NEW s, NEW gone, Len(s) \in Nat
  PROVE  \E L : Leaves(L, s, gone, Len(s)) /\ RemoveAll(s, gone) = L[Len(s)]
<1> DEFINE N == Len(s)
           Follows(L) == L = [n \in 0 .. N |-> IF n = 0 THEN <<>>
                                ELSE IF s[n] \in gone THEN L[n - 1] ELSE Append(L[n - 1], s[n])]
           Left == CHOOSE L : Follows(L)
<1>1. \E L : Leaves(L, s, gone, N)
  BY LeavesExists
<1>2. \A L : Leaves(L, s, gone, N) <=> Follows(L)
  BY DEF Leaves, Take
<1>3. Follows(Left)
  BY <1>1, <1>2
<1>4. RemoveAll(s, gone) = Left[N]
  BY DEF RemoveAll
<1> QED BY <1>2, <1>3, <1>4

\* A sequence without repetitions, and the set of its elements.
Distinct(s, S) ==
  /\ s \in Seq(Keys)
  /\ \A i, j \in 1 .. Len(s) : s[i] = s[j] => i = j
  /\ S = {s[i] : i \in 1 .. Len(s)}

LEMMA AppendDistinct ==
  ASSUME NEW s, NEW S, Distinct(s, S), NEW k \in Keys, k \notin S
  PROVE  Distinct(Append(s, k), S \cup {k})
<1> DEFINE a == Append(s, k)
<1>1. /\ s \in Seq(Keys) /\ Len(s) \in Nat
      /\ \A i \in 1 .. Len(s) : s[i] \in S
  BY DEF Distinct
<1>2. a \in Seq(Keys) /\ Len(a) = Len(s) + 1 /\ a[Len(s) + 1] = k
      /\ \A i \in 1 .. Len(s) : a[i] = s[i]
  BY <1>1
<1> HIDE DEF a
<1>3. ASSUME NEW i \in 1 .. Len(a), NEW j \in 1 .. Len(a), a[i] = a[j] PROVE i = j
  <2>1. CASE i \in 1 .. Len(s) /\ j \in 1 .. Len(s)
    BY <1>2, <1>3, <2>1 DEF Distinct
  <2>2. CASE i = Len(s) + 1 /\ j = Len(s) + 1
    BY <2>2
  <2>3. CASE i = Len(s) + 1 /\ j \in 1 .. Len(s)
    BY <1>1, <1>2, <1>3, <2>3
  <2>4. CASE j = Len(s) + 1 /\ i \in 1 .. Len(s)
    BY <1>1, <1>2, <1>3, <2>4
  <2> QED BY <1>1, <1>2, <2>1, <2>2, <2>3, <2>4
<1>4. {a[i] : i \in 1 .. Len(a)} = S \cup {k}
  <2>1. 1 .. Len(a) = (1 .. Len(s)) \cup {Len(s) + 1}
    BY <1>1, <1>2
  <2>2. S = {s[i] : i \in 1 .. Len(s)}
    BY DEF Distinct
  <2> QED BY <1>2, <2>1, <2>2
<1> QED BY <1>2, <1>3, <1>4 DEF Distinct, a

\* What is left of a sequence without repetitions.
LEMMA RemoveAllDistinct ==
  ASSUME NEW s, NEW S, Distinct(s, S), NEW gone
  PROVE  Distinct(RemoveAll(s, gone), S \ gone)
<1>1. s \in Seq(Keys) /\ Len(s) \in Nat /\ \A i \in 1 .. Len(s) : s[i] \in Keys
  BY DEF Distinct
<1>2. PICK L : Leaves(L, s, gone, Len(s)) /\ RemoveAll(s, gone) = L[Len(s)]
  BY <1>1, RemoveAllIs
<1> DEFINE First(n) == {s[i] : i \in 1 .. n}
           Good == {n \in Nat : n <= Len(s) => Distinct(L[n], First(n) \ gone)}
<1>3. 0 \in Good
  <2>1. L[0] = <<>>
    BY <1>1, <1>2 DEF Leaves
  <2>2. First(0) = {}
    OBVIOUS
  <2>3. Distinct(<<>>, {})
    BY DEF Distinct
  <2> QED BY <2>1, <2>2, <2>3
<1>4. ASSUME NEW n \in Nat, n \in Good PROVE n + 1 \in Good
  <2> SUFFICES ASSUME n + 1 <= Len(s) PROVE Distinct(L[n + 1], First(n + 1) \ gone)
    OBVIOUS
  <2>1. Distinct(L[n], First(n) \ gone)
    BY <1>1, <1>4
  <2>2. L[n + 1] = IF s[n + 1] \in gone THEN L[n] ELSE Append(L[n], s[n + 1])
    <3>1. n + 1 \in 0 .. Len(s) /\ n + 1 # 0 /\ (n + 1) - 1 = n
      BY <1>1
    <3>2. L[n + 1] = Take(L[n], s[n + 1], gone)
      BY <1>2, <3>1 DEF Leaves
    <3> QED BY <3>2 DEF Take
  <2>3. First(n + 1) = First(n) \cup {s[n + 1]}
    <3>1. 1 .. n + 1 = (1 .. n) \cup {n + 1}
      OBVIOUS
    <3> QED BY <3>1
  <2>4. s[n + 1] \in Keys /\ s[n + 1] \notin First(n)
    <3>1. n + 1 \in 1 .. Len(s) /\ 1 .. n \subseteq 1 .. Len(s)
      BY <1>1
    <3>2. \A i \in 1 .. n : s[i] # s[n + 1]
      BY <3>1 DEF Distinct
    <3> QED BY <1>1, <3>1, <3>2
  <2> HIDE DEF First
  <2>5. CASE s[n + 1] \in gone
    <3>1. First(n + 1) \ gone = First(n) \ gone
      BY <2>3, <2>5
    <3> QED BY <2>1, <2>2, <2>5, <3>1
  <2>6. CASE s[n + 1] \notin gone
    <3>1. First(n + 1) \ gone = (First(n) \ gone) \cup {s[n + 1]}
      BY <2>3, <2>6
    <3> QED BY <2>1, <2>2, <2>4, <2>6, <3>1, AppendDistinct
  <2> QED BY <2>5, <2>6
<1> HIDE DEF Good
<1>5. \A n \in Nat : n \in Good => n + 1 \in Good
  BY <1>4
<1>6. Nat \subseteq Good
  BY ONLY <1>3, <1>5, AllNumbers, Zenon
<1>7. First(Len(s)) = S
  BY DEF Distinct
<1> HIDE DEF First
<1>8. \A n \in Nat : n <= Len(s) => Distinct(L[n], First(n) \ gone)
  BY <1>6, Zenon DEF Good
<1>9. Len(s) <= Len(s)
  BY <1>1
<1>10. Distinct(L[Len(s)], First(Len(s)) \ gone)
  BY ONLY <1>1, <1>8, <1>9, Zenon
<1> QED BY <1>2, <1>7, <1>10

\* It has as many elements as its set.
LEMMA DistinctCounted ==
  ASSUME NEW s, NEW S, Distinct(s, S)
  PROVE  IsFiniteSet(S) /\ Cardinality(S) = Len(s)
<1>1. s \in Seq(Keys) /\ Len(s) \in Nat
  BY DEF Distinct
<1> DEFINE f == [i \in 1 .. Len(s) |-> s[i]]
<1>2. f \in Bijection(1 .. Len(s), S)
  BY DEF Distinct, Bijection, Injection, Surjection, IsInjective
<1>3. ExistsBijection(1 .. Len(s), S)
  BY <1>2 DEF ExistsBijection
<1>4. IsFiniteSet(1 .. Len(s)) /\ Cardinality(1 .. Len(s)) = Len(s)
  BY <1>1, FS_Interval
<1> QED BY <1>3, <1>4, FS_Bijection
-----------------------------------------------------------------------------
(* The recency list.                                                       *)

\* It has the stored details, each once, and there are not too many.
RecencyOK == Distinct(recency, Stored) /\ Cardinality(Stored) <= MaxDetails

\* Only a loaded detail shows something.
ShownOK == \A k \in Keys : Len(shown[k]) > 0 <=> detail[k] = "loaded"

ListInv == RecencyOK /\ ShownOK /\ managed \in Loads \cup {NoLoad}

LEMMA TouchedDistinct ==
  ASSUME RecencyOK, NEW k \in Keys
  PROVE  Distinct(Touched(k), Stored \cup {k})
<1>1. Distinct(RemoveAll(recency, {k}), Stored \ {k})
  BY RemoveAllDistinct DEF RecencyOK
<1>2. Distinct(Touched(k), (Stored \ {k}) \cup {k})
  BY <1>1, AppendDistinct DEF Touched
<1>3. (Stored \ {k}) \cup {k} = Stored \cup {k}
  OBVIOUS
<1> QED BY <1>2, <1>3

\* touchDetail of a detail that is stored.
LEMMA TouchKeeps ==
  ASSUME RecencyOK, NEW k \in Stored, recency' = Touched(k), Stored' = Stored
  PROVE  RecencyOK'
<1>1. k \in Keys /\ Stored \cup {k} = Stored
  BY DEF Stored
<1>2. Distinct(Touched(k), Stored)
  BY <1>1, TouchedDistinct
<1> QED BY <1>2 DEF RecencyOK

\* beginDetailLoad: one detail comes and, if there are too many, the least
\* recently used one goes.
LEMMA EnterRecency ==
  ASSUME DetailInv, ListInv, NEW k \in Keys, Enter(k)
  PROVE  RecencyOK' /\ ShownOK'
<1> DEFINE dropped == IF Len(Touched(k)) > MaxDetails THEN {Head(Touched(k))} ELSE {}
           all == Stored \cup {k}
<1>1. /\ recency' = RemoveAll(Touched(k), dropped)
      /\ detail' = [j \in Keys |-> IF j \in dropped THEN "none"
                      ELSE [detail EXCEPT ![k] = IF @ = "loaded" THEN @ ELSE "loading"][j]]
      /\ shown' = [j \in Keys |-> IF j \in dropped THEN <<>> ELSE shown[j]]
  BY DEF Enter
<1>2. Distinct(Touched(k), all)
  BY TouchedDistinct DEF ListInv
<1>3. /\ IsFiniteSet(Stored) /\ Cardinality(Stored) \in Nat /\ Cardinality(Stored) <= MaxDetails
      /\ IsFiniteSet(all) /\ Cardinality(all) = Len(Touched(k))
  <2>1. IsFiniteSet(Stored)
    BY DistinctCounted DEF ListInv, RecencyOK
  <2> QED BY <1>2, <2>1, DistinctCounted, FS_CardinalityType DEF ListInv, RecencyOK
<1>4. Cardinality(all) <= MaxDetails + 1
  BY <1>3, FS_AddElement
<1>5. Len(Touched(k)) > MaxDetails => Head(Touched(k)) \in all
  <2> SUFFICES ASSUME Len(Touched(k)) > MaxDetails PROVE Head(Touched(k)) \in all
    OBVIOUS
  <2>1. Touched(k) \in Seq(Keys) /\ Len(Touched(k)) \in Nat
    BY <1>2 DEF Distinct
  <2>2. 1 \in 1 .. Len(Touched(k))
    BY <2>1
  <2>3. Touched(k)[1] \in all
    BY <1>2, <2>2 DEF Distinct
  <2>4. Touched(k) # <<>>
    BY <2>2
  <2> QED BY <2>1, <2>3, <2>4
<1>6. detail \in [Keys -> {"none", "loading", "loaded", "failed"}]
  BY DEF DetailInv, CacheTypes
<1>7. Stored' = all \ dropped
  <2>1. \A j \in Keys : detail'[j] # "none" <=> (detail[j] # "none" \/ j = k) /\ j \notin dropped
    BY <1>1, <1>6
  <2> QED BY <2>1 DEF Stored
<1>8. Cardinality(all \ dropped) <= MaxDetails
  <2>1. CASE Len(Touched(k)) > MaxDetails
    <3>1. Cardinality(all \ {Head(Touched(k))}) = Cardinality(all) - 1
      BY <1>3, <1>5, <2>1, FS_RemoveElement
    <3> QED BY <1>3, <1>4, <2>1, <3>1, FS_CardinalityType
  <2>2. CASE ~(Len(Touched(k)) > MaxDetails)
    <3>1. all \ dropped = all
      BY <2>2
    <3> QED BY <1>3, <2>2, <3>1, FS_CardinalityType
  <2> QED BY <2>1, <2>2
<1> HIDE DEF dropped, all
<1>9. Distinct(recency', all \ dropped)
  BY <1>1, <1>2, RemoveAllDistinct
<1>10. RecencyOK'
  BY <1>7, <1>8, <1>9 DEF RecencyOK
<1>11. ShownOK'
  <2> SUFFICES ASSUME NEW j \in Keys PROVE Len(shown'[j]) > 0 <=> detail'[j] = "loaded"
    BY DEF ShownOK
  <2>1. CASE j \in dropped
    BY <1>1, <2>1
  <2>2. CASE j \notin dropped
    <3>1. shown'[j] = shown[j] /\ (detail'[j] = "loaded" <=> detail[j] = "loaded")
      BY <1>1, <1>6, <2>2
    <3> QED BY <3>1 DEF ListInv, ShownOK
  <2> QED BY <2>1, <2>2
<1> QED BY <1>10, <1>11

LEMMA PublishRecency ==
  ASSUME DetailInv, ListInv, NEW k \in Keys, NEW g, NEW items \in Seq(Nat), items # <<>>,
         NEW completeness, PublishProgress(k, g, items, completeness)
  PROVE  RecencyOK' /\ ShownOK'
<1>1. CASE UNCHANGED cacheVars
  BY <1>1 DEF cacheVars, ListInv, RecencyOK, ShownOK, Stored
<1>2. CASE /\ detail[k] # "none" /\ detail' = [detail EXCEPT ![k] = "loaded"]
           /\ shown' = [shown EXCEPT ![k] = items] /\ recency' = Touched(k)
  <2>1. /\ detail \in [Keys -> {"none", "loading", "loaded", "failed"}]
        /\ shown \in [Keys -> Seq(Nat)]
    BY DEF DetailInv, CacheTypes
  <2>2. Stored' = Stored /\ k \in Stored
    BY <1>2, <2>1 DEF Stored
  <2>3. RecencyOK'
    BY <1>2, <2>2, TouchKeeps DEF ListInv
  <2>4. Len(items) > 0
    OBVIOUS
  <2>5. ShownOK'
    BY <1>2, <2>1, <2>4 DEF ListInv, ShownOK
  <2> QED BY <2>3, <2>5
<1> QED BY <1>1, <1>2 DEF PublishProgress

LEMMA FailRecency ==
  ASSUME DetailInv, ListInv, NEW k \in Keys, NEW g, FailDetail(k, g)
  PROVE  RecencyOK' /\ ShownOK'
<1>1. shown' = shown
  BY DEF FailDetail
<1>2. CASE UNCHANGED <<detail, comp, recency>>
  BY <1>1, <1>2 DEF ListInv, RecencyOK, ShownOK, Stored
<1>3. CASE /\ detail[k] # "none" /\ recency' = Touched(k)
           /\ detail' = [detail EXCEPT ![k] = IF @ = "loaded" THEN @ ELSE "failed"]
  <2>1. detail \in [Keys -> {"none", "loading", "loaded", "failed"}]
    BY DEF DetailInv, CacheTypes
  <2>2. Stored' = Stored /\ k \in Stored
    BY <1>3, <2>1 DEF Stored
  <2>3. RecencyOK'
    BY <1>3, <2>2, TouchKeeps DEF ListInv
  <2>4. ShownOK'
    BY <1>1, <1>3, <2>1 DEF ListInv, ShownOK
  <2> QED BY <2>3, <2>4
<1> QED BY <1>2, <1>3 DEF FailDetail

\* What leaves the details, what they show and their order alone.
LEMMA SameRecency ==
  ASSUME ListInv, UNCHANGED <<detail, shown, recency>> PROVE RecencyOK' /\ ShownOK'
BY DEF ListInv, RecencyOK, ShownOK, Stored

\* A complete detail is stored.
LEMMA CompleteIsStored ==
  ASSUME DetailInv, ListInv, NEW k \in Keys, comp[k] = "complete" PROVE k \in Stored
<1>1. PICK r \in 0 .. disk[k] : shown[k] = [i \in 1 .. Pages |-> r]
  BY DEF DetailInv, CompleteIsWhole
<1>2. disk[k] \in Nat
  BY DEF DetailInv, CacheTypes
<1>3. shown[k] \in Seq(Nat) /\ Len(shown[k]) = Pages
  BY <1>1, <1>2
<1>4. Len(shown[k]) > 0
  BY <1>3
<1> QED BY <1>4 DEF ListInv, ShownOK, Stored

LEMMA LoadRecency ==
  ASSUME DetailInv, ListInv, NEW t \in Loads, LoadStep(t)
  PROVE  RecencyOK' /\ ShownOK'
<1>1. load[t].pc \notin {"unborn", "done"} => load[t].key \in Keys
  BY DEF DetailInv, LoadTypes, LoadOK
<1>2. CASE Begin(t)
  <2>1. load[t].key \in Keys
    BY <1>1, <1>2 DEF Begin
  <2>2. CASE Enter(load[t].key)
    BY <2>1, <2>2, EnterRecency
  <2>3. CASE /\ ~NeedsLoad(load[t].key) /\ recency' = Touched(load[t].key)
             /\ UNCHANGED <<detail, shown, comp, gen, nextGeneration>>
    <3>1. load[t].key \in Stored
      BY <2>1, <2>3, CompleteIsStored DEF NeedsLoad, Stored
    <3>2. Stored' = Stored
      BY <2>3 DEF Stored
    <3>3. RecencyOK'
      BY <2>3, <3>1, <3>2, TouchKeeps DEF ListInv
    <3> QED BY <2>3, <3>3 DEF ListInv, ShownOK
  <2>4. CASE UNCHANGED cacheVars
    BY <2>4, SameRecency DEF cacheVars
  <2> QED BY <1>2, <2>2, <2>3, <2>4 DEF Begin
<1>3. CASE Sample(t)
  <2>1. load[t].key \in Keys
    BY <1>1, <1>3 DEF Sample
  <2>2. UNCHANGED cacheVars \/ FailDetail(load[t].key, load[t].gen)
    BY <1>3 DEF Sample
  <2> QED BY <2>1, <2>2, SameRecency, FailRecency DEF cacheVars
<1>4. CASE Page(t)
  <2>1. load[t].key \in Keys /\ load[t].pc = "page" /\ Accepts(t)
    BY <1>1, <1>4 DEF Page
  <2> DEFINE items == Append(load[t].items, disk[load[t].key])
  <2>2. items \in Seq(Nat)
    BY <2>1, PageItems
  <2>3. items # <<>>
    <3>1. load[t].items \in Seq(Nat) /\ disk[load[t].key] \in Nat
      BY <2>1 DEF DetailInv, LoadTypes, LoadType, CacheTypes
    <3> QED BY <3>1
  <2>4. PICK completeness : PublishProgress(load[t].key, load[t].gen, items, completeness)
    BY <1>4 DEF Page
  <2> HIDE DEF items
  <2> QED BY <2>1, <2>2, <2>3, <2>4, PublishRecency
<1>5. CASE Caught(t)
  <2>1. load[t].key \in Keys
    BY <1>1, <1>5 DEF Caught
  <2>2. CancelDetail(load[t].key) \/ FailDetail(load[t].key, load[t].gen)
    BY <1>5 DEF Caught
  <2>3. CancelDetail(load[t].key) => UNCHANGED <<detail, shown, recency>>
    BY DEF CancelDetail
  <2> QED BY <2>1, <2>2, <2>3, SameRecency, FailRecency
<1> QED BY <1>2, <1>3, <1>4, <1>5 DEF LoadStep

LEMMA SwitchRecency ==
  ASSUME DetailInv, ListInv, NEW source \in Sources, Switch(source)
  PROVE  RecencyOK' /\ ShownOK'
<1> DEFINE gone == {k \in Keys : SourceOf[k] # source}
<1>1. /\ recency' = RemoveAll(recency, gone)
      /\ detail' = [k \in Keys |-> IF k \in gone THEN "none" ELSE detail[k]]
      /\ shown' = [k \in Keys |-> IF k \in gone THEN <<>> ELSE shown[k]]
  BY DEF Switch, Without
<1>2. Stored' = Stored \ gone
  BY <1>1 DEF Stored
<1> HIDE DEF gone
<1>3. Distinct(recency', Stored \ gone)
  BY <1>1, RemoveAllDistinct DEF ListInv, RecencyOK
<1>4. Cardinality(Stored \ gone) <= MaxDetails
  <2>1. IsFiniteSet(Stored)
    BY DistinctCounted DEF ListInv, RecencyOK
  <2>2. /\ IsFiniteSet(Stored \ gone) /\ Cardinality(Stored \ gone) <= Cardinality(Stored)
    BY <2>1, FS_Subset
  <2> QED BY <2>1, <2>2, FS_CardinalityType DEF ListInv, RecencyOK
<1>5. ShownOK'
  BY <1>1 DEF ListInv, ShownOK
<1> QED BY <1>2, <1>3, <1>4, <1>5 DEF RecencyOK

LEMMA ListStep == DetailInv /\ ListInv /\ [DetailNext]_detailVars => ListInv'
<1> SUFFICES ASSUME DetailInv, ListInv, [DetailNext]_detailVars PROVE ListInv'
  OBVIOUS
<1>1. ASSUME NEW t \in Loads, LoadStep(t) PROVE ListInv'
  <2>1. managed' = managed
    BY <1>1 DEF LoadStep, Begin, Sample, Page, Caught, Others
  <2> QED BY <1>1, <2>1, LoadRecency DEF ListInv
<1>2. ASSUME NEW t \in Loads, Retry(t) PROVE ListInv'
  BY <1>2, SameRecency DEF Retry, cacheVars, ListInv
<1>3. ASSUME NEW t \in Loads, NEW k \in Keys, Select(t, k) PROVE ListInv'
  BY <1>3, SameRecency DEF Select, cacheVars, ListInv
<1>4. ASSUME CancelButton PROVE ListInv'
  BY <1>4, SameRecency DEF CancelButton, CancelDetail, ListInv
<1>5. ASSUME NEW source \in Sources, Switch(source) PROVE ListInv'
  BY <1>5, SwitchRecency DEF Switch, ListInv
<1>6. ASSUME NEW k \in Keys, Change(k) PROVE ListInv'
  BY <1>6, SameRecency DEF Change, cacheVars, ListInv
<1>7. ASSUME UNCHANGED detailVars PROVE ListInv'
  BY <1>7, SameRecency DEF detailVars, cacheVars, ListInv
<1> QED BY <1>1, <1>2, <1>3, <1>4, <1>5, <1>6, <1>7 DEF DetailNext

LEMMA ListInitial == DetailInit => ListInv
<1> SUFFICES ASSUME DetailInit PROVE ListInv
  OBVIOUS
<1>1. recency = <<>> /\ Stored = {}
  BY DEF DetailInit, Stored
<1>2. Distinct(<<>>, {})
  BY DEF Distinct
<1>3. Cardinality({}) <= MaxDetails
  BY FS_EmptySet
<1>4. \A k \in Keys : shown[k] = <<>> /\ detail[k] = "none"
  BY DEF DetailInit
<1>5. ShownOK
  BY <1>4 DEF ShownOK
<1> QED BY <1>1, <1>2, <1>3, <1>5 DEF DetailInit, ListInv, RecencyOK

LEMMA ListHolds == DetailSpec => []ListInv
BY ListInitial, ListStep, DetailInvariant, PTL DEF DetailSpec

\* The recency list names each stored detail once, there are at most
\* MaxDetails of them, all of the active source, only a loaded one shows
\* anything, and no load is ahead of the generations (beginDetailLoad,
\* trimDetails, activateSource).
THEOREM DetailTypes == DetailSpec => []DetailTypeOK
<1>1. ASSUME DetailInv, ListInv PROVE DetailTypeOK
  <2>1. /\ recency \in Seq(Keys) /\ \A i, j \in 1 .. Len(recency) : recency[i] = recency[j] => i = j
        /\ Stored = {recency[i] : i \in 1 .. Len(recency)}
    BY <1>1 DEF ListInv, RecencyOK, Distinct
  <2>2. DOMAIN recency = 1 .. Len(recency)
    BY <2>1
  <2>3. IsInjective(recency)
    BY <2>1, <2>2 DEF IsInjective
  <2>4. ToSet(recency) = Stored
    BY <2>1, <2>2 DEF ToSet
  <2>5. \A k \in Keys : /\ gen[k] <= nextGeneration /\ (gen[k] # 0 <=> k \in Stored)
                        /\ k \in Stored => SourceOf[k] = active
    BY <1>1 DEF DetailInv, EntriesOK, GenOK, Stored
  <2>6. \A t \in Loads : load[t].gen <= nextGeneration
    BY <1>1 DEF DetailInv, LoadTypes, LoadOK
  <2>7. Stored \subseteq Keys
    BY DEF Stored
  <2> QED BY <1>1, <2>3, <2>4, <2>5, <2>6, <2>7
          DEF DetailTypeOK, DetailInv, CacheTypes, ListInv, RecencyOK, ShownOK
<1> QED BY <1>1, DetailInvariant, ListHolds, PTL
=============================================================================
