------------------------- MODULE StagedRemovalProofs -------------------------
(***************************************************************************)
(* Proofs about StagedRemoval, for any slots, agents and file systems, any *)
(* number of removals at the same time and any number of outside changes.  *)
(* What a process has staged is in its backups (ProcInv); what is in a     *)
(* backup is deleted only if it is what the preview showed, and nothing is *)
(* staged over another backup, so nothing is lost; and while nobody else   *)
(* interferes, the file system is what it was but for the backups          *)
(* (CalmInv), so a removal takes all or nothing.  What a plan says of      *)
(* links in the file system it was made for (EffectInv) stays true when    *)
(* its targets are gone, as fewer entries lead fewer links anywhere        *)
(* (FewerResolve).                                                         *)
(***************************************************************************)
EXTENDS StagedRemoval, FiniteSetTheorems, WellFoundedInduction, TLAPS

USE RemovalAssumption

Less == {ss \in Nat \X Nat : ss[1] < ss[2]}

\* A set of numbers has a least one.
LEMMA MinIn ==
  ASSUME NEW T, T \subseteq Nat, T # {}
  PROVE  Min(T) \in T /\ \A y \in T : Min(T) <= y
<1>1. IsWellFoundedOn(Less, Nat)
  BY NatLessThanWellFounded DEF OpToRel, Less
<1>2. PICK x \in T : \A y \in T : ~(<<y, x>> \in Less)
  BY ONLY <1>1, WFMin, T \subseteq Nat, T # {}, Zenon
<1>3. \A a, b \in Nat : a < b => <<a, b>> \in Less
  BY DEF Less
<1>4. ASSUME NEW y \in T PROVE x <= y
  <2>1. x \in Nat /\ y \in Nat
    OBVIOUS
  <2>2. ~(y < x)
    BY ONLY <1>2, <1>3, <2>1, y \in T, Zenon
  <2> QED BY <2>1, <2>2
<1> QED BY <1>4 DEF Min

-----------------------------------------------------------------------------
(* Links.                                                                  *)

\* Where one link leads.
Hop(f, t) == IF t # 0 /\ f[t].kind = "link" THEN f[t].to ELSE t

\* F follows the links from s, n of them.
Chain(F, f, s, n) == F = [i \in 0 .. n |-> IF i = 0 THEN s ELSE Hop(f, F[i - 1])]

\* What holds for 0 and for n + 1 if it holds for n holds for all numbers: a
\* set that says otherwise has a least member.
LEMMA LeastFails ==
  ASSUME NEW N \in Nat, NEW Good, 0 \in Good,
         \A n \in 0 .. N - 1 : n \in Good => n + 1 \in Good
  PROVE  \A n \in 0 .. N : n \in Good
<1> DEFINE Bad == {n \in 0 .. N : n \notin Good}
<1> SUFFICES ASSUME Bad # {} PROVE FALSE
  OBVIOUS
<1>1. Bad \subseteq Nat
  OBVIOUS
<1>2. Min(Bad) \in Bad /\ \A y \in Bad : Min(Bad) <= y
  BY <1>1, MinIn
<1> HIDE DEF Bad
<1>3. Min(Bad) \in 0 .. N /\ Min(Bad) \notin Good
  BY <1>2 DEF Bad
<1>4. Min(Bad) # 0
  BY <1>3
<1>5. Min(Bad) - 1 \in 0 .. N - 1 /\ Min(Bad) - 1 \in 0 .. N
  BY <1>3, <1>4
<1>6. Min(Bad) - 1 \in Good
  <2>1. ~(Min(Bad) <= Min(Bad) - 1)
    BY <1>3
  <2>2. Min(Bad) - 1 \notin Bad
    BY <1>2, <2>1
  <2> QED BY <1>5, <2>2 DEF Bad
<1>7. (Min(Bad) - 1) + 1 = Min(Bad)
  BY <1>3
<1> QED BY <1>3, <1>5, <1>6, <1>7

LEMMA ChainExists ==
  ASSUME NEW f, NEW s, NEW N \in Nat
  PROVE  \E F : Chain(F, f, s, N)
<1> DEFINE Good == {n \in 0 .. N : \E F : Chain(F, f, s, n)}
<1>1. 0 \in Good
  <2>1. Chain([i \in 0 .. 0 |-> s], f, s, 0)
    BY DEF Chain
  <2> QED BY <2>1
<1>2. ASSUME NEW n \in 0 .. N - 1, n \in Good PROVE n + 1 \in Good
  <2>1. PICK F : Chain(F, f, s, n)
    BY <1>2
  <2> DEFINE G == [i \in 0 .. n + 1 |-> IF i = 0 THEN s ELSE Hop(f, F[i - 1])]
  <2>2. ASSUME NEW i \in 0 .. n PROVE G[i] = F[i]
    BY <2>1 DEF Chain
  <2>3. ASSUME NEW i \in 0 .. n + 1, i # 0 PROVE G[i - 1] = F[i - 1]
    <3>1. i - 1 \in 0 .. n
      BY <2>3
    <3> QED BY <2>2, <3>1
  <2>4. Chain(G, f, s, n + 1)
    BY <2>3 DEF Chain
  <2>5. n + 1 \in 0 .. N
    OBVIOUS
  <2> QED BY <2>4, <2>5
<1> HIDE DEF Good
<1>3. \A n \in 0 .. N - 1 : n \in Good => n + 1 \in Good
  BY <1>2
<1>4. \A n \in 0 .. N : n \in Good
  BY ONLY <1>1, <1>3, N \in Nat, LeastFails, Zenon
<1>5. N \in Good
  BY <1>4
<1> QED BY <1>5 DEF Good

LEMMA SlotsFinite == Cardinality(Slots) \in Nat /\ Max(Slots) \in Slots /\ \A s \in Slots : s <= Max(Slots)
<1>1. PICK last \in Slots : \A s \in Slots : s <= last
  BY InitialAssumption
<1>2. Slots \subseteq 1 .. last
  BY <1>1
<1>3. IsFiniteSet(1 .. last)
  BY FS_Interval
<1>4. IsFiniteSet(Slots)
  BY <1>2, <1>3, FS_Subset
<1>5. Cardinality(Slots) \in Nat
  BY <1>4, FS_CardinalityType
<1>6. \A s \in Slots : last >= s
  BY <1>1
<1>7. Max(Slots) \in Slots /\ \A s \in Slots : Max(Slots) >= s
  BY <1>6 DEF Max
<1> QED BY <1>5, <1>7

\* The end of a chain of links.
LEMMA FinalIs ==
  ASSUME NEW f, NEW s
  PROVE  \E F : /\ Chain(F, f, s, Cardinality(Slots))
                /\ LET last == F[Cardinality(Slots)]
                   IN  Final(f, s) = IF last # 0 /\ f[last].kind = "dir" THEN last ELSE 0
<1> DEFINE N == Cardinality(Slots)
           Follows(F) == F = [n \in 0 .. N |-> IF n = 0 THEN s
                                ELSE LET t == F[n - 1]
                                     IN IF t # 0 /\ f[t].kind = "link" THEN f[t].to ELSE t]
           Follow == CHOOSE F : Follows(F)
<1>1. \E F : Chain(F, f, s, N)
  BY SlotsFinite, ChainExists
<1>2. \A F : Chain(F, f, s, N) <=> Follows(F)
  BY DEF Chain, Hop
<1>3. Follows(Follow)
  BY <1>1, <1>2
<1>4. Final(f, s) = IF Follow[N] # 0 /\ f[Follow[N]].kind = "dir" THEN Follow[N] ELSE 0
  BY DEF Final
<1> QED BY <1>2, <1>3, <1>4

\* What follows of a chain of links from a slot or from nowhere.
LEMMA ChainStays ==
  ASSUME NEW f \in [Slots -> Entries], NEW s \in Slots \cup {0}, NEW N \in Nat,
         NEW F, Chain(F, f, s, N)
  PROVE  \A n \in 0 .. N : F[n] \in Slots \cup {0}
<1> DEFINE Good == {n \in 0 .. N : F[n] \in Slots \cup {0}}
<1>1. 0 \in Good
  BY DEF Chain
<1>2. ASSUME NEW n \in 0 .. N - 1, n \in Good PROVE n + 1 \in Good
  <2>1. F[n + 1] = Hop(f, F[n]) /\ n + 1 \in 0 .. N
    BY DEF Chain
  <2>2. F[n] \in Slots \cup {0}
    BY <1>2
  <2>3. Hop(f, F[n]) \in Slots \cup {0}
    BY <2>2 DEF Hop, Entries
  <2> QED BY <2>1, <2>3
<1> HIDE DEF Good
<1>3. \A n \in 0 .. N - 1 : n \in Good => n + 1 \in Good
  BY <1>2
<1>4. \A n \in 0 .. N : n \in Good
  BY ONLY <1>1, <1>3, N \in Nat, LeastFails, Zenon
<1> QED BY <1>4 DEF Good

LEMMA FinalType ==
  ASSUME NEW f \in [Slots -> Entries], NEW s \in Slots \cup {0}
  PROVE  Final(f, s) \in Slots \cup {0}
<1>1. PICK F : /\ Chain(F, f, s, Cardinality(Slots))
               /\ LET last == F[Cardinality(Slots)]
                  IN  Final(f, s) = IF last # 0 /\ f[last].kind = "dir" THEN last ELSE 0
  BY FinalIs
<1>2. F[Cardinality(Slots)] \in Slots \cup {0}
  BY <1>1, ChainStays, SlotsFinite
<1> QED BY <1>1, <1>2

\* A row without a place leads nowhere, nor does an empty slot.
LEMMA NothingResolvesNot ==
  ASSUME NEW f, NEW s, s = 0 \/ f[s] = Nothing
  PROVE  ~Resolves(f, s)
<1>1. PICK F : /\ Chain(F, f, s, Cardinality(Slots))
               /\ LET last == F[Cardinality(Slots)]
                  IN  Final(f, s) = IF last # 0 /\ f[last].kind = "dir" THEN last ELSE 0
  BY FinalIs
<1> DEFINE N == Cardinality(Slots)
           Good == {n \in 0 .. N : F[n] = s}
<1>2. N \in Nat
  BY SlotsFinite
<1>3. Nothing.kind = "none"
  BY DEF Nothing
<1>4. 0 \in Good
  BY <1>1, <1>2 DEF Chain
<1>5. ASSUME NEW n \in 0 .. N - 1, n \in Good PROVE n + 1 \in Good
  <2>1. F[n + 1] = Hop(f, F[n]) /\ n + 1 \in 0 .. N
    BY <1>1, <1>2 DEF Chain
  <2>2. F[n] = s
    BY <1>5
  <2>3. Hop(f, s) = s
    BY <1>3 DEF Hop
  <2> QED BY <2>1, <2>2, <2>3
<1> HIDE DEF Good
<1>6. \A n \in 0 .. N - 1 : n \in Good => n + 1 \in Good
  BY <1>5
<1>7. \A n \in 0 .. N : n \in Good
  BY ONLY <1>2, <1>4, <1>6, LeastFails, Zenon
<1>8. F[N] = s
  BY <1>2, <1>7 DEF Good
<1> QED BY <1>1, <1>3, <1>8 DEF Resolves

\* g is f without what is at the slots of T.
Without(g, f, T) == \A s \in Slots : g[s] = IF s \in T THEN Nothing ELSE f[s]

\* Taking entries away leads no link to another directory: what still
\* resolves ends where it did, and not at a slot that was cleared.
LEMMA FewerResolve ==
  ASSUME NEW f \in [Slots -> Entries], NEW g \in [Slots -> Entries],
         NEW T, T \subseteq Slots, Without(g, f, T), NEW s \in Slots, Resolves(g, s)
  PROVE  Final(g, s) = Final(f, s) /\ Final(g, s) \in Slots \ T
<1> DEFINE N == Cardinality(Slots)
<1>1. PICK F : /\ Chain(F, f, s, N)
               /\ Final(f, s) = IF F[N] # 0 /\ f[F[N]].kind = "dir" THEN F[N] ELSE 0
  BY FinalIs
<1>2. PICK G : /\ Chain(G, g, s, N)
               /\ Final(g, s) = IF G[N] # 0 /\ g[G[N]].kind = "dir" THEN G[N] ELSE 0
  BY FinalIs
<1>3. N \in Nat /\ 0 \notin Slots
  BY SlotsFinite
<1>4. \A n \in 0 .. N : G[n] \in Slots \cup {0} /\ F[n] \in Slots \cup {0}
  BY <1>1, <1>2, <1>3, ChainStays
<1> DEFINE Good == {n \in 0 .. N : G[n] = F[n] \/ G[n] \in T}
<1>5. 0 \in Good
  BY <1>1, <1>2, <1>3 DEF Chain
<1>6. ASSUME NEW n \in 0 .. N - 1, n \in Good PROVE n + 1 \in Good
  <2>1. /\ F[n + 1] = Hop(f, F[n]) /\ G[n + 1] = Hop(g, G[n])
        /\ n + 1 \in 0 .. N /\ n \in 0 .. N
    BY <1>1, <1>2, <1>3 DEF Chain
  <2>2. G[n] \in Slots \cup {0}
    BY <1>4, <2>1
  <2>3. CASE G[n] \in T
    <3>1. G[n] \in Slots /\ g[G[n]] = Nothing
      BY <2>3 DEF Without
    <3>2. Nothing.kind # "link"
      BY DEF Nothing
    <3>3. G[n + 1] = G[n]
      BY <2>1, <3>1, <3>2 DEF Hop
    <3> QED BY <2>1, <2>3, <3>3
  <2>4. CASE G[n] \notin T
    <3>1. G[n] = F[n]
      BY <1>6, <2>4
    <3>2. Hop(g, G[n]) = Hop(f, G[n])
      BY <2>2, <2>4 DEF Without, Hop
    <3> QED BY <2>1, <3>1, <3>2
  <2> QED BY <2>3, <2>4
<1> HIDE DEF Good
<1>7. \A n \in 0 .. N - 1 : n \in Good => n + 1 \in Good
  BY <1>6
<1>8. \A n \in 0 .. N : n \in Good
  BY ONLY <1>3, <1>5, <1>7, LeastFails, Zenon
<1>9. G[N] = F[N] \/ G[N] \in T
  BY <1>3, <1>8 DEF Good
<1>10. G[N] \in Slots /\ g[G[N]].kind = "dir" /\ Final(g, s) = G[N]
  BY <1>2, <1>3, <1>4 DEF Resolves
<1>11. G[N] \notin T
  <2>1. Nothing.kind # "dir"
    BY DEF Nothing
  <2> QED BY <1>10, <2>1 DEF Without
<1>12. g[G[N]] = f[G[N]]
  BY <1>10, <1>11 DEF Without
<1> QED BY <1>1, <1>3, <1>9, <1>10, <1>11, <1>12

-----------------------------------------------------------------------------
(* The invariant.                                                          *)

\* A function from processes to functions on slots.
PerSlot(b) == b = [p \in Procs |-> [s \in Slots |-> b[p][s]]]

\* The shapes of the variables, as far as the argument needs them.
Shapes ==
  /\ fs = [s \in Slots |-> fs[s]]
  /\ PerSlot(backup) /\ PerSlot(before)
  /\ rows \in [Agents -> RowsOfAgent]
  /\ asked \in [Procs -> [agents : SUBSET Agents, ids : SUBSET (Agents \X Slots)]]
  /\ pc = [p \in Procs |-> pc[p]] /\ result = [p \in Procs |-> result[p]]
  /\ plan = [p \in Procs |-> plan[p]] /\ reviewed = [p \in Procs |-> reviewed[p]]
  /\ todo = [p \in Procs |-> todo[p]] /\ staged = [p \in Procs |-> staged[p]]
  /\ failed \in [Procs -> BOOLEAN] /\ quiet \in [Procs -> BOOLEAN]

\* The slots of which p holds what was there.
Gone(p) == {s \in Slots : backup[p][s] # Nothing}

\* The backup of s is what the plan says.
Planned(p, s) == s \in Slots => backup[p][s] = plan[p].targets[s]

\* What a process has staged, and what it has still to handle.
ProcInv(p) ==
  /\ pc[p] \in {"idle", "asked", "recheck"}
       => staged[p] = {} /\ Gone(p) = {} /\ ~failed[p]
  /\ Gone(p) \subseteq staged[p]
  /\ pc[p] \in {"recheck", "stage", "check", "scan", "commit"}
       => /\ Targets(p) \subseteq Nat
          /\ reviewed[p] # NoPlan => reviewed[p].targets = plan[p].targets
  /\ pc[p] \in {"stage", "check"} => Targets(p) = staged[p] \cup todo[p]
  /\ pc[p] \in {"stage", "check", "scan"}
       => ~failed[p] /\ staged[p] \cap Slots \subseteq Gone(p)
  /\ pc[p] = "stage" => /\ todo[p] \cap staged[p] = {}
                        /\ \A s \in staged[p] : Planned(p, s)
  /\ pc[p] = "check" => /\ todo[p] # {} /\ todo[p] \cap staged[p] = {Min(todo[p])}
                        /\ \A s \in staged[p] \ todo[p] : Planned(p, s)
  /\ pc[p] = "scan" => /\ staged[p] = Targets(p)
                       /\ \A s \in staged[p] : Planned(p, s)
  /\ pc[p] = "commit" => /\ todo[p] \subseteq Targets(p)
                         /\ \A s \in todo[p] : Planned(p, s)
  /\ pc[p] \in {"commit", "rollback", "restore"} /\ ~failed[p]
       => Gone(p) \subseteq todo[p]
  /\ pc[p] \in {"done", "rescan"}
       => /\ result[p] \in {"ok", "refused", "incomplete"}
          /\ result[p] # "incomplete" => Gone(p) = {}

\* The file system as p has left it, if nobody else has changed it: all that
\* is gone is in the backups of p; and after the decision, all or nothing.
AllButTargets(p) ==
  \A s \in Slots : fs[s] = IF s \in Targets(p) THEN Nothing ELSE before[p][s]

CalmInv(p) == quiet[p] =>
  /\ pc[p] \notin {"idle", "asked"}
  /\ pc[p] \in {"recheck", "stage", "check", "scan", "rollback", "restore"}
       => \A s \in Slots : /\ s \in Gone(p) => /\ fs[s] = Nothing
                                               /\ backup[p][s] = before[p][s]
                           /\ s \notin Gone(p) => fs[s] = before[p][s]
  /\ pc[p] = "commit" => AllButTargets(p)
  /\ pc[p] \in {"done", "rescan"}
       => /\ result[p] = "ok" => AllButTargets(p)
          /\ result[p] # "ok" /\ ~failed[p] => \A s \in Slots : fs[s] = before[p][s]

RemovalInv == /\ Shapes /\ NothingLost
              /\ \A p \in Procs : ProcInv(p) /\ CalmInv(p)

\* The targets of a request are slots, or 0 for a row without a place.
LEMMA TargetsAreNumbers ==
  ASSUME Shapes, NEW p \in Procs
  PROVE  DOMAIN PlanFor(asked[p]).targets \subseteq Nat
<1>1. asked[p].ids \subseteq Agents \X Slots
  BY DEF Shapes
<1>2. ASSUME NEW id \in Agents \X Slots PROVE EntryOf(id) \in Nat
  <2>1. id[1] \in Agents /\ id[2] \in Slots
    OBVIOUS
  <2> QED BY <2>1 DEF EntryOf, Shapes, RowsOfAgent
<1> QED BY <1>1, <1>2 DEF PlanFor, TargetsOf, Selected

-----------------------------------------------------------------------------
(* The shapes.                                                             *)

LEMMA ScanShape ==
  ASSUME rows \in [Agents -> RowsOfAgent], NEW a, ScanAgent(a)
  PROVE  rows' \in [Agents -> RowsOfAgent]
<1>1. PICK walked : rows' = [rows EXCEPT ![a] = ScannedRows(a, walked)]
  BY DEF ScanAgent
<1> SUFFICES ASSUME a \in Agents PROVE rows' \in [Agents -> RowsOfAgent]
  BY <1>1
<1>2. ASSUME NEW c \in Slots
      PROVE  ScannedRows(a, walked)[c] \in [state : {"none", "loaded", "missing"},
                                            at : Slots \cup {0}]
  <2>1. rows[a][c] \in [state : {"none", "loaded", "missing"}, at : Slots \cup {0}]
    BY DEF RowsOfAgent
  <2>2. CASE \E s \in Slots : <<c, s>> \in Seen(a, walked)
    BY <2>2 DEF ScannedRows, RowOf
  <2>3. CASE ~\E s \in Slots : <<c, s>> \in Seen(a, walked)
    BY <2>1, <2>3 DEF ScannedRows
  <2> QED BY <2>2, <2>3
<1>3. ScannedRows(a, walked) \in RowsOfAgent
  BY <1>2 DEF ScannedRows, RowsOfAgent
<1> QED BY <1>1, <1>3

\* A changed function is one with the same domain.
LEMMA Changed ==
  ASSUME NEW S, NEW f, f = [x \in S |-> f[x]], NEW a, NEW e
  PROVE  /\ [f EXCEPT ![a] = e] = [x \in S |-> [f EXCEPT ![a] = e][x]]
         /\ \A x \in S : [f EXCEPT ![a] = e][x] = IF x = a THEN e ELSE f[x]
OBVIOUS

\* c is b with e as the backup of t by p.
Put(c, b, p, t, e) == /\ PerSlot(c)
                      /\ \A q \in Procs : q # p => c[q] = b[q]
                      /\ \A s \in Slots : c[p][s] = IF s = t THEN e ELSE b[p][s]

LEMMA ChangedBackup ==
  ASSUME NEW b, PerSlot(b),
         NEW p \in Procs, NEW t, NEW e,
         NEW c, c = [b EXCEPT ![p][t] = e]
  PROVE  Put(c, b, p, t, e)
<1>1. \A q \in Procs : b[q] = [s \in Slots |-> b[q][s]]
  BY DEF PerSlot
<1>2. [b[p] EXCEPT ![t] = e] = [s \in Slots |-> IF s = t THEN e ELSE b[p][s]]
  BY <1>1
<1>3. c = [q \in Procs |-> IF q = p THEN [b[p] EXCEPT ![t] = e] ELSE b[q]]
  BY DEF PerSlot
<1>4. ASSUME NEW q \in Procs PROVE c[q] = [s \in Slots |-> c[q][s]]
  <2>1. CASE q = p
    BY <1>2, <1>3, <2>1
  <2>2. CASE q # p
    <3>1. c[q] = b[q]
      BY <1>3, <2>2
    <3> QED BY <1>1, <3>1
  <2> QED BY <2>1, <2>2
<1>5. PerSlot(c)
  BY <1>3, <1>4 DEF PerSlot
<1> QED BY <1>2, <1>3, <1>5 DEF Put

LEMMA StepShape ==
  ASSUME Shapes, NEW p \in Procs, RemovalStep(p)
  PROVE  Shapes'
<1> USE DEF Shapes, FilesUnchanged, Undisturbed, Goto, End
<1>1. CASE Preview(p)
  <2>1. PICK chosen \in SUBSET Agents :
          LET request == [agents |-> chosen, ids |-> Loaded]
          IN  /\ asked' = [asked EXCEPT ![p] = request]
              /\ reviewed' \in {[reviewed EXCEPT ![p] = PlanFor(request)], reviewed}
    BY <1>1 DEF Preview
  <2>2. Loaded \subseteq Agents \X Slots
    BY DEF Loaded
  <2>3. asked' \in [Procs -> [agents : SUBSET Agents, ids : SUBSET (Agents \X Slots)]]
    BY <2>1, <2>2
  <2>4. reviewed' = [q \in Procs |-> reviewed'[q]]
    BY ONLY <2>1, reviewed = [q \in Procs |-> reviewed[q]], Changed
  <2>5. pc' = [q \in Procs |-> pc'[q]]
    BY <1>1 DEF Preview
  <2> QED BY <1>1, <2>3, <2>4, <2>5 DEF Preview
<1>2. CASE Apply(p)
  <2>1. PerSlot(before')
    BY <1>2 DEF Apply, PerSlot
  <2>2. pc' = [q \in Procs |-> pc'[q]] /\ plan' = [q \in Procs |-> plan'[q]]
    BY <1>2 DEF Apply
  <2>3. result' = [q \in Procs |-> result'[q]]
    BY <1>2 DEF Apply
  <2> QED BY <1>2, <2>1, <2>2, <2>3 DEF Apply
<1>3. CASE Recheck(p)
  BY <1>3 DEF Recheck, Refuse
<1>4. CASE StageMove(p)
  <2>1. fs' = [s \in Slots |-> fs'[s]]
    BY <1>4 DEF StageMove
  <2>2. PerSlot(backup')
    <3>1. PerSlot(backup)
      OBVIOUS
    <3>2. backup' = [backup EXCEPT ![p][Min(todo[p])] = fs[Min(todo[p])]]
      BY <1>4 DEF StageMove
    <3>3. Put(backup', backup, p, Min(todo[p]), fs[Min(todo[p])])
      BY ONLY <3>1, <3>2, ChangedBackup, p \in Procs, Zenon
    <3> QED BY <3>3 DEF Put
  <2>3. staged' = [q \in Procs |-> staged'[q]] /\ pc' = [q \in Procs |-> pc'[q]]
    BY <1>4 DEF StageMove
  <2>4. quiet' \in [Procs -> BOOLEAN]
    BY <1>4 DEF StageMove, Disturb
  <2> QED BY <1>4, <2>1, <2>2, <2>3, <2>4 DEF StageMove
<1>5. CASE StageFails(p)
  BY <1>5 DEF StageFails, StartRollback
<1>6. CASE CheckStaged(p)
  BY <1>6 DEF CheckStaged, StartRollback
<1>7. CASE AllStaged(p)
  BY <1>7 DEF AllStaged
<1>8. CASE Scan(p)
  <2>1. rows' \in [Agents -> RowsOfAgent]
    BY <1>8, ScanShape DEF Scan
  <2> QED BY <1>8, <2>1 DEF Scan
<1>9. CASE ScanFails(p)
  BY <1>9 DEF ScanFails, StartRollback
<1>10. CASE Verify(p)
  BY <1>10 DEF Verify, StartRollback
<1>11. CASE RollbackCheck(p)
  <2>1. pc' = [q \in Procs |-> pc'[q]]
    BY <1>11 DEF RollbackCheck
  <2>2. todo' = [q \in Procs |-> todo'[q]]
    BY <1>11 DEF RollbackCheck
  <2>3. failed' \in [Procs -> BOOLEAN]
    BY <1>11 DEF RollbackCheck
  <2> QED BY <1>11, <2>1, <2>2, <2>3 DEF RollbackCheck
<1>12. CASE Restore(p)
  <2>1. fs' = [s \in Slots |-> fs'[s]]
    BY <1>12 DEF Restore
  <2>2. PerSlot(backup')
    <3>1. PerSlot(backup)
      OBVIOUS
    <3>2. backup' = [backup EXCEPT ![p][Max(todo[p])] = Nothing]
      BY <1>12 DEF Restore
    <3>3. Put(backup', backup, p, Max(todo[p]), Nothing)
      BY ONLY <3>1, <3>2, ChangedBackup, p \in Procs, Zenon
    <3> QED BY <3>3 DEF Put
  <2>3. todo' = [q \in Procs |-> todo'[q]] /\ pc' = [q \in Procs |-> pc'[q]]
    BY <1>12 DEF Restore
  <2>4. quiet' \in [Procs -> BOOLEAN]
    BY <1>12 DEF Restore, Disturb
  <2> QED BY <1>12, <2>1, <2>2, <2>3, <2>4 DEF Restore
<1>13. CASE RestoreFails(p)
  BY <1>13 DEF RestoreFails
<1>14. CASE RolledBack(p)
  <2>1. pc' = [q \in Procs |-> pc'[q]]
    BY <1>14 DEF RolledBack
  <2>2. todo' = [q \in Procs |-> todo'[q]]
    BY <1>14 DEF RolledBack
  <2>3. result' = [q \in Procs |-> result'[q]]
    BY <1>14 DEF RolledBack
  <2> QED BY <1>14, <2>1, <2>2, <2>3 DEF RolledBack
<1>15. CASE Rescan(p)
  <2>1. rows' \in [Agents -> RowsOfAgent]
    BY <1>15, ScanShape DEF Rescan
  <2> QED BY <1>15, <2>1 DEF Rescan
<1>16. CASE RescanEnds(p)
  BY <1>16 DEF RescanEnds
<1>17. CASE Commit(p)
  <2>1. PerSlot(backup')
    <3>1. PerSlot(backup)
      OBVIOUS
    <3>2. backup' = [backup EXCEPT ![p][Min(todo[p])] = Nothing]
      BY <1>17 DEF Commit
    <3>3. Put(backup', backup, p, Min(todo[p]), Nothing)
      BY ONLY <3>1, <3>2, ChangedBackup, p \in Procs, Zenon
    <3> QED BY <3>3 DEF Put
  <2>2. todo' = [q \in Procs |-> todo'[q]]
    BY <1>17 DEF Commit
  <2> QED BY <1>17, <2>1, <2>2 DEF Commit
<1>18. CASE CommitFails(p)
  BY <1>18 DEF CommitFails
<1>19. CASE Committed(p)
  BY <1>19 DEF Committed
<1>20. CASE Kill(p)
  BY <1>20 DEF Kill
<1> QED BY <1>1, <1>2, <1>3, <1>4, <1>5, <1>6, <1>7, <1>8, <1>9, <1>10, <1>11, <1>12, <1>13, <1>14, <1>15, <1>16, <1>17, <1>18, <1>19, <1>20 DEF RemovalStep

\* What a step of p leaves of another process.
Same(q) == /\ pc'[q] = pc[q] /\ todo'[q] = todo[q] /\ staged'[q] = staged[q]
           /\ failed'[q] = failed[q] /\ result'[q] = result[q]
           /\ plan'[q] = plan[q] /\ reviewed'[q] = reviewed[q]
           /\ backup'[q] = backup[q] /\ before'[q] = before[q]

Calm(q) == (fs' = fs /\ quiet'[q] = quiet[q]) \/ ~quiet'[q]

\* A step of somebody else keeps a process's part of the invariant.
LEMMA OthersKeep ==
  ASSUME NEW q \in Procs, ProcInv(q), CalmInv(q), Same(q), Calm(q)
  PROVE  ProcInv(q)' /\ CalmInv(q)'
<1>1. Gone(q)' = Gone(q) /\ Targets(q)' = Targets(q)
  BY DEF Gone, Targets, Same
<1>2. \A s : Planned(q, s)' <=> Planned(q, s)
  BY DEF Planned, Same
<1>3. ProcInv(q)'
  BY <1>1, <1>2 DEF ProcInv, Same
<1>4. CalmInv(q)'
  BY <1>1 DEF CalmInv, AllButTargets, Same, Calm
<1> QED BY <1>3, <1>4

\* A step of p is nothing but calm for the others.
LEMMA StepIsOwn ==
  ASSUME Shapes, NEW p \in Procs, RemovalStep(p), NEW q \in Procs, q # p
  PROVE  Same(q) /\ Calm(q)
<1> USE DEF Shapes, FilesUnchanged, Undisturbed, Goto, End, Same, Calm
<1>1. CASE Preview(p)
  BY <1>1 DEF Preview
<1>2. CASE Apply(p)
  BY <1>2 DEF Apply
<1>3. CASE Recheck(p)
  BY <1>3 DEF Recheck, Refuse
<1>4. CASE StageMove(p)
  <2>1. backup'[q] = backup[q]
    <3>1. PerSlot(backup)
      OBVIOUS
    <3>2. backup' = [backup EXCEPT ![p][Min(todo[p])] = fs[Min(todo[p])]]
      BY <1>4 DEF StageMove
    <3>3. Put(backup', backup, p, Min(todo[p]), fs[Min(todo[p])])
      BY ONLY <3>1, <3>2, ChangedBackup, p \in Procs, Zenon
    <3> QED BY <3>3 DEF Put
  <2>2. ~quiet'[q]
    BY <1>4 DEF StageMove, Disturb
  <2> QED BY <1>4, <2>1, <2>2 DEF StageMove
<1>5. CASE StageFails(p)
  BY <1>5 DEF StageFails, StartRollback
<1>6. CASE CheckStaged(p)
  BY <1>6 DEF CheckStaged, StartRollback
<1>7. CASE AllStaged(p)
  BY <1>7 DEF AllStaged
<1>8. CASE Scan(p)
  BY <1>8 DEF Scan
<1>9. CASE ScanFails(p)
  BY <1>9 DEF ScanFails, StartRollback
<1>10. CASE Verify(p)
  BY <1>10 DEF Verify, StartRollback
<1>11. CASE RollbackCheck(p)
  BY <1>11 DEF RollbackCheck
<1>12. CASE Restore(p)
  <2>1. backup'[q] = backup[q]
    <3>1. PerSlot(backup)
      OBVIOUS
    <3>2. backup' = [backup EXCEPT ![p][Max(todo[p])] = Nothing]
      BY <1>12 DEF Restore
    <3>3. Put(backup', backup, p, Max(todo[p]), Nothing)
      BY ONLY <3>1, <3>2, ChangedBackup, p \in Procs, Zenon
    <3> QED BY <3>3 DEF Put
  <2>2. ~quiet'[q]
    BY <1>12 DEF Restore, Disturb
  <2> QED BY <1>12, <2>1, <2>2 DEF Restore
<1>13. CASE RestoreFails(p)
  BY <1>13 DEF RestoreFails
<1>14. CASE RolledBack(p)
  BY <1>14 DEF RolledBack
<1>15. CASE Rescan(p)
  BY <1>15 DEF Rescan
<1>16. CASE RescanEnds(p)
  BY <1>16 DEF RescanEnds
<1>17. CASE Commit(p)
  BY <1>17 DEF Commit
<1>18. CASE CommitFails(p)
  BY <1>18 DEF CommitFails
<1>19. CASE Committed(p)
  BY <1>19 DEF Committed
<1>20. CASE Kill(p)
  BY <1>20 DEF Kill
<1> QED BY <1>1, <1>2, <1>3, <1>4, <1>5, <1>6, <1>7, <1>8, <1>9, <1>10, <1>11, <1>12, <1>13, <1>14, <1>15, <1>16, <1>17, <1>18, <1>19, <1>20 DEF RemovalStep

-----------------------------------------------------------------------------
(* A step of a process and its own part of the invariant.                  *)

LEMMA StepProc ==
  ASSUME Shapes, NEW p \in Procs, ProcInv(p), RemovalStep(p)
  PROVE  ProcInv(p)'
<1> USE DEF Shapes, FilesUnchanged, Undisturbed, Goto, End, ProcInv
<1>1. CASE Preview(p)
  BY <1>1 DEF Preview, Gone, Planned, Targets
<1>2. CASE Apply(p)
  <2>1. /\ Gone(p)' = {} /\ staged'[p] = {} /\ ~failed'[p]
        /\ reviewed'[p] = reviewed[p]
    BY <1>2 DEF Apply, Gone
  <2>2. CASE pc'[p] = "recheck"
    <3>1. /\ plan'[p] = PlanFor(asked[p])
          /\ reviewed[p] # NoPlan => reviewed[p].targets = PlanFor(asked[p]).targets
      BY <1>2, <2>2 DEF Apply
    <3>2. Targets(p)' \subseteq Nat
      BY <3>1, TargetsAreNumbers DEF Targets
    <3> QED BY <2>1, <2>2, <3>1, <3>2
  <2>3. CASE pc'[p] = "done"
    <3>1. result'[p] = "refused"
      BY <1>2, <2>3 DEF Apply
    <3> QED BY <2>1, <2>3, <3>1
  <2> QED BY <1>2, <2>2, <2>3 DEF Apply
<1>3. CASE Recheck(p)
  BY <1>3 DEF Recheck, Refuse, Gone, Planned, Targets
<1>4. CASE StageMove(p)
  <2>1. /\ todo[p] \subseteq Nat /\ todo[p] # {} /\ Targets(p)' = Targets(p)
        /\ todo'[p] = todo[p] /\ staged'[p] = staged[p] \cup {Min(todo[p])}
        /\ pc[p] = "stage" /\ pc'[p] = "check" /\ fs[Min(todo[p])] # Nothing
        /\ plan'[p] = plan[p] /\ reviewed'[p] = reviewed[p] /\ failed'[p] = failed[p]
    BY <1>4 DEF StageMove, Targets
  <2>2. Min(todo[p]) \in todo[p] /\ Min(todo[p]) \notin staged[p]
    BY <2>1, MinIn
  <2>3. \A s \in Slots : backup'[p][s] = IF s = Min(todo[p]) THEN fs[Min(todo[p])]
                                                             ELSE backup[p][s]
    <3>1. PerSlot(backup)
      OBVIOUS
    <3>2. backup' = [backup EXCEPT ![p][Min(todo[p])] = fs[Min(todo[p])]]
      BY <1>4 DEF StageMove
    <3>3. Put(backup', backup, p, Min(todo[p]), fs[Min(todo[p])])
      BY ONLY <3>1, <3>2, ChangedBackup, p \in Procs, Zenon
    <3> QED BY <3>3 DEF Put
  <2>4. Gone(p)' = Gone(p) \cup ({Min(todo[p])} \cap Slots)
    BY <2>1, <2>3 DEF Gone
  <2>5. \A s \in staged[p] : Planned(p, s)'
    BY <2>1, <2>2, <2>3 DEF Planned
  <2> QED BY <2>1, <2>2, <2>4, <2>5
<1>5. CASE StageFails(p)
  BY <1>5 DEF StageFails, StartRollback, Gone, Planned, Targets
<1>6. CASE CheckStaged(p)
  BY <1>6 DEF CheckStaged, StartRollback, StagedAsPlanned, Gone, Planned, Targets
<1>7. CASE AllStaged(p)
  BY <1>7 DEF AllStaged, Gone, Planned, Targets
<1>8. CASE Scan(p)
  BY <1>8 DEF Scan, Gone, Planned, Targets
<1>9. CASE ScanFails(p)
  BY <1>9 DEF ScanFails, StartRollback, Gone, Planned, Targets
<1>10. CASE Verify(p)
  BY <1>10 DEF Verify, StartRollback, Gone, Planned, Targets
<1>11. CASE RollbackCheck(p)
  BY <1>11 DEF RollbackCheck, Gone, Planned, Targets
<1>12. CASE Restore(p)
  <2>1. /\ pc[p] = "restore" /\ pc'[p] = "rollback" /\ staged'[p] = staged[p]
        /\ todo'[p] = todo[p] \ {Max(todo[p])} /\ failed'[p] = failed[p]
    BY <1>12 DEF Restore
  <2>2. \A s \in Slots : backup'[p][s] = IF s = Max(todo[p]) THEN Nothing
                                                             ELSE backup[p][s]
    <3>1. PerSlot(backup)
      OBVIOUS
    <3>2. backup' = [backup EXCEPT ![p][Max(todo[p])] = Nothing]
      BY <1>12 DEF Restore
    <3>3. Put(backup', backup, p, Max(todo[p]), Nothing)
      BY ONLY <3>1, <3>2, ChangedBackup, p \in Procs, Zenon
    <3> QED BY <3>3 DEF Put
  <2>3. Gone(p)' = Gone(p) \ {Max(todo[p])}
    BY <2>2 DEF Gone
  <2> QED BY <2>1, <2>3
<1>13. CASE RestoreFails(p)
  BY <1>13 DEF RestoreFails, Gone, Planned, Targets
<1>14. CASE RolledBack(p)
  BY <1>14 DEF RolledBack, Gone, Planned, Targets
<1>15. CASE Rescan(p)
  BY <1>15 DEF Rescan, Gone, Planned, Targets
<1>16. CASE RescanEnds(p)
  BY <1>16 DEF RescanEnds, Gone, Planned, Targets
<1>17. CASE Commit(p)
  <2>1. /\ pc[p] = "commit" /\ pc'[p] = "commit" /\ staged'[p] = staged[p]
        /\ todo'[p] = todo[p] \ {Min(todo[p])} /\ failed'[p] = failed[p]
        /\ plan'[p] = plan[p] /\ reviewed'[p] = reviewed[p] /\ Targets(p)' = Targets(p)
    BY <1>17 DEF Commit, Targets
  <2>2. \A s \in Slots : backup'[p][s] = IF s = Min(todo[p]) THEN Nothing
                                                             ELSE backup[p][s]
    <3>1. PerSlot(backup)
      OBVIOUS
    <3>2. backup' = [backup EXCEPT ![p][Min(todo[p])] = Nothing]
      BY <1>17 DEF Commit
    <3>3. Put(backup', backup, p, Min(todo[p]), Nothing)
      BY ONLY <3>1, <3>2, ChangedBackup, p \in Procs, Zenon
    <3> QED BY <3>3 DEF Put
  <2>3. Gone(p)' = Gone(p) \ {Min(todo[p])}
    BY <2>2 DEF Gone
  <2>4. \A s \in todo'[p] : Planned(p, s)'
    BY <2>1, <2>2 DEF Planned
  <2> QED BY <2>1, <2>3, <2>4
<1>18. CASE CommitFails(p)
  BY <1>18 DEF CommitFails, Gone, Planned, Targets
<1>19. CASE Committed(p)
  BY <1>19 DEF Committed, Gone, Planned, Targets
<1>20. CASE Kill(p)
  BY <1>20 DEF Kill, Gone, Planned, Targets
<1> QED BY <1>1, <1>2, <1>3, <1>4, <1>5, <1>6, <1>7, <1>8, <1>9, <1>10, <1>11, <1>12, <1>13, <1>14, <1>15, <1>16, <1>17, <1>18, <1>19, <1>20 DEF RemovalStep

LEMMA StepCalm ==
  ASSUME Shapes, NEW p \in Procs, ProcInv(p), CalmInv(p), RemovalStep(p)
  PROVE  CalmInv(p)'
<1> USE DEF Shapes, FilesUnchanged, Undisturbed, Goto, End, ProcInv, CalmInv
<1>1. CASE Preview(p)
  BY <1>1 DEF Preview, Gone, Planned, Targets, AllButTargets
<1>2. CASE Apply(p)
  <2>1. /\ Gone(p)' = {} /\ pc'[p] \in {"recheck", "done"} /\ ~failed'[p]
        /\ pc'[p] = "done" => result'[p] = "refused"
    BY <1>2 DEF Apply, Gone
  <2>2. fs' = fs /\ before'[p] = fs
    BY <1>2 DEF Apply, PerSlot
  <2> QED BY <2>1, <2>2
<1>3. CASE Recheck(p)
  BY <1>3 DEF Recheck, Refuse, Gone, Planned, Targets, AllButTargets
<1>4. CASE StageMove(p)
  <2>1. /\ todo[p] \subseteq Nat /\ todo[p] # {}
        /\ pc[p] = "stage" /\ pc'[p] = "check" /\ fs[Min(todo[p])] # Nothing
        /\ before' = before /\ quiet'[p] = quiet[p]
    BY <1>4 DEF StageMove, Disturb
  <2>2. Min(todo[p]) \in todo[p] /\ Min(todo[p]) \notin staged[p]
    BY <2>1, MinIn
  <2>3. \A s \in Slots : backup'[p][s] = IF s = Min(todo[p]) THEN fs[Min(todo[p])]
                                                             ELSE backup[p][s]
    <3>1. PerSlot(backup)
      OBVIOUS
    <3>2. backup' = [backup EXCEPT ![p][Min(todo[p])] = fs[Min(todo[p])]]
      BY <1>4 DEF StageMove
    <3>3. Put(backup', backup, p, Min(todo[p]), fs[Min(todo[p])])
      BY ONLY <3>1, <3>2, ChangedBackup, p \in Procs, Zenon
    <3> QED BY <3>3 DEF Put
  <2>4. \A s \in Slots : fs'[s] = IF s = Min(todo[p]) THEN Nothing ELSE fs[s]
    BY <1>4 DEF StageMove
  <2>5. \A s \in Slots : s \in Gone(p)' <=> s \in Gone(p) \/ s = Min(todo[p])
    BY <2>1, <2>3 DEF Gone
  <2>6. Min(todo[p]) \notin Gone(p)
    BY <2>2
  <2> QED BY <2>1, <2>3, <2>4, <2>5, <2>6
<1>5. CASE StageFails(p)
  BY <1>5 DEF StageFails, StartRollback, Gone, Planned, Targets, AllButTargets
<1>6. CASE CheckStaged(p)
  BY <1>6 DEF CheckStaged, StartRollback, StagedAsPlanned, Gone, Planned, Targets, AllButTargets
<1>7. CASE AllStaged(p)
  BY <1>7 DEF AllStaged, Gone, Planned, Targets, AllButTargets
<1>8. CASE Scan(p)
  BY <1>8 DEF Scan, Gone, Planned, Targets, AllButTargets
<1>9. CASE ScanFails(p)
  BY <1>9 DEF ScanFails, StartRollback, Gone, Planned, Targets, AllButTargets
<1>10. CASE Verify(p)
  BY <1>10 DEF Verify, StartRollback, Gone, Planned, Targets, AllButTargets
<1>11. CASE RollbackCheck(p)
  BY <1>11 DEF RollbackCheck, Gone, Planned, Targets, AllButTargets
<1>12. CASE Restore(p)
  <2>1. /\ pc[p] = "restore" /\ pc'[p] = "rollback"
        /\ before' = before /\ quiet'[p] = quiet[p]
    BY <1>12 DEF Restore, Disturb
  <2>2. \A s \in Slots : backup'[p][s] = IF s = Max(todo[p]) THEN Nothing
                                                             ELSE backup[p][s]
    <3>1. PerSlot(backup)
      OBVIOUS
    <3>2. backup' = [backup EXCEPT ![p][Max(todo[p])] = Nothing]
      BY <1>12 DEF Restore
    <3>3. Put(backup', backup, p, Max(todo[p]), Nothing)
      BY ONLY <3>1, <3>2, ChangedBackup, p \in Procs, Zenon
    <3> QED BY <3>3 DEF Put
  <2>3. /\ \A s \in Slots : fs'[s] = IF s = Max(todo[p]) THEN backup[p][s] ELSE fs[s]
        /\ \/ fs[Max(todo[p])] = Nothing
           \/ fs[Max(todo[p])].kind = "link" /\ backup[p][Max(todo[p])].kind = "link"
    BY <1>12 DEF Restore
  <2>4. Gone(p)' = Gone(p) \ {Max(todo[p])}
    BY <2>2 DEF Gone
  <2>5. ASSUME quiet[p], NEW s \in Slots, s = Max(todo[p]) PROVE fs'[s] = before[p][s]
    <3>1. CASE s \in Gone(p)
      BY <2>1, <2>3, <2>5, <3>1
    <3>2. CASE s \notin Gone(p)
      BY <2>1, <2>3, <2>5, <3>2 DEF Gone, Nothing
    <3> QED BY <3>1, <3>2
  <2>6. ASSUME quiet[p], NEW s \in Slots
        PROVE  /\ s \in Gone(p)' => fs'[s] = Nothing /\ backup'[p][s] = before[p][s]
               /\ s \notin Gone(p)' => fs'[s] = before[p][s]
    <3>1. CASE s = Max(todo[p])
      BY <2>4, <2>5, <2>6, <3>1
    <3>2. CASE s # Max(todo[p])
      BY <2>1, <2>2, <2>3, <2>4, <2>6, <3>2
    <3> QED BY <3>1, <3>2
  <2> QED BY <2>1, <2>6
<1>13. CASE RestoreFails(p)
  BY <1>13 DEF RestoreFails, Gone, Planned, Targets, AllButTargets
<1>14. CASE RolledBack(p)
  BY <1>14 DEF RolledBack, Gone, Planned, Targets, AllButTargets
<1>15. CASE Rescan(p)
  BY <1>15 DEF Rescan, Gone, Planned, Targets, AllButTargets
<1>16. CASE RescanEnds(p)
  BY <1>16 DEF RescanEnds, Gone, Planned, Targets, AllButTargets
<1>17. CASE Commit(p)
  BY <1>17 DEF Commit, Gone, Planned, Targets, AllButTargets
<1>18. CASE CommitFails(p)
  BY <1>18 DEF CommitFails, Gone, Planned, Targets, AllButTargets
<1>19. CASE Committed(p)
  BY <1>19 DEF Committed, Gone, Planned, Targets, AllButTargets
<1>20. CASE Kill(p)
  BY <1>20 DEF Kill, Gone, Planned, Targets, AllButTargets
<1> QED BY <1>1, <1>2, <1>3, <1>4, <1>5, <1>6, <1>7, <1>8, <1>9, <1>10, <1>11, <1>12, <1>13, <1>14, <1>15, <1>16, <1>17, <1>18, <1>19, <1>20 DEF RemovalStep

-----------------------------------------------------------------------------
(* Nothing is lost.                                                        *)

LEMMA StepLosesNothing ==
  ASSUME Shapes, NEW p \in Procs, ProcInv(p), NothingLost, RemovalStep(p)
  PROVE  NothingLost'
<1>1. CASE StageMove(p)
  <2>1. todo[p] \subseteq Nat /\ todo[p] # {} /\ pc[p] = "stage" /\ alive' = alive
    BY <1>1 DEF StageMove, ProcInv, Targets, Goto
  <2>2. Min(todo[p]) \in todo[p] /\ Min(todo[p]) \notin Gone(p)
    BY <2>1, MinIn DEF ProcInv
  <2>3. Put(backup', backup, p, Min(todo[p]), fs[Min(todo[p])])
    <3>1. PerSlot(backup)
      BY DEF Shapes
    <3>2. backup' = [backup EXCEPT ![p][Min(todo[p])] = fs[Min(todo[p])]]
      BY <1>1 DEF StageMove
    <3> QED BY ONLY <3>1, <3>2, ChangedBackup, p \in Procs, Zenon
  <2>4. \A s \in Slots : fs'[s] = IF s = Min(todo[p]) THEN Nothing ELSE fs[s]
    BY <1>1 DEF StageMove, Shapes
  <2>5. ASSUME NEW rev, Holds(fs, rev)
        PROVE  Holds(fs', rev) \/ Holds(backup'[p], rev)
    BY <2>3, <2>4, <2>5 DEF Holds, Put
  <2>6. ASSUME NEW rev, Holds(backup[p], rev)
        PROVE  Holds(backup'[p], rev)
    BY <2>2, <2>3, <2>6 DEF Holds, Put, Gone, Nothing
  <2>7. ASSUME NEW rev, NEW q \in Procs, Holds(backup[q], rev)
        PROVE  Holds(backup'[q], rev)
    <3>1. CASE q = p
      BY <2>6, <2>7, <3>1
    <3>2. CASE q # p
      BY <2>3, <2>7, <3>2 DEF Put
    <3> QED BY <3>1, <3>2
  <2> QED BY <2>1, <2>5, <2>7 DEF NothingLost
<1>2. CASE Restore(p)
  <2>1. Put(backup', backup, p, Max(todo[p]), Nothing)
    <3>1. PerSlot(backup)
      BY DEF Shapes
    <3>2. backup' = [backup EXCEPT ![p][Max(todo[p])] = Nothing]
      BY <1>2 DEF Restore
    <3> QED BY ONLY <3>1, <3>2, ChangedBackup, p \in Procs, Zenon
  <2>2. /\ \A s \in Slots : fs'[s] = IF s = Max(todo[p]) THEN backup[p][s] ELSE fs[s]
        /\ fs[Max(todo[p])].kind # "dir" /\ alive' = alive
    BY <1>2 DEF Restore, Shapes, Nothing
  <2>3. ASSUME NEW rev, Holds(fs, rev) PROVE Holds(fs', rev)
    BY <2>2, <2>3 DEF Holds
  <2>4. ASSUME NEW rev, Holds(backup[p], rev)
        PROVE  Holds(fs', rev) \/ Holds(backup'[p], rev)
    BY <2>1, <2>2, <2>4 DEF Holds, Put
  <2>5. ASSUME NEW rev, NEW q \in Procs, Holds(backup[q], rev)
        PROVE  Holds(fs', rev) \/ Holds(backup'[q], rev)
    <3>1. CASE q = p
      BY <2>4, <2>5, <3>1
    <3>2. CASE q # p
      BY <2>1, <2>5, <3>2 DEF Put
    <3> QED BY <3>1, <3>2
  <2> QED BY <2>2, <2>3, <2>5 DEF NothingLost
<1>3. CASE Commit(p)
  <2>1. Put(backup', backup, p, Min(todo[p]), Nothing)
    <3>1. PerSlot(backup)
      BY DEF Shapes
    <3>2. backup' = [backup EXCEPT ![p][Min(todo[p])] = Nothing]
      BY <1>3 DEF Commit
    <3> QED BY ONLY <3>1, <3>2, ChangedBackup, p \in Procs, Zenon
  <2>2. /\ fs' = fs /\ alive' = alive \ {Approved(p).targets[Min(todo[p])].rev}
        /\ pc[p] = "commit" /\ todo[p] # {}
    BY <1>3 DEF Commit
  <2>3. Min(todo[p]) \in todo[p]
    BY <2>2, MinIn DEF ProcInv
  <2>4. Min(todo[p]) \in Slots => backup[p][Min(todo[p])] = Approved(p).targets[Min(todo[p])]
    BY <2>2, <2>3 DEF ProcInv, Planned, Approved
  <2>5. ASSUME NEW rev \in alive', Holds(backup[p], rev) PROVE Holds(backup'[p], rev)
    <3>1. PICK s \in Slots : backup[p][s].kind = "dir" /\ backup[p][s].rev = rev
      BY <2>5 DEF Holds
    <3>2. s # Min(todo[p])
      BY <2>2, <2>4, <3>1
    <3> QED BY <2>1, <3>1, <3>2 DEF Holds, Put
  <2>6. ASSUME NEW rev \in alive', NEW q \in Procs, Holds(backup[q], rev)
        PROVE  Holds(backup'[q], rev)
    <3>1. CASE q = p
      BY <2>5, <2>6, <3>1
    <3>2. CASE q # p
      BY <2>1, <2>6, <3>2 DEF Put
    <3> QED BY <3>1, <3>2
  <2>7. alive' \subseteq alive
    BY <2>2
  <2> QED BY <2>2, <2>6, <2>7 DEF NothingLost
<1>4. ASSUME UNCHANGED <<fs, backup, alive>> PROVE NothingLost'
  BY <1>4 DEF NothingLost
<1>5. CASE ~StageMove(p) /\ ~Restore(p) /\ ~Commit(p)
  <2>1. UNCHANGED <<fs, backup, alive>>
    BY <1>5 DEF RemovalStep, FilesUnchanged, Undisturbed, Preview, Apply, Recheck,
       StageFails, CheckStaged, AllStaged, Scan, ScanFails, Verify, RollbackCheck,
       RestoreFails, RolledBack, Rescan, RescanEnds, CommitFails, Committed, Kill
  <2> QED BY <1>4, <2>1
<1> QED BY <1>1, <1>2, <1>3, <1>5

LEMMA OutsideKeeps ==
  ASSUME Shapes, NothingLost,
         \/ \E s \in Slots : \E entry : Edit(s, entry)
         \/ \E a : OtherScan(a)
  PROVE  Shapes' /\ NothingLost' /\ \A q \in Procs : Same(q) /\ Calm(q)
<1>1. ASSUME NEW s \in Slots, NEW entry, Edit(s, entry)
      PROVE  Shapes' /\ NothingLost' /\ \A q \in Procs : Same(q) /\ Calm(q)
  <2>1. /\ backup' = backup /\ quiet' = [p \in Procs |-> FALSE]
        /\ \A t \in Slots : fs'[t] = IF t = s THEN entry ELSE fs[t]
        /\ alive' = (IF fs[s].kind = "dir" THEN alive \ {fs[s].rev} ELSE alive)
                    \cup (IF entry.kind = "dir" THEN {entry.rev} ELSE {})
    BY <1>1 DEF Edit, OutsideOnly, Shapes
  <2>2. fs' = [t \in Slots |-> fs'[t]]
    BY <1>1 DEF Edit, Shapes
  <2>3. Shapes'
    BY <1>1, <2>2 DEF Edit, OutsideOnly, Shapes
  <2>4. \A q \in Procs : Same(q) /\ Calm(q)
    BY <1>1 DEF Edit, OutsideOnly, Same, Calm
  <2>5. ASSUME NEW rev \in alive'
        PROVE  Holds(fs', rev) \/ \E p \in Procs : Holds(backup'[p], rev)
    <3>1. CASE entry.kind = "dir" /\ rev = entry.rev
      BY <2>1, <3>1 DEF Holds
    <3>2. CASE ~(entry.kind = "dir" /\ rev = entry.rev)
      <4>1. rev \in alive /\ ~(fs[s].kind = "dir" /\ rev = fs[s].rev)
        BY <2>1, <2>5, <3>2
      <4>2. CASE Holds(fs, rev)
        BY <2>1, <4>1, <4>2 DEF Holds
      <4> QED BY <2>1, <4>1, <4>2 DEF NothingLost
    <3> QED BY <3>1, <3>2
  <2> QED BY <2>3, <2>4, <2>5 DEF NothingLost
<1>2. ASSUME NEW a, OtherScan(a)
      PROVE  Shapes' /\ NothingLost' /\ \A q \in Procs : Same(q) /\ Calm(q)
  <2>1. rows' \in [Agents -> RowsOfAgent]
    BY <1>2, ScanShape DEF OtherScan, Shapes
  <2>2. Shapes'
    BY <1>2, <2>1 DEF OtherScan, OutsideOnly, Shapes
  <2>3. NothingLost'
    BY <1>2 DEF OtherScan, OutsideOnly, NothingLost
  <2> QED BY <1>2, <2>2, <2>3 DEF OtherScan, OutsideOnly, Same, Calm
<1> QED BY <1>1, <1>2

-----------------------------------------------------------------------------
(* The theorems.                                                           *)

LEMMA InitHolds == RemovalInit => RemovalInv
<1> SUFFICES ASSUME RemovalInit PROVE RemovalInv
  OBVIOUS
<1> USE DEF RemovalInit
<1>1. rows \in [Agents -> RowsOfAgent]
  <2>1. ASSUME NEW a \in Agents, NEW c \in Slots
        PROVE  rows[a][c] \in [state : {"none", "loaded", "missing"}, at : Slots \cup {0}]
    <3>1. rows[a][c] = IF \E s \in Slots : <<c, s>> \in Seen(a, Range(Order[a]))
                       THEN RowOf(a, c, Range(Order[a])) ELSE NoRow
      OBVIOUS
    <3>2. CASE \E s \in Slots : <<c, s>> \in Seen(a, Range(Order[a]))
      BY <3>1, <3>2 DEF RowOf
    <3>3. CASE rows[a][c] = NoRow
      BY ONLY <3>3 DEF NoRow
    <3> QED BY ONLY <3>1, <3>2, <3>3, Zenon
  <2>2. \A a \in Agents : rows[a] \in RowsOfAgent
    <3> SUFFICES ASSUME NEW a \in Agents PROVE rows[a] \in RowsOfAgent
      OBVIOUS
    <3>1. rows[a] = [c \in Slots |-> rows[a][c]]
      OBVIOUS
    <3> QED BY <2>1, <3>1 DEF RowsOfAgent
  <2> QED BY <2>2
<1>2. fs = [s \in Slots |-> fs[s]]
  BY InitialAssumption
<1>3. PerSlot(backup) /\ PerSlot(before)
  BY <1>2 DEF PerSlot
<1>4. asked \in [Procs -> [agents : SUBSET Agents, ids : SUBSET (Agents \X Slots)]]
  OBVIOUS
<1>5. Shapes
  BY <1>1, <1>2, <1>3, <1>4 DEF Shapes
<1>6. NothingLost
  BY DEF NothingLost, Holds
<1>7. \A p \in Procs : ProcInv(p) /\ CalmInv(p)
  BY DEF ProcInv, CalmInv, Gone
<1> QED BY <1>5, <1>6, <1>7 DEF RemovalInv

LEMMA StepKeeps == RemovalInv /\ [RemovalNext]_removalVars => RemovalInv'
<1> SUFFICES ASSUME RemovalInv, [RemovalNext]_removalVars PROVE RemovalInv'
  OBVIOUS
<1>1. ASSUME NEW p \in Procs, RemovalStep(p) PROVE RemovalInv'
  <2>1. Shapes' /\ NothingLost'
    BY <1>1, StepShape, StepLosesNothing DEF RemovalInv
  <2>2. ProcInv(p)' /\ CalmInv(p)'
    BY <1>1, StepProc, StepCalm DEF RemovalInv
  <2>3. ASSUME NEW q \in Procs, q # p PROVE ProcInv(q)' /\ CalmInv(q)'
    <3>1. Same(q) /\ Calm(q)
      BY <1>1, <2>3, StepIsOwn DEF RemovalInv
    <3> QED BY <3>1, OthersKeep DEF RemovalInv
  <2> QED BY <2>1, <2>2, <2>3 DEF RemovalInv
<1>2. ASSUME \/ \E s \in Slots : \E entry : Edit(s, entry)
             \/ \E a : OtherScan(a)
      PROVE  RemovalInv'
  <2>1. Shapes' /\ NothingLost' /\ \A q \in Procs : Same(q) /\ Calm(q)
    BY <1>2, OutsideKeeps DEF RemovalInv
  <2>2. ASSUME NEW q \in Procs PROVE ProcInv(q)' /\ CalmInv(q)'
    BY <2>1, OthersKeep DEF RemovalInv
  <2> QED BY <2>1, <2>2 DEF RemovalInv
<1>3. ASSUME UNCHANGED removalVars PROVE RemovalInv'
  <2>1. Shapes'
    BY <1>3 DEF removalVars, RemovalInv, Shapes, PerSlot
  <2>2. NothingLost'
    BY <1>3 DEF removalVars, RemovalInv, NothingLost
  <2>3. \A q \in Procs : Same(q) /\ Calm(q)
    BY <1>3 DEF removalVars, Same, Calm
  <2>4. ASSUME NEW q \in Procs PROVE ProcInv(q)' /\ CalmInv(q)'
    BY <2>3, OthersKeep DEF RemovalInv
  <2> QED BY <2>1, <2>2, <2>4 DEF RemovalInv
<1> QED BY <1>1, <1>2, <1>3 DEF RemovalNext

\* Whatever the slots, the agents and the order of the steps of all
\* processes and of the user: the invariant of this module.
THEOREM RemovalInvariant == RemovalSpec => []RemovalInv
BY InitHolds, StepKeeps, PTL DEF RemovalSpec

\* A directory that nobody meant to delete is never lost, for any number of
\* removals at the same time, killed anywhere, and of changes from outside
\* (stage_physical_removals, rollback_staged_removals, commit_staged_removals).
THEOREM NothingIsLost == RemovalSpec => []NothingLost
<1>1. RemovalInv => NothingLost
  BY DEF RemovalInv
<1> QED BY <1>1, RemovalInvariant, PTL

\* A removal that is not reported as incomplete keeps no backup, and one that
\* nobody disturbed took all its targets or none (apply_physical_remove).
THEOREM RemovesAllOrNothing == RemovalSpec => []AllOrNothing
<1>1. ASSUME RemovalInv PROVE AllOrNothing
  <2> SUFFICES ASSUME NEW p \in Procs, pc[p] = "done"
      PROVE /\ result[p] # "incomplete" => \A s \in Slots : backup[p][s] = Nothing
            /\ quiet[p] /\ result[p] = "ok" =>
                 fs = [s \in Slots |-> IF s \in Targets(p) THEN Nothing ELSE before[p][s]]
            /\ quiet[p] /\ result[p] # "ok" /\ ~failed[p] => fs = before[p]
    BY DEF AllOrNothing
  <2>1. ProcInv(p) /\ CalmInv(p) /\ Shapes
    BY <1>1 DEF RemovalInv
  <2>2. fs = [s \in Slots |-> fs[s]] /\ before[p] = [s \in Slots |-> before[p][s]]
    BY <2>1 DEF Shapes, PerSlot
  <2>3. result[p] # "incomplete" => \A s \in Slots : backup[p][s] = Nothing
    BY <2>1 DEF ProcInv, Gone
  <2>4. ASSUME quiet[p], result[p] = "ok"
        PROVE  fs = [s \in Slots |-> IF s \in Targets(p) THEN Nothing ELSE before[p][s]]
    <3>1. \A s \in Slots : fs[s] = IF s \in Targets(p) THEN Nothing ELSE before[p][s]
      BY <2>1, <2>4 DEF CalmInv, AllButTargets
    <3> QED BY <2>2, <3>1
  <2>5. ASSUME quiet[p], result[p] # "ok", ~failed[p] PROVE fs = before[p]
    <3>1. \A s \in Slots : fs[s] = before[p][s]
      BY <2>1, <2>5 DEF CalmInv
    <3> QED BY <2>2, <3>1
  <2> QED BY <2>3, <2>4, <2>5
<1> QED BY <1>1, RemovalInvariant, PTL

-----------------------------------------------------------------------------
(* Types.                                                                  *)

\* The files and what is kept of them.
FilesTyped ==
  /\ fs \in [Slots -> Entries]
  /\ backup \in [Procs -> [Slots -> Entries]]
  /\ before \in [Procs -> [Slots -> Entries]]
  /\ edits \in 0 .. MaxEdits /\ alive \subseteq Revs

\* The plans of a process, and what it does with them.
PlanTyped(p) ==
  /\ reviewed[p] # NoPlan => PlanOK(reviewed[p])
  /\ plan[p] # NoPlan => PlanOK(plan[p]) /\ staged[p] \subseteq Targets(p)
  /\ pc[p] \in {"rollback", "restore", "commit"} => todo[p] \subseteq staged[p]
  /\ result[p] \in {"none", "ok", "refused", "incomplete"}

TypeInv == FilesTyped /\ \A p \in Procs : PlanTyped(p)

LEMMA NothingIsEntry == Nothing \in Entries
<1>1. Max(Slots) \in Nat
  BY SlotsFinite
<1>2. 0 \in Revs
  BY <1>1 DEF Revs
<1> QED BY <1>2 DEF Nothing, Entries

LEMMA StampIsRev == edits \in Nat /\ edits < MaxEdits => Stamp \in Revs
<1>1. Max(Slots) \in Nat
  BY SlotsFinite
<1> QED BY <1>1 DEF Stamp, Revs

\* The slots where a preserved agent keeps the skill are where it looks.
LEMMA KeptIsFree ==
  ASSUME NEW id \in Agents \X Slots, NEW targets, Independent(id[1], targets) # {}
  PROVE  KeptPath(id, targets) \in Independent(id[1], targets)
<1> DEFINE free == Independent(id[1], targets)
<1>1. Order[id[1]] \in Seq(Slots)
  OBVIOUS
<1>2. free \subseteq Slots
  BY <1>1 DEF Independent, Range
<1>3. free \subseteq Nat
  BY <1>2
<1>4. Min(free) \in free
  BY <1>3, MinIn
<1> QED BY <1>4 DEF KeptPath

\* The plan for an acceptable request is about slots.
LEMMA PlanIsOK ==
  ASSUME fs \in [Slots -> Entries], NEW request,
         request.ids \subseteq Agents \X Slots, Acceptable(request),
         rows \in [Agents -> RowsOfAgent]
  PROVE  PlanOK(PlanFor(request))
<1> DEFINE targets == TargetsOf(request)
<1>1. \A s \in DOMAIN targets : Resolves(fs, s)
  BY DEF Acceptable
<1>2. ASSUME NEW s \in DOMAIN targets PROVE s \in Slots /\ targets[s] \in Entries
  <2>1. PICK id \in Selected(request) : s = EntryOf(id)
    BY DEF TargetsOf
  <2>2. id \in Agents \X Slots
    BY DEF Selected
  <2>3. id[1] \in Agents /\ id[2] \in Slots
    BY <2>2
  <2>4. s \in Slots \cup {0}
    <3>1. rows[id[1]] \in RowsOfAgent
      BY <2>3
    <3>2. rows[id[1]][id[2]] \in [state : {"none", "loaded", "missing"}, at : Slots \cup {0}]
      BY <2>3, <3>1 DEF RowsOfAgent
    <3> QED BY <2>1, <3>2 DEF EntryOf
  <2>5. s \in Slots
    BY <1>1, <2>4, NothingResolvesNot
  <2>6. targets[s] = fs[s]
    BY DEF TargetsOf
  <2> QED BY <2>5, <2>6
<1>3. ASSUME NEW id \in request.ids \ Selected(request)
      PROVE  KeptPath(id, targets) \in Slots
  <2>1. id \in Agents \X Slots /\ Independent(id[1], targets) # {}
    BY DEF Acceptable
  <2>2. KeptPath(id, targets) \in Independent(id[1], targets)
    BY <2>1, KeptIsFree
  <2>3. Order[id[1]] \in Seq(Slots)
    BY <2>1
  <2> QED BY <2>2, <2>3 DEF Independent, Range
<1>4. Selected(request) \subseteq Agents \X Slots
  BY DEF Selected
<1> HIDE DEF targets
<1>5. /\ PlanFor(request).targets = targets /\ PlanFor(request).ids = Selected(request)
      /\ PlanFor(request).keep = {KeptPath(id, targets) : id \in request.ids \ Selected(request)}
  BY DEF PlanFor, targets
<1> QED BY <1>2, <1>3, <1>4, <1>5 DEF PlanOK

LEMMA PutTyped ==
  ASSUME NEW b \in [Procs -> [Slots -> Entries]], NEW p \in Procs, NEW t, NEW e,
         t \in Slots => e \in Entries, NEW c, Put(c, b, p, t, e)
  PROVE  c \in [Procs -> [Slots -> Entries]]
<1>1. ASSUME NEW q \in Procs, NEW s \in Slots PROVE c[q][s] \in Entries
  BY DEF Put
<1>2. c = [q \in Procs |-> [s \in Slots |-> c[q][s]]]
  BY DEF Put, PerSlot
<1>3. ASSUME NEW q \in Procs PROVE c[q] \in [Slots -> Entries]
  <2>1. c[q] = [s \in Slots |-> c[q][s]]
    BY <1>2
  <2> QED BY <1>1, <2>1
<1> QED BY <1>2, <1>3

LEMMA StepFiles ==
  ASSUME Shapes, NEW p \in Procs, ProcInv(p), FilesTyped, RemovalStep(p)
  PROVE  FilesTyped'
<1>1. CASE Apply(p)
  BY <1>1 DEF Apply, FilesTyped
<1>2. CASE StageMove(p)
  <2>1. fs' \in [Slots -> Entries]
    BY <1>2, NothingIsEntry DEF StageMove, FilesTyped
  <2>2. Put(backup', backup, p, Min(todo[p]), fs[Min(todo[p])])
    <3>1. PerSlot(backup)
      BY DEF Shapes
    <3>2. backup' = [backup EXCEPT ![p][Min(todo[p])] = fs[Min(todo[p])]]
      BY <1>2 DEF StageMove
    <3> QED BY ONLY <3>1, <3>2, ChangedBackup, p \in Procs, Zenon
  <2>3. backup' \in [Procs -> [Slots -> Entries]]
    BY <2>2, PutTyped DEF FilesTyped
  <2> QED BY <1>2, <2>1, <2>3 DEF StageMove, FilesTyped
<1>3. CASE Restore(p)
  <2>1. fs' \in [Slots -> Entries]
    BY <1>3 DEF Restore, FilesTyped
  <2>2. Put(backup', backup, p, Max(todo[p]), Nothing)
    <3>1. PerSlot(backup)
      BY DEF Shapes
    <3>2. backup' = [backup EXCEPT ![p][Max(todo[p])] = Nothing]
      BY <1>3 DEF Restore
    <3> QED BY ONLY <3>1, <3>2, ChangedBackup, p \in Procs, Zenon
  <2>3. backup' \in [Procs -> [Slots -> Entries]]
    BY <2>2, PutTyped, NothingIsEntry DEF FilesTyped
  <2> QED BY <1>3, <2>1, <2>3 DEF Restore, FilesTyped
<1>4. CASE Commit(p)
  <2>1. Put(backup', backup, p, Min(todo[p]), Nothing)
    <3>1. PerSlot(backup)
      BY DEF Shapes
    <3>2. backup' = [backup EXCEPT ![p][Min(todo[p])] = Nothing]
      BY <1>4 DEF Commit
    <3> QED BY ONLY <3>1, <3>2, ChangedBackup, p \in Procs, Zenon
  <2>2. backup' \in [Procs -> [Slots -> Entries]]
    BY <2>1, PutTyped, NothingIsEntry DEF FilesTyped
  <2> QED BY <1>4, <2>2 DEF Commit, FilesTyped
<1>5. CASE ~Apply(p) /\ ~StageMove(p) /\ ~Restore(p) /\ ~Commit(p)
  <2>1. UNCHANGED <<fs, backup, before, edits, alive>>
    BY <1>5 DEF RemovalStep, FilesUnchanged, Undisturbed, Preview, Recheck,
       StageFails, CheckStaged, AllStaged, Scan, ScanFails, Verify, RollbackCheck,
       RestoreFails, RolledBack, Rescan, RescanEnds, CommitFails, Committed, Kill
  <2> QED BY <2>1 DEF FilesTyped
<1> QED BY <1>1, <1>2, <1>3, <1>4, <1>5

LEMMA StepPlans ==
  ASSUME Shapes, NEW p \in Procs, ProcInv(p), FilesTyped, PlanTyped(p), RemovalStep(p)
  PROVE  PlanTyped(p)'
<1> USE DEF Shapes, PlanTyped, Goto, End, Targets
<1>1. CASE Preview(p)
  <2>1. PICK chosen \in SUBSET Agents :
          LET request == [agents |-> chosen, ids |-> Loaded]
          IN  /\ Acceptable(request)
              /\ reviewed' \in {[reviewed EXCEPT ![p] = PlanFor(request)], reviewed}
    BY <1>1 DEF Preview
  <2> DEFINE request == [agents |-> chosen, ids |-> Loaded]
  <2>2. request.ids \subseteq Agents \X Slots
    BY DEF Loaded
  <2>3. PlanOK(PlanFor(request))
    BY <2>1, <2>2, PlanIsOK DEF FilesTyped
  <2> HIDE DEF request
  <2>4. reviewed'[p] \in {PlanFor(request), reviewed[p]}
    BY <2>1 DEF request
  <2>5. reviewed'[p] # NoPlan => PlanOK(reviewed'[p])
    BY <2>3, <2>4
  <2>6. /\ pc'[p] = "asked" /\ plan' = plan /\ staged' = staged
        /\ todo' = todo /\ result' = result
    BY <1>1 DEF Preview
  <2> QED BY <2>5, <2>6 DEF PlanOK
<1>2. CASE Apply(p)
  <2>1. /\ staged' = staged /\ todo' = todo /\ reviewed' = reviewed /\ staged[p] = {}
        /\ pc'[p] \in {"recheck", "done"} /\ result'[p] \in {result[p], "refused"}
        /\ plan'[p] = plan[p] \/ (Acceptable(asked[p]) /\ plan'[p] = PlanFor(asked[p]))
    BY <1>2 DEF Apply, ProcInv
  <2>2. asked[p].ids \subseteq Agents \X Slots
    OBVIOUS
  <2>3. Acceptable(asked[p]) => PlanOK(PlanFor(asked[p]))
    BY <2>2, PlanIsOK DEF FilesTyped
  <2>4. plan'[p] # NoPlan => PlanOK(plan'[p])
    BY <2>1, <2>3
  <2> QED BY <2>1, <2>4 DEF PlanOK
<1>3. CASE StageMove(p)
  <2>1. todo[p] \subseteq Nat /\ todo[p] # {} /\ pc[p] = "stage"
    BY <1>3 DEF StageMove, ProcInv
  <2>2. Min(todo[p]) \in Targets(p)
    BY <2>1, MinIn DEF ProcInv
  <2>3. /\ staged'[p] = staged[p] \cup {Min(todo[p])} /\ pc'[p] = "check"
        /\ plan' = plan /\ reviewed' = reviewed /\ result' = result
    BY <1>3 DEF StageMove
  <2> QED BY <2>2, <2>3 DEF PlanOK
<1>4. CASE /\ ~Preview(p) /\ ~Apply(p) /\ ~StageMove(p)
  <2>1. /\ plan' = plan /\ reviewed' = reviewed /\ staged' = staged
    BY <1>4 DEF RemovalStep, Recheck,
       StageFails, CheckStaged, AllStaged, Scan, ScanFails, Verify, RollbackCheck, Restore,
       RestoreFails, RolledBack, Rescan, RescanEnds, Commit, CommitFails, Committed, Kill
  <2>2. result'[p] \in {result[p], "ok", "refused", "incomplete"}
    BY <1>4 DEF RemovalStep, Recheck, Refuse,
       StageFails, CheckStaged, AllStaged, Scan, ScanFails, Verify, RollbackCheck, Restore,
       RestoreFails, RolledBack, Rescan, RescanEnds, Commit, CommitFails, Committed, Kill
  <2>3. pc'[p] \in {"rollback", "restore", "commit"} =>
          \/ pc[p] \in {"rollback", "restore", "commit"} /\ todo'[p] \subseteq todo[p]
          \/ todo'[p] = staged[p]
    BY <1>4 DEF RemovalStep, Recheck, Refuse, StartRollback,
       StageFails, CheckStaged, AllStaged, Scan, ScanFails, Verify, RollbackCheck, Restore,
       RestoreFails, RolledBack, Rescan, RescanEnds, Commit, CommitFails, Committed, Kill
  <2> QED BY <2>1, <2>2, <2>3 DEF PlanOK
<1> QED BY <1>1, <1>2, <1>3, <1>4

LEMMA TypeStep ==
  ASSUME RemovalInv, TypeInv, [RemovalNext]_removalVars
  PROVE  TypeInv'
<1>1. ASSUME NEW p \in Procs, RemovalStep(p) PROVE TypeInv'
  <2>1. FilesTyped'
    BY <1>1, StepFiles DEF RemovalInv, TypeInv
  <2>2. PlanTyped(p)'
    BY <1>1, StepPlans DEF RemovalInv, TypeInv
  <2>3. ASSUME NEW q \in Procs, q # p PROVE PlanTyped(q)'
    <3>1. Same(q)
      BY <1>1, <2>3, StepIsOwn DEF RemovalInv
    <3> QED BY <3>1 DEF TypeInv, PlanTyped, Same, Targets, PlanOK
  <2> QED BY <2>1, <2>2, <2>3 DEF TypeInv
<1>2. ASSUME NEW s \in Slots, NEW entry, Edit(s, entry),
             edits < MaxEdits => entry \in Entries
      PROVE  TypeInv'
  <2>1. edits \in 0 .. MaxEdits /\ edits < MaxEdits /\ edits' = edits + 1
    BY <1>2 DEF Edit, TypeInv, FilesTyped
  <2>2. entry \in Entries
    BY <1>2, <2>1
  <2>3. fs' \in [Slots -> Entries] /\ edits' \in 0 .. MaxEdits
    BY <1>2, <2>1, <2>2 DEF Edit, TypeInv, FilesTyped
  <2>4. entry.rev \in Revs
    BY <2>2 DEF Entries
  <2>5. alive' \subseteq Revs
    BY <1>2, <2>4 DEF Edit, TypeInv, FilesTyped
  <2>6. FilesTyped'
    BY <1>2, <2>3, <2>5 DEF Edit, OutsideOnly, TypeInv, FilesTyped
  <2>7. \A q \in Procs : PlanTyped(q)'
    BY <1>2 DEF Edit, OutsideOnly, TypeInv, PlanTyped, Targets, PlanOK
  <2> QED BY <2>6, <2>7 DEF TypeInv
<1>3. edits \in Nat
  BY DEF TypeInv, FilesTyped
<1>4. ASSUME NEW s \in Slots, Edit(s, Nothing) PROVE TypeInv'
  BY <1>2, <1>4, NothingIsEntry
<1>5. ASSUME NEW s \in Slots, Edit(s, DirEntry(Stamp)) PROVE TypeInv'
  <2>1. edits < MaxEdits => DirEntry(Stamp) \in Entries
    BY <1>3, StampIsRev DEF DirEntry, Entries
  <2> QED BY <1>2, <1>5, <2>1
<1>6. ASSUME NEW s \in Slots, NEW t \in Slots, Edit(s, LinkEntry(t, Stamp)) PROVE TypeInv'
  <2>1. edits < MaxEdits => LinkEntry(t, Stamp) \in Entries
    BY <1>3, StampIsRev DEF LinkEntry, Entries
  <2> QED BY <1>2, <1>6, <2>1
<1>7. ASSUME NEW a \in Agents, OtherScan(a) PROVE TypeInv'
  BY <1>7 DEF OtherScan, OutsideOnly, TypeInv, FilesTyped, PlanTyped, Targets, PlanOK
<1>8. ASSUME UNCHANGED removalVars PROVE TypeInv'
  BY <1>8 DEF removalVars, TypeInv, FilesTyped, PlanTyped, Targets, PlanOK
<1> QED BY <1>1, <1>4, <1>5, <1>6, <1>7, <1>8 DEF RemovalNext

LEMMA TypeInit == RemovalInit => TypeInv
<1> SUFFICES ASSUME RemovalInit PROVE TypeInv
  OBVIOUS
<1>1. fs \in [Slots -> Entries]
  BY InitialAssumption DEF RemovalInit
<1>2. backup \in [Procs -> [Slots -> Entries]]
  BY NothingIsEntry DEF RemovalInit
<1>3. before \in [Procs -> [Slots -> Entries]]
  BY <1>1 DEF RemovalInit
<1>4. alive \subseteq Revs
  BY <1>1 DEF RemovalInit, Entries
<1>5. FilesTyped
  BY <1>1, <1>2, <1>3, <1>4 DEF RemovalInit, FilesTyped
<1>6. \A p \in Procs : PlanTyped(p)
  BY DEF RemovalInit, PlanTyped
<1> QED BY <1>5, <1>6 DEF TypeInv

LEMMA TypesHold == RemovalSpec => []TypeInv
<1>1. RemovalInv /\ TypeInv /\ [RemovalNext]_removalVars => TypeInv'
  BY TypeStep
<1> QED BY <1>1, TypeInit, RemovalInvariant, PTL DEF RemovalSpec

\* Every variable keeps to its values; plans are about slots, although a row
\* of the catalog may be without one; what is in a backup was staged, and a
\* loop over targets stays within what its process staged.
THEOREM RemovalTypes == RemovalSpec => []RemovalTypeOK
<1>1. ASSUME RemovalInv, TypeInv PROVE RemovalTypeOK
  <2> USE <1>1 DEF RemovalInv, TypeInv
  <2>1. result \in [Procs -> {"none", "ok", "refused", "incomplete"}]
    <3>1. result = [p \in Procs |-> result[p]]
      BY DEF Shapes
    <3>2. \A p \in Procs : result[p] \in {"none", "ok", "refused", "incomplete"}
      BY DEF PlanTyped
    <3> QED BY <3>1, <3>2
  <2>2. \A p \in Procs, s \in Slots : backup[p][s] # Nothing => s \in staged[p]
    BY DEF ProcInv, Gone
  <2>3. \A p \in Procs : /\ reviewed[p] # NoPlan => PlanOK(reviewed[p])
                         /\ plan[p] # NoPlan => PlanOK(plan[p]) /\ staged[p] \subseteq Targets(p)
                         /\ pc[p] \in {"rollback", "restore", "commit"} => todo[p] \subseteq staged[p]
    BY DEF PlanTyped
  <2> QED BY <2>1, <2>2, <2>3 DEF RemovalTypeOK, FilesTyped, Shapes
<1> QED BY <1>1, RemovalInvariant, TypesHold, PTL

-----------------------------------------------------------------------------
(* Who loses the skill.                                                    *)

\* What the preview found when the removal was applied: the selected agents
\* reach nothing but targets, and every other agent keeps a path.
Effective(p) ==
  /\ \A a \in asked[p].agents : \A s \in Range(Order[a]) \ Targets(p) :
       Resolves(before[p], s) => Final(before[p], s) \in Targets(p)
  /\ \A id \in asked[p].ids : id[1] \notin asked[p].agents =>
       \E s \in Range(Order[id[1]]) : s \in plan[p].keep

\* The removal is verified.
Succeeds(p) == pc[p] = "commit" \/ (pc[p] = "done" /\ result[p] = "ok")

\* The plan is effective until the removal is over, and once it is verified
\* the kept paths resolve as long as nobody else changes the files.
EffectInv(p) ==
  /\ pc[p] \in {"recheck", "stage", "check", "scan"} \/ Succeeds(p) => Effective(p)
  /\ pc[p] = "rescan" => result[p] # "ok"
  /\ quiet[p] /\ Succeeds(p) => \A s \in plan[p].keep : Resolves(fs, s)

\* A plan for an acceptable request is effective.
LEMMA ApplyIsEffective ==
  ASSUME Shapes, NEW p \in Procs, Apply(p), pc'[p] = "recheck"
  PROVE  Effective(p)'
<1> DEFINE targets == TargetsOf(asked[p])
           chosen  == Selected(asked[p])
<1>1. Acceptable(asked[p]) /\ plan'[p] = PlanFor(asked[p]) /\ asked' = asked /\ before'[p] = fs
  BY DEF Apply, Shapes, PerSlot
<1>2. /\ Targets(p)' = DOMAIN targets
      /\ plan'[p].keep = {KeptPath(id, targets) : id \in asked[p].ids \ chosen}
  BY <1>1 DEF Targets, PlanFor
<1>3. asked[p].ids \subseteq Agents \X Slots
  BY DEF Shapes
<1>4. ASSUME NEW a \in asked[p].agents, NEW s \in Range(Order[a]) \ DOMAIN targets, Resolves(fs, s)
      PROVE  Final(fs, s) \in DOMAIN targets
  <2>1. PICK id \in chosen : a = id[1]
    BY <1>1, <1>4 DEF Acceptable
  <2>2. Independent(a, targets) = {}
    BY <1>1, <2>1 DEF Acceptable
  <2> QED BY <1>4, <2>2 DEF Independent
<1>5. ASSUME NEW id \in asked[p].ids, id[1] \notin asked[p].agents
      PROVE  \E s \in Range(Order[id[1]]) : s \in plan'[p].keep
  <2>1. id \in asked[p].ids \ chosen
    BY <1>5 DEF Selected
  <2>2. Independent(id[1], targets) # {}
    BY <1>1, <2>1 DEF Acceptable
  <2>3. KeptPath(id, targets) \in Independent(id[1], targets)
    BY <1>3, <2>1, <2>2, KeptIsFree
  <2>4. KeptPath(id, targets) \in Range(Order[id[1]])
    BY <2>3 DEF Independent
  <2> QED BY <1>2, <2>1, <2>4
<1> HIDE DEF targets, chosen
<1> QED BY <1>1, <1>2, <1>4, <1>5 DEF Effective

\* What Effective says depends on.
LEMMA EffectiveStays ==
  ASSUME NEW p \in Procs, Effective(p), asked'[p] = asked[p], plan'[p] = plan[p],
         before'[p] = before[p]
  PROVE  Effective(p)'
BY DEF Effective, Targets

LEMMA StepEffect ==
  ASSUME Shapes, NEW p \in Procs, EffectInv(p), RemovalStep(p)
  PROVE  EffectInv(p)'
<1> USE DEF Shapes, Goto, End
<1>1. CASE Preview(p)
  <2>1. pc'[p] = "asked"
    BY <1>1 DEF Preview
  <2> QED BY <2>1 DEF EffectInv, Succeeds
<1>2. CASE Apply(p)
  <2>1. pc'[p] = "recheck" \/ (pc'[p] = "done" /\ result'[p] = "refused")
    BY <1>2 DEF Apply
  <2>2. pc'[p] = "recheck" => Effective(p)'
    BY <1>2, ApplyIsEffective
  <2> QED BY <2>1, <2>2 DEF EffectInv, Succeeds
<1>3. CASE ~Preview(p) /\ ~Apply(p)
  <2>1. asked' = asked /\ plan' = plan /\ before' = before
    BY <1>3 DEF RemovalStep, FilesUnchanged, Undisturbed, Recheck, StageMove,
       StageFails, CheckStaged, AllStaged, Scan, ScanFails, Verify, RollbackCheck, Restore,
       RestoreFails, RolledBack, Rescan, RescanEnds, Commit, CommitFails, Committed, Kill
  <2>2. Effective(p) => Effective(p)'
    BY <2>1, EffectiveStays
  <2>3. pc'[p] \in {"recheck", "stage", "check", "scan"}
          => pc[p] \in {"recheck", "stage", "check", "scan"}
    BY <1>3 DEF RemovalStep, Recheck, Refuse, StartRollback, StageMove,
       StageFails, CheckStaged, AllStaged, Scan, ScanFails, Verify, RollbackCheck, Restore,
       RestoreFails, RolledBack, Rescan, RescanEnds, Commit, CommitFails, Committed, Kill
  <2>4. Succeeds(p)' =>
          \/ pc[p] = "scan" /\ Verified(p) /\ fs' = fs
          \/ pc[p] = "commit" /\ fs' = fs /\ quiet' = quiet
    BY <1>3 DEF Succeeds, EffectInv, RemovalStep, FilesUnchanged, Undisturbed, Recheck, Refuse,
       StartRollback, StageMove,
       StageFails, CheckStaged, AllStaged, Scan, ScanFails, Verify, RollbackCheck, Restore,
       RestoreFails, RolledBack, Rescan, RescanEnds, Commit, CommitFails, Committed, Kill
  <2>5. pc'[p] = "rescan" => result'[p] # "ok"
    BY <1>3 DEF EffectInv, RemovalStep, Recheck, Refuse,
       StartRollback, StageMove,
       StageFails, CheckStaged, AllStaged, Scan, ScanFails, Verify, RollbackCheck, Restore,
       RestoreFails, RolledBack, Rescan, RescanEnds, Commit, CommitFails, Committed, Kill
  <2>6. quiet'[p] /\ Succeeds(p)' => \A s \in plan'[p].keep : Resolves(fs', s)
    BY <2>1, <2>4 DEF EffectInv, Succeeds, Verified
  <2>7. Succeeds(p)' => Effective(p)'
    BY <2>2, <2>4 DEF EffectInv, Succeeds
  <2> QED BY <2>2, <2>3, <2>5, <2>6, <2>7 DEF EffectInv
<1> QED BY <1>1, <1>2, <1>3

LEMMA OthersKeepEffect ==
  ASSUME NEW q \in Procs, EffectInv(q), Same(q), Calm(q), asked'[q] = asked[q]
  PROVE  EffectInv(q)'
<1>1. Effective(q) => Effective(q)'
  BY EffectiveStays DEF Same
<1>2. Succeeds(q)' <=> Succeeds(q)
  BY DEF Succeeds, Same
<1> QED BY <1>1, <1>2 DEF EffectInv, Same, Calm

LEMMA AskedIsOwn ==
  ASSUME Shapes, NEW p \in Procs, RemovalStep(p), NEW q \in Procs, q # p
  PROVE  asked'[q] = asked[q]
<1>1. CASE Preview(p)
  BY <1>1 DEF Preview, Shapes
<1>2. CASE ~Preview(p)
  BY <1>2 DEF RemovalStep, Apply, Recheck, StageMove,
     StageFails, CheckStaged, AllStaged, Scan, ScanFails, Verify, RollbackCheck, Restore,
     RestoreFails, RolledBack, Rescan, RescanEnds, Commit, CommitFails, Committed, Kill
<1> QED BY <1>1, <1>2

LEMMA EffectStep ==
  ASSUME RemovalInv, \A p \in Procs : EffectInv(p), [RemovalNext]_removalVars
  PROVE  (\A p \in Procs : EffectInv(p))'
<1>1. ASSUME NEW p \in Procs, RemovalStep(p), NEW q \in Procs PROVE EffectInv(q)'
  <2>1. CASE q = p
    BY <1>1, <2>1, StepEffect DEF RemovalInv
  <2>2. CASE q # p
    <3>1. Same(q) /\ Calm(q) /\ asked'[q] = asked[q]
      BY <1>1, <2>2, StepIsOwn, AskedIsOwn DEF RemovalInv
    <3> QED BY <3>1, OthersKeepEffect
  <2> QED BY <2>1, <2>2
<1>2. ASSUME \/ \E s \in Slots : \E entry : Edit(s, entry)
             \/ \E a : OtherScan(a),
             NEW q \in Procs
      PROVE  EffectInv(q)'
  <2>1. Same(q) /\ Calm(q)
    BY <1>2, OutsideKeeps DEF RemovalInv
  <2>2. asked'[q] = asked[q]
    BY <1>2 DEF Edit, OtherScan, OutsideOnly
  <2> QED BY <2>1, <2>2, OthersKeepEffect
<1>3. ASSUME UNCHANGED removalVars, NEW q \in Procs PROVE EffectInv(q)'
  <2>1. Same(q) /\ Calm(q) /\ asked'[q] = asked[q]
    BY <1>3 DEF removalVars, Same, Calm
  <2> QED BY <2>1, OthersKeepEffect
<1> QED BY <1>1, <1>2, <1>3 DEF RemovalNext

LEMMA EffectHolds == RemovalSpec => [](\A p \in Procs : EffectInv(p))
<1> DEFINE Inv == \A p \in Procs : EffectInv(p)
<1>1. RemovalInit => Inv
  BY DEF RemovalInit, EffectInv, Succeeds
<1>2. RemovalInv /\ Inv /\ [RemovalNext]_removalVars => Inv'
  BY EffectStep
<1> HIDE DEF Inv
<1>3. RemovalSpec => []Inv
  BY <1>1, <1>2, RemovalInvariant, PTL DEF RemovalSpec
<1> QED BY <1>3 DEF Inv

\* When an undisturbed removal succeeds, the selected agents find the skill
\* nowhere, whatever links lead to what was removed, and the others still
\* find it (validate_selected_targets_are_effective,
\* validate_and_collect_preserved_paths, verify_physical_remove_postcondition).
THEOREM SelectedLoseIt == RemovalSpec => []OnlySelectedLoseIt
<1>1. ASSUME RemovalInv, TypeInv, \A p \in Procs : EffectInv(p) PROVE OnlySelectedLoseIt
  <2> SUFFICES ASSUME NEW p \in Procs, pc[p] = "done", quiet[p], result[p] = "ok"
               PROVE  /\ \A a \in asked[p].agents : \A s \in Range(Order[a]) : ~Resolves(fs, s)
                      /\ \A id \in asked[p].ids : id[1] \notin asked[p].agents =>
                           \E s \in Range(Order[id[1]]) : Resolves(fs, s)
    BY DEF OnlySelectedLoseIt
  <2>1. Effective(p) /\ \A s \in plan[p].keep : Resolves(fs, s)
    BY <1>1 DEF EffectInv, Succeeds
  <2>2. AllButTargets(p)
    BY <1>1 DEF RemovalInv, CalmInv
  <2>3. fs \in [Slots -> Entries] /\ before[p] \in [Slots -> Entries]
    BY <1>1 DEF TypeInv, FilesTyped
  <2> DEFINE T == Targets(p) \cap Slots
  <2>4. Without(fs, before[p], T)
    BY <2>2 DEF AllButTargets, Without
  <2>5. asked[p].agents \subseteq Agents
    BY <1>1 DEF RemovalInv, Shapes
  <2>6. ASSUME NEW a \in asked[p].agents, NEW s \in Range(Order[a]) PROVE ~Resolves(fs, s)
    <3> SUFFICES ASSUME Resolves(fs, s) PROVE FALSE
      OBVIOUS
    <3>1. s \in Slots
      BY <2>5 DEF Range
    <3> HIDE DEF T
    <3>2. Final(fs, s) = Final(before[p], s) /\ Final(fs, s) \in Slots \ T
      BY <2>3, <2>4, <3>1, FewerResolve DEF T
    <3>3. Resolves(before[p], s) /\ Final(before[p], s) \notin Targets(p)
      BY <3>2 DEF Resolves, T
    <3>4. s \in Targets(p)
      BY <2>1, <3>3 DEF Effective
    <3>5. fs[s] = Nothing
      BY <2>2, <3>1, <3>4 DEF AllButTargets
    <3> QED BY <3>5, NothingResolvesNot
  <2>7. ASSUME NEW id \in asked[p].ids, id[1] \notin asked[p].agents
        PROVE  \E s \in Range(Order[id[1]]) : Resolves(fs, s)
    BY <2>1, <2>7 DEF Effective
  <2> QED BY <2>6, <2>7
<1> QED BY <1>1, RemovalInvariant, TypesHold, EffectHolds, PTL
=============================================================================
