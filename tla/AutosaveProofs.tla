--------------------------- MODULE AutosaveProofs ---------------------------
(***************************************************************************)
(* Proofs about the two parts every autosave goes through.  The mutation   *)
(* lane's safety, for every set of operations: one operation inside, no    *)
(* waiter lost, no token left, no cancelled operation begun.  And the      *)
(* coordinator's invariants, for every set of values and flushing tasks    *)
(* and any number of revisions, with its implementation of LatestSlot.     *)
(***************************************************************************)
EXTENDS AutosaveLane, RevisionAutosave, SequenceTheorems, TLAPS

-----------------------------------------------------------------------------
(* The lane.                                                               *)

\* The parts need each other: that a hand-over lets only one in needs the
\* queue to hold only suspended operations, that a cancelled one is refused
\* needs the token sets to hold only new ones.
LaneInv == LaneTypeOK /\ OneInside /\ NoLostWaiter /\ NoLeftToken /\ CancelIsFinal

USE OpsAssumption

\* A queue in which no operation occurs twice.
Distinct(s) == \A i, j \in 1..Len(s) : s[i] = s[j] => i = j

-----------------------------------------------------------------------------
(* What the queue operations do to the set of waiters.                     *)

\* Append adds its element and keeps the queue free of repetitions.
LEMMA AppendWaiter ==
  ASSUME NEW s \in Seq(Ops), NEW t \in Ops, Distinct(s), t \notin ToSet(s)
  PROVE  /\ Append(s, t) \in Seq(Ops)
         /\ ToSet(Append(s, t)) = ToSet(s) \cup {t}
         /\ Distinct(Append(s, t))
         /\ Append(s, t) # <<>>
BY DEF ToSet, Distinct

\* RemoveAt drops one position and keeps the order of the others.
LEMMA RemoveAtElements ==
  ASSUME NEW s \in Seq(Ops), NEW i \in 1..Len(s)
  PROVE  /\ RemoveAt(s, i) \in Seq(Ops)
         /\ Len(RemoveAt(s, i)) = Len(s) - 1
         /\ \A j \in 1..(Len(s) - 1) :
              RemoveAt(s, i)[j] = IF j < i THEN s[j] ELSE s[j + 1]
<1> DEFINE a == SubSeq(s, 1, i - 1)
           b == SubSeq(s, i + 1, Len(s))
<1>1. /\ a \in Seq(Ops) /\ Len(a) = i - 1
      /\ \A j \in 1..(i - 1) : a[j] = s[j]
  OBVIOUS
<1>2. /\ b \in Seq(Ops) /\ Len(b) = Len(s) - i
      /\ \A j \in 1..(Len(s) - i) : b[j] = s[i + j]
  OBVIOUS
<1>3. RemoveAt(s, i) = a \o b
  BY DEF RemoveAt
<1>4. /\ a \o b \in Seq(Ops) /\ Len(a \o b) = Len(s) - 1
      /\ \A j \in 1..(Len(s) - 1) :
           (a \o b)[j] = IF j <= i - 1 THEN a[j] ELSE b[j - (i - 1)]
  <2> HIDE DEF a, b
  <2>1. /\ a \o b \in Seq(Ops) /\ Len(a \o b) = Len(a) + Len(b)
        /\ \A j \in 1..(Len(a) + Len(b)) :
             (a \o b)[j] = IF j <= Len(a) THEN a[j] ELSE b[j - Len(a)]
    BY <1>1, <1>2, ConcatProperties
  <2>2. Len(a) = i - 1 /\ Len(a) + Len(b) = Len(s) - 1
    BY <1>1, <1>2
  <2> QED BY <2>1, <2>2
<1>5. ASSUME NEW j \in 1..(Len(s) - 1)
      PROVE  (a \o b)[j] = IF j < i THEN s[j] ELSE s[j + 1]
  <2> HIDE DEF a, b
  <2>1. CASE j < i
    BY <1>1, <1>4, <2>1
  <2>2. CASE ~(j < i)
    <3>1. j - (i - 1) \in 1..(Len(s) - i) /\ i + (j - (i - 1)) = j + 1
      BY <2>2
    <3>2. (a \o b)[j] = b[j - (i - 1)]
      BY <1>4, <2>2
    <3> QED BY <1>2, <2>2, <3>1, <3>2
  <2> QED BY <2>1, <2>2
<1> HIDE DEF a, b
<1> QED BY <1>3, <1>4, <1>5

\* Without repetitions, RemoveAt removes exactly its operation from the set.
LEMMA RemoveWaiter ==
  ASSUME NEW s \in Seq(Ops), NEW i \in 1..Len(s), Distinct(s)
  PROVE  /\ RemoveAt(s, i) \in Seq(Ops)
         /\ ToSet(RemoveAt(s, i)) = ToSet(s) \ {s[i]}
         /\ Distinct(RemoveAt(s, i))
<1> DEFINE r == RemoveAt(s, i)
<1>1. /\ r \in Seq(Ops) /\ Len(r) = Len(s) - 1
      /\ \A j \in 1..Len(r) : r[j] = IF j < i THEN s[j] ELSE s[j + 1]
  BY RemoveAtElements
<1> HIDE DEF r
<1>2. Distinct(r)
  BY <1>1 DEF Distinct
<1>3. ASSUME NEW x \in ToSet(r) PROVE x \in ToSet(s) \ {s[i]}
  BY <1>1 DEF ToSet, Distinct
<1>4. ASSUME NEW x \in ToSet(s) \ {s[i]} PROVE x \in ToSet(r)
  <2> PICK k \in 1..Len(s) : s[k] = x BY DEF ToSet
  <2>1. CASE k < i
    BY <1>1, <2>1 DEF ToSet
  <2>2. CASE k > i
    <3>1. k - 1 \in 1..Len(r) /\ r[k - 1] = x
      BY <1>1, <2>2
    <3> QED BY <1>1, <3>1 DEF ToSet
  <2> QED BY <2>1, <2>2
<1> QED BY <1>1, <1>2, <1>3, <1>4 DEF r

\* Tail removes exactly the head.
LEMMA TailWaiter ==
  ASSUME NEW s \in Seq(Ops), s # <<>>, Distinct(s)
  PROVE  /\ Tail(s) \in Seq(Ops) /\ Head(s) \in Ops
         /\ Head(s) \in ToSet(s)
         /\ ToSet(Tail(s)) = ToSet(s) \ {Head(s)}
         /\ Distinct(Tail(s))
<1>1. /\ Tail(s) \in Seq(Ops) /\ Len(Tail(s)) = Len(s) - 1 /\ Head(s) = s[1]
      /\ \A j \in 1..Len(Tail(s)) : Tail(s)[j] = s[j + 1]
      /\ 1 \in 1..Len(s)
  BY HeadTailProperties
<1>2. Distinct(Tail(s))
  BY <1>1 DEF Distinct
<1>3. ASSUME NEW x \in ToSet(Tail(s)) PROVE x \in ToSet(s) \ {Head(s)}
  BY <1>1 DEF ToSet, Distinct
<1>4. ASSUME NEW x \in ToSet(s) \ {Head(s)} PROVE x \in ToSet(Tail(s))
  <2> PICK k \in 1..Len(s) : s[k] = x BY DEF ToSet
  <2>1. k # 1
    BY <1>1
  <2>2. k - 1 \in 1..Len(Tail(s)) /\ (k - 1) + 1 = k
    BY <1>1, <2>1
  <2>3. Tail(s)[k - 1] = x
    BY <1>1, <2>2
  <2>4. k - 1 \in DOMAIN Tail(s)
    BY <1>1, <2>2
  <2> QED BY <2>3, <2>4 DEF ToSet
<1>5. Head(s) \in ToSet(s) /\ Head(s) \in Ops
  BY <1>1 DEF ToSet
<1> QED BY <1>1, <1>2, <1>3, <1>4, <1>5
-----------------------------------------------------------------------------
(* The invariant.                                                          *)

\* The initial state.
LEMMA LaneInitial == LaneInit => LaneInv
<1> SUFFICES ASSUME LaneInit PROVE LaneInv
  OBVIOUS
<1> USE DEF LaneInit
<1>1. LaneTypeOK
  <2>1. waiters \in Seq(Ops) BY EmptySeq
  <2>2. state \in [Ops -> States] BY DEF States
  <2> QED BY <2>1, <2>2 DEF LaneTypeOK
<1>2. OneInside BY DEF OneInside, Inside
<1>3. NoLostWaiter
  <2>1. ToSet(waiters) = {} BY DEF ToSet
  <2>2. Len(waiters) = 0 OBVIOUS
  <2> QED BY <2>1, <2>2 DEF NoLostWaiter
<1>4. NoLeftToken BY DEF NoLeftToken
<1>5. CancelIsFinal BY DEF CancelIsFinal
<1> QED BY <1>1, <1>2, <1>3, <1>4, <1>5 DEF LaneInv

\* register: only a new operation enters registeredTokens.
LEMMA RegisterKeeps ==
  ASSUME LaneInv, NEW t \in Ops, Register(t)
  PROVE  LaneInv'
<1> USE DEF LaneInv
<1>1. LaneTypeOK' BY DEF Register, LaneTypeOK
<1>2. OneInside' BY DEF Register, OneInside, Inside
<1>3. NoLostWaiter' BY DEF Register, NoLostWaiter
<1>4. NoLeftToken' BY DEF Register, NoLeftToken
<1>5. CancelIsFinal' BY DEF Register, CancelIsFinal, Refuses
<1> QED BY <1>1, <1>2, <1>3, <1>4, <1>5

\* A new operation that gives up leaves the queue and the owner alone.
LEMMA GiveUpKeeps ==
  ASSUME LaneInv, NEW t \in Ops, GiveUp(t)
  PROVE  LaneInv'
<1> USE DEF LaneInv
<1>0. state \in [Ops -> States] BY DEF LaneTypeOK
<1>1. LaneTypeOK' BY DEF GiveUp, LaneTypeOK, States
<1>2. OneInside' BY <1>0 DEF GiveUp, OneInside, Inside, LaneTypeOK
<1>3. NoLostWaiter' BY <1>0 DEF GiveUp, NoLostWaiter
<1>4. NoLeftToken' BY <1>0 DEF GiveUp, NoLeftToken
<1>5. CancelIsFinal' BY <1>0 DEF GiveUp, CancelIsFinal, Refuses, LaneTypeOK
<1> QED BY <1>1, <1>2, <1>3, <1>4, <1>5

\* An operation enters a lane that is free.
LEMMA EnterKeeps ==
  ASSUME LaneInv, NEW t \in Ops, Enter(t)
  PROVE  LaneInv'
<1> USE DEF LaneInv
<1>0. state \in [Ops -> States] BY DEF LaneTypeOK
<1>1. LaneTypeOK' BY DEF Enter, LaneTypeOK, States, TokenOf
<1>2. OneInside' BY <1>0 DEF Enter, OneInside, Inside, TokenOf, LaneTypeOK
<1>3. NoLostWaiter' BY <1>0 DEF Enter, NoLostWaiter
<1>4. NoLeftToken' BY <1>0 DEF Enter, NoLeftToken, Refuses
<1>5. CancelIsFinal' BY <1>0 DEF Enter, CancelIsFinal, Refuses, LaneTypeOK
<1> QED BY <1>1, <1>2, <1>3, <1>4, <1>5

\* An operation waits behind an occupied lane.
LEMMA EnqueueKeeps ==
  ASSUME LaneInv, NEW t \in Ops, Enqueue(t)
  PROVE  LaneInv'
<1> USE DEF LaneInv
<1>0. state \in [Ops -> States] /\ waiters \in Seq(Ops) BY DEF LaneTypeOK
<1>a. Distinct(waiters) /\ t \notin ToSet(waiters)
  BY DEF NoLostWaiter, Distinct, Enqueue
<1>b. /\ waiters' \in Seq(Ops) /\ Distinct(waiters')
      /\ ToSet(waiters') = ToSet(waiters) \cup {t}
  BY <1>0, <1>a, AppendWaiter DEF Enqueue
<1>1. LaneTypeOK' BY <1>b DEF Enqueue, LaneTypeOK, States
<1>2. OneInside' BY <1>0 DEF Enqueue, OneInside, Inside, LaneTypeOK
<1>3. NoLostWaiter'
  BY <1>0, <1>b DEF Enqueue, NoLostWaiter, Distinct, Refuses
<1>4. NoLeftToken' BY <1>0 DEF Enqueue, NoLeftToken, Refuses
<1>5. CancelIsFinal' BY <1>0 DEF Enqueue, CancelIsFinal, Refuses, LaneTypeOK
<1> QED BY <1>1, <1>2, <1>3, <1>4, <1>5

\* A resumed operation starts, or returns without having started.
LEMMA ResumeKeeps ==
  ASSUME LaneInv, NEW t \in Ops, Begin(t) \/ Return(t)
  PROVE  LaneInv'
<1> USE DEF LaneInv
<1>0. state \in [Ops -> States] BY DEF LaneTypeOK
<1>1. LaneTypeOK' BY DEF Begin, Return, LaneTypeOK, States
<1>2. OneInside' BY <1>0 DEF Begin, Return, OneInside, Inside, LaneTypeOK
<1>3. NoLostWaiter' BY <1>0 DEF Begin, Return, NoLostWaiter
<1>4. NoLeftToken' BY <1>0 DEF Begin, Return, NoLeftToken
<1>5. CancelIsFinal'
  BY <1>0 DEF Begin, Return, CancelIsFinal, Refuses, LaneTypeOK
<1> QED BY <1>1, <1>2, <1>3, <1>4, <1>5

\* The owner ends: the lane is freed or handed to the first waiter.
LEMMA LaneFinishKeeps ==
  ASSUME LaneInv, NEW t \in Ops, Finish(t)
  PROVE  LaneInv'
<1> USE DEF LaneInv
<1>0. state \in [Ops -> States] /\ waiters \in Seq(Ops) BY DEF LaneTypeOK
<1>a. UNCHANGED <<shut, registered, cancelled, stopped, hooks, promised>>
      /\ state[t] = "running"
  BY DEF Finish
<1>b. \A u \in Ops : Inside(u) => u = t
  BY <1>a DEF OneInside, Inside
<1>1. CASE shut \/ waiters = <<>>
  <2>0. /\ occupied' = FALSE /\ owner' = NoOp /\ waiters' = waiters
        /\ state' = [state EXCEPT ![t] = "done"]
    BY <1>1 DEF Finish, Release
  <2>1. LaneTypeOK' BY <1>a, <2>0 DEF LaneTypeOK, States
  <2>2. OneInside' BY <1>0, <1>b, <2>0 DEF OneInside, Inside
  <2>3. NoLostWaiter' BY <1>0, <1>1, <1>a, <2>0 DEF NoLostWaiter
  <2>4. NoLeftToken' BY <1>0, <1>a, <2>0 DEF NoLeftToken
  <2>5. CancelIsFinal' BY <1>0, <1>a, <2>0 DEF CancelIsFinal, Refuses, LaneTypeOK
  <2> QED BY <2>1, <2>2, <2>3, <2>4, <2>5
<1>2. CASE ~(shut \/ waiters = <<>>)
  <2> DEFINE h == Head(waiters)
  <2>a. Distinct(waiters) BY DEF NoLostWaiter, Distinct
  <2>b. /\ h \in Ops /\ h \in ToSet(waiters)
        /\ Tail(waiters) \in Seq(Ops) /\ Distinct(Tail(waiters))
        /\ ToSet(Tail(waiters)) = ToSet(waiters) \ {h}
    BY <1>0, <1>2, <2>a, TailWaiter
  <2>c. state[h] = "waiting" /\ h # t
    BY <1>a, <2>b DEF NoLostWaiter
  <2>d. /\ occupied' = occupied /\ owner' = TokenOf(h)
        /\ waiters' = Tail(waiters)
        /\ state' = [state EXCEPT ![t] = "done", ![h] = "granted"]
    BY <1>2 DEF Finish, Release
  <2> HIDE DEF h
  <2>e. \A u \in Ops : state'[u] = IF u = h THEN "granted"
                                   ELSE IF u = t THEN "done" ELSE state[u]
    BY <1>0, <2>b, <2>c, <2>d
  <2>1. LaneTypeOK' BY <1>a, <2>b, <2>d DEF LaneTypeOK, States, TokenOf
  <2>2. OneInside'
    <3>1. \A u \in Ops : Inside(u)' <=> u = h
      BY <1>b, <2>b, <2>e DEF Inside
    <3>2. occupied' = TRUE
      BY <1>a, <2>d DEF OneInside, Inside, LaneTypeOK
    <3> QED BY <2>b, <2>d, <3>1, <3>2 DEF OneInside, TokenOf
  <2>3. NoLostWaiter'
    <3>1. ToSet(waiters') = {u \in Ops : state'[u] = "waiting"}
      <4>1. \A u \in Ops : state'[u] = "waiting" <=> state[u] = "waiting" /\ u # h
        BY <1>a, <2>c, <2>e
      <4>2. ToSet(waiters) = {u \in Ops : state[u] = "waiting"}
        BY DEF NoLostWaiter
      <4> QED BY <2>b, <2>d, <4>1, <4>2
    <3>2. occupied' /\ ~shut'
      BY <1>2, <1>a, <2>d DEF NoLostWaiter
    <3> QED BY <2>b, <2>d, <3>1, <3>2 DEF NoLostWaiter, Distinct
  <2>4. NoLeftToken' BY <1>a, <2>c, <2>e DEF NoLeftToken, LaneTypeOK
  <2>5. CancelIsFinal'
    BY <1>a, <2>c, <2>e DEF CancelIsFinal, Refuses, LaneTypeOK
  <2> QED BY <2>1, <2>2, <2>3, <2>4, <2>5
<1> QED BY <1>1, <1>2

\* cancelQueued: the operation is taken out of the queue or of the registered
\* tokens; it has not begun and will not.
LEMMA CancelKeeps ==
  ASSUME LaneInv, NEW t \in Ops, CancelQueued(t), hooks' \subseteq hooks
  PROVE  LaneInv'
<1> USE DEF LaneInv
<1>0. state \in [Ops -> States] /\ waiters \in Seq(Ops) /\ Distinct(waiters)
  BY DEF LaneTypeOK, NoLostWaiter, Distinct
<1>a. /\ t \in Tracked /\ ~shut /\ owner # t /\ cancelled' = cancelled \cup {t}
      /\ promised' = promised \cup {t}
      /\ UNCHANGED <<occupied, shut, owner, stopped>>
  BY DEF CancelQueued, CanCancel
<1>1. CASE Unqueue(t)
  <2> PICK i \in 1..Len(waiters) :
             waiters[i] = t /\ waiters' = RemoveAt(waiters, i)
    BY <1>1 DEF Unqueue
  <2>a. state' = [state EXCEPT ![t] = "refused"] /\ registered' = registered
    BY <1>1 DEF Unqueue
  <2>b. /\ waiters' \in Seq(Ops) /\ Distinct(waiters')
        /\ ToSet(waiters') = ToSet(waiters) \ {t}
    BY <1>0, RemoveWaiter
  <2>c. state[t] = "waiting"
    BY <1>0 DEF NoLostWaiter, ToSet
  <2>1. LaneTypeOK' BY <1>a, <2>a, <2>b DEF LaneTypeOK, States
  <2>2. OneInside' BY <1>0, <1>a, <2>a, <2>c DEF OneInside, Inside, LaneTypeOK
  <2>3. NoLostWaiter'
    <3>1. ToSet(waiters') = {u \in Ops : state'[u] = "waiting"}
      BY <1>0, <2>a, <2>b DEF NoLostWaiter
    <3>2. waiters # <<>>
      BY <1>0
    <3> QED BY <1>a, <2>b, <3>1, <3>2 DEF NoLostWaiter, Distinct
  <2>4. NoLeftToken' BY <1>0, <1>a, <2>a, <2>c DEF NoLeftToken
  <2>5. CancelIsFinal'
    BY <1>0, <1>a, <2>a DEF CancelIsFinal, Refuses, LaneTypeOK
  <2> QED BY <2>1, <2>2, <2>3, <2>4, <2>5
<1>2. CASE Deregister(t)
  <2>a. t \in registered /\ registered' = registered \ {t}
        /\ UNCHANGED <<waiters, state>>
    BY <1>2 DEF Deregister
  <2>b. state[t] = "new" BY <2>a DEF NoLeftToken
  <2>1. LaneTypeOK' BY <1>a, <2>a DEF LaneTypeOK
  <2>2. OneInside' BY <1>a, <2>a DEF OneInside, Inside
  <2>3. NoLostWaiter' BY <1>a, <2>a DEF NoLostWaiter
  <2>4. NoLeftToken' BY <1>a, <2>a, <2>b DEF NoLeftToken
  <2>5. CancelIsFinal' BY <1>a, <2>a, <2>b DEF CancelIsFinal, Refuses
  <2> QED BY <2>1, <2>2, <2>3, <2>4, <2>5
<1> QED BY <1>1, <1>2 DEF CancelQueued

\* A task is cancelled, or a late handler finds nothing to cancel.
LEMMA StopKeeps ==
  ASSUME LaneInv, NEW t \in Ops,
         StopTask(t) \/ (RunHook(t) /\ UNCHANGED <<occupied, shut, waiters, owner,
                            registered, cancelled, state, stopped, promised>>)
  PROVE  LaneInv'
<1> USE DEF LaneInv, StopTask, RunHook
<1>1. LaneTypeOK' BY DEF LaneTypeOK
<1>2. OneInside' BY DEF OneInside, Inside
<1>3. NoLostWaiter' BY DEF NoLostWaiter
<1>4. NoLeftToken' BY DEF NoLeftToken
<1>5. CancelIsFinal' BY DEF CancelIsFinal, Refuses
<1> QED BY <1>1, <1>2, <1>3, <1>4, <1>5

\* shutdown resumes all waiters as refused.
LEMMA ShutdownKeeps ==
  ASSUME LaneInv, Shutdown
  PROVE  LaneInv'
<1> USE DEF LaneInv
<1>0. state \in [Ops -> States] BY DEF LaneTypeOK
<1>a. \A t \in Ops : state'[t] = IF state[t] = "waiting" THEN "refused" ELSE state[t]
  BY DEF Shutdown
<1>1. LaneTypeOK' BY <1>0, <1>a DEF Shutdown, LaneTypeOK, States
<1>2. OneInside'
  <2>1. \A t \in Ops : Inside(t)' <=> Inside(t) BY <1>a DEF Inside
  <2>2. owner # NoOp => owner \in Ops BY DEF LaneTypeOK
  <2> QED BY <2>1, <2>2 DEF Shutdown, OneInside
<1>3. NoLostWaiter'
  <2>1. ToSet(waiters') = {} /\ waiters' = <<>> BY DEF Shutdown, ToSet
  <2> QED BY <1>a, <2>1 DEF NoLostWaiter
<1>4. NoLeftToken' BY DEF Shutdown, NoLeftToken
<1>5. CancelIsFinal' BY <1>a DEF Shutdown, CancelIsFinal, Refuses, LaneTypeOK
<1> QED BY <1>1, <1>2, <1>3, <1>4, <1>5

\* Every step keeps the invariant.
LEMMA LaneStepKeeps == LaneInv /\ [LaneNext]_laneVars => LaneInv'
<1> SUFFICES ASSUME LaneInv, [LaneNext]_laneVars PROVE LaneInv'
  OBVIOUS
<1>1. CASE UNCHANGED laneVars
  BY <1>1 DEF laneVars, LaneInv, LaneTypeOK, OneInside, NoLostWaiter,
     NoLeftToken, CancelIsFinal, Inside, Refuses
<1>2. ASSUME NEW t \in Ops, Perform(t) \/ LaneStep(t) PROVE LaneInv'
  BY <1>2, GiveUpKeeps, EnterKeeps, EnqueueKeeps, ResumeKeeps, LaneFinishKeeps
     DEF Perform, LaneStep
<1>3. ASSUME NEW t \in Tracked,
             Register(t) \/ Cancel(t) \/ StopTask(t) \/ RunHook(t)
      PROVE  LaneInv'
  <2>0. t \in Ops OBVIOUS
  <2>1. CASE Register(t) BY <2>0, <2>1, RegisterKeeps
  <2>2. CASE Cancel(t) BY <2>0, <2>2, CancelKeeps DEF Cancel
  <2>3. CASE StopTask(t) BY <2>0, <2>3, StopKeeps
  <2>4. CASE RunHook(t) BY <2>0, <2>4, StopKeeps, CancelKeeps DEF RunHook
  <2> QED BY <1>3, <2>1, <2>2, <2>3, <2>4
<1>4. CASE Shutdown BY <1>4, ShutdownKeeps
<1> QED BY <1>1, <1>2, <1>3, <1>4 DEF LaneNext

\* The lane's invariant holds in every behaviour.
THEOREM LaneInvariant == LaneSpec => []LaneInv
BY LaneInitial, LaneStepKeeps, PTL DEF LaneSpec

\* The lane is well typed for any set of operations.
THEOREM LaneTypes == LaneSpec => []LaneTypeOK
BY LaneInvariant, PTL DEF LaneInv

\* The lane (perform, acquire, release, cancelQueued, shutdown) is safe for any
\* number of operations.
THEOREM LaneIsSafe == LaneSpec => []LaneSafe
BY LaneInvariant, PTL DEF LaneInv, LaneSafe

\* Mutual exclusion: perform never lets two operations into the lane, also
\* while it is handed over, cancelled in or shut down.
THEOREM LaneExcludes == LaneSpec => []OneInside
BY LaneInvariant, PTL DEF LaneInv

\* Every suspended operation is in the queue, once, behind an operation that
\* will wake the first of them.
THEOREM WaitersKept == LaneSpec => []NoLostWaiter
BY LaneInvariant, PTL DEF LaneInv

\* registeredTokens and cancelledTokens hold only operations still to come.
THEOREM TokensConsumed == LaneSpec => []NoLeftToken
BY LaneInvariant, PTL DEF LaneInv

\* An operation for which cancelQueued answered true never begins.
THEOREM CancelledNeverBegins == LaneSpec => []CancelIsFinal
BY LaneInvariant, PTL DEF LaneInv

\* An operation gets in when the lane is free, and then nobody waits, or as
\* the first of the queue.
LEMMA FirstGetsIn ==
  ASSUME LaneInv, LaneNext, NEW t \in Ops, Inside(t)', ~Inside(t)
  PROVE  waiters = <<>> \/ (waiters # <<>> /\ t = Head(waiters))
<1> USE DEF Inside
<1>1. ASSUME NEW x \in Ops, Enter(x)
      PROVE  waiters = <<>>
  BY <1>1 DEF Enter, LaneInv, NoLostWaiter
<1>2. ASSUME NEW x \in Ops, Finish(x)
      PROVE  waiters # <<>> /\ t = Head(waiters)
  <2>1. \/ state' = [state EXCEPT ![x] = "done"]
        \/ waiters # <<>> /\ state' = [state EXCEPT ![x] = "done", ![Head(waiters)] = "granted"]
    BY <1>2 DEF Finish, Release
  <2>2. state \in [Ops -> States]
    BY DEF LaneInv, LaneTypeOK
  <2>3. CASE state' = [state EXCEPT ![x] = "done"]
    BY <2>2, <2>3
  <2>4. CASE waiters # <<>> /\ state' = [state EXCEPT ![x] = "done", ![Head(waiters)] = "granted"]
    BY <2>2, <2>4
  <2> QED BY <2>1, <2>3, <2>4
<1>3. ASSUME NEW x \in Ops, GiveUp(x) \/ Enqueue(x) \/ Return(x) PROVE FALSE
  BY <1>3 DEF GiveUp, Enqueue, Return, LaneInv, LaneTypeOK
<1>4. ASSUME NEW x \in Ops, Begin(x) PROVE FALSE
  BY <1>4 DEF Begin, LaneInv, LaneTypeOK
<1>5. ASSUME NEW x \in Tracked, Register(x) \/ StopTask(x) PROVE FALSE
  BY <1>5 DEF Register, StopTask
<1>6. ASSUME NEW x \in Tracked, Cancel(x) \/ RunHook(x) PROVE FALSE
  <2>1. state' = state \/ state' = [state EXCEPT ![x] = "refused"]
    BY <1>6 DEF Cancel, RunHook, CancelQueued, Unqueue, Deregister
  <2> QED BY <2>1 DEF LaneInv, LaneTypeOK
<1>7. ASSUME Shutdown PROVE FALSE
  BY <1>7 DEF Shutdown
<1> QED BY <1>1, <1>2, <1>3, <1>4, <1>5, <1>6, <1>7 DEF LaneNext, Perform, LaneStep

\* First come, first served: nobody gets into the lane ahead of one that was
\* already waiting when it came (acquire, release).
THEOREM FirstComeFirstServed == LaneSpec => NoOvertaking
<1> DEFINE Fair == \A t, u \in Ops :
             Inside(t)' /\ ~Inside(t) /\ u # t /\ WaitsBefore(u, t) => state'[u] # "waiting"
<1>1. LaneInv /\ [LaneNext]_laneVars => [Fair]_laneVars
  <2> SUFFICES ASSUME LaneInv, LaneNext,
                      NEW t \in Ops, NEW u \in Ops, Inside(t)', ~Inside(t), u # t,
                      WaitsBefore(u, t)
               PROVE  FALSE
    OBVIOUS
  <2>1. waiters = <<>> \/ (waiters # <<>> /\ t = Head(waiters))
    BY FirstGetsIn
  <2>2. PICK i \in 1 .. Len(waiters) :
          waiters[i] = u /\ \A j \in 1 .. Len(waiters) : waiters[j] = t => i < j
    BY DEF WaitsBefore
  <2>3. waiters \in Seq(Ops)
    BY DEF LaneInv, LaneTypeOK
  <2>4. waiters # <<>> /\ waiters[1] = t /\ 1 \in 1 .. Len(waiters)
    BY <2>1, <2>2, <2>3
  <2> QED BY <2>2, <2>3, <2>4
<1> QED BY <1>1, LaneInvariant, PTL DEF LaneSpec, NoOvertaking

-----------------------------------------------------------------------------
(* The coordinator.                                                        *)

\* None of the parts is inductive alone: that a start takes the newest
\* revision needs Served, which needs the order and the types.
AutosaveInv == AutosaveTypeOK /\ Served /\ PhaseTruth /\ RevisionsInOrder

USE MaxRevisionAssumption

\* A draft that is not Nothing has a revision and a value.
LEMMA DraftShape ==
  ASSUME NEW d \in Drafts, d.rev # 0
  PROVE  d \in [rev : Nat \ {0}, value : Values]
BY DEF Drafts, Nothing

\* The revision of a draft is a number.
LEMMA DraftRevision ==
  ASSUME NEW d \in Drafts
  PROVE  d.rev \in Nat
BY DEF Drafts, Nothing

\* The phases that the actions publish are phases.
LEMMA PhaseShape ==
  ASSUME NEW r \in Nat
  PROVE  {Idle, Debouncing(r), Saving(r), AfterSave(r), Failed(r)} \subseteq Phases
BY DEF Idle, Debouncing, Saving, AfterSave, Failed, Phases

\* The initial state.
LEMMA AutosaveInitial == AutosaveInit => AutosaveInv
BY DEF AutosaveInit, AutosaveInv, AutosaveTypeOK, Served, PhaseTruth,
       RevisionsInOrder, HasPending, HasActiveSave, Nothing, Drafts, Idle, Phases

\* Every action but the end of a worker and the turns of a flush.
LEMMA EditsKeep ==
  ASSUME AutosaveInv,
         \/ \E v \in Values : SubmitValid(v)
         \/ SubmitInvalid \/ CancelPendingDebounce
  PROVE  AutosaveInv'
<1> USE DEF HasPending, HasActiveSave, Nothing
<1>0. /\ nextRevision \in Nat /\ pending \in Drafts /\ active \in Drafts
      /\ pending.rev \in Nat /\ active.rev \in Nat /\ finished \in Nat
      /\ timer \in Nat
  BY DraftRevision DEF AutosaveInv, AutosaveTypeOK
<1>1. CASE \E v \in Values : SubmitValid(v)
  <2> PICK v \in Values : SubmitValid(v) BY <1>1
  <2>1. pending' \in [rev : Nat \ {0}, value : Values]
        /\ pending'.rev = nextRevision + 1
    BY <1>0 DEF SubmitValid
  <2>2. AutosaveTypeOK'
    BY <1>0, <2>1, PhaseShape DEF SubmitValid, AutosaveInv, AutosaveTypeOK, Drafts
  <2>3. Served' /\ RevisionsInOrder'
    BY <1>0, <2>1 DEF SubmitValid, AutosaveInv, Served, RevisionsInOrder
  <2>4. PhaseTruth'
    BY <1>0, <2>1 DEF SubmitValid, PhaseTruth
  <2> QED BY <2>2, <2>3, <2>4 DEF AutosaveInv
<1>2. CASE SubmitInvalid \/ CancelPendingDebounce
  <2>1. pending' = Nothing /\ timer' = 0 /\ phase' = WithoutPending
        /\ nextRevision' \in {nextRevision, nextRevision + 1}
        /\ UNCHANGED <<active, flushing, finished>>
    BY <1>2 DEF SubmitInvalid, CancelPendingDebounce
  <2>2. AutosaveTypeOK'
    BY <1>0, <2>1, PhaseShape DEF AutosaveInv, AutosaveTypeOK, WithoutPending, Drafts
  <2>3. Served' /\ RevisionsInOrder'
    BY <1>0, <2>1 DEF AutosaveInv, Served, RevisionsInOrder
  <2>4. PhaseTruth'
    BY <1>0, <2>1 DEF PhaseTruth, WithoutPending
  <2> QED BY <2>2, <2>3, <2>4 DEF AutosaveInv
<1> QED BY <1>1, <1>2

\* The start of a worker on a pending draft while none runs.
LEMMA StartKeeps ==
  ASSUME AutosaveInv, HasPending, ~HasActiveSave, StartWorker, timer' = 0,
         UNCHANGED <<nextRevision, finished>>, flushing' \in [Flushers -> Nat]
  PROVE  AutosaveInv'
<1> USE DEF HasPending, HasActiveSave, Nothing
<1>0. /\ nextRevision \in Nat /\ pending \in Drafts /\ active \in Drafts
      /\ pending.rev \in Nat /\ active.rev \in Nat /\ finished \in Nat
  BY DraftRevision DEF AutosaveInv, AutosaveTypeOK
<1>1. AutosaveTypeOK'
  BY <1>0, PhaseShape DEF StartWorker, AutosaveInv, AutosaveTypeOK, Drafts
<1>2. Served' /\ RevisionsInOrder'
  BY <1>0 DEF StartWorker, AutosaveInv, Served, RevisionsInOrder
<1>3. PhaseTruth'
  BY <1>0 DEF StartWorker, PhaseTruth
<1> QED BY <1>1, <1>2, <1>3 DEF AutosaveInv

\* The end of a worker, with any outcome and any new value of the draft.
LEMMA FinishKeeps ==
  ASSUME AutosaveInv, NEW o, NEW v \in Values, WorkerFinished(o, v)
  PROVE  AutosaveInv'
<1> USE DEF HasPending, HasActiveSave, Nothing
<1>0. /\ nextRevision \in Nat /\ pending \in Drafts /\ active \in Drafts
      /\ pending.rev \in Nat /\ active.rev \in Nat /\ finished \in Nat
      /\ timer \in Nat
  BY DraftRevision DEF AutosaveInv, AutosaveTypeOK
<1>1. pending' \in Drafts /\ pending'.rev = pending.rev
  <2>1. CASE pending.rev = 0
    BY <1>0, <2>1 DEF WorkerFinished, UpdatePendingValue
  <2>2. CASE pending.rev # 0
    <3>1. pending \in [rev : Nat \ {0}, value : Values]
      BY <1>0, <2>2, DraftShape
    <3>2. pending' = [pending EXCEPT !.value = v]
      BY <2>2 DEF WorkerFinished, UpdatePendingValue
    <3> QED BY <3>1, <3>2 DEF Drafts
  <2> QED BY <2>1, <2>2
<1>2. AutosaveTypeOK'
  BY <1>0, <1>1, PhaseShape DEF WorkerFinished, AutosaveInv, AutosaveTypeOK, Drafts
<1>3. Served' /\ RevisionsInOrder'
  BY <1>0, <1>1 DEF WorkerFinished, AutosaveInv, Served, RevisionsInOrder
<1>4. PhaseTruth'
  BY <1>0, <1>1 DEF WorkerFinished, PhaseTruth
<1> QED BY <1>2, <1>3, <1>4 DEF AutosaveInv

\* A turn of a flush.
LEMMA FlushKeeps ==
  ASSUME AutosaveInv, NEW f \in Flushers, FlushLoop(f)
  PROVE  AutosaveInv'
<1> USE DEF HasPending, HasActiveSave
<1>0. /\ pending \in Drafts /\ active \in Drafts
      /\ pending.rev \in Nat /\ active.rev \in Nat
      /\ flushing \in [Flushers -> Nat]
  BY DraftRevision DEF AutosaveInv, AutosaveTypeOK
<1>1. flushing' \in [Flushers -> Nat] /\ timer' = 0
      /\ UNCHANGED <<nextRevision, finished>>
  BY <1>0 DEF FlushLoop
<1>2. CASE ~HasActiveSave /\ HasPending
  BY <1>1, <1>2, StartKeeps DEF FlushLoop
<1>3. CASE HasActiveSave \/ ~HasPending
  <2>1. UNCHANGED <<pending, active, phase>>
    BY <1>3 DEF FlushLoop
  <2>2. AutosaveTypeOK'
    BY <1>1, <2>1 DEF AutosaveInv, AutosaveTypeOK
  <2>3. Served' /\ RevisionsInOrder' /\ PhaseTruth'
    BY <1>0, <1>1, <1>3, <2>1 DEF AutosaveInv, Served, RevisionsInOrder, PhaseTruth
  <2> QED BY <2>2, <2>3 DEF AutosaveInv
<1> QED BY <1>2, <1>3

\* Every step of the coordinator keeps the invariant.
LEMMA AutosaveStep == AutosaveInv /\ [AutosaveNext]_autosaveVars => AutosaveInv'
<1> SUFFICES ASSUME AutosaveInv, [AutosaveNext]_autosaveVars PROVE AutosaveInv'
  OBVIOUS
<1>1. CASE UNCHANGED autosaveVars
  BY <1>1 DEF autosaveVars, AutosaveInv, AutosaveTypeOK, Served, PhaseTruth,
     RevisionsInOrder, HasPending, HasActiveSave
<1>2. CASE (\E v \in Values : SubmitValid(v)) \/ SubmitInvalid
           \/ CancelPendingDebounce
  BY <1>2, EditsKeep
<1>3. CASE DebounceElapsed
  <2>1. HasPending /\ ~HasActiveSave /\ StartWorker /\ timer' = 0
        /\ UNCHANGED <<nextRevision, flushing, finished>>
    BY <1>3 DEF DebounceElapsed, HasPending
  <2>2. flushing' \in [Flushers -> Nat]
    BY <2>1 DEF AutosaveInv, AutosaveTypeOK
  <2> QED BY <2>1, <2>2, StartKeeps
<1>4. CASE \E o \in Outcomes, v \in Values : WorkerFinished(o, v)
  BY <1>4, FinishKeeps
<1>5. CASE \E f \in Flushers : Flush(f) \/ FlushResumes(f)
  BY <1>5, FlushKeeps DEF Flush, FlushResumes
<1> QED BY <1>1, <1>2, <1>3, <1>4, <1>5 DEF AutosaveNext

\* The invariant holds in every behaviour of the coordinator.
THEOREM AutosaveInvariant == AutosaveSpec => []AutosaveInv
BY AutosaveInitial, AutosaveStep, PTL DEF AutosaveSpec

\* Every variable keeps to its values: the type invariant of the coordinator
\* (RevisionAutosaveCoordinator) for any values and any number of revisions.
THEOREM AutosaveTypes == AutosaveSpec => []AutosaveTypeOK
BY AutosaveInvariant, PTL DEF AutosaveInv

\* The coordinator (submit, cancelPendingDebounce, flush, workerFinished) is
\* safe for any number of revisions.
THEOREM AutosaveIsSafe == AutosaveSpec => []AutosaveSafe
BY AutosaveInvariant, PTL DEF AutosaveInv, AutosaveSafe

\* No draft is stranded: after submit, cancelPendingDebounce, flush, timers
\* and ends of workers in any order, a pending draft is the newest one and a
\* timer or the running worker will take it.
THEOREM NoDraftStranded == AutosaveSpec => []Served
BY AutosaveInvariant, PTL DEF AutosaveInv

\* The published phase always tells the truth about the coordinator.
THEOREM PhaseIsTrue == AutosaveSpec => []PhaseTruth
BY AutosaveInvariant, PTL DEF AutosaveInv

\* startWorker is called only when no worker runs, and on a revision newer
\* than all that were saved: no draft is saved twice or after a newer one.
THEOREM SavesOnlyNewest == AutosaveSpec => SavesNewest
<1>1. AutosaveInv /\ [AutosaveNext]_autosaveVars
      => [active' # active /\ active'.rev # 0
          => active.rev = 0 /\ active'.rev = nextRevision
             /\ finished < active'.rev]_autosaveVars
  <2> SUFFICES ASSUME AutosaveInv, AutosaveNext,
                      active' # active, active'.rev # 0
               PROVE  active.rev = 0 /\ active'.rev = nextRevision
                      /\ finished < active'.rev
    BY DEF autosaveVars
  <2>1. ~HasActiveSave /\ HasPending /\ active' = pending
    BY DEF AutosaveNext, SubmitValid, SubmitInvalid, CancelPendingDebounce,
       DebounceElapsed, WorkerFinished, Flush, FlushResumes, FlushLoop,
       StartWorker, HasPending, Nothing
  <2> QED BY <2>1 DEF AutosaveInv, Served, RevisionsInOrder, HasPending, HasActiveSave
<1> QED BY <1>1, AutosaveInvariant, PTL DEF AutosaveSpec, SavesNewest

\* The coordinator implements the safety part of LatestSlot: whatever timers,
\* flushes and phases do, each step is a put, a cancel, a take of the newest
\* revision, an end, or no step of the slot.
THEOREM SlotRefinement == AutosaveSpec => SlotSafe
<1>1. AutosaveInit => Slot!Init
  BY DEF AutosaveInit, Slot!Init, Nothing
<1>2. AutosaveInv /\ [AutosaveNext]_autosaveVars => [Slot!Next]_(Slot!svars)
  <2> SUFFICES ASSUME AutosaveInv, AutosaveNext
               PROVE  Slot!Next \/ UNCHANGED Slot!svars
    BY DEF autosaveVars, Slot!svars
  <2> USE DEF HasPending, HasActiveSave, Nothing
  <2>0. /\ nextRevision \in Nat /\ pending \in Drafts /\ active \in Drafts
        /\ pending.rev \in Nat /\ active.rev \in Nat /\ finished \in Nat
    BY DraftRevision DEF AutosaveInv, AutosaveTypeOK
  <2>1. CASE \E v \in Values : SubmitValid(v)
    BY <2>1 DEF SubmitValid, Slot!Next, Slot!Put
  <2>2. CASE SubmitInvalid
    BY <2>2 DEF SubmitInvalid, Slot!Next, Slot!Put
  <2>3. CASE CancelPendingDebounce
    BY <2>3 DEF CancelPendingDebounce, Slot!Next, Slot!Cancel
  <2>4. ASSUME HasPending, ~HasActiveSave, StartWorker,
               UNCHANGED <<nextRevision, finished>>
        PROVE  Slot!Next
    BY <2>0, <2>4 DEF StartWorker, Slot!Next, Slot!Take, AutosaveInv, Served,
       RevisionsInOrder
  <2>5. CASE DebounceElapsed
    BY <2>4, <2>5 DEF DebounceElapsed
  <2>6. CASE \E o \in Outcomes, v \in Values : WorkerFinished(o, v)
    <3> PICK o \in Outcomes, v \in Values : WorkerFinished(o, v) BY <2>6
    <3>1. pending'.rev = pending.rev
      <4>1. CASE pending.rev = 0
        BY <4>1 DEF WorkerFinished, UpdatePendingValue
      <4>2. CASE pending.rev # 0
        BY <2>0, <4>2, DraftShape DEF WorkerFinished, UpdatePendingValue
      <4> QED BY <4>1, <4>2
    <3> QED BY <3>1 DEF WorkerFinished, Slot!Next, Slot!End
  <2>7. CASE \E f \in Flushers : Flush(f) \/ FlushResumes(f)
    BY <2>4, <2>7 DEF Flush, FlushResumes, FlushLoop, Slot!svars
  <2> QED BY <2>1, <2>2, <2>3, <2>5, <2>6, <2>7 DEF AutosaveNext
<1> QED BY <1>1, <1>2, AutosaveInvariant, PTL
        DEF AutosaveSpec, SlotSafe, Slot!Safe
=============================================================================
