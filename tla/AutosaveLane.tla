---------------------------- MODULE AutosaveLane ----------------------------
(***************************************************************************)
(* AutosaveMutationLane (RevisionAutosaveCoordinator.swift): the app runs  *)
(* its config and provider mutations one at a time.  All code runs on the  *)
(* main actor, so an action is the code between two suspensions; a resumed *)
(* continuation runs later, and other actions may come in between.  An     *)
(* operation with a token can be cancelled while it has not begun.         *)
(***************************************************************************)
EXTENDS Naturals, SequencesExt

CONSTANTS Ops,      \* operations, each performed at most once
          Tracked,  \* those with a token; an operation is its own token
          NoOp
ASSUME OpsAssumption == Tracked \subseteq Ops /\ NoOp \notin Ops

VARIABLES
  occupied,    \* isOccupied
  shut,        \* isShutdown
  waiters,     \* the queue
  owner,       \* currentOwnerToken, NoOp for nil
  registered,  \* registeredTokens
  cancelled,   \* cancelledTokens
  state,       \* where each operation is
  stopped,     \* operations whose Swift task was cancelled
  hooks,       \* cancellation handlers that have yet to run
  promised     \* ghost: tokens for which cancelQueued answered true

laneVars == <<occupied, shut, waiters, owner, registered, cancelled, state,
              stopped, hooks, promised>>

States == {"new",       \* perform not called yet
           "waiting",   \* suspended in the queue
           "granted",   \* resumed as the owner, not running yet
           "refused",   \* resumed without the lane
           "running", "done", "cancelled"}
Inside(t) == state[t] \in {"granted", "running"}

\* Every variable keeps to the values the lane can give it.
LaneTypeOK ==
  /\ occupied \in BOOLEAN /\ shut \in BOOLEAN
  /\ waiters \in Seq(Ops)
  /\ owner \in Tracked \cup {NoOp}
  /\ registered \subseteq Tracked
  /\ cancelled \subseteq Tracked
  /\ state \in [Ops -> States]
  /\ stopped \subseteq Tracked /\ hooks \subseteq Tracked
  /\ promised \subseteq Tracked

LaneInit ==
  /\ occupied = FALSE /\ shut = FALSE
  /\ waiters = <<>>
  /\ owner = NoOp
  /\ registered = {} /\ cancelled = {}
  /\ state = [t \in Ops |-> "new"]
  /\ stopped = {} /\ hooks = {} /\ promised = {}

\* Mutant of TokenOf: an operation without a token counts as one with.
TokenAlways(t) == t

\* The token of a waiter, nil for a manual mutation.
TokenOf(t) == IF t \in Tracked THEN t ELSE NoOp

\* register, called before the operation's task is created.
Register(t) ==
  /\ t \in Tracked /\ state[t] = "new"
  /\ ~shut /\ owner # t
  /\ t \notin registered \cup cancelled \cup ToSet(waiters)
  /\ registered' = registered \cup {t}
  /\ UNCHANGED <<occupied, shut, waiters, owner, cancelled, state, stopped,
                 hooks, promised>>

-----------------------------------------------------------------------------
(* perform: acquire, then run or wait or give up.                          *)

\* What acquire finds out before it looks at the lane.
Refuses(t) == shut \/ t \in stopped \/ t \in cancelled

GiveUp(t) ==
  /\ state[t] = "new" /\ t \in Tracked
  /\ Refuses(t)
  /\ registered' = registered \ {t}
  /\ cancelled' = cancelled \ {t}
  /\ state' = [state EXCEPT ![t] = "cancelled"]
  /\ UNCHANGED <<occupied, shut, waiters, owner, stopped, hooks, promised>>

\* An operation without a token must not be performed after the shutdown.
Enter(t) ==
  /\ state[t] = "new" /\ ~Refuses(t)
  /\ ~occupied
  /\ occupied' = TRUE
  /\ owner' = TokenOf(t)
  /\ registered' = registered \ {t}
  /\ state' = [state EXCEPT ![t] = "running"]
  /\ UNCHANGED <<shut, waiters, cancelled, stopped, hooks, promised>>

Enqueue(t) ==
  /\ state[t] = "new" /\ ~Refuses(t)
  /\ occupied
  /\ waiters' = Append(waiters, t)
  /\ registered' = registered \ {t}
  /\ state' = [state EXCEPT ![t] = "waiting"]
  /\ UNCHANGED <<occupied, shut, owner, cancelled, stopped, hooks, promised>>

Perform(t) == GiveUp(t) \/ Enter(t) \/ Enqueue(t)

\* The continuation of a waiter that was made the owner runs.
Begin(t) ==
  /\ state[t] = "granted"
  /\ state' = [state EXCEPT ![t] = "running"]
  /\ UNCHANGED <<occupied, shut, waiters, owner, registered, cancelled,
                 stopped, hooks, promised>>

\* The continuation of a waiter that was refused runs: perform returns.
Return(t) ==
  /\ state[t] = "refused"
  /\ cancelled' = cancelled \ {t}
  /\ state' = [state EXCEPT ![t] = "cancelled"]
  /\ UNCHANGED <<occupied, shut, waiters, owner, registered, stopped, hooks,
                 promised>>

\* Mutants of Release: the lane is marked free while it is handed over; it is
\* marked free and nobody is woken; the last waiter is served first.
ReleaseVacates(t) ==
  /\ occupied' = FALSE
  /\ IF shut \/ waiters = <<>>
     THEN /\ owner' = NoOp
          /\ state' = [state EXCEPT ![t] = "done"]
          /\ UNCHANGED waiters
     ELSE /\ owner' = TokenOf(Head(waiters))
          /\ waiters' = Tail(waiters)
          /\ state' = [state EXCEPT ![t] = "done", ![Head(waiters)] = "granted"]
ReleaseForgets(t) ==
  /\ occupied' = FALSE
  /\ owner' = NoOp
  /\ state' = [state EXCEPT ![t] = "done"]
  /\ UNCHANGED waiters
ReleaseLast(t) ==
  IF shut \/ waiters = <<>>
  THEN /\ occupied' = FALSE
       /\ owner' = NoOp
       /\ state' = [state EXCEPT ![t] = "done"]
       /\ UNCHANGED waiters
  ELSE /\ owner' = TokenOf(Last(waiters))
       /\ waiters' = Front(waiters)
       /\ state' = [state EXCEPT ![t] = "done", ![Last(waiters)] = "granted"]
       /\ UNCHANGED occupied

\* release: the lane goes to the first waiter without ever being free.
Release(t) ==
  \/ /\ shut \/ waiters = <<>>
     /\ occupied' = FALSE
     /\ owner' = NoOp
     /\ state' = [state EXCEPT ![t] = "done"]
     /\ UNCHANGED waiters
  \/ /\ ~shut /\ waiters # <<>>
     /\ owner' = TokenOf(Head(waiters))
     /\ waiters' = Tail(waiters)
     /\ state' = [state EXCEPT ![t] = "done", ![Head(waiters)] = "granted"]
     /\ UNCHANGED occupied

\* The operation returns and its deferred release runs.
Finish(t) ==
  /\ state[t] = "running"
  /\ Release(t)
  /\ UNCHANGED <<shut, registered, cancelled, stopped, hooks, promised>>

-----------------------------------------------------------------------------
(* Cancellation.                                                           *)

\* cancelQueued answers true: the operation has not begun.
CanCancel(t) == /\ ~shut /\ owner # t /\ t \notin cancelled
                /\ t \in registered \cup ToSet(waiters)

Unqueue(t) ==
  /\ \E i \in 1..Len(waiters) :
       /\ waiters[i] = t
       /\ waiters' = RemoveAt(waiters, i)
  /\ state' = [state EXCEPT ![t] = "refused"]
  /\ UNCHANGED registered

Deregister(t) ==
  /\ t \in registered \ ToSet(waiters)
  /\ registered' = registered \ {t}
  /\ UNCHANGED <<waiters, state>>

\* cancelQueued when it answers true; otherwise it changes nothing.
CancelQueued(t) ==
  /\ t \in Tracked /\ CanCancel(t)
  /\ cancelled' = cancelled \cup {t}
  /\ Unqueue(t) \/ Deregister(t)
  /\ promised' = promised \cup {t}
  /\ UNCHANGED <<occupied, shut, owner, stopped>>

Cancel(t) == CancelQueued(t) /\ UNCHANGED hooks

\* The operation's Swift task is cancelled.  A waiter's handler can only
\* schedule a main actor task ...
StopTask(t) ==
  /\ t \in Tracked \ stopped
  /\ state[t] \in {"new", "waiting"}
  /\ stopped' = stopped \cup {t}
  /\ hooks' = IF state[t] = "waiting" THEN hooks \cup {t} ELSE hooks
  /\ UNCHANGED <<occupied, shut, waiters, owner, registered, cancelled, state,
                 promised>>

\* ... which calls cancelQueued later, maybe too late.
RunHook(t) ==
  /\ t \in hooks
  /\ hooks' = hooks \ {t}
  /\ \/ CancelQueued(t)
     \/ /\ ~CanCancel(t)
        /\ UNCHANGED <<occupied, shut, waiters, owner, registered, cancelled,
                       state, stopped, promised>>

\* shutdown, when the store is released.  Operations without a token keep the
\* store alive, so none of them can be waiting.
Shutdown ==
  /\ ~shut
  /\ \A t \in Ops \ Tracked : state[t] # "waiting"
  /\ shut' = TRUE
  /\ registered' = {} /\ cancelled' = {}
  /\ waiters' = <<>>
  /\ state' = [t \in Ops |-> IF state[t] = "waiting" THEN "refused"
                             ELSE state[t]]
  /\ UNCHANGED <<occupied, owner, stopped, hooks, promised>>

LaneStep(t) == Begin(t) \/ Finish(t) \/ Return(t)

LaneNext ==
  \/ \E t \in Ops : Perform(t) \/ LaneStep(t)
  \/ \E t \in Tracked : Register(t) \/ Cancel(t) \/ StopTask(t) \/ RunHook(t)
  \/ Shutdown

LaneSpec == LaneInit /\ [][LaneNext]_laneVars

\* The main actor runs what has been resumed, and an operation ends: the
\* service calls it makes are bounded by timeouts.
LaneFairSpec == LaneSpec /\ \A t \in Ops : WF_laneVars(LaneStep(t))
-----------------------------------------------------------------------------
(* Properties.                                                             *)

\* At most one operation is inside the lane, and the lane is marked occupied
\* exactly then: there is no moment during a hand-over, a cancellation or a
\* shutdown at which a second one could enter.
OneInside ==
  /\ occupied <=> \E t \in Ops : Inside(t)
  /\ \A t, u \in Ops : Inside(t) /\ Inside(u) => t = u
  /\ owner # NoOp => Inside(owner)

\* The queue holds the suspended operations, each once, and it is empty
\* unless somebody is inside who will wake the first of them.
NoLostWaiter ==
  /\ ToSet(waiters) = {t \in Ops : state[t] = "waiting"}
  /\ \A i, j \in 1..Len(waiters) : waiters[i] = waiters[j] => i = j
  /\ waiters # <<>> => occupied /\ ~shut

\* The token sets hold only operations that have yet to look at them: no
\* token is left behind, and none is both registered and cancelled.
NoLeftToken ==
  /\ registered \subseteq {t \in Tracked : state[t] = "new"}
  /\ cancelled \subseteq {t \in Tracked : state[t] \in {"new", "refused"}}
  /\ registered \cap cancelled = {}

\* An operation for which cancelQueued has answered true never begins, in
\* whatever order its task, the cancellation and a release are run: it has
\* been refused, or will be when it comes to acquire.
CancelIsFinal ==
  \A t \in promised : /\ state[t] \in {"new", "refused", "cancelled"}
                      /\ state[t] = "new" => Refuses(t)

\* The lane is exclusive, first in first out without a lost waiter or token, and
\* what was cancelled in its queue never runs.
LaneSafe == OneInside /\ NoLostWaiter /\ NoLeftToken /\ CancelIsFinal

WaitsBefore(u, t) ==
  \E i \in 1..Len(waiters) :
    waiters[i] = u /\ \A j \in 1..Len(waiters) : waiters[j] = t => i < j

\* First come, first served: no operation gets into the lane ahead of one
\* that was already waiting when it came.
NoOvertaking ==
  [][\A t, u \in Ops :
       Inside(t)' /\ ~Inside(t) /\ u # t /\ WaitsBefore(u, t)
       => state'[u] # "waiting"]_laneVars

\* Every operation that waits, or that was resumed, comes to its end.
EveryoneServed ==
  \A t \in Ops : state[t] \in {"waiting", "granted", "refused"}
                 ~> state[t] \in {"done", "cancelled"}
=============================================================================
