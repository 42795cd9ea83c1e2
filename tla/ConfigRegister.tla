--------------------------- MODULE ConfigRegister ---------------------------
(***************************************************************************)
(* What the config commands promise about one agent config file, without   *)
(* locks, snapshots or temporary files: the file is a register, a request  *)
(* first observes it (load) and may then replace it (store).  A store      *)
(* succeeds only while the register still holds what the request observed, *)
(* unless the present value was put there by a program outside Agent       *)
(* Copilot.  So no write of one Agent Copilot request is ever discarded by *)
(* another one that had not seen it.                                       *)
(***************************************************************************)
CONSTANTS Procs,    \* requests of the service
          Values,   \* what the file can hold
          Unseen    \* "this request has no valid observation"

VARIABLES value,    \* what the file holds
          foreign,  \* TRUE iff the last writer was not Agent Copilot
          seen      \* what each request observed, or Unseen

rvars == <<value, foreign, seen>>

Init == /\ value \in Values
        /\ foreign = TRUE
        /\ seen = [p \in Procs |-> Unseen]

ForeignWrite == /\ value' \in Values
                /\ foreign' = TRUE
                /\ UNCHANGED seen

Load(p) == /\ seen' = [seen EXCEPT ![p] = value]
           /\ UNCHANGED <<value, foreign>>

Store(p) == /\ seen[p] # Unseen
            /\ value = seen[p] \/ foreign
            /\ value' \in Values
            /\ foreign' = FALSE
            /\ \/ UNCHANGED seen
               \/ seen' = [seen EXCEPT ![p] = Unseen]

Drop(p) == /\ seen' = [seen EXCEPT ![p] = Unseen]
           /\ UNCHANGED <<value, foreign>>

Next == \/ ForeignWrite
        \/ \E p \in Procs : Load(p) \/ Store(p) \/ Drop(p)

Spec == Init /\ [][Next]_rvars
=============================================================================
