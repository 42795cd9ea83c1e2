----------------------------- MODULE LatestSlot -----------------------------
(***************************************************************************)
(* What an autosave coordinator promises, without timers, phases and       *)
(* flushes: there is a slot for the newest unsaved revision and one save   *)
(* at a time.  A put replaces what is in the slot; a take moves it to the  *)
(* save.  Revisions are saved in increasing order, none of them twice, and *)
(* what stays in the slot is taken in the end.                             *)
(***************************************************************************)
EXTENDS Naturals

VARIABLES slot,   \* the revision that waits for its save, 0 for none
          saving, \* the revision being saved, 0 for none
          latest, \* the newest revision put
          saved   \* the last revision whose save has ended

svars == <<slot, saving, latest, saved>>

Init == slot = 0 /\ saving = 0 /\ latest = 0 /\ saved = 0

\* A new revision; an invalid one only empties the slot.
Put == /\ latest' = latest + 1
       /\ slot' \in {0, latest'}
       /\ UNCHANGED <<saving, saved>>

Cancel == slot' = 0 /\ UNCHANGED <<saving, latest, saved>>

Take == /\ slot # 0 /\ saving = 0
        /\ slot = latest /\ slot > saved
        /\ saving' = slot /\ slot' = 0
        /\ UNCHANGED <<latest, saved>>

End == /\ saving # 0
       /\ saved' = saving /\ saving' = 0
       /\ UNCHANGED <<slot, latest>>

Next == Put \/ Cancel \/ Take \/ End

Safe == Init /\ [][Next]_svars
Spec == Safe /\ WF_svars(Take) /\ WF_svars(End)
=============================================================================
