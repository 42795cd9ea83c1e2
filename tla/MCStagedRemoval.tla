-------------------------- MODULE MCStagedRemoval ---------------------------
(* Instances of StagedRemoval for TLC: claude has its own root, pi its own  *)
(* and the shared source.                                                   *)
EXTENDS StagedRemoval

MCOrder == [a \in Agents |-> IF a = "claude" THEN <<2>> ELSE IF a = "hermes" THEN <<3>> ELSE <<4, 1>>]

Dir(s) == DirEntry(s)
Link(s) == LinkEntry(s, 0)

\* The shared source with a link to it, a copy, and a link to the copy.
MCInitialFs == {
  [s \in Slots |-> CASE s = 1 -> Dir(1) [] s = 2 -> Link(1) [] s = 3 -> Dir(3) [] OTHER -> Nothing],
  [s \in Slots |-> CASE s = 1 -> Dir(1) [] s = 2 -> Dir(2) [] s = 3 -> Link(2) [] OTHER -> Nothing],
  [s \in Slots |-> CASE s = 1 -> Dir(1) [] s = 2 -> Link(1) [] s = 3 -> Link(2) [] OTHER -> Link(1)]}
=============================================================================
