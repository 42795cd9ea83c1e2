------------------------- MODULE MCSessionDetails ---------------------------
(* An instance of SessionDetails for TLC: all sessions are of one source.  *)
EXTENDS SessionDetails

MCSourceOf == [k \in Keys |-> CHOOSE s \in Sources : s = "here"]
MCLoads    == 1 .. 3
MCFewLoads == 1 .. 2
=============================================================================
