--------------------------- MODULE MCSessionPages ---------------------------
(* An instance of SessionPages for TLC.                                    *)
EXTENDS SessionPages

MCTwoLoads == 1 .. 2
=============================================================================
