----------------------------- MODULE MCDeployment -----------------------------
(* A small instance of Deployment: three commits, the last with a new command. *)
EXTENDS Deployment

CONSTANTS p1, p2, old, new

MCCommandOf == [c \in Commits |-> IF c = 2 THEN new ELSE old]

=============================================================================
