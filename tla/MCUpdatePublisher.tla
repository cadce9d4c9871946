-------------------------- MODULE MCUpdatePublisher --------------------------
(* A file, and one in a folder that an update may have to create.       *)
EXTENDS UpdatePublisher

CONSTANTS p1, p2, old, new

MCHeads == {[f \in Paths |-> IF f \in Nested THEN None ELSE old]}
MCReleases == {[f \in Paths |-> new], [f \in Paths |-> IF f \in Nested THEN new ELSE old]}

=============================================================================
