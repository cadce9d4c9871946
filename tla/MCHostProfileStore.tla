---------------------------- MODULE MCHostProfileStore ----------------------------
(* A small instance of HostProfileStore: two registries and a backup chain. *)
EXTENDS HostProfileStore, TLC

CONSTANTS c1, c2, r1, r2

First == [prev |-> None, cur |-> r1, stamp |-> 1]
Second == [prev |-> r1, cur |-> r2, stamp |-> 1]
MCBackups == {<<First>>, <<First, Second>>}
MCOneBackup == {<<First, Second>>}
Symmetry == Permutations(Clients)

=============================================================================
