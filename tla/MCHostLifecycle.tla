--------------------------- MODULE MCHostLifecycle ---------------------------
(* A small instance of HostLifecycle: a host with a registered service whose   *)
(* main declares a base path, and a new host.                                  *)
EXTENDS HostLifecycle, TLC

CONSTANTS o1, o2, service, created

Both(s, c) == (service :> s) @@ (created :> c)
MCManifests == Both(<<"service", "service", "based", "based">>, <<"static", "service">>)
On(q) == [port |-> q, base |-> FALSE]
Registered == Both(On(1), None)
MCPrepared == {Registered}
Live12 == [current |-> 2, previous |-> 1, releases |-> {1, 2}]
MCHosts ==
    {[chain |-> <<>>, backups |-> <<>>, main |-> Both(1, 0), live |-> Both(NoLive, NoLive)],
     [chain |-> <<Registered, Both(On(1), On(None))>>, backups |-> <<<<Registered>>>>,
      main |-> Both(3, 0), live |-> Both(Live12, NoLive)]}

Symmetry == Permutations(Operators)

=============================================================================
