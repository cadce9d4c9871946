---------------------------- MODULE MCInstallation ----------------------------
(* A small instance of Installation: two renderings before and one behind      *)
(* Tailscale.                                                                  *)
EXTENDS Installation, TLC

CONSTANTS p1, p2

Source(routes, probes, look, ingress) ==
    [caddy |-> routes, plist |-> probes, theme |-> look, page |-> routes, ingress |-> ingress]
MCSources ==
    {Source("one", "same", "plain", "trusted-lan"), Source("two", "same", "bold", "trusted-lan"),
     Source("two", "probe", "plain", "tailscale-serve")}

Symmetry == Permutations(Processes)

=============================================================================
