---------------------------- MODULE MCSystemIndex ----------------------------
(* Two applications, one with a backend, and two runs of the effect. *)
EXTENDS SystemIndex

CONSTANTS plotter, static, first, second

=============================================================================
