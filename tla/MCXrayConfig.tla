---------------------------- MODULE MCXrayConfig ----------------------------
(* XrayConfig on small instances. *)
EXTENDS XrayConfig, TLC

CONSTANTS host, proto, d0, d1, o0, o1, v0, v1

\* The two subscriptions run the same dispatcher.
MCSymmetry == Permutations({host, proto})
=============================================================================
