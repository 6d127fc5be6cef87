--------------------------- MODULE MCBridgeStart ---------------------------
(* A few askers and the servers they may spawn, on one or two ports. *)
EXTENDS BridgeStart, TLC

CONSTANTS s1, s2, s3, s4, v1, v2, v3, d1, d2

Symmetry == Permutations(Starters) \cup Permutations(ByHand)
              \cup Permutations(Servers \ ByHand)
=============================================================================
