---------------------------- MODULE MCBridgeServe ----------------------------
(* Two routes over one login file.  With coders, c1 and c2 share a route,  *)
(* and c3 has another one over the same login.                             *)
EXTENDS BridgeServe, TLC

CONSTANTS c1, c2, c3, n1, n2, r1, r2, f1

MCRouteOf == [c \in Coders |-> IF c = c3 THEN r2 ELSE r1]
MCFileOf == [r \in Routes |-> f1]

\* Only a grace takes time.
ClockRunsInGrace == now' # now => host = "stopping"
=============================================================================
