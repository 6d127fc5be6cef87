---------------------------- MODULE MCCodexAuth ----------------------------
(* Two alc processes on one auth.json: one serves two turns, one serves one.*)
EXTENDS CodexAuth, TLC

CONSTANTS m1, m2, t1, t2, t3

MCHome == (t1 :> m1) @@ (t2 :> m1) @@ (t3 :> m2)
=============================================================================
