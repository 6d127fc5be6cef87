-------------------------- MODULE MCRuntimeUpdate --------------------------
(* An old release a, and two or three releases to install.                *)
EXTENDS RuntimeUpdate, TLC

CONSTANTS a, b, c, d

\* b is the newest; a is the oldest; c and d are two builds of one release.
MCVersion == (a :> 1) @@ (b :> 3) @@ (c :> 2) @@ (d :> 2)

\* Only a and d share a namespace.
MCShortId == (a :> 1) @@ (b :> 2) @@ (c :> 3) @@ (d :> 1)
=============================================================================
