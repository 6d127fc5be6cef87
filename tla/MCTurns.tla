------------------------------- MODULE MCTurns -------------------------------
(* Two items of chatgpt.com's at once, four parts of Antigravity's, four     *)
(* sayings on each of the other wires.                                       *)
EXTENDS Turns
=============================================================================
