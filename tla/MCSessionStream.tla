-------------------------- MODULE MCSessionStream --------------------------
(* Small instances of SessionStream: one or two viewers and a few bytes,   *)
(* the first two of which are one character.                               *)
EXTENDS SessionStream, TLC

CONSTANTS b1, b2, t1

TwoByteCharacter == [n \in 0..MaxBytes |-> IF n = 1 THEN 0 ELSE n]

=============================================================================
