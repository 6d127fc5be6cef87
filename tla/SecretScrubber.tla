--------------------------- MODULE SecretScrubber ---------------------------
(***************************************************************************)
(* SecretScrubber masks credentials in a terminal's output on its way to   *)
(* the viewers.  The output comes in pieces that are cut anywhere, also    *)
(* inside a credential, so that the scrubber holds back what the next      *)
(* piece may complete, and nothing else: a screen must not lag behind.     *)
(***************************************************************************)
EXTENDS ByteStreams, FiniteSets, FiniteSetsExt

CONSTANTS
  Letters,    \* what terminals put out
  Families,   \* sets of credentials that a launch may put before its agent
  MinSecret,  \* MIN_SECRET_BYTES
  MaxChunk,   \* bound on the length of a piece
  MaxOutput   \* bound on the length of the output

ASSUME ScrubAssumption ==
  /\ Families \subseteq SUBSET Seq(Letters)
  /\ MinSecret \in Nat \ {0} /\ MaxChunk \in Nat /\ MaxOutput \in Nat

VARIABLES
  values,   \* the credentials to mask
  input,    \* the terminal's output so far
  buffer,   \* what of it is held back
  output,   \* what viewers were given
  ended

scrubVars == <<values, input, buffer, output, ended>>

ScrubInit ==
  /\ values \in Families
  /\ input = <<>> /\ buffer = <<>> /\ output = <<>> /\ ended = FALSE

\* Shorter ones are in too much that is none.
Secrets == {v \in values : Len(v) >= MinSecret}

Matches(bytes) == UNION {Found(secret, bytes) : secret \in Secrets}

\* Each span is masked from its start to its end, or to where bytes end.
Masked(bytes, spans) ==
  [n \in 1..Len(bytes) |->
    IF \E span \in spans : span[1] < n /\ n <= span[2] THEN "*" ELSE bytes[n]]

PartialMatchSuffix(bytes) ==
  Max({0} \cup {n \in 1..Len(bytes) :
                 \E secret \in Secrets : Len(secret) > n
                   /\ Upto(secret, n) = From(bytes, Len(bytes) - n + 1)})

HeldPartial(bytes) == PartialMatchSuffix(bytes)

\* A match that the boundary would cut is held whole.  One that lies behind
\* the boundary is taken for such a match, and moves it forward.
Held(bytes) ==
  LET hold == PartialMatchSuffix(bytes)
      cut == {span \in Matches(bytes) : span[2] > Len(bytes) - hold}
  IN IF cut = {} THEN hold ELSE Len(bytes) - Min({span[1] : span \in cut})

ScrubInPlace(bytes) ==
  LET emit == Len(bytes) - Held(bytes)
      masked == Masked(bytes, Matches(bytes))
  IN [out |-> Upto(masked, emit), keep |-> From(masked, emit + 1)]

Scrub(bytes) ==
  LET emit == Len(bytes) - Held(bytes)
  IN [out |-> Upto(Masked(bytes, Matches(bytes)), emit), keep |-> From(bytes, emit + 1)]

\* With nothing to look for the piece is let through as it is.
Piece(chunk) ==
  /\ input' = input \o chunk
  /\ LET scrubbed == IF Secrets = {} THEN [out |-> chunk, keep |-> buffer]
                                     ELSE Scrub(buffer \o chunk)
     IN output' = output \o scrubbed.out /\ buffer' = scrubbed.keep
  /\ UNCHANGED <<values, ended>>

ScrubPush ==
  /\ ~ended
  /\ \E chunk \in Strings(Letters, 1, MaxChunk) :
       Len(input) + Len(chunk) <= MaxOutput /\ Piece(chunk)

\* At the end what is held back is let out, masked: it may be a credential.
ScrubFlush ==
  /\ ~ended /\ ended' = TRUE
  /\ output' = output \o Masked(buffer, Matches(buffer))
  /\ buffer' = <<>>
  /\ UNCHANGED <<values, input>>

ScrubNext == ScrubPush \/ ScrubFlush

ScrubSpec == ScrubInit /\ [][ScrubNext]_scrubVars

-----------------------------------------------------------------------------
\* What is held back is the end of the output, and all of it is one or the
\* other: columns stay where they are.
ScrubTypeOK ==
  /\ values \in Families /\ input \in Seq(Letters) /\ output \in Seq(Letters \cup {"*"})
  /\ Len(output) <= Len(input) /\ buffer = From(input, Len(output) + 1)
  /\ ended => buffer = <<>>

\* A credential lies inside another one, and touches neither of its ends.
Nested ==
  \E secret, inner \in Secrets : \E span \in Found(inner, secret) :
    0 < span[1] /\ span[2] < Len(secret)

\* Wherever the output is cut into pieces, and also while it goes on, viewers
\* see what masking the whole of it gives: every byte of every credential
\* masked though credentials overlap, and nothing else.  With one credential
\* inside another, a byte of a credential may be let out as it is.
ScrubUnseen ==
  \A n \in 1..Len(output) :
    \/ output[n] = Masked(input, Matches(input))[n]
    \/ Nested /\ output[n] = input[n]

\* The doc of push promises it of nested credentials as well.
ScrubUnseenNested ==
  \A n \in 1..Len(output) : output[n] = Masked(input, Matches(input))[n]
=============================================================================
