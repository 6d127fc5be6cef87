---------------------------- MODULE ByteStreams ----------------------------
(* What the decoders of a byte stream say about pieces of it.              *)
EXTENDS Naturals, Sequences

Strings(S, low, high) == UNION {[1..n -> S] : n \in low..high}

From(bytes, n) == SubSeq(bytes, n, Len(bytes))
Upto(bytes, n) == SubSeq(bytes, 1, n)

\* The places bytes is found in text, as what lies before and up to its end.
Found(bytes, text) ==
  {<<n, n + Len(bytes)>> : n \in {m \in 0..Len(text) - Len(bytes) :
                                   SubSeq(text, m + 1, m + Len(bytes)) = bytes}}
=============================================================================
