--------------------------- MODULE GeminiContents ---------------------------
(***************************************************************************)
(* The request side of Antigravity: Contents in src/src/bridge/gemini.rs.  *)
(* The input items of a turn that a client sends back become the parts of  *)
(* Gemini's model turn, in the round in progress, each with the signature  *)
(* it was sent with - on a reasoning item before it, or in the cache.      *)
(***************************************************************************)
EXTENDS GeminiTurn

Empty(cache) == [parts |-> <<>>, pending |-> 0, cache |-> cache]

Sent(kind, id, data, signature) ==
  [kind |-> kind, id |-> id, data |-> data, signature |-> signature, placeholder |-> FALSE]

AppendPart(c, part) == [c EXCEPT !.parts = Append(@, part)]

\* A signature nothing claimed rides an empty part, as it arrived.
FlushPending(c) ==
  IF c.pending = 0 THEN c
    ELSE AppendPart([c EXCEPT !.pending = 0], Sent("text", 0, <<>>, c.pending))

\* The signature that was waiting goes with the part.
ModelPart(c, part) ==
  AppendPart([c EXCEPT !.pending = 0],
             [part EXCEPT !.signature = IF c.pending = 0 THEN @ ELSE c.pending])

MessageItem(c, item) ==
  IF item.data = <<>> THEN c ELSE ModelPart(c, Sent("text", 0, item.data, 0))

\* Unsigned reasoning is dropped, never forged.
ReasoningItem(c, item) ==
  LET flushed == FlushPending(c)
  IN IF item.signature = 0 THEN c
       ELSE IF item.data = <<>> THEN [flushed EXCEPT !.pending = item.signature]
       ELSE AppendPart(flushed, Sent("thought", 0, item.data, item.signature))

\* The cache is asked only when no signature is waiting.
CallItem(c, item) ==
  IF c.pending # 0 THEN ModelPart(c, Sent("call", item.id, Parsed(item.data), 0))
    ELSE ModelPart([c EXCEPT !.cache = Recall(@, item.id)],
                   Sent("call", item.id, Parsed(item.data), Signature(c.cache, item.id)))

Take(c, item) ==
  CASE item.kind = "message" -> MessageItem(c, item)
    [] item.kind = "reasoning" -> ReasoningItem(c, item)
    [] item.kind = "function_call" -> CallItem(c, item)

\* The families of models whose calls are only served signed.
SigningFamilies == {"gemini"}

\* In such a family, in a turn with no signature at all, the first call
\* carries a placeholder.
Placeholder(family, parts) ==
  LET calls == {n \in 1..Len(parts) : parts[n].kind = "call"}
  IN IF \/ family \notin SigningFamilies \/ calls = {}
        \/ \E n \in 1..Len(parts) : parts[n].signature # 0
     THEN parts
     ELSE [parts EXCEPT ![Min(calls)].placeholder = TRUE]

\* translate and finish, over the items of one model turn.
Contents(family, items, cache) ==
  Placeholder(family, FlushPending(FoldLeft(Take, Empty(cache), items)).parts)
=============================================================================
