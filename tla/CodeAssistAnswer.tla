-------------------------- MODULE CodeAssistAnswer --------------------------
(***************************************************************************)
(* A Codex turn as agy reads it: GeminiAnswer, stream_answer and aggregate *)
(* in src/src/bridge/code_assist.rs.  Responses events go in, Gemini       *)
(* chunks of one part each come out; a caller that does not stream gets    *)
(* the parts joined.                                                       *)
(***************************************************************************)
EXTENDS ResponsesEvents

New == [finished |-> FALSE, failed |-> FALSE, out |-> <<>>]

Part(kind, id, data) == [kind |-> kind, id |-> id, data |-> data]
Chunk(a, part, finish) == [a EXCEPT !.out = Append(@, [part |-> part, finish |-> finish])]
Finish(a, reason) ==
  [Chunk(a, Part("text", 0, <<>>), reason) EXCEPT !.finished = TRUE]

\* A call is told when it is done, by what the finished item says of it.
Hear(a, e) ==
  IF a.finished THEN a ELSE
  CASE e.type = "text_delta" /\ e.data # <<>> -> Chunk(a, Part("text", 0, e.data), "none")
    [] e.type = "thought_delta" /\ e.data # <<>> -> Chunk(a, Part("thought", 0, e.data), "none")
    [] e.type = "item_done" /\ e.kind = "function_call" ->
         Chunk(a, Part("call", e.id, Parsed(e.data)), "none")
    [] e.type = "incomplete" -> Finish(a, "MAX_TOKENS")
    [] e.type \in {"completed", "closed"} -> Finish(a, "STOP")
    [] e.type \in Refusals -> [a EXCEPT !.finished = TRUE, !.failed = TRUE]
    [] OTHER -> a

\* aggregate: neighbouring texts of one kind become one part.
Join(parts, part) ==
  IF part.kind # "call" /\ part.data = <<>> THEN parts
    ELSE IF part.kind # "call" /\ parts # <<>> /\ Last(parts).kind = part.kind
      THEN [parts EXCEPT ![Len(parts)].data = @ \o part.data]
    ELSE Append(parts, part)

Parts(a) == [k \in 1..Len(a.out) |-> a.out[k].part]
Aggregate(a) == FoldLeft(Join, <<>>, Parts(a))

\* All of one kind, in order.
Of(parts, kind) == SelectSeq(parts, LAMBDA p : p.kind = kind)
Text(parts, kind) ==
  LET own == Of(parts, kind) IN FlattenSeq([k \in 1..Len(own) |-> own[k].data])
=============================================================================
