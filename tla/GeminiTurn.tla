----------------------------- MODULE GeminiTurn -----------------------------
(***************************************************************************)
(* Antigravity's answer, retold as Responses events: GeminiTurn and        *)
(* AgyStream in src/src/bridge/gemini_stream.rs, and the signature cache   *)
(* of src/src/bridge/gemini.rs that it fills.                              *)
(*                                                                         *)
(* A part of Gemini's is [kind, id, data, signature]: a text, a thought or *)
(* a call, whose id is 0 when the part names no function.                  *)
(*                                                                         *)
(* TextPartKeeps is a mistake the code does not make.                      *)
(***************************************************************************)
EXTENDS ResponsesEvents

CONSTANT Capacity  \* how many calls' signatures the cache holds

Nothing == [kind |-> "none", index |-> 0, text |-> <<>>]

New ==
  [started |-> FALSE, next_index |-> 0, open |-> Nothing, unclaimed |-> 0, seen_calls |-> {},
   finish_reason |-> "none", finished |-> FALSE, refused |-> FALSE, cache |-> <<>>, out |-> <<>>]

Emit(t, events) == [t EXCEPT !.out = @ \o events]

-----------------------------------------------------------------------------
(* SignatureCache: calls and their signatures, the least recently used     *)
(* first.                                                                  *)

Keeping(cache, id) == RemoveFirstMatch(cache, LAMBDA entry : entry.id = id)

Remember(cache, id, signature) ==
  LET entries == Append(Keeping(cache, id), [id |-> id, signature |-> signature])
  IN IF Len(entries) > Capacity THEN Tail(entries) ELSE entries

Signature(cache, id) ==
  LET own == SelectSeq(cache, LAMBDA entry : entry.id = id)
  IN IF own = <<>> THEN 0 ELSE own[1].signature

\* A signature that was asked for becomes the most recently used.
Recall(cache, id) ==
  Keeping(cache, id) \o SelectSeq(cache, LAMBDA entry : entry.id = id)

-----------------------------------------------------------------------------
(* GeminiTurn: each operator gives the turn after one of its methods.      *)

Start(t) == IF t.started THEN t ELSE Emit([t EXCEPT !.started = TRUE], <<Created>>)

Open(t, kind) ==
  Emit([t EXCEPT !.open = [kind |-> kind, index |-> t.next_index, text |-> <<>>],
                 !.next_index = @ + 1],
       <<AddedEvent(t.next_index, kind, 0)>>)

Speak(t, type, data) ==
  Emit([t EXCEPT !.open.text = @ \o data], <<DeltaEvent(type, t.open.index, data)>>)

\* A signature-only thought signs what follows it; one that came with text
\* stays on its thought.
CloseReasoning(t, signature) ==
  LET done == DoneEvent(t.open.index, "reasoning", 0, t.open.text, signature)
      unclaimed == IF t.open.text = <<>> /\ signature # 0 THEN signature ELSE t.unclaimed
  IN Emit([t EXCEPT !.open = Nothing, !.unclaimed = unclaimed], <<done>>)

CloseMessage(t) ==
  Emit([t EXCEPT !.open = Nothing],
       <<DeltaEvent("text_done", t.open.index, t.open.text),
         DoneEvent(t.open.index, "message", 0, t.open.text, 0)>>)

Close(t) ==
  CASE t.open.kind = "message" -> CloseMessage(t)
    [] t.open.kind = "reasoning" -> CloseReasoning(t, 0)
    [] OTHER -> t

OpenAs(t, kind) == IF t.open.kind = kind THEN t ELSE Open(Close(t), kind)

\* A signature on its own, ahead of the part it signs.
SignatureItem(t, signature) ==
  Emit([t EXCEPT !.next_index = @ + 1, !.unclaimed = signature],
       <<AddedEvent(t.next_index, "reasoning", 0),
         DoneEvent(t.next_index, "reasoning", 0, <<>>, signature)>>)

Signed(t, signature) == IF signature = 0 THEN t ELSE SignatureItem(t, signature)

CallEvents(i, id, data) ==
  <<AddedEvent(i, "function_call", id), DeltaEvent("arguments_delta", i, data),
    DeltaEvent("arguments_done", i, data), DoneEvent(i, "function_call", id, data, 0)>>

\* The call takes what was waiting for one.
FunctionCall(t, part) ==
  LET remembered == Remember(t.cache, part.id, t.unclaimed)
  IN IF part.id = 0 \/ part.id \in t.seen_calls THEN [t EXCEPT !.refused = TRUE]
     ELSE Emit([t EXCEPT !.cache = IF t.unclaimed = 0 THEN @ ELSE remembered,
                         !.seen_calls = @ \union {part.id},
                         !.unclaimed = 0, !.next_index = @ + 1],
               CallEvents(t.next_index, part.id, part.data))

ThoughtPart(t, part) ==
  LET opened == OpenAs(t, "reasoning")
      spoken == IF part.data = <<>> THEN opened ELSE Speak(opened, "thought_delta", part.data)
  IN IF part.data = <<>> /\ part.signature = 0 THEN t
       ELSE IF part.signature = 0 THEN spoken
       ELSE CloseReasoning(spoken, part.signature)

TextPartKeeps(t, part) ==
  LET signed == IF part.signature = 0 THEN t ELSE SignatureItem(Close(t), part.signature)
  IN IF part.data = <<>> THEN signed
       ELSE Speak(OpenAs(signed, "message"), "text_delta", part.data)

\* What text is signed by is no longer waiting for a call.
TextPart(t, part) ==
  LET signed == IF part.signature = 0 THEN t ELSE SignatureItem(Close(t), part.signature)
  IN IF part.data = <<>> THEN signed
       ELSE Speak([OpenAs(signed, "message") EXCEPT !.unclaimed = 0], "text_delta", part.data)

Part(t, part) ==
  IF t.refused THEN t ELSE
  CASE part.kind = "call" -> FunctionCall(Signed(Close(t), part.signature), part)
    [] part.kind = "thought" -> ThoughtPart(t, part)
    [] part.kind = "text" -> TextPart(t, part)

Terminate(t) ==
  LET type == CASE t.finish_reason = "STOP" -> "completed"
                [] t.finish_reason = "MAX_TOKENS" -> "incomplete"
                [] OTHER -> "failed"
  IN Emit([Close(t) EXCEPT !.finished = TRUE], <<Event(type)>>)

\* accept: an event of Antigravity's, [parts, reason, usage], in which
\* "ERROR" is an error or a blocked prompt.  Only counts that come with the
\* finish, or after it, end the turn.
Accept(t, event) ==
  LET begun == Start(t)
      told == FoldLeft(Part, begun, event.parts)
      reason == IF event.reason = "none" THEN told.finish_reason ELSE event.reason
      heard == [told EXCEPT !.finish_reason = reason]
  IN IF t.finished THEN t
       ELSE IF event.reason = "ERROR" THEN Terminate([begun EXCEPT !.finish_reason = "ERROR"])
       ELSE IF told.refused THEN told
       ELSE IF reason # "none" /\ event.usage THEN Terminate(heard)
       ELSE heard

EndOfStream(t) ==
  IF t.finished THEN t
    ELSE IF t.finish_reason = "none" THEN [t EXCEPT !.refused = TRUE]
    ELSE Terminate(Start(t))

-----------------------------------------------------------------------------
(* AgyStream: the turn after a step, and the events the surfaces get.  An  *)
(* event that is refused half way takes what it had told with it.          *)

Broken == Event("broken")
Told(t) == IF t.refused THEN <<Broken>> ELSE IF t.finished THEN t.out \o <<Closed>> ELSE t.out
Quiet(t) == [t EXCEPT !.out = <<>>]

Reads(t, event) == Accept(Quiet(t), event)
Ends(t) == EndOfStream(Quiet(t))
=============================================================================
