--------------------------- MODULE ChatCompletion ---------------------------
(***************************************************************************)
(* The /v1/chat/completions surface: CompletionState, StreamPump and       *)
(* aggregate in src/src/bridge/chat.rs.  Responses events go in, chat      *)
(* chunks come out; a client that did not ask to stream gets the state     *)
(* they leave.                                                             *)
(*                                                                         *)
(* SettleWhole is a mistake the code does not make.                        *)
(***************************************************************************)
EXTENDS ResponsesEvents

\* CompletionState, with the pump's flags and the chunks queued so far.
New ==
  [text |-> <<>>, saw_text_delta |-> FALSE, calls |-> <<>>, finish_reason |-> "stop",
   completed |-> FALSE, refused |-> FALSE, role_sent |-> FALSE, ended |-> FALSE, out |-> <<>>]

Chunk(type) == [type |-> type, index |-> 0, opens |-> FALSE, id |-> 0, data |-> <<>>]

-----------------------------------------------------------------------------
(* CompletionState: what an event changes, and the deltas it is worth.     *)

\* Every chunk is preceded once by the one that names the role.
Push(c, chunk) ==
  [c EXCEPT !.role_sent = TRUE,
            !.out = @ \o (IF c.role_sent THEN <<>> ELSE <<Chunk("role")>>) \o <<chunk>>]

Content(c, data) == Push([c EXCEPT !.text = @ \o data], [Chunk("content") EXCEPT !.data = data])

Known(c, i) == \E n \in 1..Len(c.calls) : c.calls[n].item = i
Position(c, i) == CHOOSE n \in 1..Len(c.calls) : c.calls[n].item = i

OpenCall(c, e) ==
  Push([c EXCEPT !.calls = Append(@, [item |-> e.index, id |-> e.id, arguments |-> e.data])],
       [type |-> "call", index |-> Len(c.calls), opens |-> TRUE, id |-> e.id, data |-> e.data])

ArgumentDelta(n, data) == [Chunk("call") EXCEPT !.index = n - 1, !.data = data]

Unsent(whole, told) ==
  IF IsPrefix(told, whole) THEN SubSeq(whole, Len(told) + 1, Len(whole)) ELSE <<>>

SettleWhole(c, n, whole) ==
  IF whole = <<>> THEN c
    ELSE Push([c EXCEPT !.calls[n].arguments = whole], ArgumentDelta(n, whole))

\* Upstream's final word on a call: only what the client has not been sent.
Settle(c, n, whole) ==
  LET settled == [c EXCEPT !.calls[n].arguments = whole]
      rest == Unsent(whole, c.calls[n].arguments)
  IN CASE whole = <<>> -> c
       [] whole # <<>> /\ rest = <<>> -> settled
       [] OTHER -> Push(settled, ArgumentDelta(n, rest))

Completed(c, reason) == [c EXCEPT !.completed = TRUE, !.finish_reason = reason]

Observe(c, e) ==
  CASE e.type = "item_added" /\ e.kind = "function_call" -> OpenCall(c, [e EXCEPT !.data = <<>>])
    [] e.type = "item_done" /\ e.kind = "function_call" ->
         IF Known(c, e.index) THEN Settle(c, Position(c, e.index), e.data) ELSE OpenCall(c, e)
    [] e.type = "text_delta" -> Content([c EXCEPT !.saw_text_delta = TRUE], e.data)
    [] e.type = "text_done" /\ ~c.saw_text_delta -> Content(c, e.data)
    [] e.type = "arguments_delta" /\ Known(c, e.index) ->
         LET n == Position(c, e.index)
         IN Push([c EXCEPT !.calls[n].arguments = @ \o e.data], ArgumentDelta(n, e.data))
    [] e.type = "arguments_done" /\ Known(c, e.index) -> Settle(c, Position(c, e.index), e.data)
    [] e.type = "completed" /\ e.kind = "failed" -> [c EXCEPT !.refused = TRUE]
    [] e.type = "completed" /\ e.kind = "incomplete" -> Completed(c, "length")
    [] e.type = "completed" /\ e.kind \notin {"failed", "incomplete"} -> Completed(c, c.finish_reason)
    [] e.type = "incomplete" -> Completed(c, "length")
    [] e.type \in Refusals -> [c EXCEPT !.refused = TRUE]
    [] OTHER -> c

FinishReason(c) ==
  IF c.finish_reason = "stop" /\ c.calls # <<>> THEN "tool_calls" ELSE c.finish_reason

IsEmpty(c) == c.text = <<>> /\ c.calls = <<>>

-----------------------------------------------------------------------------
(* StreamPump, and aggregate beside it.                                    *)

EndWith(c, chunks) == [c EXCEPT !.ended = TRUE, !.out = @ \o chunks \o <<Chunk("done")>>]

Fail(c) == EndWith(c, <<Chunk("error")>>)

\* Not completed, or completed with nothing in it, is told as an error.
Close(c) ==
  IF ~c.completed \/ IsEmpty(c) THEN Fail(c)
    ELSE EndWith(c, <<[Chunk("finish") EXCEPT !.data = FinishReason(c)]>>)

Hear(c, e) ==
  LET heard == Observe(c, e)
  IN IF c.ended THEN c
       ELSE IF heard.refused THEN Fail(heard)
       ELSE IF heard.completed \/ e = Closed THEN Close(heard)
       ELSE heard

\* The completion of a client that did not ask to stream.
Answered(c) == c.completed /\ ~c.refused /\ ~IsEmpty(c)
Completion(c) ==
  [text |-> c.text, finish_reason |-> FinishReason(c),
   calls |-> [n \in 1..Len(c.calls) |->
                [id |-> c.calls[n].id, arguments |-> c.calls[n].arguments]]]

\* translate_message: the completion as the next request's input items.
Replayed(m) ==
  (IF m.text = <<>> THEN <<>>
     ELSE <<[kind |-> "message", id |-> 0, data |-> m.text, signature |-> 0]>>)
  \o [n \in 1..Len(m.calls) |-> [kind |-> "function_call", id |-> m.calls[n].id,
                                 data |-> m.calls[n].arguments, signature |-> 0]]

-----------------------------------------------------------------------------
(* What a streaming client makes of the chunks.                            *)

Chunks(out, type) == SelectSeq(out, LAMBDA f : f.type = type)
Joined(fs) == FlattenSeq([k \in 1..Len(fs) |-> fs[k].data])
CallChunks(out, n) == SelectSeq(out, LAMBDA f : f.type = "call" /\ f.index = n - 1)
Gathered(out) ==
  LET opened == SelectSeq(out, LAMBDA f : f.opens)
  IN [text |-> Joined(Chunks(out, "content")),
      calls |-> [n \in 1..Len(opened) |->
                   [id |-> opened[n].id, arguments |-> Joined(CallChunks(out, n))]]]

\* The role once and in front, calls opened in the order of their index
\* before anything is added to them, one end, and nothing after it.
WellFormedChunks(out) ==
  \A k \in 1..Len(out) :
    /\ out[k].type = "role" => k = 1
    /\ out[k].type \in {"content", "call", "finish"} => out[1].type = "role"
    /\ out[k].type = "done" <=> k > 1 /\ out[k - 1].type \in {"finish", "error"}
    /\ out[k].type = "done" => k = Len(out)
    /\ out[k].type = "call" =>
         LET opened == Cardinality({j \in 1..k - 1 : out[j].opens})
         IN IF out[k].opens THEN out[k].index = opened ELSE out[k].index < opened
=============================================================================
