---------------------------- MODULE MessagesTurn ----------------------------
(***************************************************************************)
(* The /v1/messages surface: Turn, collect and frames in                   *)
(* src/src/bridge/messages.rs.  Responses events go in, Anthropic frames   *)
(* come out; a streaming client gets the frames as they come, another one  *)
(* the message they fold into, and both send that message back as part of  *)
(* the next request.                                                       *)
(*                                                                         *)
(* The upstream's items are numbered by output index and may be open side  *)
(* by side; the client's blocks are numbered by themselves.                *)
(*                                                                         *)
(* CloseBlocksSilently, FailOpen and CollectStopUnparsed are mistakes the  *)
(* code does not make, each before the definition it would replace.        *)
(***************************************************************************)
EXTENDS ResponsesEvents

\* for_antigravity shows reasoning; another turn does not.
New(thinking) ==
  [started |-> FALSE, finished |-> FALSE, next_index |-> 0, blocks |-> <<>>,
   saw_tool_use |-> FALSE, thinking |-> thinking, out |-> <<>>]

-----------------------------------------------------------------------------
(* Turn: each operator gives the turn after one of its methods.            *)

Emit(t, frames) == [t EXCEPT !.out = @ \o frames]

Start(t) ==
  IF t.started THEN t ELSE Emit([t EXCEPT !.started = TRUE], <<[type |-> "message_start"]>>)

Ping(t) == Emit(Start(t), <<[type |-> "ping"]>>)

Delta(t, i, kind, data) ==
  Emit(t, <<[type |-> "delta", index |-> t.blocks[i].index, kind |-> kind, data |-> data]>>)
Stop(n) == [type |-> "stop", index |-> n]

Has(t, i, kind) == i \in DOMAIN t.blocks /\ t.blocks[i].kind = kind

\* A block the client sees, under the next index of its own count.
OpenBlock(t, i, kind, id) ==
  LET block == [kind |-> kind, index |-> t.next_index, arguments |-> <<>>, emitted |-> FALSE]
      opened == [t EXCEPT !.next_index = @ + 1, !.blocks = Put(@, i, block)]
  IN Emit(Start(opened), <<[type |-> "start", index |-> block.index, kind |-> kind, id |-> id]>>)

ItemAdded(t, i, kind, id) ==
  CASE kind = "message" -> OpenBlock(t, i, "text", 0)
    [] kind = "function_call" -> OpenBlock([t EXCEPT !.saw_tool_use = TRUE], i, "tool_use", id)
    [] kind = "reasoning" -> t

\* Text may come with no output_item.added in front of it.
TextDelta(t, i, data) ==
  Delta(IF i \in DOMAIN t.blocks THEN t ELSE OpenBlock(t, i, "text", 0), i, "text", data)

ThinkingDelta(t, i, data) ==
  IF t.thinking /\ (i \in DOMAIN t.blocks => Has(t, i, "thinking"))
    THEN Delta(IF i \in DOMAIN t.blocks THEN t ELSE OpenBlock(t, i, "thinking", 0),
               i, "thinking", data)
    ELSE t

ToolDelta(t, i, data) ==
  IF Has(t, i, "tool_use")
    THEN Delta([t EXCEPT !.blocks[i].arguments = @ \o data, !.blocks[i].emitted = TRUE],
               i, "input_json", data)
    ELSE t

\* The finished arguments seed a call whose deltas never came.
ToolArguments(t, i, complete) ==
  IF Has(t, i, "tool_use") /\ t.blocks[i].arguments = <<>>
    THEN [t EXCEPT !.blocks[i].arguments = complete] ELSE t

Without(t, i) ==
  [t EXCEPT !.blocks = [j \in DOMAIN t.blocks \ {i} |-> t.blocks[j]]]

\* The item's own arguments, or the seeded ones, only when no delta came.
ItemDone(t, i, arguments, signature) ==
  LET b == t.blocks[i]
      input == IF arguments # <<>> THEN arguments ELSE b.arguments
      told == CASE b.kind = "tool_use" /\ ~b.emitted /\ input # <<>> ->
                     Delta(t, i, "input_json", input)
                [] b.kind = "thinking" /\ signature # 0 -> Delta(t, i, "signature", signature)
                [] OTHER -> t
  IN IF i \in DOMAIN t.blocks THEN Emit(Without(told, i), <<Stop(b.index)>>) ELSE t

OpenIndices(t) == {t.blocks[i].index : i \in DOMAIN t.blocks}

CloseBlocksSilently(t) == [t EXCEPT !.blocks = <<>>]

\* In the order the client saw them open.
CloseBlocks(t) ==
  LET order == InOrder(OpenIndices(t))
  IN Emit([t EXCEPT !.blocks = <<>>], [k \in 1..Len(order) |-> Stop(order[k])])

Finish(t, incomplete) ==
  LET reason == CASE incomplete -> "max_tokens"
                  [] ~incomplete /\ t.saw_tool_use -> "tool_use"
                  [] OTHER -> "end_turn"
      closed == Start(CloseBlocks(t))
  IN Emit([closed EXCEPT !.finished = TRUE],
          <<[type |-> "message_delta", stop_reason |-> reason], [type |-> "message_stop"]>>)

FailOpen(t) == Emit(Start(CloseBlocks(t)), <<[type |-> "error"]>>)

\* What is left to say once the status code is spent.
Fail(t) ==
  Emit([Start(CloseBlocks(t)) EXCEPT !.finished = TRUE], <<[type |-> "error"]>>)

\* accept, and what frames makes of its errors: a stream that breaks or a
\* turn that is refused ends in fail, one that just stops in close.
Hear(t, e) ==
  LET i == e.index
  IN IF t.finished THEN t ELSE
     CASE e.type \in {"created", "alive"} -> Ping(t)
       [] e.type = "item_added" -> ItemAdded(t, i, e.kind, e.id)
       [] e.type = "text_delta" /\ e.data # <<>> -> TextDelta(t, i, e.data)
       [] e.type = "thought_delta" /\ e.data # <<>> -> ThinkingDelta(t, i, e.data)
       [] e.type = "arguments_delta" /\ e.data # <<>> -> ToolDelta(t, i, e.data)
       [] e.type = "arguments_done" -> ToolArguments(t, i, e.data)
       [] e.type = "item_done" ->
            ItemDone(t, i, IF e.kind = "function_call" THEN e.data ELSE <<>>, e.signature)
       [] e.type \in {"completed", "closed"} -> Finish(t, FALSE)
       [] e.type = "incomplete" -> Finish(t, TRUE)
       [] e.type \in Refusals -> Fail(t)
       [] OTHER -> t

-----------------------------------------------------------------------------
(* collect: the message a non-streaming client gets.                       *)

At(m, n, kind) == n < Len(m.content) /\ m.content[n + 1].kind = kind
Raw(m, n) == IF n \in DOMAIN m.partial_json THEN m.partial_json[n] ELSE <<>>
Collecting(m, f, type) == f.type = type /\ m.message

CollectDelta(m, f) ==
  CASE f.kind = "input_json" ->
         [m EXCEPT !.partial_json = Put(@, f.index, Raw(m, f.index) \o f.data)]
    [] f.kind = "signature" /\ At(m, f.index, "thinking") ->
         [m EXCEPT !.content[f.index + 1].signature = f.data]
    [] f.kind \in {"text", "thinking"} /\ At(m, f.index, f.kind) ->
         [m EXCEPT !.content[f.index + 1].text = @ \o f.data]
    [] OTHER -> m

CollectStopUnparsed(m, f) == m

\* The raw JSON is read when its block stops.
CollectStop(m, f) ==
  LET rest == [m EXCEPT !.partial_json = [n \in DOMAIN @ \ {f.index} |-> @[n]]]
  IN IF f.index \in DOMAIN m.partial_json /\ At(m, f.index, "tool_use")
       THEN [rest EXCEPT !.content[f.index + 1].input = Parsed(m.partial_json[f.index])]
       ELSE rest

CollectFrame(m, f) ==
  CASE f.type = "message_start" -> [m EXCEPT !.message = TRUE]
    [] Collecting(m, f, "start") /\ Len(m.content) = f.index ->
         [m EXCEPT !.content = Append(@, [kind |-> f.kind, id |-> f.id, text |-> <<>>,
                                          input |-> EmptyObject, signature |-> 0])]
    [] f.type = "delta" -> CollectDelta(m, f)
    [] f.type = "stop" -> CollectStop(m, f)
    [] Collecting(m, f, "message_delta") -> [m EXCEPT !.stop_reason = f.stop_reason]
    [] OTHER -> m

Collected(t) ==
  FoldLeft(CollectFrame,
           [message |-> FALSE, content |-> <<>>, partial_json |-> <<>>, stop_reason |-> "none"],
           t.out)

\* append_message: the message as the next request's input items.  Thinking
\* goes back only with a signature.
Replayed(content) ==
  LET item(b) ==
        CASE b.kind = "text" -> <<[kind |-> "message", id |-> 0, data |-> b.text, signature |-> 0]>>
          [] b.kind = "tool_use" ->
               <<[kind |-> "function_call", id |-> b.id, data |-> b.input, signature |-> 0]>>
          [] b.kind = "thinking" /\ b.signature # 0 ->
               <<[kind |-> "reasoning", id |-> 0, data |-> b.text, signature |-> b.signature]>>
          [] OTHER -> <<>>
  IN FlattenSeq([k \in 1..Len(content) |-> item(content[k])])

-----------------------------------------------------------------------------
(* What a streaming client makes of the frames.                            *)

Frames(out, type) == SelectSeq(out, LAMBDA f : f.type = type)
Joined(fs) == FlattenSeq([k \in 1..Len(fs) |-> fs[k].data])
Shown(out, n) ==
  LET mine == SelectSeq(out, LAMBDA f : f.type = "delta" /\ f.index = n)
      signatures == SelectSeq(mine, LAMBDA f : f.kind = "signature")
      start == Frames(out, "start")[n + 1]
  IN [kind |-> start.kind, id |-> start.id,
      data |-> Joined(SelectSeq(mine, LAMBDA f : f.kind # "signature")),
      signature |-> IF signatures = <<>> THEN 0 ELSE Last(signatures).data]

DeltaKinds(kind) ==
  CASE kind = "text" -> {"text"}
    [] kind = "tool_use" -> {"input_json"}
    [] kind = "thinking" -> {"thinking", "signature"}

Before(out, k, type) == {j \in 1..k - 1 : out[j].type = type /\ out[j].index = out[k].index}

\* One message_start in front, blocks numbered as they start, deltas of its
\* kind inside an open block, one stop for each, nothing after the end.
WellFormedFrames(out) ==
  \A k \in 1..Len(out) :
    /\ out[k].type = "message_start" <=> k = 1
    /\ out[k].type \in {"message_stop", "error"} => k = Len(out)
    /\ out[k].type = "start" =>
         out[k].index = Cardinality({j \in 1..k - 1 : out[j].type = "start"})
    /\ out[k].type \in {"delta", "stop"} =>
         /\ Before(out, k, "stop") = {}
         /\ \E j \in Before(out, k, "start") :
              out[k].type = "delta" => out[k].kind \in DeltaKinds(out[j].kind)

\* And every block that was started is stopped.
EndedFrames(out) ==
  /\ \A j \in 1..Len(out) : out[j].type = "start" =>
       \E k \in j + 1..Len(out) : out[k].type = "stop" /\ out[k].index = out[j].index
  /\ Last(out).type \in {"message_stop", "error"}

\* The message says what the frames said.
SameAsFrames(t) ==
  LET m == Collected(t)
  IN /\ m.message /\ Len(m.content) = Len(Frames(t.out, "start"))
     /\ m.stop_reason = Frames(t.out, "message_delta")[1].stop_reason
     /\ \A k \in 1..Len(m.content) :
          LET seen == Shown(t.out, k - 1)
              got == m.content[k]
          IN /\ got.kind = seen.kind /\ got.id = seen.id /\ got.signature = seen.signature
             /\ IF seen.kind = "tool_use" THEN got.input = Parsed(seen.data)
                                          ELSE got.text = seen.data
=============================================================================
