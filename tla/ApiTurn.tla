------------------------------- MODULE ApiTurn -------------------------------
(***************************************************************************)
(* A provider's own stream, retold as Responses events: Emitter, ChatTurn, *)
(* MessagesTurn, ResponsesTurn, Translator and ApiStream in                *)
(* src/src/bridge/api.rs.                                                  *)
(*                                                                         *)
(* A provider's event is [type, index, data]: "text", "thought", "open",   *)
(* "arguments" and "shut" for the parts of an answer, "call" for one told  *)
(* whole, "reason" for a finish, and the kinds that end a stream.  Which   *)
(* of them a wire has is told by its operator.  Calls are known by their   *)
(* index; an id the provider leaves out is minted.                         *)
(***************************************************************************)
EXTENDS ResponsesEvents

Nothing == [kind |-> "none", index |-> 0, text |-> <<>>]

\* The Emitter, with the translator's own memory of the turn.
New(wire) ==
  [wire |-> wire, started |-> FALSE, next_index |-> 0, open |-> Nothing, finished |-> FALSE,
   calls |-> <<>>, told |-> {}, reason |-> "none", produced |-> FALSE, stopped |-> FALSE,
   refused |-> FALSE, out |-> <<>>]

Emit(t, events) == [t EXCEPT !.out = @ \o events]

-----------------------------------------------------------------------------
(* Emitter: text and reasoning as they come, each call whole.              *)

Start(t) == IF t.started THEN t ELSE Emit([t EXCEPT !.started = TRUE], <<Created>>)

CloseOpen(t) ==
  LET o == t.open
      done == DoneEvent(o.index, o.kind, 0, o.text, 0)
      first == IF o.kind = "message" THEN <<DeltaEvent("text_done", o.index, o.text)>> ELSE <<>>
  IN IF o.kind = "none" THEN t ELSE Emit([t EXCEPT !.open = Nothing], first \o <<done>>)

OpenNew(t, kind) ==
  Emit([t EXCEPT !.open = [kind |-> kind, index |-> t.next_index, text |-> <<>>],
                 !.next_index = @ + 1],
       <<AddedEvent(t.next_index, kind, 0)>>)

Speak(t, kind, type, data) ==
  LET begun == Start(t)
      open == IF begun.open.kind = kind THEN begun ELSE OpenNew(CloseOpen(begun), kind)
  IN IF data = <<>> THEN t
     ELSE Emit([open EXCEPT !.open.text = @ \o data],
               <<DeltaEvent(type, open.open.index, data)>>)

SpeakText(t, data) == Speak(t, "message", "text_delta", data)
SpeakThought(t, data) == Speak(t, "reasoning", "thought_delta", data)

CallEvents(i, id, data) ==
  <<AddedEvent(i, "function_call", id), DeltaEvent("arguments_delta", i, data),
    DeltaEvent("arguments_done", i, data), DoneEvent(i, "function_call", id, data, 0)>>

\* Blank arguments are an empty object.
TellCall(t, id, arguments) ==
  LET closed == CloseOpen(Start(t))
      data == IF arguments = <<>> THEN EmptyObject ELSE arguments
  IN Emit([closed EXCEPT !.next_index = @ + 1], CallEvents(closed.next_index, id, data))

\* The calls not told yet, by their index.
TellHeld(t, i) == TellCall(t, i, t.calls[i])
TellCalls(t) == [FoldLeft(TellHeld, t, InOrder(DOMAIN t.calls)) EXCEPT !.calls = <<>>]

Finish(t, type) ==
  IF t.finished THEN t
    ELSE Emit([CloseOpen(Start(t)) EXCEPT !.finished = TRUE], <<Event(type)>>)

-----------------------------------------------------------------------------
(* The three wires.                                                        *)

Held(t, i) == IF i \in DOMAIN t.calls THEN t.calls[i] ELSE <<>>
Hold(t, i, data) == [t EXCEPT !.calls = Put(@, i, Held(t, i) \o data)]

\* A Chat Completions chunk.  Empty content is an answer too.
ChatAccept(t, e) ==
  LET made == [t EXCEPT !.produced = TRUE]
  IN CASE e.type = "text" -> SpeakText(made, e.data)
       [] e.type = "thought" -> SpeakThought(made, e.data)
       [] e.type = "arguments" -> Hold(made, e.index, e.data)
       [] e.type = "reason" -> [t EXCEPT !.reason = e.data]
       [] e.type = "error" -> Finish(t, "failed")

EndType(reason) ==
  CASE reason \in {"length", "max_tokens"} -> "incomplete"
    [] reason \in {"content_filter", "refusal"} -> "failed"
    [] OTHER -> "completed"

ChatEnd(t) ==
  IF t.finished THEN t
    ELSE IF t.reason = "none" /\ ~t.produced THEN [t EXCEPT !.refused = TRUE]
    ELSE Finish(TellCalls(t), EndType(t.reason))

MessagesTerminate(t) ==
  IF t.stopped THEN t
    ELSE Finish(TellCalls([t EXCEPT !.stopped = TRUE]), EndType(t.reason))

Released(t, i) == [t EXCEPT !.calls = [j \in DOMAIN @ \ {i} |-> @[j]]]

\* An event of an Anthropic stream; "open" and "shut" are a tool_use block's.
MessagesAccept(t, e) ==
  CASE e.type = "begin" -> Start(t)
    [] e.type = "text" -> SpeakText(t, e.data)
    [] e.type = "thought" -> SpeakThought(t, e.data)
    [] e.type = "open" -> [t EXCEPT !.calls = Put(@, e.index, e.data)]
    [] e.type = "arguments" -> IF e.index \in DOMAIN t.calls THEN Hold(t, e.index, e.data) ELSE t
    [] e.type = "shut" -> IF e.index \in DOMAIN t.calls
                            THEN TellCall(Released(t, e.index), e.index, t.calls[e.index]) ELSE t
    [] e.type = "reason" -> [t EXCEPT !.reason = e.data]
    [] e.type = "stop" -> MessagesTerminate(t)
    [] e.type = "error" -> Finish(t, "failed")

MessagesEnd(t) ==
  IF t.finished THEN t
    ELSE IF ~t.started THEN [t EXCEPT !.refused = TRUE]
    ELSE MessagesTerminate(t)

\* An item that is a call; a server may finish one twice.
Item(t, call) ==
  IF call.index \in t.told THEN t
    ELSE TellCall([t EXCEPT !.told = @ \union {call.index}], call.index, call.data)

\* A Responses event; what ends the turn repeats the calls it had.
ResponsesAccept(t, e) ==
  CASE e.type = "begin" -> Start(t)
    [] e.type = "text" -> SpeakText(t, e.data)
    [] e.type = "thought" -> SpeakThought(t, e.data)
    [] e.type = "call" -> Item(t, e)
    [] e.type \in Terminal -> Finish(FoldLeft(Item, t, e.data), e.type)
    [] e.type = "error" -> Finish(t, "failed")

ResponsesEnd(t) == IF t.finished THEN t ELSE [t EXCEPT !.refused = TRUE]

-----------------------------------------------------------------------------
(* ApiStream: the turn after a frame, and the events the surfaces get.     *)

Accept(t, e) ==
  IF t.finished THEN t ELSE
  CASE t.wire = "chat" -> ChatAccept(t, e)
    [] t.wire = "messages" -> MessagesAccept(t, e)
    [] t.wire = "responses" -> ResponsesAccept(t, e)

EndOf(t) ==
  CASE t.wire = "chat" -> ChatEnd(t)
    [] t.wire = "messages" -> MessagesEnd(t)
    [] t.wire = "responses" -> ResponsesEnd(t)

Broken == Event("broken")
Told(t) ==
  IF t.refused THEN t.out \o <<Broken>> ELSE IF t.finished THEN t.out \o <<Closed>> ELSE t.out
Quiet(t) == [t EXCEPT !.out = <<>>]

Reads(t, e) == Accept(Quiet(t), e)
\* The body ended, or the provider said [DONE].
Ends(t) == EndOf(Quiet(t))
\* The body broke, stalled, or sent what is not JSON.
Breaks(t) == [Quiet(t) EXCEPT !.refused = TRUE]
=============================================================================
