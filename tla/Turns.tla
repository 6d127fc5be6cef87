-------------------------------- MODULE Turns --------------------------------
(***************************************************************************)
(* One turn through the bridge, from a provider to every surface a client  *)
(* may read it on.  A turn of chatgpt.com's is Responses events already;   *)
(* GeminiTurn and ApiTurn retell an Antigravity turn and a provider's own  *)
(* stream as such events; MessagesTurn, ChatCompletion, ResponsesRelay and *)
(* CodeAssistAnswer are the surfaces.  A client has one surface: all of    *)
(* them hear the same events here so that each can be held to what the     *)
(* provider said.                                                          *)
(***************************************************************************)
EXTENDS ResponsesEvents

CONSTANTS
  Wires,      \* which providers' turns: "codex", "gemini", "chat", "messages", "responses"
  Items,      \* chatgpt.com's output indices, 0 and up
  MaxPieces,  \* bound on the deltas of one of its items: a call has up to two
  MaxPings,   \* bound on its events that only show life
  MaxParts,   \* bound on the parts of an Antigravity turn
  MaxSaid,    \* bound on what a provider's own stream says
  Capacity    \* how many calls' signatures are remembered

ASSUME WiresAssumption == Wires \subseteq {"codex", "gemini", "chat", "messages", "responses"}
ASSUME ItemsAssumption == Items \subseteq Nat /\ IsFiniteSet(Items)
ASSUME BoundsAssumption ==
  /\ MaxPieces \in Nat \ {0, 1} /\ MaxPings \in Nat /\ MaxParts \in Nat /\ MaxSaid \in Nat
  /\ Capacity \in Nat \ {0}

VARIABLES
  wire,      \* whose turn it is
  item,      \* chatgpt.com's items, as it made them
  spoken,    \* those with something to see, in the order they began
  source,    \* the translator of another provider's turn
  said,      \* what that provider has said
  messages, chat, relay, agy,  \* the surfaces
  ended      \* how the turn ended: see Ends

surfaces == <<messages, chat, relay, agy>>
vars == <<wire, item, spoken, source, said, surfaces, ended>>

Messages == INSTANCE MessagesTurn
Chat == INSTANCE ChatCompletion
Relay == INSTANCE ResponsesRelay
Agy == INSTANCE CodeAssistAnswer
Api == INSTANCE ApiTurn
Gemini == INSTANCE GeminiContents

Ends == {"no", "completed", "incomplete", "failed", "cut"}
Kinds == {"message", "function_call", "reasoning"}
Pieces == UNION {[1..n -> {"x", "[", "]"}] : n \in 0..MaxPieces}
Item == [kind : Kinds, phase : {"new", "open", "done"}, sent : Pieces, arguments : Pieces,
         once : BOOLEAN, repeated : BOOLEAN]

\* What was said of an answer: its text, its thoughts and its calls.
Saying(kind, id, data, signature) ==
  [kind |-> kind, id |-> id, data |-> data, signature |-> signature]

Init ==
  /\ wire \in Wires /\ ended = "no" /\ spoken = <<>> /\ said = <<>>
  /\ item = [i \in Items |-> [kind |-> "message", phase |-> "new", sent |-> <<>>,
                              arguments |-> <<>>, once |-> FALSE, repeated |-> FALSE]]
  /\ source = CASE wire = "codex" -> [wire |-> "codex"]
                [] wire = "gemini" -> Gemini!New
                [] OTHER -> Api!New(wire)
  /\ messages = Messages!New(wire = "gemini")
  /\ chat = Chat!New /\ relay = Relay!New /\ agy = Agy!New

\* Every surface hears the events in order, until it has no more to hear.
\* agy reads turns of chatgpt.com's only, which over Responses are folded
\* here but not retold.
Hear(events) ==
  /\ messages' = FoldLeft(Messages!Hear, messages, events)
  /\ chat' = FoldLeft(Chat!Hear, chat, events)
  /\ relay' = IF wire = "codex" THEN FoldLeft(Relay!Fold, relay, events)
                               ELSE FoldLeft(Relay!Hear, relay, events)
  /\ agy' = IF wire = "codex" THEN FoldLeft(Agy!Hear, agy, events) ELSE agy

Goes(name) == wire = name /\ ended = "no" /\ UNCHANGED wire

-----------------------------------------------------------------------------
(* A turn of chatgpt.com's: Responses events, items side by side.          *)

Codex == Goes("codex") /\ UNCHANGED <<source, said>>
Tells(event) == Codex /\ Hear(<<event>>) /\ UNCHANGED ended
EndsIn(events, how) ==
  Codex /\ Hear(events) /\ ended' = how /\ UNCHANGED <<item, spoken>>

Pings == Cardinality({k \in 1..Len(messages.out) : messages.out[k].type = "ping"})

\* Before the first item; later ones are heard in the same way.
Alives ==
  /\ Pings < MaxPings /\ \A i \in Items : item[i].phase = "new"
  /\ \E event \in {Created, Alive} : Tells(event)
  /\ UNCHANGED <<item, spoken>>

\* Items begin in the order of their output index.
Begins(i) == item[i].phase = "new" /\ \A j \in Items : j < i => item[j].phase # "new"
IsOpen(i, kind) == item[i].phase = "open" /\ item[i].kind = kind
Visible(kind) == kind # "reasoning"
CallPieces == {<<>>, <<"]">>, <<"[", "]">>}

Added(i) ==
  /\ Begins(i)
  /\ \E kind \in Kinds, call \in CallPieces :
       /\ kind = "function_call" \/ call = <<>>
       /\ item' = [item EXCEPT ![i].kind = kind, ![i].phase = "open", ![i].arguments = call]
       /\ spoken' = IF Visible(kind) THEN Append(spoken, i) ELSE spoken
       /\ Tells(AddedEvent(i, kind, i))

Says(i, piece) == item' = [item EXCEPT ![i].phase = "open", ![i].sent = Append(@, piece)]

\* Text may come with no output_item.added in front of it.
Text(i) ==
  /\ Begins(i) \/ (IsOpen(i, "message") /\ ~item[i].once)
  /\ Len(item[i].sent) < MaxPieces
  /\ Says(i, "x")
  /\ spoken' = IF item[i].phase = "new" THEN Append(spoken, i) ELSE spoken
  /\ Tells(DeltaEvent("text_delta", i, <<"x">>))

\* All of an item's text once more; or all of it at once, by an upstream that
\* sends no deltas.
TextDone(i) ==
  /\ IsOpen(i, "message") /\ ~item[i].once
  /\ \/ item[i].sent # <<>> /\ UNCHANGED item
     \/ /\ ~chat.saw_text_delta /\ item[i].sent = <<>>
        /\ item' = [item EXCEPT ![i].sent = <<"x">>, ![i].once = TRUE]
  /\ Tells(DeltaEvent("text_done", i, item'[i].sent))
  /\ UNCHANGED spoken

Thought(i) ==
  /\ IsOpen(i, "reasoning") /\ Len(item[i].sent) < MaxPieces
  /\ Says(i, "x")
  /\ Tells(DeltaEvent("thought_delta", i, <<"x">>))
  /\ UNCHANGED spoken

Arguments(i) ==
  /\ IsOpen(i, "function_call")
  /\ LET n == Len(item[i].sent) + 1
     IN /\ n <= Len(item[i].arguments)
        /\ Says(i, item[i].arguments[n])
        /\ Tells(DeltaEvent("arguments_delta", i, <<item[i].arguments[n]>>))
  /\ UNCHANGED spoken

\* All the arguments came as deltas, or none did.
AllOrNone(i) == item[i].sent \in {<<>>, item[i].arguments}

ArgumentsDone(i) ==
  /\ IsOpen(i, "function_call") /\ AllOrNone(i)
  /\ Tells(DeltaEvent("arguments_done", i, item[i].arguments))
  /\ item' = [item EXCEPT ![i].sent = item[i].arguments]
  /\ UNCHANGED spoken

\* The finished item, which repeats the arguments unless they were all told.
Done(i) ==
  /\ item[i].phase = "open"
  /\ item[i].kind = "function_call" => AllOrNone(i)
  /\ \E repeated \in BOOLEAN :
       /\ repeated \/ (item[i].kind = "function_call" /\ item[i].sent = item[i].arguments)
       /\ item' = [item EXCEPT ![i].phase = "done", ![i].repeated = repeated]
       /\ LET whole == IF item[i].kind = "function_call" THEN item[i].arguments
                                                        ELSE item[i].sent
          IN Tells(DoneEvent(i, item[i].kind, i, IF repeated THEN whole ELSE <<>>, 0))
  /\ UNCHANGED spoken

Completed ==
  /\ \A i \in Items : item[i].phase # "open"
  /\ EndsIn(<<Event("completed")>>, "completed")
Incomplete == EndsIn(<<Event("incomplete")>>, "incomplete")

\* response.failed, an error event, a spent quota, or an error of the stream.
Failed == \E why \in Refusals : EndsIn(<<Event(why)>>, "failed")

\* The stream ends without a terminal event.
Cut == EndsIn(<<Closed>>, "cut")

-----------------------------------------------------------------------------
(* A turn of Antigravity's: events of up to two parts.                     *)

\* What the translator made of an event reaches the surfaces.
Retold(t, events, how) ==
  /\ source' = [t EXCEPT !.out = <<>>]
  /\ Hear(events)
  /\ ended' = IF t.refused THEN "failed" ELSE IF t.finished THEN how ELSE "no"
  /\ UNCHANGED <<item, spoken>>

Ending(t) ==
  LET last == Last(t.out).type
  IN IF t.finished THEN last ELSE "no"

IdsOf(parts) == {parts[k].id : k \in {j \in 1..Len(parts) : parts[j].kind = "call"}}

\* A signature is known by the part it came on, and so is a call's own id;
\* one with no name, or with the id of an earlier one, is refused.
PartsAt(n, earlier) ==
  {p \in [kind : {"text", "thought"}, id : {0}, data : {<<>>, <<"x">>}, signature : {0, n}] :
     p.data # <<>> \/ p.signature # 0}
  \union [kind : {"call"}, id : {0, n} \union earlier, data : {<<"]">>}, signature : {0, n}]

UpToTwo(n, earlier) ==
  {<<>>} \union {<<p>> : p \in PartsAt(n, earlier)}
  \union UNION {{<<p, q>> : q \in PartsAt(n + 1, earlier \union IdsOf(<<p>>))} :
                p \in {p \in PartsAt(n, earlier) : p.id = 0 => p.kind # "call"}}

Reasons == {"none", "STOP", "MAX_TOKENS", "SAFETY", "ERROR"}

AgySays ==
  /\ Goes("gemini")
  /\ \E reason \in Reasons, usage \in BOOLEAN,
        parts \in UpToTwo(Len(said) + 1, IdsOf(said)) :
       /\ Len(said) + Len(parts) <= MaxParts
       /\ source.finish_reason # "none" => parts = <<>> /\ reason = "none" /\ usage
       /\ reason = "none" /\ source.finish_reason = "none" => parts # <<>> /\ ~usage
       /\ reason \in {"ERROR", "SAFETY"} => parts = <<>>
       /\ said' = said \o parts
       /\ LET t == Gemini!Reads(source, [parts |-> parts, reason |-> reason, usage |-> usage])
          IN Retold(t, Gemini!Told(t), Ending(t))

AgyEnds ==
  /\ Goes("gemini")
  /\ LET t == Gemini!Ends(source) IN Retold(t, Gemini!Told(t), Ending(t))
  /\ UNCHANGED said

AgyBreaks ==
  /\ Goes("gemini")
  /\ Retold([source EXCEPT !.refused = TRUE], <<Gemini!Broken>>, "failed")
  /\ UNCHANGED said

-----------------------------------------------------------------------------
(* A provider's own stream, on the wire it has.                            *)

\* What the provider says enters said; what only ends or begins does not.
ProviderTells(e, more) ==
  LET t == Api!Reads(source, e)
  IN said' = said \o more /\ Retold(t, Api!Told(t), Ending(t))

ApiEvent(type, i, data) == [type |-> type, index |-> i, data |-> data]

Of(sayings, kind) == SelectSeq(sayings, LAMBDA s : s.kind = kind)
DataOf(sayings) == FlattenSeq([k \in 1..Len(sayings) |-> sayings[k].data])
\* Each call's arguments, as far as they were said.
Gather(arguments, s) ==
  LET before == IF s.id \in DOMAIN arguments THEN arguments[s.id] ELSE <<>>
  IN IF s.kind = "call" THEN Put(arguments, s.id, before \o s.data) ELSE arguments
SaidArguments == FoldLeft(Gather, <<>>, said)
ArgumentsOf(id) == IF id \in DOMAIN SaidArguments THEN SaidArguments[id] ELSE <<>>
SaidCalls == IdsOf(said)
Unfinished == {i \in SaidCalls : ~Whole(ArgumentsOf(i))}
CanSay == Len(said) < MaxSaid /\ source.reason = "none"

\* Text and thoughts, which every wire has; a chunk may be empty.
ProviderSpeaks ==
  /\ wire \in {"chat", "messages", "responses"} /\ Goes(wire) /\ CanSay
  /\ wire # "chat" => source.started
  /\ wire = "messages" => source.calls = <<>>
  /\ \E kind \in {"text", "thought"}, data \in {<<>>, <<"x">>} :
       /\ data = <<>> => wire = "chat"
       /\ ProviderTells(ApiEvent(kind, 0, data), <<Saying(kind, 0, data, 0)>>)

ProviderBegins ==
  /\ wire \in {"messages", "responses"} /\ Goes(wire) /\ ~source.started
  /\ ProviderTells(ApiEvent("begin", 0, <<>>), <<>>)

\* Pieces of a call's arguments, or none at all; calls side by side.
ChatCalls ==
  /\ Goes("chat") /\ CanSay
  /\ \E i \in Unfinished \union {Cardinality(SaidCalls)}, piece \in {<<>>, <<"[">>, <<"]">>} :
       /\ piece = <<>> => i \notin SaidCalls
       /\ piece = <<"[">> => ArgumentsOf(i) = <<>>
       /\ ProviderTells(ApiEvent("arguments", i, piece), <<Saying("call", i, piece, 0)>>)

\* An Anthropic stream's blocks come one after the other.
BlockOpens ==
  /\ Goes("messages") /\ CanSay /\ source.started /\ source.calls = <<>>
  /\ \E whole \in {<<>>, <<"]">>} :
       LET i == Cardinality(SaidCalls)
       IN ProviderTells(ApiEvent("open", i, whole), <<Saying("call", i, whole, 0)>>)

BlockGrows ==
  /\ Goes("messages") /\ CanSay
  /\ \E i \in DOMAIN source.calls \ {j \in SaidCalls : Whole(ArgumentsOf(j))},
        piece \in {<<"[">>, <<"]">>} :
       /\ piece = <<"[">> => ArgumentsOf(i) = <<>>
       /\ ProviderTells(ApiEvent("arguments", i, piece), <<Saying("call", i, piece, 0)>>)

BlockShuts ==
  /\ Goes("messages")
  /\ \E i \in DOMAIN source.calls :
       /\ Whole(ArgumentsOf(i)) \/ ArgumentsOf(i) = <<>>
       /\ ProviderTells(ApiEvent("shut", i, <<>>), <<>>)

\* A call told whole, and maybe once more.
CallTold ==
  /\ Goes("responses") /\ source.started
  /\ \/ /\ CanSay
        /\ \E data \in {<<>>, <<"]">>} :
             LET i == Cardinality(SaidCalls)
             IN ProviderTells(ApiEvent("call", i, data), <<Saying("call", i, data, 0)>>)
     \/ \E i \in SaidCalls : ProviderTells(ApiEvent("call", i, ArgumentsOf(i)), <<>>)

\* What ends the turn repeats its calls, and may be the first to tell one.
ProviderEnds ==
  /\ Goes("responses")
  /\ LET repeated == [k \in 1..Cardinality(SaidCalls) |->
                        [index |-> k - 1, data |-> ArgumentsOf(k - 1)]]
         new == [index |-> Len(repeated), data |-> <<"]">>]
     IN \E type \in Terminal :
          \/ ProviderTells(ApiEvent(type, 0, repeated), <<>>)
          \/ /\ CanSay
             /\ ProviderTells(ApiEvent(type, 0, Append(repeated, new)),
                              <<Saying("call", new.index, new.data, 0)>>)

ProviderReason ==
  /\ wire \in {"chat", "messages"} /\ Goes(wire) /\ source.reason = "none"
  /\ wire = "messages" => source.started
  /\ \E reason \in {"stop", "length", "max_tokens", "content_filter", "refusal"} :
       /\ wire = "chat" => reason \notin {"max_tokens", "refusal"}
       /\ wire = "messages" => reason \notin {"length", "content_filter"}
       /\ ProviderTells(ApiEvent("reason", 0, reason), <<>>)

ProviderStops ==
  /\ Goes("messages") /\ source.reason # "none"
  /\ ProviderTells(ApiEvent("stop", 0, <<>>), <<>>)

ProviderFails ==
  /\ wire \in {"chat", "messages", "responses"} /\ Goes(wire)
  /\ \/ ProviderTells(ApiEvent("error", 0, <<>>), <<>>)
     \/ LET t == Api!Breaks(source) IN Retold(t, Api!Told(t), "failed") /\ UNCHANGED said

\* The body ended, or [DONE] was said.
ProviderHangsUp ==
  /\ wire \in {"chat", "messages", "responses"} /\ Goes(wire)
  /\ LET t == Api!Ends(source) IN Retold(t, Api!Told(t), Ending(t))
  /\ UNCHANGED said

Next ==
  \/ Alives \/ Completed \/ Incomplete \/ Failed \/ Cut
  \/ \E i \in Items :
       \/ Added(i) \/ Text(i) \/ TextDone(i) \/ Thought(i)
       \/ Arguments(i) \/ ArgumentsDone(i) \/ Done(i)
  \/ AgySays \/ AgyEnds \/ AgyBreaks
  \/ ProviderBegins \/ ProviderSpeaks \/ ChatCalls \/ BlockOpens \/ BlockGrows \/ BlockShuts
  \/ CallTold \/ ProviderEnds \/ ProviderReason \/ ProviderStops \/ ProviderFails
  \/ ProviderHangsUp

Spec == Init /\ [][Next]_vars

-----------------------------------------------------------------------------
(* What a client was told, in the same words on every surface.             *)

Blocks == [k \in 1..Len(Messages!Frames(messages.out, "start")) |->
             Messages!Shown(messages.out, k - 1)]
BlocksOf(kind) == SelectSeq(Blocks, LAMBDA b : b.kind = kind)
CallsAs(calls) == [k \in 1..Len(calls) |-> [id |-> calls[k].id, data |-> calls[k].data]]
ChatCalled == [k \in 1..Len(chat.calls) |->
                 [id |-> chat.calls[k].id, data |-> chat.calls[k].arguments]]
ChatStreamed ==
  LET calls == Chat!Gathered(chat.out).calls
  IN [k \in 1..Len(calls) |-> [id |-> calls[k].id, data |-> calls[k].arguments]]
ItemsOf(kind) == SelectSeq(relay.output, LAMBDA e : e.kind = kind)

Succeeded == ended \in {"completed", "incomplete", "cut"}

-----------------------------------------------------------------------------
(* Properties.                                                             *)

\* A turn is over on every surface once it is over, and on none before.
TypeOK ==
  /\ wire \in Wires /\ ended \in Ends
  /\ item \in [Items -> Item] /\ spoken \in Seq(Items)
  /\ Len(said) <= IF wire = "gemini" THEN MaxParts ELSE MaxSaid
  /\ wire = "gemini" => Len(source.cache) <= Capacity
  /\ messages.finished <=> ended # "no"
  /\ chat.ended <=> ended # "no"
  /\ wire = "codex" => (agy.finished <=> ended # "no")
  /\ wire # "codex" => (relay.open <=> ended = "no")

\* Whatever the provider interleaves, repeats, leaves out or breaks off, each
\* surface's stream is its protocol's: blocks, calls and items are announced
\* once and in order before anything is added to them, what was opened is
\* closed, and there is one end with nothing after it (close_blocks, finish
\* and fail of messages.rs, push, close and fail of chat.rs, SequencedRelay).
WellFormed ==
  /\ Messages!WellFormedFrames(messages.out)
  /\ ended # "no" =>
       /\ Messages!EndedFrames(messages.out)
       /\ ended = "failed" <=> Last(messages.out).type = "error"
  /\ Chat!WellFormedChunks(chat.out)
  /\ ended # "no" => chat.out # <<>> /\ Last(chat.out).type = "done"
  /\ wire # "codex" =>
       /\ Relay!WellFormedRelay(relay.out)
       /\ ended = "failed" <=> \E k \in 1..Len(relay.out) : relay.out[k].event.type = "error"

\* chatgpt.com's items, which may be side by side: one block each, in the order
\* they began, with all the text that came as deltas ("losing the first
\* sentence is not recoverable", text_delta) and the arguments once and whole
\* ("without this the client ... calls the tool with nothing", item_done).
ItemsSeen ==
  LET calls == SelectSeq(spoken, LAMBDA i : item[i].kind = "function_call")
  IN /\ Len(Blocks) = Len(spoken)
     /\ \A k \in 1..Len(spoken) :
          LET it == item[spoken[k]]
          IN IF it.kind = "message"
               THEN /\ Blocks[k].kind = "text"
                    /\ Blocks[k].data = IF it.once THEN <<>> ELSE it.sent
               ELSE /\ Blocks[k].kind = "tool_use" /\ Blocks[k].id = spoken[k]
                    /\ it.phase = "done" => Blocks[k].data = it.arguments
     /\ [k \in 1..Len(calls) |-> chat.calls[k].id] = calls
     /\ \A k \in 1..Len(calls) : item[calls[k]].phase = "done" =>
          /\ chat.calls[k].arguments = item[calls[k]].arguments
          /\ ChatStreamed[k].data = item[calls[k]].arguments
          /\ item[calls[k]].repeated =>
               \E p \in 1..Len(agy.out) :
                 agy.out[p].part = Agy!Part("call", calls[k], Parsed(item[calls[k]].arguments))
     /\ Len(chat.text) = Len(FlattenSeq([k \in 1..Len(spoken) |->
          IF item[spoken[k]].kind = "message" THEN item[spoken[k]].sent ELSE <<>>]))

\* What another provider said: its calls in order with their arguments whole,
\* a blank string of them an empty object, and every word of its text.
SaidCall(id) ==
  LET arguments == ArgumentsOf(id)
  IN [id |-> id, data |-> IF arguments = <<>> THEN EmptyObject ELSE arguments]
AllSaidSeen ==
  LET text == DataOf(Of(said, "text"))
      ids == InOrder(SaidCalls)
      calls == [k \in 1..Len(ids) |-> SaidCall(ids[k])]
  IN /\ ended # "failed" =>
          /\ DataOf(BlocksOf("text")) = text /\ chat.text = text
          /\ wire = "gemini" => DataOf(BlocksOf("thinking")) = DataOf(Of(said, "thought"))
     /\ Succeeded =>
          /\ CallsAs(BlocksOf("tool_use")) = calls
          /\ ChatCalled = calls /\ ChatStreamed = calls
          /\ CallsAs(ItemsOf("function_call")) = calls
          /\ DataOf(ItemsOf("message")) = text
          /\ DataOf(ItemsOf("reasoning")) = DataOf(Of(said, "thought"))

\* A client sees all the provider said, on whichever surface it reads it.
ClientsSeeAll == IF wire = "codex" THEN ItemsSeen ELSE AllSaidSeen

\* "Whatever a streaming client sees block-by-block is exactly what a
\* non-streaming one gets in one piece" (collect), and the same of the other
\* surfaces' two forms: a chat stream ends well exactly when the completion is
\* answered (aggregate), the relayed items are the folded ones.
GatheredAgrees ==
  /\ Succeeded => Messages!SameAsFrames(messages)
  /\ ended # "no" =>
       /\ Chat!Answered(chat) <=> Chat!Chunks(chat.out, "finish") # <<>>
       /\ Chat!Answered(chat) =>
            /\ Chat!Gathered(chat.out) = [text |-> Chat!Completion(chat).text,
                                          calls |-> Chat!Completion(chat).calls]
            /\ Chat!Chunks(chat.out, "finish")[1].data = Chat!FinishReason(chat)
  /\ wire # "codex" =>
       [k \in 1..Len(Relay!Said(relay.out, "item_done")) |->
          Relay!Said(relay.out, "item_done")[k].event] = relay.output
  /\ \A kind \in {"text", "thought"} :
       Agy!Text(Agy!Aggregate(agy), kind) = Agy!Text(Agy!Parts(agy), kind)
  /\ Agy!Of(Agy!Aggregate(agy), "call") = Agy!Of(Agy!Parts(agy), "call")

-----------------------------------------------------------------------------
(* Signatures: what Antigravity signed must come back as it was signed.    *)

\* A signature with nothing of its own to sign: on an empty text, or on an
\* empty thought that does not end one with text.
EndsThought(j) ==
  /\ j > 1 /\ said[j].kind = "thought" /\ said[j - 1].kind = "thought"
  /\ said[j - 1].data # <<>> /\ said[j - 1].signature = 0
Loose(j) ==
  /\ said[j].kind # "call" /\ said[j].data = <<>> /\ said[j].signature # 0 /\ ~EndsThought(j)
SignedThought(j) ==
  said[j].kind = "thought" /\ said[j].signature # 0 /\ (said[j].data # <<>> \/ EndsThought(j))

\* The loose signatures a call may take: those since the last text or call.
Waiting(k) ==
  {j \in 1..(k - 1) :
     /\ Loose(j)
     /\ \A m \in (j + 1)..(k - 1) : said[m].kind # "call" /\ (said[m].kind = "text" => Loose(m))}
Owed(k) ==
  IF said[k].signature # 0 THEN said[k].signature
    ELSE IF Waiting(k) # {} THEN said[Max(Waiting(k))].signature ELSE 0
\* A signed thought between a loose signature and a call leaves open which of
\* the two is the call's.
Plain(k) ==
  said[k].signature # 0 \/ \A j \in Waiting(k) : \A m \in (j + 1)..(k - 1) : ~SignedThought(m)

CallsAt == {k \in 1..Len(said) : said[k].kind = "call"}
Kept(k) ==
  Cardinality({m \in CallsAt : m > k /\ Owed(m) # 0}) < Capacity

\* The parts of the next request, by the call they are.
Returned(parts, k) ==
  LET own == SelectSeq(parts, LAMBDA p : p.kind = "call" /\ p.id = said[k].id) IN own[1]
Unsigned(parts) == \A n \in 1..Len(parts) : parts[n].signature = 0
Answers(family, parts, k, signature) ==
  /\ Returned(parts, k).signature = signature
  /\ Returned(parts, k).placeholder <=>
       family = "gemini" /\ Unsigned(parts) /\ k = Min(CallsAt)

\* A client sends a finished turn back on the surface it read it on.  Each call
\* returns to Antigravity with the signature it was sent with - its own, or
\* the one that came just before it - and never with another's: over Messages
\* and Chat for as many calls as are remembered, over Responses for all of them
\* and after a restart too, when nothing is; a turn without any signature has
\* the placeholder on its first call instead, if it goes to a model that is only
\* served signed (SignatureCache, signature_item, close_reasoning and
\* function_call; reasoning, call and finish of Contents).
SignaturesReturn ==
  (wire = "gemini" /\ ended \in {"completed", "incomplete"}) => \A family \in {"gemini", "claude"} :
    LET Sent(items, cache) == Gemini!Contents(family, items, cache)
        byMessages == Sent(Messages!Replayed(Messages!Collected(messages).content), source.cache)
        byChat == Sent(Chat!Replayed(Chat!Completion(chat)), source.cache)
        byResponses == Sent(Relay!Replayed(relay.output), source.cache)
        afterRestart == Sent(Relay!Replayed(relay.output), <<>>)
    IN \A k \in CallsAt :
         LET remembered == IF Kept(k) THEN Owed(k) ELSE 0
         IN Plain(k) =>
              /\ Answers(family, byMessages, k, remembered) /\ Answers(family, byChat, k, remembered)
              /\ Answers(family, byResponses, k, Owed(k)) /\ Answers(family, afterRestart, k, Owed(k))
=============================================================================
